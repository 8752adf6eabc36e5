--------------------------- MODULE DashboardProofs ---------------------------
(***************************************************************************)
(* Proofs about the dashboard: that the table of alerts holds its rows, is *)
(* on the page it says and has the statuses of the server (AlertTable), and*)
(* that the panels show the thresholds, rules and suppressions the server  *)
(* has (RulePanels).                                                       *)
(***************************************************************************)
EXTENDS AlertTable, RulePanels, FiniteSetTheorems, TLAPS

(***************************************************************************)
(* The pause.  The table's record of the last pause is the pause, and the  *)
(* timer of a leave does not run while the mouse is in.                    *)
(***************************************************************************)
PauseInv ==
    /\ wasPaused = Paused
    /\ mouse = "in" => hovering /\ ~timer

LEMMA InitHolds == Init => PauseInv
BY DEF Init, PauseInv, Paused

\* What holds the rows is the same as before when none of its parts changes.
LEMMA SamePause ==
    ASSUME UNCHANGED <<mode, hovering, rowFocused, dropdown, selected>>
    PROVE  Paused' = Paused
BY DEF Paused

LEMMA StepHolds ==
    ASSUME PauseInv, [Next]_vars
    PROVE  PauseInv' /\ (Paused /\ Paused' /\ vars' # vars => snapshot' = snapshot \/ Resume)
<1> USE DEF PauseInv
<1>1. Hold => wasPaused' = Paused' /\ (Paused /\ Paused' => snapshot' = snapshot)
  BY DEF Hold, Paused
<1>2. UNCHANGED <<held, mode, hovering, rowFocused, dropdown, selected>>
        => wasPaused' = Paused' /\ snapshot' = snapshot
  BY SamePause DEF held
<1>3. Arrive => PauseInv' /\ Hold
  BY <1>1 DEF Arrive, hover
<1>4. MouseEnter => PauseInv' /\ Hold
  BY <1>1 DEF MouseEnter
<1>5. MouseLeave => PauseInv' /\ snapshot' = snapshot
  BY <1>2 DEF MouseLeave, held, pages, focused
<1>6. Unpause => PauseInv' /\ Hold
  BY <1>1 DEF Unpause
<1>7. Resume => PauseInv'
  BY DEF Resume
<1>8. ASSUME NEW id, NEW on, Focus(id, on)
      PROVE  PauseInv' /\ Hold
  BY <1>1, <1>8 DEF Focus, hover
<1>9. Blur \/ Select \/ OpenDominantVector \/ CloseDrawer => PauseInv' /\ Hold
  BY <1>1 DEF Blur, Select, OpenDominantVector, CloseDrawer, hover
<1>10. ASSUME NEW s, ToggleSeverity(s)
       PROVE  PauseInv' /\ snapshot' = snapshot
  BY <1>2, <1>10 DEF ToggleSeverity, held, pages, focused, hover
<1>11. ToggleWindow \/ Clear \/ ClearEmpty => PauseInv' /\ snapshot' = snapshot
  BY <1>2 DEF ToggleWindow, Clear, ClearEmpty, held, pages, focused, hover
<1>12. ASSUME NEW m, SetMode(m)
       PROVE  PauseInv' /\ Hold
  BY <1>1, <1>12 DEF SetMode, hover
<1>13. ASSUME NEW p, Turn(p)
       PROVE  PauseInv' /\ snapshot' = snapshot
  BY <1>2, <1>13 DEF Turn, held, focused, hover
<1>14. ASSUME NEW f, ServePage(f)
       PROVE  PauseInv' /\ snapshot' = snapshot
  BY <1>2, <1>14 DEF ServePage, held, focused, hover
<1>15. ASSUME NEW f, Turned(f)
       PROVE  PauseInv' /\ Hold
  BY <1>1, <1>15 DEF Turned, hover
<1>16. ASSUME NEW s, ChangeStatus(s)
       PROVE  PauseInv' /\ Hold
  BY <1>1, <1>16 DEF ChangeStatus, hover
<1>17. ASSUME NEW p, ServePatch(p)
       PROVE  PauseInv' /\ snapshot' = snapshot
  BY <1>2, <1>17 DEF ServePatch, held, pages, focused, hover
<1>18. ASSUME NEW p, Patched(p)
       PROVE  PauseInv' /\ Hold
  BY <1>1, <1>18 DEF Patched, hover
<1>19. UNCHANGED vars => PauseInv'
  BY <1>2 DEF vars, held, pages, focused, hover
<1>. HIDE DEF PauseInv
<1>. QED
  BY <1>1, <1>3, <1>4, <1>5, <1>6, <1>7, <1>8, <1>9, <1>10, <1>11, <1>12, <1>13, <1>14, <1>15,
     <1>16, <1>17, <1>18, <1>19 DEF Next

\* The rows under the mouse are held, whichever timers earlier visits have left
\* and whatever the answers of the server change (handleTableMouseEnter, -Leave
\* and -Resume of ThreatTable).
THEOREM RowsUnderMouse == Spec => []HeldUnderMouse
<1>1. PauseInv => HeldUnderMouse
  BY DEF PauseInv, HeldUnderMouse
<1>2. PauseInv /\ [Next]_vars => PauseInv'
  BY StepHolds
<1>. QED
  BY InitHolds, <1>1, <1>2, PTL DEF Spec

\* No step but Resume moves rows that are held before and after it, whatever
\* the reasons of the pause are (the effect of ThreatTable on isPaused).
THEOREM RowsStay == Spec => StreamHolds
<1>1. PauseInv /\ [Next]_vars => PauseInv'
  BY StepHolds
<1>2. PauseInv /\ [Next]_vars => [Paused /\ Paused' => snapshot' = snapshot \/ Resume]_vars
  BY StepHolds
<1>. QED
  BY InitHolds, <1>1, <1>2, PTL DEF Spec, StreamHolds
----------------------------------------------------------------------------
(***************************************************************************)
(* The archive.  Only the request for the page that is shown is alive, and *)
(* an answer is that of the page it was asked for, or none.                *)
(***************************************************************************)
Fetching(f) == f = [page |-> f.page, alive |-> f.alive, got |-> f.got]

PageInv ==
    /\ mode \in {"live", "archive"}
    /\ \A f \in fetches : /\ Fetching(f) /\ f.alive \in BOOLEAN
                          /\ f.got = None \/ f.got.page \in {f.page, None}
                          /\ f.alive => mode = "archive" /\ f.page = page
    /\ ArchiveIsPage

LEMMA InitOnPage == Init => PageInv
BY DEF Init, PageInv, ArchiveIsPage

LEMMA FetchOnPage ==
    ASSUME PageInv, NEW m \in {"live", "archive"}, NEW p,
           mode' = m, page' = p, archive' = archive, Fetch(m, p)
    PROVE  PageInv'
<1> USE DEF PageInv
<1>1. CASE m = mode /\ p = page
  BY <1>1 DEF Fetch, ArchiveIsPage, Fetching
<1>2. CASE ~(m = mode /\ p = page)
  <2> DEFINE request == IF m = "archive" THEN {[page |-> p, alive |-> TRUE, got |-> None]} ELSE {}
  <2>1. fetches' = {[f EXCEPT !.alive = FALSE] : f \in fetches} \cup request
    BY <1>2 DEF Fetch
  <2>2. ASSUME NEW g \in {[f EXCEPT !.alive = FALSE] : f \in fetches}
        PROVE  Fetching(g) /\ g.alive = FALSE /\ (g.got = None \/ g.got.page \in {g.page, None})
    <3>1. PICK f \in fetches : g = [f EXCEPT !.alive = FALSE]
      BY <2>2
    <3>2. g = [page |-> f.page, alive |-> FALSE, got |-> f.got]
      BY <3>1 DEF Fetching
    <3>. QED
      BY <3>2 DEF Fetching
  <2>3. ASSUME NEW g \in request
        PROVE  Fetching(g) /\ g.alive = TRUE /\ g.got = None /\ m = "archive" /\ g.page = p
    BY <2>3 DEF Fetching
  <2>4. m = "archive" => \E g \in fetches' : g.alive
    <3>. SUFFICES ASSUME m = "archive"
                  PROVE  \E g \in fetches' : g.alive
      OBVIOUS
    <3>1. [page |-> p, alive |-> TRUE, got |-> None] \in fetches'
      BY <2>1
    <3>. QED
      BY <3>1
  <2>5. ArchiveIsPage'
    BY <2>4 DEF ArchiveIsPage
  <2>6. (\A f \in fetches : /\ Fetching(f) /\ f.alive \in BOOLEAN
                            /\ f.got = None \/ f.got.page \in {f.page, None}
                            /\ f.alive => mode = "archive" /\ f.page = page)'
    <3>. SUFFICES ASSUME NEW g \in fetches'
                  PROVE  /\ Fetching(g) /\ g.alive \in BOOLEAN
                         /\ g.got = None \/ g.got.page \in {g.page, None}
                         /\ g.alive => mode' = "archive" /\ g.page = page'
      BY DEF Fetching
    <3>1. CASE g \in request
      BY <3>1, <2>3
    <3>2. CASE g \in {[f EXCEPT !.alive = FALSE] : f \in fetches}
      BY <3>2, <2>2
    <3>. HIDE DEF request
    <3>. QED
      BY <2>1, <3>1, <3>2
  <2>. QED
    BY <2>5, <2>6
<1>. QED
  BY <1>1, <1>2

LEMMA StepOnPage ==
    ASSUME PageInv, [Next]_vars
    PROVE  PageInv'
<1>1. ASSUME UNCHANGED pages
      PROVE  PageInv'
  BY <1>1 DEF PageInv, ArchiveIsPage, Fetching, pages
<1>2. ASSUME NEW m \in {"live", "archive"}, SetMode(m)
      PROVE  PageInv'
  <2>1. PICK p : p = IF m = "archive" THEN 0 ELSE page
    OBVIOUS
  <2>. QED
    BY <1>2, <2>1, FetchOnPage DEF SetMode
<1>3. ASSUME NEW p, Turn(p)
      PROVE  PageInv'
  BY <1>3, FetchOnPage DEF Turn
<1>4. ASSUME NEW f \in fetches, ServePage(f)
      PROVE  PageInv'
  <2>1. PICK a : /\ a.page \in {f.page, None}
                 /\ fetches' = (fetches \ {f}) \cup {[f EXCEPT !.got = a]}
    BY <1>4 DEF ServePage, NoPage
  <2>2. [f EXCEPT !.got = a] = [page |-> f.page, alive |-> f.alive, got |-> a]
    BY DEF PageInv, Fetching
  <2>3. UNCHANGED <<mode, page, archive>>
    BY <1>4 DEF ServePage
  <2>. QED
    BY <2>1, <2>2, <2>3 DEF PageInv, ArchiveIsPage, Fetching
<1>5. ASSUME NEW f \in fetches, Turned(f)
      PROVE  PageInv'
  BY <1>5 DEF Turned, PageInv, ArchiveIsPage, Fetching
<1>6. CASE \/ \E m \in {"live", "archive"} : SetMode(m)
           \/ \E p \in 0..MaxAlerts : Turn(p)
           \/ \E f \in fetches : ServePage(f) \/ Turned(f)
  BY <1>2, <1>3, <1>4, <1>5, <1>6
<1>7. CASE ~ \/ \E m \in {"live", "archive"} : SetMode(m)
             \/ \E p \in 0..MaxAlerts : Turn(p)
             \/ \E f \in fetches : ServePage(f) \/ Turned(f)
  <2>1. UNCHANGED pages
    BY <1>7 DEF Next, vars, Arrive, MouseEnter, MouseLeave, Unpause, Resume, Blur, Select,
       OpenDominantVector, CloseDrawer, Focus, ToggleSeverity, ToggleWindow, Clear, ClearEmpty,
       ChangeStatus, ServePatch, Patched
  <2>. QED
    BY <1>1, <2>1
<1>. QED
  BY <1>6, <1>7

\* The rows of the archive belong to the page whose number is shown, however
\* fast pages are turned and however late they come (the effect of App on
\* [alertViewMode, archivePage] and its cleanup).
THEOREM RowsOfPage == Spec => []ArchiveIsPage
<1>1. PageInv => ArchiveIsPage
  BY DEF PageInv
<1>. QED
  BY InitOnPage, StepOnPage, <1>1, PTL DEF Spec
----------------------------------------------------------------------------
(***************************************************************************)
(* The statuses.  For a flow whose changes neither overlapped nor failed   *)
(* there is one change in flight at most; while there is one, no alert has *)
(* been told of it; and when it was answered, its status is the server's.  *)
(***************************************************************************)
Change(p) ==
    /\ p = [n |-> p.n, flow |-> p.flow, status |-> p.status, got |-> p.got]
    /\ p.flow \in Flows /\ p.status \in Statuses

Listable == [id : 1..arrived, status : Statuses \cup {New}]

\* What is known of a change of a flow that is not in crossed.
Tracked(p) ==
    /\ told[p.flow] = {}
    /\ \A q \in patches : q.flow = p.flow => q = p
    /\ p.got = "ok" => marks[p.flow] = p.status

StatusInv ==
    /\ arrived \in 0..MaxAlerts
    /\ buffer \in Seq(Listable)
    /\ marks \in [Flows -> Statuses \cup {New}]
    /\ focus.on = "select" => focus.id \in Ids
    /\ told \in [Flows -> SUBSET (1..arrived)]
    /\ \A p \in patches : Change(p) /\ (p.flow \in crossed \/ Tracked(p))
    /\ StatusAgrees

LEMMA InitAgrees == Init => StatusInv
<1>. SUFFICES ASSUME Init PROVE StatusInv
  OBVIOUS
<1>. USE TableAssumption DEF Init
<1>1. buffer \in Seq(Listable)
  BY DEF Listable
<1>2. StatusAgrees
  BY DEF StatusAgrees
<1>3. told \in [Flows -> SUBSET (1..arrived)] /\ marks \in [Flows -> Statuses \cup {New}]
  OBVIOUS
<1>. QED
  BY <1>1, <1>2, <1>3 DEF StatusInv, Nobody

LEMMA FlowOfListable ==
    ASSUME StatusInv, NEW i \in DOMAIN buffer
    PROVE  /\ buffer[i] \in Listable /\ buffer[i].id \in 1..arrived
           /\ FlowOf[buffer[i].id] \in Flows
<1>1. buffer[i] \in Listable
  BY DEF StatusInv
<1>. QED
  BY <1>1, TableAssumption DEF StatusInv, Listable

\* The hook puts the new alert in front and may drop the last one.
LEMMA ArriveAgrees ==
    ASSUME StatusInv, Arrive
    PROVE  StatusInv'
<1> DEFINE new == [id |-> arrived', status |-> New]
           all == <<new>> \o buffer
<1>1. arrived' = arrived + 1 /\ arrived' \in 1..MaxAlerts /\ arrived \in Nat
  BY TableAssumption DEF StatusInv, Arrive
<1>2. Listable \subseteq Listable'
  BY <1>1 DEF Listable
<1>3. new \in Listable'
  BY <1>1 DEF Listable
<1>4. all \in Seq(Listable') /\ Len(all) = Len(buffer) + 1
      /\ \A i \in 1..Len(all) : all[i] = IF i = 1 THEN new ELSE buffer[i-1]
  <2>1. buffer \in Seq(Listable')
    BY <1>2 DEF StatusInv
  <2>2. <<new>> \in Seq(Listable')
    BY <1>3
  <2>. HIDE DEF new
  <2>. QED
    BY <2>1, <2>2
<1>5. buffer' = SubSeq(all, 1, IF BufferSize < Len(all) THEN BufferSize ELSE Len(all))
  BY DEF Arrive, Take
<1>. HIDE DEF all, new
<1>6. PICK k \in Nat : buffer' = SubSeq(all, 1, k) /\ k <= Len(all)
  <2>1. Len(all) \in Nat
    BY <1>4
  <2>. QED
    BY <1>5, <2>1, TableAssumption
<1>7. buffer' \in Seq(Listable') /\ Len(buffer') = k /\ \A i \in 1..k : buffer'[i] = all[i]
  <2>1. \A i \in 1..k : all[i] \in Listable'
    BY <1>4, <1>6
  <2>2. Len(all) \in Nat
    BY <1>4
  <2>. QED
    BY <1>4, <1>6, <2>1, <2>2
<1>8. UNCHANGED <<marks, focus, told, patches, crossed>>
  BY DEF Arrive, status, focused
<1>9. StatusAgrees'
  <2>. SUFFICES ASSUME NEW i \in DOMAIN buffer',
                       FlowOf[buffer'[i].id] \notin crossed,
                       buffer'[i].id \in told[FlowOf[buffer'[i].id]]
                PROVE  buffer'[i].status = marks[FlowOf[buffer'[i].id]]
    BY <1>8 DEF StatusAgrees
  <2>1. i \in 1..k
    BY <1>7
  <2>2. CASE i = 1
    <3>1. buffer'[i].id = arrived + 1
      BY <1>1, <1>4, <1>6, <1>7, <2>1, <2>2 DEF new
    <3>2. FlowOf[arrived + 1] \in Flows
      BY <1>1, TableAssumption
    <3>3. told[FlowOf[arrived + 1]] \subseteq 1..arrived
      BY <3>2 DEF StatusInv
    <3>. QED
      BY <1>1, <3>1, <3>3
  <2>3. CASE i # 1
    <3>1. i - 1 \in DOMAIN buffer /\ buffer'[i] = buffer[i-1]
      BY <1>4, <1>6, <1>7, <2>1, <2>3 DEF StatusInv
    <3>. QED
      BY <3>1 DEF StatusInv, StatusAgrees
  <2>. QED
    BY <2>2, <2>3
<1>10. told' \in [Flows -> SUBSET (1..arrived')]
  <2>1. 1..arrived \subseteq 1..arrived'
    BY <1>1
  <2>. QED
    BY <1>8, <2>1 DEF StatusInv
<1>. QED
  BY <1>1, <1>7, <1>8, <1>9, <1>10, TableAssumption DEF StatusInv, Change, Tracked

LEMMA FocusAgrees ==
    ASSUME StatusInv, UNCHANGED <<arrived, buffer, marks, told, patches, crossed>>,
           focus'.on = "select" => focus'.id \in Ids
    PROVE  StatusInv'
BY DEF StatusInv, StatusAgrees, Change, Tracked, Listable

\* No change of the flow is in flight or overlapped by this one, unless the
\* flow is crossed from here on.
LEMMA ChangeAgrees ==
    ASSUME StatusInv, NEW s \in Statuses, ChangeStatus(s)
    PROVE  StatusInv'
<1>1. PICK f : f = FlowOf[focus.id]
  OBVIOUS
<1>2. PICK p : p = [n |-> Unused, flow |-> f, status |-> s, got |-> "asked"]
  OBVIOUS
<1>3. f \in Flows
  BY <1>1, TableAssumption DEF StatusInv, ChangeStatus, Ids
<1>4. /\ patches' = patches \cup {p}
      /\ crossed' = IF {q \in patches : q.flow = f} = {} THEN crossed \ {f} ELSE crossed \cup {f}
      /\ told' = [told EXCEPT ![f] = {}]
      /\ UNCHANGED <<arrived, buffer, marks>>
      /\ focus' = Nobody
  BY <1>1, <1>2 DEF ChangeStatus, stream
<1>5. /\ told' \in [Flows -> SUBSET (1..arrived)] /\ told'[f] = {}
      /\ \A g \in Flows : told'[g] = told[g] \/ told'[g] = {}
  BY <1>3, <1>4 DEF StatusInv
<1>6. StatusAgrees'
  <2>. SUFFICES ASSUME NEW i \in DOMAIN buffer,
                       FlowOf[buffer[i].id] \notin crossed',
                       buffer[i].id \in told'[FlowOf[buffer[i].id]]
                PROVE  buffer[i].status = marks[FlowOf[buffer[i].id]]
    BY <1>4 DEF StatusAgrees
  <2>1. FlowOf[buffer[i].id] \in Flows /\ FlowOf[buffer[i].id] # f
    BY <1>5, FlowOfListable
  <2>2. FlowOf[buffer[i].id] \notin crossed /\ buffer[i].id \in told[FlowOf[buffer[i].id]]
    BY <1>4, <1>5, <2>1
  <2>. QED
    BY <2>2 DEF StatusInv, StatusAgrees
<1>7. ASSUME NEW q \in patches'
      PROVE  (Change(q) /\ (q.flow \in crossed \/ Tracked(q)))'
  <2>1. CASE q = p
    <3>1. Change(q)'
      BY <1>2, <1>3, <2>1 DEF Change
    <3>2. CASE {r \in patches : r.flow = f} = {}
      <4>1. Tracked(q)'
        BY <1>2, <1>4, <1>5, <2>1, <3>2 DEF Tracked
      <4>. QED
        BY <3>1, <4>1
    <3>3. CASE {r \in patches : r.flow = f} # {}
      BY <1>2, <1>4, <2>1, <3>1, <3>3
    <3>. QED
      BY <3>2, <3>3
  <2>2. CASE q # p
    <3>1. q \in patches /\ Change(q) /\ Change(q)'
      BY <1>4, <2>2 DEF StatusInv, Change
    <3>2. CASE q.flow = f
      <4>1. q \in {r \in patches : r.flow = f}
        BY <3>1, <3>2
      <4>2. q.flow \in crossed'
        BY <1>4, <3>2, <4>1
      <4>. QED
        BY <3>1, <4>2
    <3>3. CASE q.flow # f
      <4>1. q.flow \in crossed => q.flow \in crossed'
        BY <1>4, <3>3
      <4>2. Tracked(q) => Tracked(q)'
        BY <1>2, <1>4, <3>1, <3>3 DEF Tracked, StatusInv, Change
      <4>. QED
        BY <3>1, <4>1, <4>2 DEF StatusInv
    <3>. QED
      BY <3>2, <3>3
  <2>. QED
    BY <2>1, <2>2
<1>8. Listable' = Listable
  BY <1>4 DEF Listable
<1>. QED
  BY <1>4, <1>5, <1>6, <1>7, <1>8 DEF StatusInv, Nobody

LEMMA ServeAgrees ==
    ASSUME StatusInv, NEW p \in patches, ServePatch(p)
    PROVE  StatusInv'
<1>1. PICK got : patches' = (patches \ {p}) \cup {[p EXCEPT !.got = got]}
                 /\ (got = "ok" => marks' = [marks EXCEPT ![p.flow] = p.status])
  BY DEF ServePatch
<1>2. PICK r : r = [p EXCEPT !.got = got]
  OBVIOUS
<1>3. Change(p)
  BY DEF StatusInv
<1>4. /\ r = [n |-> p.n, flow |-> p.flow, status |-> p.status, got |-> got]
      /\ Change(r)
  BY <1>2, <1>3 DEF Change
<1>5. /\ patches' = (patches \ {p}) \cup {r}
      /\ UNCHANGED <<arrived, buffer, focus, crossed, told>>
  BY <1>1, <1>2 DEF ServePatch, stream, focused
<1>6. /\ marks' \in [Flows -> Statuses \cup {New}]
      /\ \A g \in Flows : g # p.flow => marks'[g] = marks[g]
      /\ got = "ok" => marks'[p.flow] = p.status
  <2>1. p.flow \in Flows /\ p.status \in Statuses
    BY <1>3 DEF Change
  <2>2. marks' = [marks EXCEPT ![p.flow] = p.status] \/ marks' = marks
    BY DEF ServePatch
  <2>. QED
    BY <1>1, <2>1, <2>2 DEF StatusInv
<1>7. p.flow \in crossed \/ Tracked(p)
  BY DEF StatusInv
<1>8. StatusAgrees'
  <2>. SUFFICES ASSUME NEW i \in DOMAIN buffer,
                       FlowOf[buffer[i].id] \notin crossed,
                       buffer[i].id \in told[FlowOf[buffer[i].id]]
                PROVE  buffer[i].status = marks'[FlowOf[buffer[i].id]]
    BY <1>5 DEF StatusAgrees
  <2>1. FlowOf[buffer[i].id] \in Flows /\ FlowOf[buffer[i].id] # p.flow
    BY <1>7, FlowOfListable DEF Tracked
  <2>. QED
    BY <1>6, <2>1 DEF StatusInv, StatusAgrees
<1>9. ASSUME NEW q \in patches'
      PROVE  (Change(q) /\ (q.flow \in crossed \/ Tracked(q)))'
  <2>1. CASE q = r
    <3>1. Tracked(p) => Tracked(q)'
      BY <1>4, <1>5, <1>6, <2>1 DEF Tracked
    <3>. QED
      BY <1>4, <1>5, <1>7, <2>1, <3>1 DEF Change
  <2>2. CASE q # r
    <3>1. q \in patches /\ Change(q) /\ q # p
      BY <1>5, <2>2 DEF StatusInv
    <3>2. CASE q.flow = p.flow
      BY <1>5, <1>7, <3>1, <3>2 DEF Tracked, Change
    <3>3. CASE q.flow # p.flow
      <4>1. Tracked(q) => Tracked(q)'
        BY <1>4, <1>5, <1>6, <3>1, <3>3 DEF Tracked, Change
      <4>. QED
        BY <1>5, <3>1, <4>1 DEF StatusInv, Change
    <3>. QED
      BY <3>2, <3>3
  <2>. QED
    BY <2>1, <2>2
<1>10. Listable' = Listable
  BY <1>5 DEF Listable
<1>. QED
  BY <1>5, <1>6, <1>8, <1>9, <1>10 DEF StatusInv

LEMMA PatchedAgrees ==
    ASSUME StatusInv, NEW p \in patches, Patched(p)
    PROVE  StatusInv'
<1>1. Change(p) /\ (p.flow \in crossed \/ Tracked(p))
  BY DEF StatusInv
<1>2. UNCHANGED <<arrived, focus, marks>> /\ patches' = patches \ {p}
  BY DEF Patched, focused
<1>3. Listable' = Listable
  BY <1>2 DEF Listable
<1>4. CASE p.got = "failed" /\ crossed' = crossed \cup {p.flow} /\ UNCHANGED <<buffer, told>>
  <2>1. StatusAgrees'
    BY <1>2, <1>4 DEF StatusInv, StatusAgrees
  <2>2. \A q \in patches' : (Change(q) /\ (q.flow \in crossed \/ Tracked(q)))'
    BY <1>2, <1>4 DEF StatusInv, Change, Tracked
  <2>. QED
    BY <1>2, <1>3, <1>4, <2>1, <2>2 DEF StatusInv
<1>5. CASE /\ p.got = "ok"
           /\ buffer' = [i \in DOMAIN buffer |-> IF FlowOf[buffer[i].id] = p.flow
                                                 THEN [buffer[i] EXCEPT !.status = p.status]
                                                 ELSE buffer[i]]
           /\ told' = [told EXCEPT ![p.flow] = {i \in IdsOf(buffer) : FlowOf[i] = p.flow}]
           /\ UNCHANGED crossed
  <2>1. p.flow \in Flows /\ p.status \in Statuses
    BY <1>1 DEF Change
  <2>2. ASSUME NEW i \in DOMAIN buffer
        PROVE  /\ buffer'[i] \in Listable /\ buffer'[i].id = buffer[i].id
               /\ FlowOf[buffer[i].id] = p.flow => buffer'[i].status = p.status
               /\ FlowOf[buffer[i].id] # p.flow => buffer'[i] = buffer[i]
    <3>1. buffer[i] \in Listable
      BY FlowOfListable
    <3>. QED
      BY <1>5, <2>1, <3>1 DEF Listable
  <2>3. DOMAIN buffer' = DOMAIN buffer
    BY <1>5
  <2>4. buffer' \in Seq(Listable)
    <3>1. DOMAIN buffer = 1..Len(buffer) /\ Len(buffer) \in Nat
      BY DEF StatusInv
    <3>2. buffer' \in [1..Len(buffer) -> Listable]
      BY <1>5, <2>2, <2>3, <3>1
    <3>. QED
      BY <3>1, <3>2
  <2>5. IdsOf(buffer) \subseteq 1..arrived
    BY FlowOfListable DEF IdsOf, ToSet
  <2>6. /\ told' \in [Flows -> SUBSET (1..arrived)]
        /\ \A g \in Flows : g # p.flow => told'[g] = told[g]
    BY <1>5, <2>1, <2>5 DEF StatusInv
  <2>7. StatusAgrees'
    <3>. SUFFICES ASSUME NEW i \in DOMAIN buffer',
                         FlowOf[buffer'[i].id] \notin crossed',
                         buffer'[i].id \in told'[FlowOf[buffer'[i].id]]
                  PROVE  buffer'[i].status = marks'[FlowOf[buffer'[i].id]]
      BY DEF StatusAgrees
    <3>0. i \in DOMAIN buffer /\ buffer'[i].id = buffer[i].id
      BY <2>2, <2>3
    <3>1. CASE FlowOf[buffer[i].id] = p.flow
      <4>1. p.flow \notin crossed
        BY <1>5, <3>0, <3>1
      <4>2. marks[p.flow] = p.status
        BY <1>1, <1>5, <4>1 DEF Tracked
      <4>. QED
        BY <1>2, <2>2, <3>0, <3>1, <4>2
    <3>2. CASE FlowOf[buffer[i].id] # p.flow
      BY <1>2, <1>5, <2>2, <2>6, <3>0, <3>2, FlowOfListable DEF StatusInv, StatusAgrees
    <3>. QED
      BY <3>1, <3>2
  <2>8. ASSUME NEW q \in patches'
        PROVE  (Change(q) /\ (q.flow \in crossed \/ Tracked(q)))'
    <3>1. q \in patches /\ Change(q) /\ q # p
      BY <1>2 DEF StatusInv
    <3>2. CASE q.flow = p.flow
      BY <1>1, <1>5, <3>1, <3>2 DEF Tracked, Change
    <3>3. CASE q.flow # p.flow
      <4>1. Tracked(q) => Tracked(q)'
        BY <1>2, <2>6, <3>1, <3>3 DEF Tracked, Change
      <4>. QED
        BY <1>5, <3>1, <4>1 DEF StatusInv, Change
    <3>. QED
      BY <3>2, <3>3
  <2>. QED
    BY <1>2, <1>3, <2>4, <2>6, <2>7, <2>8 DEF StatusInv
<1>. QED
  BY <1>4, <1>5 DEF Patched

LEMMA StepAgrees ==
    ASSUME StatusInv, [Next]_vars
    PROVE  StatusInv'
<1>1. ASSUME NEW id \in Ids, NEW on, Focus(id, on)
      PROVE  StatusInv'
  BY <1>1, FocusAgrees DEF Focus, stream, status
<1>2. ASSUME NEW f, Turned(f)
      PROVE  StatusInv'
  <2>1. focus' = focus \/ focus' = Nobody
    BY <1>2 DEF Turned, KeepFocus
  <2>2. focus'.on = "select" => focus'.id \in Ids
    BY <2>1 DEF StatusInv, Nobody
  <2>. QED
    BY <1>2, <2>2, FocusAgrees DEF Turned, stream, status
<1>3. Blur => StatusInv'
  BY FocusAgrees DEF Blur, stream, status, Nobody
<1>4. UNCHANGED <<stream, focus, status>> => StatusInv'
  BY FocusAgrees DEF stream, status, StatusInv
<1>5. CASE \/ Arrive \/ Blur \/ \E id \in Ids : Focus(id, "row") \/ Focus(id, "select")
           \/ \E f \in fetches : Turned(f)
           \/ \E s \in Statuses : ChangeStatus(s)
           \/ \E p \in patches : ServePatch(p) \/ Patched(p)
  BY <1>1, <1>2, <1>3, <1>5, ArriveAgrees, ChangeAgrees, ServeAgrees, PatchedAgrees
<1>6. CASE ~ \/ Arrive \/ Blur \/ \E id \in Ids : Focus(id, "row") \/ Focus(id, "select")
             \/ \E f \in fetches : Turned(f)
             \/ \E s \in Statuses : ChangeStatus(s)
             \/ \E p \in patches : ServePatch(p) \/ Patched(p)
  <2>1. UNCHANGED <<stream, focus, status>>
    BY <1>6 DEF Next, vars, focused, MouseEnter, MouseLeave, Unpause, Resume, Select,
       OpenDominantVector, CloseDrawer, ToggleSeverity, ToggleWindow, Clear, ClearEmpty,
       SetMode, Turn, ServePage
  <2>. QED
    BY <1>4, <2>1
<1>. QED
  BY <1>5, <1>6

\* Alerts that were told of a change have the status the server has, for any
\* flows, alerts and changes in flight that did not overlap or fail
\* (updateAlertStatus of the hook, handleStatusChange of ThreatTable).
THEOREM StatusesAgree == Spec => []StatusAgrees
<1>1. StatusInv => StatusAgrees
  BY DEF StatusInv
<1>. QED
  BY InitAgrees, StepAgrees, <1>1, PTL DEF Spec
----------------------------------------------------------------------------
(***************************************************************************)
(* The panels.  A row that is being saved has one request in flight, with  *)
(* the value asked for, which the server has when it has answered.  A tab  *)
(* that is not unsure has one request in flight at most; without one it    *)
(* shows what the server has, and the answer it waits for does.            *)
(***************************************************************************)
Shaped(r) == r = [op |-> r.op, arg |-> r.arg, n |-> r.n, got |-> r.got, ans |-> r.ans]

Saving(r) ==
    LET t == r.arg.t  v == r.arg.v IN
        /\ t \in Thresholds /\ v \in Values
        /\ rows[t] = "saving" /\ asked[t] = v
        /\ r.got = "ok" => values[t] = v
        /\ \A q \in reqs : q.op = "put" /\ q.arg.t = t => q = r

Savings ==
    /\ values \in [Thresholds -> Values]
    /\ rows \in [Thresholds -> {"idle", "saving", "saved", "error"}]
    /\ asked \in [Thresholds -> Values \cup {Blank}]
    /\ \A r \in reqs : Shaped(r) /\ (r.op = "put" => Saving(r))
    /\ AppliedIsLive

\* Requests whose answer holds all of a tab.
Whole == {"load", "put", "list"}

OneOf(tab) == \A q, r \in reqs : Tab(q.op) = tab /\ Tab(r.op) = tab => q = r
NoneOf(tab) == \A r \in reqs : Tab(r.op) # tab

ThresholdsTab ==
    "thresholds" \notin unsure =>
        /\ OneOf("thresholds")
        /\ NoneOf("thresholds") => config = values
        /\ \A r \in reqs : Tab(r.op) = "thresholds" /\ r.got = "ok" => r.ans = values

RulesTab ==
    "rules" \notin unsure =>
        /\ OneOf("rules")
        /\ NoneOf("rules") => list = Listing(rules)
        /\ \A r \in reqs : r.op = "list" /\ r.got = "ok" => r.ans = Listing(rules)

PanelInv ==
    /\ Savings
    /\ ThresholdsTab
    /\ RulesTab
    /\ \A r \in reqs : r.op = "confirm" => "rules" \in unsure

LEMMA InitShown == PanelsInit => PanelInv
<1>. SUFFICES ASSUME PanelsInit PROVE PanelInv
  OBVIOUS
<1>1. \A r \in reqs : Shaped(r) /\ r.op = "mount" /\ r.got = "asked"
  BY DEF PanelsInit, Request, Shaped
<1>2. values \in [Thresholds -> Values] /\ AppliedIsLive
  BY PanelsAssumption DEF PanelsInit, AppliedIsLive
<1>3. Savings
  BY <1>1, <1>2 DEF PanelsInit, Savings
<1>4. ThresholdsTab /\ RulesTab
  BY DEF PanelsInit, ThresholdsTab, RulesTab
<1>. QED
  BY <1>1, <1>3, <1>4 DEF PanelInv

\* Which tab a request concerns.
LEMMA TabOf ==
    ASSUME NEW op
    PROVE  /\ Tab(op) = "thresholds" <=> op \in {"load", "put"}
           /\ Tab(op) = "incidents" <=> op = "mount"
           /\ Tab(op) = "rules" <=> op \notin {"load", "put", "mount"}
BY DEF Tab

\* A request that is sent makes its tab unsure, or is alone in it.
LEMMA SendProperties ==
    ASSUME NEW q, NEW others, Send({q}, others)
    PROVE  /\ reqs' = others \cup {q}
           /\ \A tab : tab \notin unsure' =>
                 \/ tab # Tab(q.op) /\ tab \notin unsure
                 \/ /\ tab = Tab(q.op) /\ \A r \in others : Tab(r.op) # tab
                    /\ q.op \in Whole \/ tab \notin unsure
<1> DEFINE lone == \A r \in others : Tab(r.op) # Tab(q.op)
           alone == {x \in {q} : \A r \in others : Tab(r.op) # Tab(x.op)}
<1>1. alone = IF lone THEN {q} ELSE {}
  OBVIOUS
<1>2. unsure' = (unsure \ {Tab(y.op) : y \in {x \in alone : x.op \in Whole}})
                    \cup {Tab(y.op) : y \in {q} \ alone}
  BY DEF Send, Whole
<1>3. CASE lone
  <2>1. alone = {q} /\ {q} \ alone = {}
    BY <1>1, <1>3
  <2>2. CASE q.op \in Whole
    <3>1. unsure' = unsure \ {Tab(q.op)}
      BY <1>2, <2>1, <2>2
    <3>. QED
      BY <1>3, <2>2, <3>1 DEF Send
  <2>3. CASE q.op \notin Whole
    <3>1. unsure' = unsure
      BY <1>2, <2>1, <2>3
    <3>. QED
      BY <1>3, <3>1 DEF Send
  <2>. QED
    BY <2>2, <2>3
<1>4. CASE ~lone
  <2>1. alone = {} /\ {q} \ alone = {q}
    BY <1>1, <1>4
  <2>2. unsure' = unsure \cup {Tab(q.op)}
    BY <1>2, <2>1
  <2>. QED
    BY <2>2 DEF Send
<1>. QED
  BY <1>3, <1>4

\* What the tabs and the rows show is kept by a request that is sent, with the
\* answered one it follows, if any, leaving.
LEMMA SendKeeps ==
    ASSUME PanelInv, NEW q, NEW others, Send({q}, others),
           Shaped(q), q.got = "asked", q.op \notin {"put", "confirm"},
           others \subseteq reqs, \A r \in reqs \ others : Tab(r.op) = Tab(q.op),
           UNCHANGED <<values, rules, config, list, rows, asked>>
    PROVE  PanelInv'
<1>1. /\ reqs' = others \cup {q}
      /\ \A tab : tab \notin unsure' =>
            \/ tab # Tab(q.op) /\ tab \notin unsure
            \/ /\ tab = Tab(q.op) /\ \A r \in others : Tab(r.op) # tab
               /\ q.op \in Whole \/ tab \notin unsure
  BY SendProperties
<1>2. Savings'
  <2>1. AppliedIsLive'
    BY DEF PanelInv, Savings, AppliedIsLive
  <2>2. ASSUME NEW r \in reqs' PROVE (Shaped(r) /\ (r.op = "put" => Saving(r)))'
    BY <1>1, <2>2 DEF PanelInv, Savings, Saving, Shaped
  <2>. QED
    BY <2>1, <2>2 DEF PanelInv, Savings
<1>3. ThresholdsTab'
  BY <1>1 DEF PanelInv, ThresholdsTab, OneOf, NoneOf
<1>4. RulesTab'
  BY <1>1, TabOf DEF PanelInv, RulesTab, OneOf, NoneOf, Listing
<1>5. \A r \in reqs' : r.op = "confirm" => "rules" \in unsure'
  BY <1>1, TabOf DEF PanelInv, Whole
<1>. QED
  BY <1>2, <1>3, <1>4, <1>5 DEF PanelInv

LEMMA SavingsStay ==
    ASSUME Savings, UNCHANGED <<values, rows, asked>>,
           \A r \in reqs' : r \in reqs \/ (Shaped(r) /\ r.op # "put")
    PROVE  Savings'
<1>1. AppliedIsLive'
  BY DEF Savings, AppliedIsLive
<1>2. ASSUME NEW r \in reqs' PROVE (Shaped(r) /\ (r.op = "put" => Saving(r)))'
  BY <1>2 DEF Savings, Saving, Shaped
<1>. QED
  BY <1>1, <1>2 DEF Savings

\* A failure makes the tab unsure; that of the panel of incidents, and of its
\* dialog, need not.
LEMMA FailureKeeps ==
    ASSUME PanelInv, NEW r \in reqs, Done(r), r.op # "put",
           Failed(r) \/ (unsure' = unsure /\ r.op \in {"mount", "confirm"}),
           UNCHANGED <<values, rules, config, list, rows, asked>>
    PROVE  PanelInv'
<1>1. reqs' = reqs \ {r} /\ unsure \subseteq unsure'
  BY DEF Done, Failed
<1>2. Savings'
  BY <1>1, SavingsStay DEF PanelInv
<1>3. \A tab \in {"thresholds", "rules"} : tab \notin unsure' => tab \notin unsure /\ Tab(r.op) # tab
  <2>1. r.op = "confirm" => "rules" \in unsure
    BY DEF PanelInv
  <2>. QED
    BY <1>1, <2>1, TabOf DEF Failed
<1>4. ThresholdsTab'
  BY <1>1, <1>3 DEF PanelInv, ThresholdsTab, OneOf, NoneOf
<1>5. RulesTab'
  BY <1>1, <1>3 DEF PanelInv, RulesTab, OneOf, NoneOf, Listing
<1>6. \A q \in reqs' : q.op = "confirm" => "rules" \in unsure'
  BY <1>1 DEF PanelInv
<1>. QED
  BY <1>2, <1>4, <1>5, <1>6 DEF PanelInv

LEMMA OpenKeeps ==
    ASSUME PanelInv, Open
    PROVE  PanelInv'
<1>1. PICK q : q = IF editing = "thresholds" THEN Request("load", Blank, 0) ELSE Request("list", "open", 0)
  OBVIOUS
<1>2. Shaped(q) /\ q.got = "asked" /\ q.op \in {"load", "list"}
  BY <1>1 DEF Request, Shaped
<1>3. Send({q}, reqs)
  BY <1>1 DEF Open
<1>4. UNCHANGED <<values, rules, config, list, rows, asked>>
  BY DEF Open, server, tab1, tab2, panel
<1>. QED
  BY <1>2, <1>3, <1>4, SendKeeps

\* AddRule, ToggleRule and DeleteRule.
LEMMA ClickKeeps ==
    ASSUME PanelInv, AddRule \/ ToggleRule \/ DeleteRule
    PROVE  PanelInv'
<1>1. PICK op, arg, n : op \in {"post", "patch", "delete"} /\ Send({Request(op, arg, n)}, reqs)
  <2>1. CASE AddRule
    <3>1. PICK x : Send({Request("post", x, Next1)}, reqs)
      BY <2>1 DEF AddRule, Click
    <3>. QED
      BY <3>1
  <2>2. CASE ToggleRule
    <3>1. PICK x : Send({Request("patch", x, Next1)}, reqs)
      BY <2>2 DEF ToggleRule, Click
    <3>. QED
      BY <3>1
  <2>3. CASE DeleteRule
    <3>1. PICK x : Send({Request("delete", x, Next1)}, reqs)
      BY <2>3 DEF DeleteRule, Click
    <3>. QED
      BY <3>1
  <2>. QED
    BY <2>1, <2>2, <2>3
<1>2. PICK q : q = Request(op, arg, n)
  OBVIOUS
<1>3. Shaped(q) /\ q.got = "asked" /\ q.op = op
  BY <1>2 DEF Request, Shaped
<1>4. UNCHANGED <<values, rules, config, list, rows, asked>>
  BY DEF AddRule, ToggleRule, DeleteRule, server, tab1, tab2, panel
<1>. QED
  BY <1>1, <1>2, <1>3, <1>4, SendKeeps

LEMMA LoadedThresholdsKeeps ==
    ASSUME PanelInv, NEW r \in reqs, LoadedThresholds(r)
    PROVE  PanelInv'
<1>1. UNCHANGED <<values, rules, list, rows, asked>>
  BY DEF LoadedThresholds, server, tab2, panel
<1>3. CASE Failed(r) /\ UNCHANGED config
  BY <1>1, <1>3, FailureKeeps DEF LoadedThresholds
<1>4. CASE r.got = "ok" /\ config' = r.ans /\ UNCHANGED unsure
  <2>1. reqs' = reqs \ {r} /\ Tab(r.op) = "thresholds" /\ r.op = "load"
    BY TabOf DEF LoadedThresholds, Done
  <2>2. Savings'
    BY <1>1, <2>1, SavingsStay DEF PanelInv
  <2>3. ThresholdsTab'
    BY <1>1, <1>4, <2>1 DEF PanelInv, ThresholdsTab, OneOf, NoneOf
  <2>4. RulesTab'
    BY <1>1, <1>4, <2>1 DEF PanelInv, RulesTab, OneOf, NoneOf, Listing
  <2>. QED
    BY <1>4, <2>1, <2>2, <2>3, <2>4 DEF PanelInv
<1>. QED
  BY <1>3, <1>4 DEF LoadedThresholds

LEMMA LoadedRulesKeeps ==
    ASSUME PanelInv, NEW r \in reqs, LoadedRules(r)
    PROVE  PanelInv'
<1>1. UNCHANGED <<values, rules, config, rows, asked>>
  BY DEF LoadedRules, server, tab1, panel
<1>3. CASE Failed(r) /\ UNCHANGED list
  BY <1>1, <1>3, FailureKeeps DEF LoadedRules
<1>4. CASE r.got = "ok" /\ list' = r.ans /\ UNCHANGED unsure
  <2>1. reqs' = reqs \ {r} /\ Tab(r.op) = "rules" /\ r.op = "list"
    BY TabOf DEF LoadedRules, Done
  <2>2. Savings'
    BY <1>1, <2>1, SavingsStay DEF PanelInv
  <2>3. ThresholdsTab'
    BY <1>1, <1>4, <2>1 DEF PanelInv, ThresholdsTab, OneOf, NoneOf
  <2>4. RulesTab'
    BY <1>1, <1>4, <2>1 DEF PanelInv, RulesTab, OneOf, NoneOf, Listing
  <2>. QED
    BY <1>4, <2>1, <2>2, <2>3, <2>4 DEF PanelInv
<1>. QED
  BY <1>3, <1>4 DEF LoadedRules

\* The row was not saving, so no other request concerns its threshold.
LEMMA SaveKeeps ==
    ASSUME PanelInv, NEW t \in Thresholds, NEW v \in Values, Save(t, v)
    PROVE  PanelInv'
<1>1. PICK q : q = Request("put", [t |-> t, v |-> v], Next1)
  OBVIOUS
<1>2. Shaped(q) /\ q.op = "put" /\ q.arg.t = t /\ q.arg.v = v /\ q.got = "asked"
  BY <1>1 DEF Request, Shaped
<1>3. Send({q}, reqs)
  BY <1>1 DEF Save, Click
<1>4. /\ reqs' = reqs \cup {q}
      /\ \A tab : tab \notin unsure' =>
            \/ tab # Tab(q.op) /\ tab \notin unsure
            \/ /\ tab = Tab(q.op) /\ \A r \in reqs : Tab(r.op) # tab
               /\ q.op \in Whole \/ tab \notin unsure
  BY <1>3, SendProperties
<1>5. /\ UNCHANGED <<values, rules, config, list>>
      /\ asked' = [asked EXCEPT ![t] = v] /\ rows' = [rows EXCEPT ![t] = "saving"]
      /\ rows[t] # "saving"
  BY DEF Save, CanSave, server, tab2, panel
<1>6. \A r \in reqs : r.op = "put" => r.arg.t # t
  BY <1>5 DEF PanelInv, Savings, Saving
<1>7. Savings'
  <2>1. /\ rows' \in [Thresholds -> {"idle", "saving", "saved", "error"}]
        /\ asked' \in [Thresholds -> Values \cup {Blank}]
        /\ values' \in [Thresholds -> Values]
        /\ rows'[t] = "saving" /\ asked'[t] = v
        /\ \A u \in Thresholds : u # t => rows'[u] = rows[u] /\ asked'[u] = asked[u]
    BY <1>5 DEF PanelInv, Savings
  <2>2. AppliedIsLive'
    BY <1>5, <2>1 DEF PanelInv, Savings, AppliedIsLive
  <2>3. ASSUME NEW r \in reqs' PROVE (Shaped(r) /\ (r.op = "put" => Saving(r)))'
    <3>1. CASE r = q
      BY <1>2, <1>4, <1>6, <2>1, <3>1 DEF Saving, Shaped
    <3>2. CASE r \in reqs
      <4>1. Shaped(r) /\ (r.op = "put" => Saving(r) /\ r.arg.t # t)
        BY <1>6, <3>2 DEF PanelInv, Savings
      <4>. QED
        BY <1>2, <1>4, <1>5, <2>1, <4>1 DEF Saving, Shaped
    <3>. QED
      BY <1>4, <3>1, <3>2
  <2>. QED
    BY <2>1, <2>2, <2>3 DEF Savings
<1>8. ThresholdsTab'
  BY <1>2, <1>4, <1>5 DEF PanelInv, ThresholdsTab, OneOf, NoneOf
<1>9. RulesTab'
  <2>1. Tab(q.op) = "thresholds"
    BY <1>2, TabOf
  <2>. QED
    BY <1>2, <1>4, <1>5, <2>1 DEF PanelInv, RulesTab, OneOf, NoneOf, Listing
<1>10. \A r \in reqs' : r.op = "confirm" => "rules" \in unsure'
  BY <1>2, <1>4, TabOf DEF PanelInv
<1>. QED
  BY <1>7, <1>8, <1>9, <1>10 DEF PanelInv

\* The value of an answer that is applied is the one the row has asked for.
LEMMA SavedKeeps ==
    ASSUME PanelInv, NEW r \in reqs, Saved(r)
    PROVE  PanelInv'
<1>1. reqs' = reqs \ {r} /\ r.op = "put" /\ Tab(r.op) = "thresholds"
  BY TabOf DEF Saved, Done
<1>2. UNCHANGED <<values, rules, list, asked>>
  BY DEF Saved, server, tab2, panel
<1>3. Saving(r)
  BY <1>1 DEF PanelInv, Savings
<1>4. PICK s \in {"saved", "error"} : /\ rows' = [rows EXCEPT ![r.arg.t] = s]
                                      /\ s = "saved" => r.got = "ok"
  BY DEF Saved
<1>5. /\ rows' \in [Thresholds -> {"idle", "saving", "saved", "error"}]
      /\ rows'[r.arg.t] = s
      /\ \A u \in Thresholds : u # r.arg.t => rows'[u] = rows[u]
  BY <1>3, <1>4 DEF PanelInv, Savings, Saving
<1>6. AppliedIsLive'
  BY <1>2, <1>3, <1>4, <1>5 DEF PanelInv, Savings, AppliedIsLive, Saving
<1>7. ASSUME NEW q \in reqs' PROVE (Shaped(q) /\ (q.op = "put" => Saving(q)))'
  <2>1. q \in reqs /\ q # r /\ Shaped(q)
    BY <1>1 DEF PanelInv, Savings
  <2>2. CASE q.op = "put"
    <3>1. Saving(q) /\ q.arg.t # r.arg.t
      BY <1>1, <1>3, <2>1, <2>2 DEF PanelInv, Savings, Saving
    <3>. QED
      BY <1>1, <1>2, <1>5, <2>1, <3>1 DEF Saving, Shaped
  <2>. QED
    BY <2>1, <2>2 DEF Shaped
<1>8. Savings'
  BY <1>2, <1>5, <1>6, <1>7 DEF PanelInv, Savings
<1>9. ThresholdsTab'
  <2>1. CASE r.got = "ok" /\ config' = r.ans /\ UNCHANGED unsure
    BY <1>1, <1>2, <2>1 DEF PanelInv, ThresholdsTab, OneOf, NoneOf
  <2>2. CASE Failed(r)
    BY <1>1, <2>2 DEF Failed, ThresholdsTab
  <2>. QED
    BY <2>1, <2>2 DEF Saved
<1>10. unsure' = unsure \/ unsure' = unsure \cup {"thresholds"}
  BY <1>1 DEF Saved, Failed
<1>11. RulesTab'
  BY <1>1, <1>2, <1>10 DEF PanelInv, RulesTab, OneOf, NoneOf, Listing
<1>. QED
  BY <1>1, <1>8, <1>9, <1>10, <1>11 DEF PanelInv

\* Added and Changed: the list that is loaded takes the place of the change.
LEMMA ChangedKeeps ==
    ASSUME PanelInv, NEW r \in reqs, Added(r) \/ Changed(r)
    PROVE  PanelInv'
<1>1. UNCHANGED <<values, rules, config, list, rows, asked>>
  BY DEF Added, Changed, server, tab1, tab2, panel
<1>2. r.op \in {"post", "patch", "delete"} /\ Tab(r.op) = "rules"
  BY TabOf DEF Added, Changed
<1>3. CASE Done(r) /\ Failed(r)
  BY <1>1, <1>2, <1>3, FailureKeeps
<1>4. ASSUME NEW arg, Send({Request("list", arg, r.n)}, reqs \ {r})
      PROVE  PanelInv'
  <2>1. PICK q : q = Request("list", arg, r.n)
    OBVIOUS
  <2>2. Shaped(q) /\ q.got = "asked" /\ q.op = "list" /\ Tab(q.op) = "rules"
    BY <2>1, TabOf DEF Request, Shaped
  <2>3. \A x \in reqs \ (reqs \ {r}) : Tab(x.op) = Tab(q.op)
    BY <1>2, <2>2
  <2>. QED
    BY <1>1, <1>4, <2>1, <2>2, <2>3, SendKeeps
<1>. QED
  BY <1>3, <1>4 DEF Added, Changed

LEMMA LoadedSuppressedKeeps ==
    ASSUME PanelInv, NEW r \in reqs, LoadedSuppressed(r)
    PROVE  PanelInv'
<1>1. UNCHANGED <<values, rules, config, list, rows, asked, unsure>>
  BY DEF LoadedSuppressed, server, sheet, tab1, tab2
<1>. QED
  BY <1>1, FailureKeeps DEF LoadedSuppressed

LEMMA ConfirmedKeeps ==
    ASSUME PanelInv, NEW r \in reqs, Confirmed(r)
    PROVE  PanelInv'
<1>1. UNCHANGED <<values, rules, config, list, rows, asked, unsure>>
  BY DEF Confirmed, server, sheet, tab1, tab2
<1>. QED
  BY <1>1, FailureKeeps DEF Confirmed

LEMMA ConfirmKeeps ==
    ASSUME PanelInv, NEW ip, Confirm(ip)
    PROVE  PanelInv'
<1>1. PICK q : q = Request("confirm", [type |-> "source_ip", source |-> ip, enabled |-> TRUE], Next1)
  OBVIOUS
<1>2. Shaped(q) /\ q.op = "confirm" /\ Tab(q.op) = "rules"
  BY <1>1, TabOf DEF Request, Shaped
<1>3. /\ reqs' = reqs \cup {q} /\ unsure' = unsure \cup {"rules"}
      /\ UNCHANGED <<values, rules, config, list, rows, asked>>
  BY <1>1 DEF Confirm, server, sheet, tab1, tab2
<1>4. Savings'
  BY <1>2, <1>3, SavingsStay DEF PanelInv
<1>5. ThresholdsTab'
  BY <1>2, <1>3 DEF PanelInv, ThresholdsTab, OneOf, NoneOf
<1>6. RulesTab'
  BY <1>3 DEF RulesTab
<1>. QED
  BY <1>3, <1>4, <1>5, <1>6 DEF PanelInv

\* The server changes what a request of the same tab asks for, and answers it
\* with what there is then.
LEMMA ServeKeeps ==
    ASSUME PanelInv, NEW r \in reqs, Serve(r)
    PROVE  PanelInv'
<1>1. PICK got, ans :
          /\ reqs' = (reqs \ {r}) \cup {[r EXCEPT !.got = got, !.ans = ans]}
          /\ UNCHANGED server \/ Apply(r)
          /\ got = "ok" => /\ Apply(r)
                           /\ ans = IF Tab(r.op) = "thresholds" THEN values' ELSE Listing(rules')
  <2> DEFINE answer == IF Tab(r.op) = "thresholds" THEN values' ELSE Listing(rules')
             Left(got, ans) == reqs' = (reqs \ {r}) \cup {[r EXCEPT !.got = got, !.ans = ans]}
  <2>1. CASE Apply(r) /\ Left("ok", answer)
    BY <2>1
  <2>2. CASE (Apply(r) \/ UNCHANGED server) /\ Left("failed", Blank)
    <3>1. "failed" # "ok"
      OBVIOUS
    <3>. HIDE DEF answer
    <3>. QED
      BY <2>2, <3>1
  <2>. QED
    BY <2>1, <2>2 DEF Serve, Got
<1>2. UNCHANGED <<config, list, rows, asked, unsure>> /\ r.got = "asked"
  BY DEF Serve, sheet, tab1, tab2, panel
<1>3. Shaped(r) /\ (r.op = "put" => Saving(r))
  BY DEF PanelInv, Savings
<1>4. PICK s : s = [r EXCEPT !.got = got, !.ans = ans]
  OBVIOUS
<1>5. /\ s = [op |-> r.op, arg |-> r.arg, n |-> r.n, got |-> got, ans |-> ans]
      /\ Shaped(s) /\ s.op = r.op /\ s.arg = r.arg /\ s.got = got /\ s.ans = ans
  BY <1>3, <1>4 DEF Shaped
<1>6. reqs' = (reqs \ {r}) \cup {s}
  BY <1>1, <1>4
<1>7. /\ r.op # "put" => values' = values
      /\ r.op \notin {"post", "confirm", "patch", "delete"} => rules' = rules
      /\ r.op = "put" => values' = values \/ values' = [values EXCEPT ![r.arg.t] = r.arg.v]
      /\ r.op = "put" /\ got = "ok" => values' = [values EXCEPT ![r.arg.t] = r.arg.v]
  BY <1>1 DEF Apply, server
<1>8. /\ values' \in [Thresholds -> Values]
      /\ r.op = "put" => \A t \in Thresholds : t # r.arg.t => values'[t] = values[t]
      /\ r.op = "put" /\ got = "ok" => values'[r.arg.t] = r.arg.v
  BY <1>3, <1>7 DEF PanelInv, Savings, Saving
<1>9. Savings'
  <2>1. AppliedIsLive'
    <3>. SUFFICES ASSUME NEW t \in Thresholds, rows[t] = "saved"
                  PROVE  values'[t] = asked[t]
      BY <1>2 DEF AppliedIsLive
    <3>1. values[t] = asked[t]
      BY DEF PanelInv, Savings, AppliedIsLive
    <3>2. r.op = "put" => t # r.arg.t
      BY <1>3 DEF Saving
    <3>. QED
      BY <1>7, <1>8, <3>1, <3>2
  <2>2. ASSUME NEW q \in reqs' PROVE (Shaped(q) /\ (q.op = "put" => Saving(q)))'
    <3>1. CASE q = s
      <4>1. s.op = "put" => Saving(s)'
        BY <1>2, <1>3, <1>5, <1>6, <1>8 DEF Saving
      <4>. QED
        BY <1>5, <3>1, <4>1 DEF Shaped
    <3>2. CASE q \in reqs /\ q # r
      <4>1. Shaped(q) /\ (q.op = "put" => Saving(q))
        BY <3>2 DEF PanelInv, Savings
      <4>2. CASE q.op = "put"
        <5>1. r.op = "put" => r.arg.t # q.arg.t
          BY <3>2, <4>1, <4>2 DEF Saving
        <5>2. values'[q.arg.t] = values[q.arg.t]
          BY <1>7, <1>8, <4>1, <4>2, <5>1 DEF Saving
        <5>. QED
          BY <1>2, <1>5, <1>6, <4>1, <4>2, <5>1, <5>2 DEF Saving, Shaped
      <4>. QED
        BY <4>1, <4>2 DEF Shaped
    <3>. QED
      BY <1>6, <3>1, <3>2
  <2>. QED
    BY <1>2, <1>8, <2>1, <2>2 DEF PanelInv, Savings
<1>10. ThresholdsTab'
  <2>. SUFFICES ASSUME "thresholds" \notin unsure
                PROVE  (/\ OneOf("thresholds")
                        /\ NoneOf("thresholds") => config = values
                        /\ \A q \in reqs : Tab(q.op) = "thresholds" /\ q.got = "ok" => q.ans = values)'
    BY <1>2 DEF ThresholdsTab
  <2>1. /\ OneOf("thresholds")
        /\ NoneOf("thresholds") => config = values
        /\ \A q \in reqs : Tab(q.op) = "thresholds" /\ q.got = "ok" => q.ans = values
    BY DEF PanelInv, ThresholdsTab
  <2>2. CASE Tab(r.op) = "thresholds"
    <3>1. \A q \in reqs' : Tab(q.op) = "thresholds" => q = s
      BY <1>6, <2>1, <2>2 DEF OneOf
    <3>2. got = "ok" => ans = values'
      BY <1>1, <2>2
    <3>3. s \in reqs' /\ Tab(s.op) = "thresholds"
      BY <1>5, <1>6, <2>2
    <3>. QED
      BY <1>5, <3>1, <3>2, <3>3 DEF OneOf, NoneOf
  <2>3. CASE Tab(r.op) # "thresholds"
    <3>1. values' = values
      BY <1>7, <2>3, TabOf
    <3>2. \A q : Tab(q.op) = "thresholds" => (q \in reqs' <=> q \in reqs)
      BY <1>5, <1>6, <2>3
    <3>. QED
      BY <1>2, <2>1, <3>1, <3>2 DEF OneOf, NoneOf
  <2>. QED
    BY <2>2, <2>3
<1>11. RulesTab'
  <2>. SUFFICES ASSUME "rules" \notin unsure
                PROVE  (/\ OneOf("rules")
                        /\ NoneOf("rules") => list = Listing(rules)
                        /\ \A q \in reqs : q.op = "list" /\ q.got = "ok" => q.ans = Listing(rules))'
    BY <1>2 DEF RulesTab
  <2>1. /\ OneOf("rules")
        /\ NoneOf("rules") => list = Listing(rules)
        /\ \A q \in reqs : q.op = "list" /\ q.got = "ok" => q.ans = Listing(rules)
    BY DEF PanelInv, RulesTab
  <2>2. CASE Tab(r.op) = "rules"
    <3>1. \A q \in reqs' : Tab(q.op) = "rules" => q = s
      BY <1>6, <2>1, <2>2 DEF OneOf
    <3>2. got = "ok" => ans = Listing(rules')
      BY <1>1, <2>2
    <3>3. s \in reqs' /\ Tab(s.op) = "rules"
      BY <1>5, <1>6, <2>2
    <3>4. \A q : q.op = "list" => Tab(q.op) = "rules"
      BY TabOf
    <3>5. Listing(rules)' = Listing(rules')
      BY DEF Listing
    <3>. QED
      BY <1>5, <3>1, <3>2, <3>3, <3>4, <3>5 DEF OneOf, NoneOf
  <2>3. CASE Tab(r.op) # "rules"
    <3>1. rules' = rules
      BY <1>7, <2>3, TabOf
    <3>2. \A q : Tab(q.op) = "rules" => (q \in reqs' <=> q \in reqs)
      BY <1>5, <1>6, <2>3
    <3>3. \A q : q.op = "list" => Tab(q.op) = "rules"
      BY TabOf
    <3>4. Listing(rules)' = Listing(rules)
      BY <3>1 DEF Listing
    <3>. QED
      BY <1>2, <2>1, <3>2, <3>3, <3>4 DEF OneOf, NoneOf
  <2>. QED
    BY <2>2, <2>3
<1>12. \A q \in reqs' : q.op = "confirm" => "rules" \in unsure'
  BY <1>2, <1>5, <1>6 DEF PanelInv
<1>. QED
  BY <1>9, <1>10, <1>11, <1>12 DEF PanelInv

LEMMA StepShown ==
    ASSUME PanelInv, [PanelsNext]_panelsVars
    PROVE  PanelInv'
<1>1. UNCHANGED <<server, config, rows, list, reqs, asked, unsure>> => PanelInv'
  BY DEF PanelInv, Savings, Saving, Shaped, AppliedIsLive, ThresholdsTab, RulesTab, OneOf, NoneOf,
     Listing, server
<1>2. Close \/ OpenModal \/ CloseModal \/ UNCHANGED panelsVars => PanelInv'
  BY <1>1 DEF Close, OpenModal, CloseModal, panelsVars, sheet, tab1, tab2, panel
<1>3. ASSUME NEW r \in reqs, Answered(r)
      PROVE  PanelInv'
  BY <1>3, LoadedThresholdsKeeps, LoadedRulesKeeps, SavedKeeps, ChangedKeeps,
     LoadedSuppressedKeeps, ConfirmedKeeps DEF Answered
<1>. QED
  BY <1>2, <1>3, OpenKeeps, ClickKeeps, SaveKeeps, ConfirmKeeps, ServeKeeps DEF PanelsNext

LEMMA PanelsShow == PanelsSpec => []PanelInv
BY InitShown, StepShown, PTL DEF PanelsSpec

\* A row that says "Applied" is the truth, for any thresholds and values saved
\* at once, failed and answered in any order (saveThreshold).
THEOREM AppliedIsTrue == PanelsSpec => []AppliedIsLive
<1>1. PanelInv => AppliedIsLive
  BY DEF PanelInv, Savings
<1>. QED
  BY <1>1, PanelsShow, PTL

\* When the answers are in, the tabs of the sheet show what the server has, for
\* any number of rules and changes that were each followed by a load alone
\* (loadThresholds, loadRules and what calls them).
THEOREM TabsShowTheServer == PanelsSpec => []TabsAgree
<1>1. PanelInv => TabsAgree
  BY DEF PanelInv, ThresholdsTab, RulesTab, NoneOf, TabsAgree
<1>. QED
  BY <1>1, PanelsShow, PTL

----------------------------------------------------------------------------
(***************************************************************************)
(* The suppressed sources.  While incidents are looked at, a rule is never *)
(* taken back; the dialog waits for one confirmation at most, for which    *)
(* there is room, and an answer names sources of rules that are enabled.   *)
(***************************************************************************)
Live(s) == \E i \in RuleIds : rules[i] \in Rule /\ rules[i].enabled /\ rules[i].source = s

Asks(r) ==
    /\ editing = "incidents" /\ modal.loading /\ \A q \in reqs : q.op = "confirm" => q = r
    /\ r.arg = [type |-> "source_ip", source |-> r.arg.source, enabled |-> TRUE]
    /\ r.arg.source \in Sources \cup {Cut, Blank}
    /\ r.got = "asked" => \E i \in RuleIds : rules[i] = NotYet
    /\ r.got = "ok" => Live(r.arg.source)

Tells(r) ==
    editing = "incidents" /\ (r.got = "ok" => \A x \in r.ans : x.rule.enabled => Live(x.rule.source))

SuppressInv ==
    /\ editing = "incidents" => rules \in [RuleIds -> Rule \cup {NotYet, Gone}]
    /\ modal = [open |-> modal.open, ip |-> modal.ip, loading |-> modal.loading]
    /\ modal.ip \in Sources \cup {Cut, Blank} /\ modal.open \in BOOLEAN /\ modal.loading \in BOOLEAN
    /\ modal.open => editing = "incidents"
    /\ suppressed # {} => editing = "incidents"
    /\ \A r \in reqs : /\ r.op \in {"post", "patch", "delete"} => editing = "rules"
                       /\ r.op = "confirm" => Asks(r)
                       /\ r.op = "mount" => Tells(r)
    /\ SuppressedIsLive

LEMMA InitSuppress == PanelsInit => SuppressInv
<1>. SUFFICES ASSUME PanelsInit PROVE SuppressInv
  OBVIOUS
<1>1. rules \in [RuleIds -> Rule \cup {NotYet, Gone}]
  BY DEF PanelsInit
<1>2. modal = NoModal /\ suppressed = {}
  BY DEF PanelsInit
<1>3. \A r \in reqs : r.op = "mount" /\ r.got = "asked" /\ editing = "incidents"
  BY DEF PanelsInit, Request
<1>4. SuppressedIsLive
  BY <1>2 DEF SuppressedIsLive
<1>. QED
  BY <1>1, <1>2, <1>3, <1>4 DEF SuppressInv, NoModal, Tells

\* A source stays live, and there is room, as long as the rules are the same.
LEMMA SameRules ==
    ASSUME rules' = rules
    PROVE  /\ \A s : Live(s)' <=> Live(s)
           /\ (\E i \in RuleIds : rules[i] = NotYet)' <=> (\E i \in RuleIds : rules[i] = NotYet)
BY DEF Live

\* The requests there were, and a new one of the sheet.
LEMMA SheetSuppress ==
    ASSUME SuppressInv, UNCHANGED <<editing, rules, modal, suppressed>>,
           \A r \in reqs' : \/ r \in reqs
                            \/ r.op \in {"post", "patch", "delete"} /\ editing = "rules"
                            \/ r.op \in {"load", "list", "put"}
    PROVE  SuppressInv'
<1>1. \A s : Live(s)' <=> Live(s)
  BY SameRules
<1>2. ASSUME NEW r \in reqs'
      PROVE  (/\ r.op \in {"post", "patch", "delete"} => editing = "rules"
              /\ r.op = "confirm" => Asks(r)
              /\ r.op = "mount" => Tells(r))'
  <2>1. CASE r \in reqs
    BY <1>1, <2>1 DEF SuppressInv, Asks, Tells
  <2>2. CASE r.op \in {"post", "patch", "delete"} /\ editing = "rules"
    BY <2>2
  <2>3. CASE r.op \in {"load", "list", "put"}
    BY <2>3
  <2>. QED
    BY <2>1, <2>2, <2>3
<1>3. SuppressedIsLive'
  BY DEF SuppressInv, SuppressedIsLive
<1>. QED
  BY <1>2, <1>3 DEF SuppressInv

LEMMA SentSuppress ==
    ASSUME SuppressInv, UNCHANGED <<editing, rules, modal, suppressed>>,
           NEW q, NEW others, Send({q}, others), others \subseteq reqs,
           \/ q.op \in {"post", "patch", "delete"} /\ editing = "rules"
           \/ q.op \in {"load", "list", "put"}
    PROVE  SuppressInv'
<1>1. reqs' = others \cup {q}
  BY DEF Send
<1>. QED
  BY <1>1, SheetSuppress

\* What the analyst does in the sheet, and the answers to it.
LEMMA SheetStep ==
    ASSUME SuppressInv,
           \/ Open \/ AddRule \/ ToggleRule \/ DeleteRule
           \/ \E t \in Thresholds, v \in Values : Save(t, v)
           \/ \E r \in reqs : \/ LoadedThresholds(r) \/ LoadedRules(r) \/ Saved(r)
                              \/ Added(r) \/ Changed(r)
    PROVE  SuppressInv'
<1>1. UNCHANGED <<editing, rules, modal, suppressed>>
  BY DEF Open, AddRule, ToggleRule, DeleteRule, Save, LoadedThresholds, LoadedRules, Saved, Added,
     Changed, server, tab1, tab2, panel
<1>2. \A op, arg, n : Request(op, arg, n).op = op
  BY DEF Request
<1>3. CASE Open
  <2>1. PICK q : q = IF editing = "thresholds" THEN Request("load", Blank, 0) ELSE Request("list", "open", 0)
    OBVIOUS
  <2>. QED
    BY <1>1, <1>2, <1>3, <2>1, SentSuppress DEF Open
<1>4. CASE AddRule
  <2>1. PICK x : Send({Request("post", x, Next1)}, reqs)
    BY <1>4 DEF AddRule, Click
  <2>. QED
    BY <1>1, <1>2, <1>4, <2>1, SentSuppress DEF AddRule, CanAdd
<1>5. CASE ToggleRule
  <2>1. PICK x : Send({Request("patch", x, Next1)}, reqs)
    BY <1>5 DEF ToggleRule, Click
  <2>. QED
    BY <1>1, <1>2, <1>5, <2>1, SentSuppress DEF ToggleRule
<1>6. CASE DeleteRule
  <2>1. PICK x : Send({Request("delete", x, Next1)}, reqs)
    BY <1>6 DEF DeleteRule, Click
  <2>. QED
    BY <1>1, <1>2, <1>6, <2>1, SentSuppress DEF DeleteRule
<1>7. ASSUME NEW t \in Thresholds, NEW v \in Values, Save(t, v)
      PROVE  SuppressInv'
  <2>1. Send({Request("put", [t |-> t, v |-> v], Next1)}, reqs)
    BY <1>7 DEF Save, Click
  <2>. QED
    BY <1>1, <1>2, <2>1, SentSuppress
<1>8. ASSUME NEW r \in reqs, LoadedThresholds(r) \/ LoadedRules(r) \/ Saved(r) \/ Added(r) \/ Changed(r)
      PROVE  SuppressInv'
  <2>1. CASE Done(r)
    BY <1>1, <2>1, SheetSuppress DEF Done
  <2>2. ASSUME NEW arg, Send({Request("list", arg, r.n)}, reqs \ {r})
        PROVE  SuppressInv'
    BY <1>1, <1>2, <2>2, SentSuppress
  <2>. QED
    BY <1>8, <2>1, <2>2 DEF LoadedThresholds, LoadedRules, Saved, Added, Changed
<1>. QED
  BY <1>3, <1>4, <1>5, <1>6, <1>7, <1>8

\* The answer of the mount's load takes the place of the set.
LEMMA LoadedSuppress ==
    ASSUME SuppressInv, NEW r \in reqs, LoadedSuppressed(r)
    PROVE  SuppressInv'
<1>1. /\ UNCHANGED <<editing, rules, modal>> /\ reqs' = reqs \ {r} /\ Tells(r)
  BY DEF LoadedSuppressed, Done, server, SuppressInv
<1>2. \A s : Live(s)' <=> Live(s)
  BY <1>1, SameRules
<1>3. \A s \in suppressed' : Live(s)
  <2>1. CASE suppressed' \in {suppressed, {}}
    BY <2>1 DEF SuppressInv, SuppressedIsLive, Live
  <2>2. CASE r.got = "ok" /\ suppressed' = {x.rule.source : x \in {y \in r.ans : y.rule.enabled}} \ {Blank}
    BY <1>1, <2>2 DEF Tells
  <2>. QED
    BY <2>1, <2>2 DEF LoadedSuppressed
<1>4. SuppressedIsLive'
  BY <1>2, <1>3 DEF SuppressedIsLive, Live
<1>5. \A q \in reqs' : (Asks(q) => Asks(q)') /\ (Tells(q) => Tells(q)')
  BY <1>1, <1>2 DEF Asks, Tells
<1>. QED
  BY <1>1, <1>4, <1>5 DEF SuppressInv, Tells

LEMMA ConfirmedSuppress ==
    ASSUME SuppressInv, NEW r \in reqs, Confirmed(r)
    PROVE  SuppressInv'
<1>1. /\ UNCHANGED <<editing, rules>> /\ reqs' = reqs \ {r} /\ r.op = "confirm" /\ Asks(r)
  BY DEF Confirmed, Done, server, SuppressInv
<1>2. \A s : Live(s)' <=> Live(s)
  BY <1>1, SameRules
<1>3. \A s \in suppressed' : Live(s)
  <2>1. \A s \in suppressed : Live(s)
    BY DEF SuppressInv, SuppressedIsLive, Live
  <2>. QED
    BY <1>1, <2>1 DEF Confirmed, Asks
<1>4. SuppressedIsLive'
  BY <1>2, <1>3 DEF SuppressedIsLive, Live
<1>5. \A q \in reqs' : q.op # "confirm" /\ (Tells(q) => Tells(q)')
  BY <1>1, <1>2 DEF Asks, Tells
<1>6. /\ modal' = [open |-> modal'.open, ip |-> modal'.ip, loading |-> modal'.loading]
      /\ modal'.ip \in Sources \cup {Cut, Blank} /\ modal'.open \in BOOLEAN /\ modal'.loading \in BOOLEAN
  <2>1. modal' = NoModal \/ modal' = [modal EXCEPT !.loading = FALSE]
    BY DEF Confirmed
  <2>2. /\ modal = [open |-> modal.open, ip |-> modal.ip, loading |-> modal.loading]
        /\ modal.ip \in Sources \cup {Cut, Blank} /\ modal.open \in BOOLEAN
    BY DEF SuppressInv
  <2>3. CASE modal' = NoModal
    BY <2>3 DEF NoModal
  <2>4. CASE modal' = [modal EXCEPT !.loading = FALSE]
    <3>1. modal' = [open |-> modal.open, ip |-> modal.ip, loading |-> FALSE]
      BY <2>2, <2>4
    <3>. QED
      BY <2>2, <3>1
  <2>. QED
    BY <2>1, <2>3, <2>4
<1>. QED
  BY <1>1, <1>4, <1>5, <1>6 DEF SuppressInv, Asks

LEMMA ModalSuppress ==
    ASSUME SuppressInv, OpenModal \/ CloseModal
    PROVE  SuppressInv'
<1>1. UNCHANGED <<editing, rules, reqs, suppressed>>
  BY DEF OpenModal, CloseModal, server
<1>2. \A s : Live(s)' <=> Live(s)
  BY <1>1, SameRules
<1>3. SuppressedIsLive'
  BY <1>1 DEF SuppressInv, SuppressedIsLive
<1>4. CASE OpenModal
  <2>1. PICK s \in Sources : modal' = [modal EXCEPT !.open = TRUE, !.ip = Clean(s)]
    BY <1>4 DEF OpenModal, Offered
  <2>2. modal' = [open |-> TRUE, ip |-> Clean(s), loading |-> modal.loading] /\ Clean(s) \in Sources \cup {Cut}
    BY <2>1 DEF SuppressInv, Clean
  <2>3. \A r \in reqs : (Asks(r) => Asks(r)') /\ (Tells(r) => Tells(r)')
    BY <1>1, <1>2, <2>2 DEF Asks, Tells
  <2>. QED
    BY <1>1, <1>3, <1>4, <2>2, <2>3 DEF OpenModal, SuppressInv
<1>5. CASE CloseModal
  <2>1. modal' = NoModal /\ \A r \in reqs : ~Asks(r)
    BY <1>5 DEF CloseModal, Asks
  <2>2. \A r \in reqs : Tells(r) => Tells(r)'
    BY <1>1, <1>2 DEF Tells
  <2>. QED
    BY <1>1, <1>3, <2>1, <2>2 DEF NoModal, SuppressInv
<1>. QED
  BY <1>4, <1>5

\* The dialog has no other confirmation under way, and there is room for a rule.
LEMMA ConfirmSuppress ==
    ASSUME SuppressInv, NEW ip \in Sources \cup {Cut}, Confirm(ip)
    PROVE  SuppressInv'
<1>1. /\ UNCHANGED <<editing, rules, suppressed>> /\ editing = "incidents" /\ ~modal.loading
      /\ RoomForRule
  BY DEF Confirm, CanConfirm, server, SuppressInv
<1>2. PICK q : q = Request("confirm", [type |-> "source_ip", source |-> ip, enabled |-> TRUE], Next1)
  OBVIOUS
<1>3. reqs' = reqs \cup {q} /\ modal' = [modal EXCEPT !.ip = ip, !.loading = TRUE]
  BY <1>2 DEF Confirm
<1>4. q.op = "confirm" /\ q.got = "asked" /\ q.arg = [type |-> "source_ip", source |-> ip, enabled |-> TRUE]
  BY <1>2 DEF Request
<1>5. \A r \in reqs : r.op \notin {"post", "confirm"}
  BY <1>1 DEF SuppressInv, Asks
<1>6. \E i \in RuleIds : rules[i] = NotYet
  <2>1. {r \in reqs : r.op \in {"post", "confirm"} /\ r.got = "asked"} = {}
    BY <1>5
  <2>2. Cardinality({}) = 0
    BY FS_EmptySet
  <2>3. 0 < Cardinality({i \in RuleIds : rules[i] = NotYet})
    BY <1>1, <2>1, <2>2 DEF RoomForRule
  <2>4. {i \in RuleIds : rules[i] = NotYet} # {}
    BY <2>2, <2>3
  <2>. QED
    BY <2>4
<1>7. modal' = [open |-> modal.open, ip |-> ip, loading |-> TRUE]
  BY <1>3 DEF SuppressInv
<1>8. \A s : Live(s)' <=> Live(s)
  BY <1>1, SameRules
<1>9. Asks(q)'
  BY <1>1, <1>3, <1>4, <1>5, <1>6, <1>7 DEF Asks
<1>10. \A r \in reqs : Tells(r) => Tells(r)'
  BY <1>1, <1>8 DEF Tells
<1>11. SuppressedIsLive'
  BY <1>1 DEF SuppressInv, SuppressedIsLive
<1>. QED
  BY <1>1, <1>3, <1>4, <1>5, <1>7, <1>9, <1>10, <1>11 DEF SuppressInv

\* The rule a confirmation asks for, when the server takes its source.
LEMMA AskedRule ==
    ASSUME NEW x \in Sources \cup {Blank}
    PROVE  /\ [type |-> "source_ip", source |-> x, enabled |-> TRUE] \in Rule
           /\ [type |-> "source_ip", source |-> x, enabled |-> TRUE].enabled = TRUE
<1>1. "source_ip" \in Types /\ TRUE \in BOOLEAN
  BY DEF Types
<1>2. [type |-> "source_ip", source |-> x, enabled |-> TRUE] \in Rule
  BY <1>1 DEF Rule
<1>. QED
  BY <1>2

\* What the server does to the rules while incidents are looked at.
LEMMA RulesGrow ==
    ASSUME SuppressInv, NEW r \in reqs, Serve(r), editing = "incidents"
    PROVE  /\ rules' \in [RuleIds -> Rule \cup {NotYet, Gone}]
           /\ \A s : Live(s) => Live(s)'
           /\ rules' = rules \/ (r.op = "confirm" /\ Live(r.arg.source)')
<1>1. r.op \notin {"post", "patch", "delete"} /\ rules \in [RuleIds -> Rule \cup {NotYet, Gone}]
  BY DEF SuppressInv
<1>2. CASE rules' = rules
  BY <1>1, <1>2, SameRules
<1>3. CASE Valid(r) /\ Apply(r) /\ rules' # rules
  <2>1. r.op = "confirm" /\ rules' = [rules EXCEPT ![NewId] = r.arg]
    BY <1>1, <1>3 DEF Apply
  <2>2. Asks(r) /\ r.got = "asked"
    BY <2>1 DEF Serve, SuppressInv
  <2>3. NewId \in RuleIds /\ rules[NewId] = NotYet
    BY <2>2 DEF Asks, NewId
  <2>4. r.arg \in Rule /\ r.arg.enabled
    <3>1. r.arg.source \in Sources \cup {Blank}
      BY <1>3, <2>1, <2>2 DEF Valid, Asks
    <3>2. r.arg = [type |-> "source_ip", source |-> r.arg.source, enabled |-> TRUE]
      BY <2>2 DEF Asks
    <3>. QED
      BY <3>1, <3>2, AskedRule
  <2>5. NotYet \notin Rule
    <3>1. \A x \in Rule : x.type \in Types
      BY DEF Rule
    <3>. QED
      BY <3>1 DEF NotYet, Types
  <2>6. /\ rules' \in [RuleIds -> Rule \cup {NotYet, Gone}] /\ rules'[NewId] = r.arg
        /\ \A i \in RuleIds : rules[i] \in Rule => rules'[i] = rules[i]
    BY <1>1, <2>1, <2>3, <2>4, <2>5
  <2>7. Live(r.arg.source)'
    BY <2>3, <2>4, <2>6 DEF Live
  <2>8. \A s : Live(s) => Live(s)'
    BY <2>6 DEF Live
  <2>. QED
    BY <2>1, <2>6, <2>7, <2>8
<1>4. rules' = rules \/ (Valid(r) /\ Apply(r))
  BY DEF Serve, server
<1>. QED
  BY <1>2, <1>3, <1>4

LEMMA ServeSuppress ==
    ASSUME SuppressInv, NEW r \in reqs, Serve(r), Shaped(r)
    PROVE  SuppressInv'
<1>1. PICK got, ans :
          /\ reqs' = (reqs \ {r}) \cup {[r EXCEPT !.got = got, !.ans = ans]}
          /\ got # "asked"
          /\ got = "ok" => /\ Valid(r) /\ Apply(r)
                           /\ Tab(r.op) # "thresholds" => ans = Listing(rules')
  <2> DEFINE answer == IF Tab(r.op) = "thresholds" THEN values' ELSE Listing(rules')
             Left(got, ans) == reqs' = (reqs \ {r}) \cup {[r EXCEPT !.got = got, !.ans = ans]}
  <2>1. CASE Valid(r) /\ Apply(r) /\ Left("ok", answer)
    <3>1. "ok" # "asked" /\ (Tab(r.op) # "thresholds" => answer = Listing(rules'))
      OBVIOUS
    <3>. HIDE DEF answer
    <3>. QED
      BY <2>1, <3>1
  <2>2. CASE Left("failed", Blank)
    <3>1. "failed" # "ok" /\ "failed" # "asked"
      OBVIOUS
    <3>. HIDE DEF answer
    <3>. QED
      BY <2>2, <3>1
  <2>. QED
    BY <2>1, <2>2 DEF Serve, Got
<1>2. PICK s : s = [r EXCEPT !.got = got, !.ans = ans]
  OBVIOUS
<1>3. s.op = r.op /\ s.arg = r.arg /\ s.got = got /\ s.ans = ans
  <2>1. s = [op |-> r.op, arg |-> r.arg, n |-> r.n, got |-> got, ans |-> ans]
    BY <1>2 DEF Shaped
  <2>. QED
    BY <2>1
<1>4. reqs' = (reqs \ {r}) \cup {s}
  BY <1>1, <1>2
<1>5. UNCHANGED <<editing, modal, suppressed>>
  BY DEF Serve, panel
<1>6. CASE editing # "incidents"
  <2>1. suppressed = {} /\ \A q \in reqs : q.op \notin {"confirm", "mount"}
    BY <1>6 DEF SuppressInv, Asks, Tells
  <2>. QED
    BY <1>3, <1>4, <1>5, <1>6, <2>1 DEF SuppressInv, SuppressedIsLive
<1>7. CASE editing = "incidents"
  <2>1. /\ rules' \in [RuleIds -> Rule \cup {NotYet, Gone}]
        /\ \A x : Live(x) => Live(x)'
        /\ rules' = rules \/ (r.op = "confirm" /\ Live(r.arg.source)')
    BY <1>7, RulesGrow
  <2>2. SuppressedIsLive'
    <3>1. \A x \in suppressed : Live(x)'
      BY <2>1 DEF SuppressInv, SuppressedIsLive, Live
    <3>. QED
      BY <1>5, <3>1 DEF SuppressedIsLive, Live
  <2>3. ASSUME NEW q \in reqs, q # r, q.op = "confirm"
        PROVE  Asks(q)'
    <3>1. Asks(q) /\ r.op # "confirm"
      BY <2>3 DEF SuppressInv, Asks
    <3>2. rules' = rules
      BY <2>1, <3>1
    <3>. QED
      BY <1>3, <1>4, <1>5, <2>1, <3>1, <3>2 DEF Asks
  <2>4. ASSUME NEW q \in reqs, q.op = "mount", q # r PROVE Tells(q)'
    BY <1>5, <1>7, <2>1, <2>4 DEF SuppressInv, Tells
  <2>5. s.op = "confirm" => Asks(s)'
    <3>. SUFFICES ASSUME s.op = "confirm" PROVE Asks(s)'
      OBVIOUS
    <3>1. Asks(r) /\ r.op = "confirm"
      BY <1>3 DEF SuppressInv
    <3>2. got = "ok" => Live(r.arg.source)'
      <4>. SUFFICES ASSUME got = "ok", rules' = rules PROVE Live(r.arg.source)
        BY <2>1, SameRules
      <4>1. Valid(r) /\ rules' = [rules EXCEPT ![NewId] = r.arg]
        BY <1>1, <3>1 DEF Apply
      <4>2. NewId \in RuleIds /\ rules \in [RuleIds -> Rule \cup {NotYet, Gone}]
        BY <1>7, <3>1 DEF SuppressInv, Asks, NewId, Serve
      <4>3. rules[NewId] = r.arg
        BY <4>1, <4>2
      <4>4. r.arg \in Rule /\ r.arg.enabled
        <5>1. r.arg.source \in Sources \cup {Blank}
          BY <4>1, <3>1 DEF Valid, Asks
        <5>2. r.arg = [type |-> "source_ip", source |-> r.arg.source, enabled |-> TRUE]
          BY <3>1 DEF Asks
        <5>. QED
          BY <5>1, <5>2, AskedRule
      <4>. QED
        BY <4>2, <4>3, <4>4 DEF Live
    <3>3. \A q \in reqs' : q.op = "confirm" => q = s
      BY <1>4, <3>1 DEF Asks
    <3>. QED
      BY <1>1, <1>3, <1>5, <3>1, <3>2, <3>3 DEF Asks
  <2>6. s.op = "mount" => Tells(s)'
    <3>. SUFFICES ASSUME s.op = "mount", got = "ok" PROVE \A x \in ans : x.rule.enabled => Live(x.rule.source)'
      BY <1>3, <1>5, <1>7 DEF Tells
    <3>1. ans = Listing(rules')
      BY <1>1, <1>3, TabOf
    <3>. QED
      BY <3>1 DEF Listing, Live
  <2>7. \A q \in reqs' : q.op \notin {"post", "patch", "delete"}
    BY <1>3, <1>4, <1>7 DEF SuppressInv
  <2>. QED
    BY <1>4, <1>5, <1>7, <2>1, <2>2, <2>3, <2>4, <2>5, <2>6, <2>7 DEF SuppressInv
<1>. QED
  BY <1>6, <1>7

LEMMA StepSuppress ==
    ASSUME PanelInv, SuppressInv, [PanelsNext]_panelsVars
    PROVE  SuppressInv'
<1>1. ASSUME UNCHANGED <<editing, rules, modal, suppressed, reqs>> PROVE SuppressInv'
  BY <1>1, SheetSuppress
<1>2. CASE Close \/ UNCHANGED panelsVars
  BY <1>1, <1>2 DEF Close, panelsVars, server, panel
<1>3. ASSUME NEW r \in reqs, Serve(r) PROVE SuppressInv'
  BY <1>3, ServeSuppress DEF PanelInv, Savings
<1>4. ASSUME NEW r \in reqs, Answered(r) PROVE SuppressInv'
  BY <1>4, SheetStep, LoadedSuppress, ConfirmedSuppress DEF Answered
<1>5. CASE Open \/ AddRule \/ ToggleRule \/ DeleteRule \/ \E t \in Thresholds, v \in Values : Save(t, v)
  BY <1>5, SheetStep
<1>6. CASE OpenModal \/ CloseModal \/ \E ip \in Sources \cup {Cut} : Confirm(ip)
  BY <1>6, ModalSuppress, ConfirmSuppress
<1>. QED
  BY <1>2, <1>3, <1>4, <1>5, <1>6 DEF PanelsNext

\* What is shown as suppressed is, for any number of sources, rules and
\* confirmations, refused, lost or answered around the load of the mount (the
\* effect of IncidentsPanel and handleConfirmSuppress).
THEOREM SuppressedAreLive == PanelsSpec => []SuppressedIsLive
<1>1. SuppressInv => SuppressedIsLive
  BY DEF SuppressInv
<1>2. PanelInv /\ SuppressInv /\ [PanelsNext]_panelsVars => SuppressInv'
  BY StepSuppress
<1>. QED
  BY <1>1, <1>2, PanelsShow, InitSuppress, PTL DEF PanelsSpec
=============================================================================
