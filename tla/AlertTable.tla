------------------------------ MODULE AlertTable ------------------------------
(***************************************************************************)
(* The table of alerts of the dashboard: App (frontend/src/App.tsx), which *)
(* keeps the view, the archive's page, the severity and window filters and *)
(* the alert that is inspected, and ThreatTable (components/ThreatTable    *)
(* .tsx), which holds the live stream still while the analyst looks at it. *)
(* What brings the alerts is AlertDelivery.                                *)
(*                                                                         *)
(* A step is a handler with the render and the effects that follow it, a   *)
(* timer, the answer to a request, or the server taking one up.  A click   *)
(* outside the rows takes the focus from them first.  The analyst of a     *)
(* behaviour watches the stream, changes statuses, or reads the archive.   *)
(***************************************************************************)
EXTENDS SequencesExt

CONSTANTS MaxAlerts,     \* bound on the alerts that arrive
          BufferSize,    \* MAX_ALERTS_BUFFER
          PageSize,      \* alerts of a page
          Flows, FlowOf, \* the flow of each alert
          SeverityOf,    \* "critical", "high" or another
          Near,          \* the alerts close to the time window of the gauge
          Statuses, New, \* lifecycle statuses, and that of a new alert
          None,
          MaxPatches,    \* bound on the status changes
          MaxFetches,    \* bound on the page requests in flight
          Failures       \* may requests fail?

ASSUME TableAssumption ==
    /\ MaxAlerts \in Nat /\ BufferSize \in Nat \ {0} /\ PageSize \in Nat \ {0}
    /\ FlowOf \in [1..MaxAlerts -> Flows] /\ DOMAIN SeverityOf = 1..MaxAlerts
    /\ Near \subseteq 1..MaxAlerts /\ New \notin Statuses
    /\ MaxPatches \in Nat /\ MaxFetches \in Nat /\ Failures \in BOOLEAN

VARIABLES
    work,                 \* what the analyst does
    arrived, buffer,      \* alerts so far; useThreatSocket's alerts, newest first
    marks,                \* the server's status of each flow
    mode, page,           \* alertViewMode, archivePage
    archive, fetches,     \* archiveAlerts and archiveHasNext; requests for pages
    severity, window,     \* severityFilter, selectedTrafficWindow
    selected,             \* selectedAlert is shown in the drawer
    hovering, timer,      \* isHoveringTable; the unpause timer runs
    rowFocused, dropdown, \* isRowFocused, dropdownOpen
    snapshot, wasPaused,  \* pausedSnapshot, wasPausedRef
    updating, patches,    \* statusUpdating; status changes in flight
    mouse, focus,         \* external: where the mouse and the focus are
    lost,                 \* history: a row lost the focus without a blur event
    crossed, told         \* history: flows whose changes overlapped or failed;
                          \* the alerts a change was told to

stream  == <<arrived, buffer>>
pages   == <<mode, page, archive, fetches>>
filters == <<severity, window>>
hover   == <<hovering, timer, mouse>>
focused == <<rowFocused, dropdown, focus, lost>>
held    == <<snapshot, wasPaused>>
status  == <<marks, updating, patches, crossed, told>>
vars    == <<work, stream, pages, filters, selected, hover, focused, held, status>>

Ids    == 1..MaxAlerts
Nobody == [on |-> "none", id |-> 0]
NoPage == [page |-> None, rows |-> <<>>, next |-> FALSE]

Init ==
    /\ work \in {"watch", "mark", "archive"}
    /\ arrived = 0 /\ buffer = <<>> /\ marks = [f \in Flows |-> New]
    /\ mode = "live" /\ page = 0 /\ archive = NoPage /\ fetches = {}
    /\ severity = None /\ window = FALSE /\ selected = FALSE
    /\ hovering = FALSE /\ timer = FALSE /\ mouse = "out"
    /\ rowFocused = FALSE /\ dropdown = FALSE /\ focus = Nobody /\ lost = FALSE
    /\ snapshot = <<>> /\ wasPaused = FALSE
    /\ updating = 0 /\ patches = {} /\ crossed = {} /\ told = [f \in Flows |-> {}]
----------------------------------------------------------------------------
(* What is rendered.                                                       *)

Take(n, seq) == SubSeq(seq, 1, IF n < Len(seq) THEN n ELSE Len(seq))
IdsOf(seq)   == {a.id : a \in ToSet(seq)}

\* isPaused
Paused == mode = "live" /\ (hovering \/ rowFocused \/ dropdown \/ selected)

\* The alerts App hands to the table, and alertsToDisplay.
Rows      == IF mode = "live" THEN buffer ELSE archive.rows
Displayed == IF Paused THEN snapshot ELSE Rows

\* filteredAlerts
Passes(a) == /\ window => a.id \in Near
             /\ severity # None => SeverityOf[a.id] = severity
Shown     == SelectSeq(Displayed, Passes)

\* A bug: the snapshot follows the stream.
HoldNothing ==
    /\ wasPaused' = Paused'
    /\ snapshot' = Rows'

\* The effect on [isPaused, alerts]: the snapshot is taken when the pause
\* begins, and when it ends.
Hold ==
    /\ wasPaused' = Paused'
    /\ snapshot' = IF Paused' # wasPaused THEN Rows' ELSE snapshot

\* A row that is gone takes the focus with it, and React reports no blur.
KeepFocus ==
    IF focus = Nobody \/ focus.id \in IdsOf(Shown') THEN UNCHANGED <<focus, lost>>
                                                      ELSE focus' = Nobody /\ lost' = TRUE
----------------------------------------------------------------------------
(* The stream.                                                             *)

\* onmessage of the hook.
Arrive ==
    /\ arrived < MaxAlerts
    /\ arrived' = arrived + 1
    /\ buffer' = Take(BufferSize, <<[id |-> arrived', status |-> New]>> \o buffer)
    /\ UNCHANGED <<work, pages, filters, selected, hover, focused, status>>
    /\ Hold

\* A bug: the timer of the last leave runs on.
EnterOnly ==
    /\ work = "watch" /\ mouse = "out"
    /\ mouse' = "in" /\ hovering' = TRUE
    /\ UNCHANGED <<work, stream, pages, filters, selected, timer, focused, status>>
    /\ Hold

\* handleTableMouseEnter
MouseEnter ==
    /\ work = "watch" /\ mouse = "out"
    /\ mouse' = "in" /\ hovering' = TRUE /\ timer' = FALSE
    /\ UNCHANGED <<work, stream, pages, filters, selected, focused, status>>
    /\ Hold

\* A bug: the timer is cleared and none is set.
LeaveForgets ==
    /\ mouse # "out"
    /\ mouse' = "out" /\ timer' = FALSE
    /\ UNCHANGED <<work, stream, pages, filters, selected, hovering, focused, held, status>>

\* handleTableMouseLeave
MouseLeave ==
    /\ mouse # "out"
    /\ mouse' = "out" /\ timer' = TRUE
    /\ UNCHANGED <<work, stream, pages, filters, selected, hovering, focused, held, status>>

\* ... 300 ms later.
Unpause ==
    /\ timer /\ timer' = FALSE
    /\ hovering' = FALSE
    /\ UNCHANGED <<work, stream, pages, filters, selected, mouse, focused, status>>
    /\ Hold

\* The alerts of the banner: arrived since the pause began, and still held.
Pending == {a \in ToSet(Rows) : a.id \notin IdsOf(snapshot)}

BannerShown == Paused /\ Pending # {}

\* handleResume, from the banner; an open drawer or dropdown still holds.
Resume ==
    /\ BannerShown /\ focus = Nobody
    /\ hovering' = FALSE /\ rowFocused' = FALSE
    /\ mouse' = IF mouse = "in" THEN "resumed" ELSE mouse
    /\ snapshot' = Rows
    /\ UNCHANGED <<work, stream, pages, filters, selected, timer, dropdown, focus, lost, status>>
    /\ wasPaused' = Paused'
----------------------------------------------------------------------------
(* Rows.                                                                   *)

\* onFocus of a row; that of its select bubbles up to it.
Focus(id, on) ==
    /\ id \in IdsOf(Shown) /\ focus # [on |-> on, id |-> id]
    /\ on = "select" => work = "mark" /\ updating # id
    /\ focus' = [on |-> on, id |-> id]
    /\ rowFocused' = TRUE /\ dropdown' = (on = "select")
    /\ UNCHANGED <<work, stream, pages, filters, selected, hover, lost, status>>
    /\ Hold

\* onBlur
Blur ==
    /\ focus # Nobody
    /\ focus' = Nobody /\ rowFocused' = FALSE /\ dropdown' = FALSE
    /\ UNCHANGED <<work, stream, pages, filters, selected, hover, lost, status>>
    /\ Hold

\* onClick, Enter and INSPECT of a row.
Select ==
    /\ work = "watch" /\ focus # Nobody /\ ~selected
    /\ selected' = TRUE
    /\ UNCHANGED <<work, stream, pages, filters, hover, focused, status>>
    /\ Hold

\* The card of the dominant vector, once there is one.
VectorOffered == buffer # <<>>

\* openDominantVector
OpenDominantVector ==
    /\ work = "watch" /\ focus = Nobody /\ VectorOffered /\ ~selected
    /\ selected' = TRUE
    /\ UNCHANGED <<work, stream, pages, filters, hover, focused, status>>
    /\ Hold

CloseDrawer ==
    /\ selected /\ selected' = FALSE
    /\ UNCHANGED <<work, stream, pages, filters, hover, focused, status>>
    /\ Hold
----------------------------------------------------------------------------
(* Filters.                                                                *)

\* The cards of the critical and of the high alerts.
Cards == {"critical", "high"}

\* toggleSeverityFilter
ToggleSeverity(s) ==
    /\ work = "watch" /\ focus = Nobody
    /\ severity' = IF severity = s THEN None ELSE s
    /\ UNCHANGED <<work, stream, pages, window, selected, hover, focused, held, status>>

\* A point of the gauge, and the chip of the window.
ToggleWindow ==
    /\ work = "watch" /\ focus = Nobody
    /\ window' = ~window
    /\ UNCHANGED <<work, stream, pages, severity, selected, hover, focused, held, status>>

\* The CLEAR button is shown, and clears all filters.
ClearOffered == severity # None \/ window

Clear ==
    /\ ClearOffered /\ focus = Nobody
    /\ severity' = None /\ window' = FALSE
    /\ UNCHANGED <<work, stream, pages, selected, hover, focused, held, status>>

\* The button of the empty table: the severity first.
ClearEmpty ==
    /\ Shown = <<>> /\ Rows # <<>> /\ focus = Nobody
    /\ severity' = None
    /\ window' = (severity # None /\ window)
    /\ UNCHANGED <<work, stream, pages, selected, hover, focused, held, status>>
----------------------------------------------------------------------------
(* The archive.                                                            *)

\* A bug: the request of the view that was left is not ignored.
FetchAll(m, p) ==
    fetches' = IF m # mode \/ p # page
               THEN fetches \cup (IF m = "archive" THEN {[page |-> p, alive |-> TRUE, got |-> None]} ELSE {})
               ELSE fetches

\* The effect on [alertViewMode, archivePage] and its cleanup.
Fetch(m, p) ==
    fetches' = IF m # mode \/ p # page
               THEN {[f EXCEPT !.alive = FALSE] : f \in fetches}
                        \cup (IF m = "archive" THEN {[page |-> p, alive |-> TRUE, got |-> None]} ELSE {})
               ELSE fetches

\* setAlertMode; the rows of the last visit are shown until the page is there.
SetMode(m) ==
    /\ work = "archive" /\ focus = Nobody /\ Cardinality(fetches) < MaxFetches
    /\ mode' = m /\ page' = IF m = "archive" THEN 0 ELSE page
    /\ Fetch(mode', page')
    /\ UNCHANGED archive
    /\ UNCHANGED <<work, stream, filters, selected, hover, focused, status>>
    /\ Hold

\* The buttons of the pages; the one for the next page goes by the last answer.
Turn(p) ==
    /\ mode = "archive" /\ focus = Nobody /\ Cardinality(fetches) < MaxFetches
    /\ (page > 0 /\ p = page - 1) \/ (archive.next /\ p = page + 1)
    /\ page' = p
    /\ Fetch(mode, p)
    /\ UNCHANGED <<work, stream, mode, archive, filters, selected, hover, focused, held, status>>

\* GET /api/alerts?limit=51&offset=...: one more than a page, with the statuses.
Listed(i) == [id |-> i, status |-> marks[FlowOf[i]]]

ServePage(f) ==
    /\ f.got = None
    /\ LET all  == [i \in 1..arrived |-> Listed(arrived + 1 - i)]
           part == SubSeq(all, f.page * PageSize + 1, arrived)
           answer == [page |-> f.page, rows |-> Take(PageSize, part), next |-> Len(part) > PageSize]
       IN \E a \in {answer} \cup (IF Failures THEN {NoPage} ELSE {}) :
             fetches' = (fetches \ {f}) \cup {[f EXCEPT !.got = a]}
    /\ UNCHANGED <<work, stream, mode, page, archive, filters, selected, hover, focused, held, status>>

\* ... a page that is not wanted any more is ignored, a failure shows none.
Turned(f) ==
    /\ f.got # None
    /\ fetches' = fetches \ {f}
    /\ archive' = IF f.alive THEN f.got ELSE archive
    /\ UNCHANGED <<work, stream, mode, page, filters, selected, hover, rowFocused, dropdown, status>>
    /\ Hold /\ KeepFocus
----------------------------------------------------------------------------
(* Statuses.                                                               *)

\* A number for the next change: two that are the same are two requests.
Unused == CHOOSE n \in 1..MaxPatches : \A p \in patches : p.n # n

\* onChange of a row's select.  It is disabled until the change is answered, or
\* until another row's is: there is one slot for all of them.  With the select
\* goes its focus, with a blur event or without.
ChangeStatus(s) ==
    /\ focus.on = "select" /\ updating # focus.id
    /\ Cardinality(patches) < MaxPatches
    /\ LET f == FlowOf[focus.id]
           others == {p \in patches : p.flow = f}
       IN /\ patches' = patches \cup {[n |-> Unused, flow |-> f, status |-> s, got |-> "asked"]}
          /\ crossed' = IF others = {} THEN crossed \ {f} ELSE crossed \cup {f}
          /\ told' = [told EXCEPT ![f] = {}]
    /\ updating' = focus.id
    /\ focus' = Nobody
    /\ \/ rowFocused' = FALSE /\ dropdown' = FALSE /\ UNCHANGED lost
       \/ lost' = TRUE /\ UNCHANGED <<rowFocused, dropdown>>
    /\ UNCHANGED <<work, stream, pages, filters, selected, hover, marks>>
    /\ Hold

\* PATCH: an alert that has left the archive's ring is answered 404, whether
\* its status changes or not.
ServePatch(p) ==
    /\ p.got = "asked"
    /\ \/ /\ marks' = [marks EXCEPT ![p.flow] = p.status]
          /\ \E got \in {"ok"} \cup (IF Failures THEN {"failed"} ELSE {}) :
                patches' = (patches \ {p}) \cup {[p EXCEPT !.got = got]}
       \/ Failures /\ patches' = (patches \ {p}) \cup {[p EXCEPT !.got = "failed"]} /\ UNCHANGED marks
    /\ UNCHANGED <<work, stream, pages, filters, selected, hover, focused, held, updating, crossed, told>>

\* A bug: only the row of the alert is given the status.
PatchedRow(p) ==
    /\ p.got # "asked"
    /\ patches' = patches \ {p} /\ updating' = 0
    /\ \/ /\ p.got = "ok"
          /\ buffer' = [i \in DOMAIN buffer |-> IF buffer[i].id = updating
                                                THEN [buffer[i] EXCEPT !.status = p.status] ELSE buffer[i]]
          /\ told' = [told EXCEPT ![p.flow] = {i \in IdsOf(buffer) : FlowOf[i] = p.flow}]
          /\ UNCHANGED crossed
       \/ p.got = "failed" /\ crossed' = crossed \cup {p.flow} /\ UNCHANGED <<buffer, told>>
    /\ UNCHANGED <<work, arrived, pages, filters, selected, hover, focused, marks>>
    /\ Hold

\* ... then updateAlertStatus gives the alerts of the flow in the live buffer,
\* and only those, the status.
Patched(p) ==
    /\ p.got # "asked"
    /\ patches' = patches \ {p} /\ updating' = 0
    /\ \/ /\ p.got = "ok"
          /\ buffer' = [i \in DOMAIN buffer |-> IF FlowOf[buffer[i].id] = p.flow
                                                THEN [buffer[i] EXCEPT !.status = p.status] ELSE buffer[i]]
          /\ told' = [told EXCEPT ![p.flow] = {i \in IdsOf(buffer) : FlowOf[i] = p.flow}]
          /\ UNCHANGED crossed
       \/ p.got = "failed" /\ crossed' = crossed \cup {p.flow} /\ UNCHANGED <<buffer, told>>
    /\ UNCHANGED <<work, arrived, pages, filters, selected, hover, focused, marks>>
    /\ Hold
----------------------------------------------------------------------------
Next ==
    \/ Arrive \/ MouseEnter \/ MouseLeave \/ Unpause \/ Resume
    \/ Blur \/ Select \/ OpenDominantVector \/ CloseDrawer
    \/ \E id \in Ids : Focus(id, "row") \/ Focus(id, "select")
    \/ \E s \in Cards : ToggleSeverity(s)
    \/ ToggleWindow \/ Clear \/ ClearEmpty
    \/ \E m \in {"live", "archive"} : SetMode(m)
    \/ \E p \in 0..MaxAlerts : Turn(p)
    \/ \E f \in fetches : ServePage(f) \/ Turned(f)
    \/ \E s \in Statuses : ChangeStatus(s)
    \/ \E p \in patches : ServePatch(p) \/ Patched(p)

Spec == Init /\ [][Next]_vars

(* The timer of the leave fires.                                           *)
Fairness == WF_vars(Unpause)

FairSpec == Spec /\ Fairness
----------------------------------------------------------------------------
Row == [id : Ids, status : Statuses \cup {New}]

TypeOK ==
    /\ arrived \in 0..MaxAlerts
    /\ buffer \in Seq(Row) /\ Len(buffer) <= BufferSize
    /\ snapshot \in Seq(Row) /\ wasPaused = Paused
    /\ marks \in [Flows -> Statuses \cup {New}]
    /\ mode \in {"live", "archive"} /\ page \in 0..MaxAlerts
    /\ archive.page \in 0..MaxAlerts \cup {None} /\ archive.rows \in Seq(Row)
    /\ Cardinality({f \in fetches : f.alive}) <= 1
    /\ severity \in {None} \cup Cards
    /\ {window, selected, hovering, timer, rowFocused, dropdown, lost} \subseteq BOOLEAN
    /\ mouse \in {"in", "out", "resumed"} /\ focus.id \in 0..MaxAlerts
    /\ updating \in 0..MaxAlerts /\ crossed \subseteq Flows

(* The rows under the mouse of an analyst who has not resumed the stream   *)
(* are held: no timer of an earlier visit lets them go.                    *)
HeldUnderMouse == mouse = "in" => hovering

(* Rows that are held do not move: as long as the pause lasts, through     *)
(* alerts that arrive, answers, and one reason for the pause following     *)
(* another, the same rows stay, but for Resume.                            *)
StreamHolds == [][Paused /\ Paused' => snapshot' = snapshot \/ Resume]_vars

(* The table follows the stream again in the end when the analyst is gone: *)
(* no mouse in it, no focus, no drawer.  Only a focus that was lost without*)
(* a blur event may hold it.                                               *)
Unfreezes ==
    [](~lost) /\ <>[](mouse # "in" /\ focus = Nobody /\ ~selected) => <>[](mode = "live" => Shown = SelectSeq(buffer, Passes))

(* The rows of the archive are those of the page whose number is shown, or *)
(* none, once its request is answered, however fast the analyst turns the  *)
(* pages and however late the answers come.                                *)
ArchiveIsPage ==
    mode = "archive" /\ (\A f \in fetches : ~f.alive) => archive.page \in {page, None}

(* A change of status that was answered reaches every alert of its flow in *)
(* the live buffer: they have the status the server has, unless changes of *)
(* the flow overlapped or failed.                                          *)
StatusAgrees ==
    \A i \in DOMAIN buffer : LET a == buffer[i]  f == FlowOf[a.id] IN
        f \notin crossed /\ a.id \in told[f] => a.status = marks[f]
=============================================================================
