---------------------------- MODULE ConsoleProofs ----------------------------
(***************************************************************************)
(* The session of a tab, for any accounts, whatever other tabs do.  A      *)
(* login is either in the network, with its success still being shown, or  *)
(* over: while it is not over nobody is signed in, so the token that is    *)
(* stored ahead of App's user is never that of another.                    *)
(*                                                                         *)
(* The notes of a dossier, for any flows and any number of notes: what is  *)
(* shown and what is on its way make up what the archive lists.  And the   *)
(* labels of its copy buttons: one that stands has a timer of its own.     *)
(***************************************************************************)
EXTENDS Console, TLAPS

\* The success of a login, while its two timers run.
Success == [stage : {"granted", "exiting"}, role : Roles]

\* What the form has under way keeps it disabled, and nobody is signed in.
UnderWay ==
    /\ login # None => loading /\ user = None /\ timer = None
    /\ timer # None => loading /\ user = None /\ timer \in Success

SessionInv ==
    /\ user \in Roles \cup {None}
    /\ tab \in Roles \cup {None}
    /\ UnderWay
    /\ SessionAgrees

LEMMA InitSession == Init => SessionInv
<1>1. SUFFICES ASSUME Init PROVE SessionInv
    OBVIOUS
<1>2. user = tab /\ timer = None /\ login = None /\ disk \in Roles \cup {None}
    BY <1>1 DEF Init
<1>3. CASE work = "session"
    BY <1>1, <1>2, <1>3 DEF Init, SessionInv, SessionAgrees, UnderWay
<1>4. CASE work # "session"
    BY <1>1, <1>2, <1>4 DEF Init, SessionInv, SessionAgrees, UnderWay
<1> QED BY <1>3, <1>4

\* A step that touches neither the session nor a login that is under way.
LEMMA OthersKeep ==
    ASSUME SessionInv, UNCHANGED <<tab, user, url, login, timer>>,
           login # None \/ timer # None => loading'
    PROVE  SessionInv'
BY DEF SessionInv, SessionAgrees, UnderWay

LEMMA ReloadKeeps == SessionInv /\ Reload => SessionInv'
BY DEF Reload, SessionInv, SessionAgrees, UnderWay, Token

LEMMA RerenderKeeps == SessionInv /\ Rerender => SessionInv'
BY DEF Rerender, form, SessionInv, SessionAgrees, UnderWay, Token

LEMMA SubmitKeeps == SessionInv /\ Submit => SessionInv'
<1>1. SUFFICES ASSUME SessionInv, Submit PROVE SessionInv'
    OBVIOUS
<1>2. user = None /\ ~loading /\ login = None /\ timer = None
    BY <1>1 DEF Submit, CanSubmit, SessionInv, UnderWay
<1>3. UNCHANGED <<tab, user, url, timer>> /\ (login' # None => loading')
    BY <1>1, <1>2 DEF Submit, browser
<1> QED BY <1>1, <1>2, <1>3 DEF SessionInv, SessionAgrees, UnderWay

LEMMA ServeLoginKeeps == SessionInv /\ ServeLogin => SessionInv'
<1>1. SUFFICES ASSUME SessionInv, ServeLogin PROVE SessionInv'
    OBVIOUS
<1>2. login # None /\ UNCHANGED <<tab, user, url, timer, loading>>
    BY <1>1 DEF ServeLogin, browser
<1> QED BY <1>1, <1>2 DEF SessionInv, SessionAgrees, UnderWay

\* The token of the account is stored; the user follows at once, or later.
LEMMA LoggedInKeeps == SessionInv /\ LoggedIn => SessionInv'
<1>1. SUFFICES ASSUME SessionInv, LoggedIn PROVE SessionInv'
    OBVIOUS
<1>2. PICK r \in Roles : r = login.got /\ tab' = r /\ disk' = r /\ login' = None
    BY <1>1 DEF LoggedIn
<1>3. login # None /\ user = None /\ timer = None /\ loading /\ r # None
    BY <1>1, <1>2, ConsoleAssumption DEF LoggedIn, SessionInv, UnderWay
<1>4. CASE motion
    <2>1. timer' = [stage |-> "granted", role |-> r] /\ UNCHANGED <<user, url, loading>>
        BY <1>1, <1>2, <1>4 DEF LoggedIn
    <2>2. timer' \in Success /\ timer' # None /\ timer'.role = r
        BY <2>1, ConsoleAssumption DEF Success
    <2> QED BY <1>2, <1>3, <2>1, <2>2 DEF SessionInv, SessionAgrees, UnderWay
<1>5. CASE ~motion
    <2>1. user' = r /\ url' = r /\ timer' = None
        BY <1>1, <1>2, <1>3, <1>5 DEF LoggedIn, SignedIn, Token
    <2> QED BY <1>2, <2>1 DEF SessionInv, SessionAgrees, UnderWay
<1> QED BY <1>4, <1>5

LEMMA ExitedKeeps == SessionInv /\ Exited => SessionInv'
<1>1. SUFFICES ASSUME SessionInv, Exited PROVE SessionInv'
    OBVIOUS
<1>2. timer # None /\ UNCHANGED <<tab, disk, login>>
    BY <1>1 DEF Exited
<1>3. tab = timer.role /\ timer.role \in Roles /\ login = None /\ tab # None
    BY <1>1, <1>2, ConsoleAssumption DEF SessionInv, SessionAgrees, UnderWay, Success
<1>4. user' = tab /\ url' = tab /\ timer' = None
    BY <1>1, <1>2, <1>3 DEF Exited, SignedIn, Token
<1> QED BY <1>2, <1>3, <1>4 DEF SessionInv, SessionAgrees, UnderWay

LEMMA GrantedKeeps == SessionInv /\ Granted => SessionInv'
<1>1. SUFFICES ASSUME SessionInv, Granted PROVE SessionInv'
    OBVIOUS
<1>2. timer # None /\ timer' = [timer EXCEPT !.stage = "exiting"] /\ UNCHANGED <<tab, user, url, login, loading>>
    BY <1>1 DEF Granted, browser
<1>3. timer \in Success
    BY <1>1, <1>2 DEF SessionInv, UnderWay
<1>4. timer' \in Success /\ timer' # None /\ timer'.role = timer.role
    BY <1>2, <1>3, ConsoleAssumption DEF Success
<1> QED BY <1>1, <1>2, <1>4 DEF SessionInv, SessionAgrees, UnderWay

LEMMA LogoutKeeps == SessionInv /\ Logout => SessionInv'
BY DEF Logout, form, SessionInv, SessionAgrees, UnderWay

LEMMA StepKeeps == SessionInv /\ [Next]_vars => SessionInv'
<1>1. SUFFICES ASSUME SessionInv, [Next]_vars PROVE SessionInv'
    OBVIOUS
<1>2. CASE Reload \/ Rerender \/ Submit \/ ServeLogin \/ LoggedIn \/ Granted \/ Exited \/ Logout
    BY <1>1, <1>2, ReloadKeeps, RerenderKeeps, SubmitKeeps, ServeLoginKeeps, LoggedInKeeps,
       GrantedKeeps, ExitedKeeps, LogoutKeeps
<1>3. CASE LoginFailed
    <2>1. login' = None /\ login # None /\ UNCHANGED <<tab, user, url, timer>>
        BY <1>3 DEF LoginFailed, browser
    <2> QED BY <1>1, <2>1 DEF SessionInv, SessionAgrees, UnderWay
<1>4. ASSUME NEW r \in Roles, FillCredentials(r) PROVE SessionInv'
    BY <1>1, <1>4, OthersKeep DEF FillCredentials, browser, SessionInv, UnderWay
<1>5. ASSUME NEW r \in Roles \cup {None}, OtherTab(r) PROVE SessionInv'
    BY <1>1, <1>5, OthersKeep DEF OtherTab, form, SessionInv, UnderWay
<1>6. ASSUME NEW k \in {None, "unknown"}, Type(k) PROVE SessionInv'
    BY <1>1, <1>6, OthersKeep DEF Type, browser, SessionInv, UnderWay
<1>7. ASSUME UNCHANGED <<browser, form>> PROVE SessionInv'
    BY <1>1, <1>7, OthersKeep DEF browser, form, SessionInv, UnderWay
<1>8. ASSUME NEW f \in Flows, Select(f) PROVE UNCHANGED <<browser, form>>
    BY <1>8 DEF Select
<1>9. CASE Close \/ Draft \/ SubmitNote \/ Outage \/ ClearNotes
    BY <1>7, <1>9 DEF Close, Draft, SubmitNote, Outage, ClearNotes
<1>10. ASSUME NEW r \in reads, ServeRead(r) \/ Read(r) PROVE UNCHANGED <<browser, form>>
    BY <1>10 DEF ServeRead, Read
<1>11. ASSUME NEW p \in posts, AddNote(p) \/ Noted(p) PROVE UNCHANGED <<browser, form>>
    BY <1>11 DEF AddNote, Noted
<1>12. ASSUME NEW k \in AllKeys, Copy(k) \/ Fade(k) PROVE UNCHANGED <<browser, form>>
    BY <1>12 DEF Copy, Fade
<1>13. CASE UNCHANGED vars
    BY <1>7, <1>13 DEF vars
<1> QED BY <1>1, <1>2, <1>3, <1>4, <1>5, <1>6, <1>7, <1>8, <1>9, <1>10, <1>11, <1>12, <1>13 DEF Next

(* The user of the tab, the token it has stored and the address of its     *)
(* socket agree (App's user, the two storages, targetUrl), whichever tabs  *)
(* sign in and out, and at whatever point of a login the page is loaded    *)
(* again.                                                                  *)
THEOREM SessionIsOne == Spec => []SessionAgrees
<1>1. SessionInv => SessionAgrees
    BY DEF SessionInv
<1> QED BY InitSession, StepKeeps, <1>1, PTL DEF Spec
----------------------------------------------------------------------------
(***************************************************************************)
(* The notes.  No note is stored twice, and none before its request is     *)
(* taken up.  While the requests of a dossier do not overlap, it either    *)
(* waits for one listing of its flow, and for nothing else, or it shows    *)
(* what the archive has but for the notes whose answers are on their way.  *)
(***************************************************************************)
AnyNote == [id : Nat, flow : Flows]

ReadShaped(r) ==
    /\ r = [n |-> r.n, flow |-> r.flow, got |-> r.got, list |-> r.list]
    /\ r.flow \in Flows /\ r.got \in {"asked", "ok", "failed"} /\ r.list \in Seq(AnyNote)

PostShaped(p) ==
    /\ p = [note |-> p.note, got |-> p.got, alive |-> p.alive]
    /\ p.note \in AnyNote /\ p.note.id <= added /\ p.got \in {"asked", "ok", "failed"}

\* What is in the memory or in the table.
Sound(store) ==
    /\ store \in [Flows -> Seq(AnyNote)]
    /\ \A f \in Flows : /\ IsInjective(store[f])
                        /\ \A n \in ToSet(store[f]) : n.id <= added
                        /\ \A p \in posts : p.got = "asked" => p.note \notin ToSet(store[f])

ArchiveInv ==
    /\ selected \in Flows \cup {None} /\ added \in Nat /\ notes \in Seq(AnyNote)
    /\ \A r \in reads : ReadShaped(r)
    /\ \A p \in posts : PostShaped(p)
    /\ \A p, q \in posts : p.note = q.note => p = q
    /\ Sound(memory) /\ Sound(table)

\* One listing of the flow, and nothing else, is waited for.
Awaits(r) ==
    /\ notesLoading /\ posts = {} /\ reads = {r} /\ r.flow = selected
    /\ r.got = "ok" => r.list = Listing(selected)

\* The notes whose answers are on their way.
Late == {p.note : p \in {q \in posts : q.got # "asked"}}

Shows ==
    /\ \A p \in posts : p.alive /\ p.note.flow = selected
    /\ IsInjective(notes) /\ ToSet(notes) \cap Late = {}
    /\ ToSet(notes) \cup Late = ToSet(Listing(selected))

DossierInv ==
    user # None /\ selected # None /\ ~crossed =>
        /\ \A r \in reads : Awaits(r)
        /\ ~notesLoading => Shows

NotesInv == ArchiveInv /\ DossierInv

LEMMA AppendNew ==
    ASSUME NEW S, NEW seq \in Seq(S), NEW e \in S, e \notin ToSet(seq), IsInjective(seq)
    PROVE  /\ Append(seq, e) \in Seq(S) /\ IsInjective(Append(seq, e))
           /\ ToSet(Append(seq, e)) = ToSet(seq) \cup {e}
<1> DEFINE new == Append(seq, e)  n == Len(seq)
<1>1. n \in Nat /\ Len(new) = n + 1 /\ new \in Seq(S)
    OBVIOUS
<1>2. DOMAIN seq = 1..n /\ DOMAIN new = 1..(n + 1)
    BY <1>1
<1>3. new[n + 1] = e /\ \A i \in 1..n : new[i] = seq[i] /\ seq[i] # e
    BY <1>2 DEF ToSet
<1> HIDE DEF new, n
<1>4. ToSet(new) = ToSet(seq) \cup {e}
    BY <1>1, <1>2, <1>3 DEF ToSet
<1>5. IsInjective(new)
    BY <1>1, <1>2, <1>3 DEF IsInjective
<1> QED BY <1>1, <1>4, <1>5 DEF new

LEMMA InitNotes == Init => NotesInv
<1>1. SUFFICES ASSUME Init PROVE NotesInv
    OBVIOUS
<1>2. ToSet(<<>>) = {} /\ IsInjective(<<>>) /\ <<>> \in Seq(AnyNote)
    <2>1. DOMAIN <<>> = {}
        OBVIOUS
    <2> QED BY <2>1 DEF ToSet, IsInjective
<1>3. Sound(memory) /\ Sound(table)
    BY <1>1, <1>2 DEF Init, NoNotes, Sound
<1>4. ArchiveInv
    BY <1>1, <1>2, <1>3 DEF Init, ArchiveInv
<1>5. DossierInv
    BY <1>1 DEF Init, DossierInv
<1> QED BY <1>4, <1>5 DEF NotesInv

\* What is stored stays sound when no post is new, but for being dead.
LEMMA ArchiveStays ==
    ASSUME ArchiveInv, UNCHANGED <<memory, table, added>>,
           selected' \in Flows \cup {None}, notes' \in Seq(AnyNote),
           \A r \in reads' : ReadShaped(r),
           \/ posts' \subseteq posts
           \/ posts' = {[p EXCEPT !.alive = FALSE] : p \in posts}
    PROVE  ArchiveInv'
<1>1. CASE posts' \subseteq posts
    BY <1>1 DEF ArchiveInv, Sound, ReadShaped, PostShaped
<1>2. CASE posts' = {[p EXCEPT !.alive = FALSE] : p \in posts}
    <2>1. ASSUME NEW p \in posts'
          PROVE  \E q \in posts : p = [note |-> q.note, got |-> q.got, alive |-> FALSE]
        <3>1. PICK q \in posts : p = [q EXCEPT !.alive = FALSE]
            BY <1>2
        <3>2. p = [note |-> q.note, got |-> q.got, alive |-> FALSE]
            <4>1. q = [note |-> q.note, got |-> q.got, alive |-> q.alive]
                BY DEF ArchiveInv, PostShaped
            <4> QED BY <3>1, <4>1
        <3> QED BY <3>2
    <2>2. \A p \in posts' : PostShaped(p)'
        BY <2>1 DEF ArchiveInv, PostShaped
    <2>3. \A p, q \in posts' : p.note = q.note => p = q
        <3>1. SUFFICES ASSUME NEW p \in posts', NEW q \in posts', p.note = q.note PROVE p = q
            OBVIOUS
        <3>2. PICK x \in posts : p = [note |-> x.note, got |-> x.got, alive |-> FALSE]
            BY <2>1
        <3>3. PICK y \in posts : q = [note |-> y.note, got |-> y.got, alive |-> FALSE]
            BY <2>1
        <3>4. x = y
            BY <3>1, <3>2, <3>3 DEF ArchiveInv
        <3> QED BY <3>2, <3>3, <3>4
    <2>4. \A p \in posts' : p.got = "asked" => \E q \in posts : q.got = "asked" /\ q.note = p.note
        BY <2>1
    <2>5. Sound(memory)' /\ Sound(table)'
        BY <2>4 DEF ArchiveInv, Sound
    <2> QED BY <2>2, <2>3, <2>5 DEF ArchiveInv, ReadShaped
<1> QED BY <1>1, <1>2

\* The flow of an alert whose drawer is not shown is nobody's concern, and
\* neither is what has been crossed.
LEMMA NoDossier ==
    ASSUME user = None \/ selected = None \/ crossed
    PROVE  DossierInv
BY DEF DossierInv

LEMMA MountedKeeps ==
    ASSUME ArchiveInv, NEW f \in Flows, Mounted(f), selected' = f,
           UNCHANGED <<memory, table, added, posts, notes>>
    PROVE  NotesInv'
<1>1. PICK r : r = NewRead(f)
    OBVIOUS
<1>2. reads' = reads \cup {r} /\ notesLoading' = TRUE /\ crossed' = (reads # {} \/ posts # {})
    BY <1>1 DEF Mounted
<1>3. ReadShaped(r) /\ r.flow = f /\ r.got = "asked"
    BY <1>1 DEF NewRead, ReadShaped
<1>4. ArchiveInv'
    BY <1>2, <1>3, ArchiveStays DEF ArchiveInv
<1>5. DossierInv'
    BY <1>2, <1>3 DEF DossierInv, Awaits
<1> QED BY <1>4, <1>5 DEF NotesInv

LEMMA UnmountedKeeps ==
    ASSUME ArchiveInv, Unmounted, user' = None \/ selected' = None,
           UNCHANGED <<memory, table, added>>, selected' \in {selected, None}
    PROVE  NotesInv'
<1>1. notes' = <<>> /\ reads' = {} /\ posts' = {[p EXCEPT !.alive = FALSE] : p \in posts}
    BY DEF Unmounted
<1>2. ArchiveInv'
    BY <1>1, ArchiveStays DEF ArchiveInv
<1>3. DossierInv'
    BY DEF DossierInv
<1> QED BY <1>2, <1>3 DEF NotesInv

LEMMA OtherNotes ==
    ASSUME NotesInv, UNCHANGED <<user, selected, drawer, server, added, crossed>>
    PROVE  NotesInv'
BY DEF NotesInv, ArchiveInv, DossierInv, Awaits, Shows, Late, Listing, Sound, ReadShaped, PostShaped,
   drawer, server

\* An alert may be selected already when the analyst signs in.
LEMMA SignedInNotes ==
    ASSUME NotesInv, NEW r, SignedIn(r), UNCHANGED <<selected, notes, draft, posts, server, added>>
    PROVE  NotesInv'
<1>1. CASE selected = None
    <2>1. UNCHANGED <<reads, notesLoading, memory, table>>
        BY <1>1 DEF SignedIn, server
    <2>2. ArchiveInv'
        BY <2>1, ArchiveStays DEF NotesInv, ArchiveInv
    <2> QED BY <1>1, <2>2 DEF NotesInv, DossierInv
<1>2. CASE selected # None
    <2>1. Mounted(selected) /\ selected \in Flows
        BY <1>2 DEF SignedIn, NotesInv, ArchiveInv
    <2>2. PICK f \in Flows : f = selected
        BY <2>1
    <2> QED BY <2>1, <2>2, MountedKeeps DEF NotesInv, server
<1> QED BY <1>1, <1>2

LEMMA CloseNotes ==
    ASSUME NotesInv, Close
    PROVE  NotesInv'
<1>1. ArchiveInv'
    BY ArchiveStays DEF NotesInv, ArchiveInv, Close, drawer, server
<1> QED BY <1>1 DEF NotesInv, DossierInv, Close

LEMMA ReadNotes ==
    ASSUME NotesInv, NEW r \in reads, Read(r)
    PROVE  NotesInv'
<1>1. /\ reads' = reads \ {r} /\ notesLoading' = FALSE /\ r.got # "asked"
      /\ UNCHANGED <<selected, posts, memory, table, up, added, user>>
    BY DEF Read, browser, server
<1>2. ReadShaped(r) /\ <<>> \in Seq(AnyNote)
    BY DEF NotesInv, ArchiveInv
<1>3. notes' \in Seq(AnyNote)
    BY <1>2 DEF Read, ReadShaped
<1>4. ArchiveInv'
    BY <1>1, <1>3, ArchiveStays DEF NotesInv, ArchiveInv
<1>5. ASSUME user # None, selected # None, ~crossed'
      PROVE  (\A q \in reads : Awaits(q))' /\ Shows'
    <2>1. ~crossed /\ notes' = r.list /\ r.got # "failed"
        BY <1>5 DEF Read
    <2>2. Awaits(r)
        BY <1>5, <2>1 DEF NotesInv, DossierInv
    <2>3. posts = {} /\ reads' = {} /\ Late' = {}
        BY <1>1, <2>2 DEF Awaits, Late
    <2>4. r.list = Listing(selected)
        BY <1>1, <1>2, <2>1, <2>2 DEF ReadShaped, Awaits
    <2>5. IsInjective(Listing(selected))
        BY <1>5 DEF NotesInv, ArchiveInv, Sound, Listing
    <2>6. Listing(selected)' = Listing(selected)
        BY <1>1 DEF Listing
    <2>7. Shows'
        BY <2>1, <2>3, <2>4, <2>5, <2>6, <1>1, <2>2 DEF Shows, Awaits
    <2> QED BY <2>3, <2>7
<1> QED BY <1>1, <1>4, <1>5 DEF NotesInv, DossierInv
\* The number of the note is that of no other one.
LEMMA SubmitNotes ==
    ASSUME NotesInv, SubmitNote
    PROVE  NotesInv'
<1>1. PICK p : p = [note |-> [id |-> added + 1, flow |-> selected], got |-> "asked", alive |-> TRUE]
    OBVIOUS
<1>2. /\ added' = added + 1 /\ posts' = posts \cup {p} /\ crossed' = (crossed \/ reads # {})
      /\ user # None /\ selected # None
      /\ UNCHANGED <<selected, user, notes, notesLoading, reads, up, memory, table>>
    BY <1>1 DEF SubmitNote, CanAddNote, browser, server
<1>3. /\ added \in Nat /\ selected \in Flows
      /\ \A q \in posts : PostShaped(q) /\ q.note.id <= added /\ q.note.id \in Nat
    BY <1>2 DEF NotesInv, ArchiveInv, PostShaped, AnyNote
<1>4. /\ p.note \in AnyNote /\ p.note.id = added + 1 /\ p.note.flow = selected
      /\ p.got = "asked" /\ p.alive /\ p = [note |-> p.note, got |-> p.got, alive |-> p.alive]
    BY <1>1, <1>3 DEF AnyNote
<1>5. \A q \in posts' : PostShaped(q)'
    BY <1>2, <1>3, <1>4 DEF PostShaped
<1>6. \A q \in posts : q.note # p.note
    BY <1>3, <1>4
<1>7. \A x, y \in posts' : x.note = y.note => x = y
    BY <1>2, <1>6 DEF NotesInv, ArchiveInv
<1>8. Sound(memory)' /\ Sound(table)'
    <2>1. \A f \in Flows : \A n \in ToSet(memory[f]) \cup ToSet(table[f]) :
              n \in AnyNote /\ n.id <= added /\ n.id \in Nat
        <3>1. \A f \in Flows : memory[f] \in Seq(AnyNote) /\ table[f] \in Seq(AnyNote)
            BY DEF NotesInv, ArchiveInv, Sound
        <3>2. \A f \in Flows : ToSet(memory[f]) \subseteq AnyNote /\ ToSet(table[f]) \subseteq AnyNote
            BY <3>1 DEF ToSet
        <3> QED BY <3>2 DEF NotesInv, ArchiveInv, Sound, AnyNote
    <2>2. \A f \in Flows : \A n \in ToSet(memory[f]) \cup ToSet(table[f]) : n.id <= added + 1 /\ n # p.note
        BY <2>1, <1>3, <1>4
    <2> QED BY <1>2, <2>2 DEF NotesInv, ArchiveInv, Sound
<1>9. ArchiveInv'
    BY <1>2, <1>3, <1>5, <1>7, <1>8 DEF NotesInv, ArchiveInv, ReadShaped
<1>10. ASSUME ~crossed'
       PROVE  (\A r \in reads : Awaits(r))' /\ (~notesLoading => Shows)'
    <2>1. reads = {} /\ ~crossed
        BY <1>2, <1>10
    <2>2. ~notesLoading => Shows
        BY <1>2, <2>1 DEF NotesInv, DossierInv
    <2>3. Late' = Late
        BY <1>2, <1>4 DEF Late
    <2>4. (~notesLoading => Shows)'
        BY <1>2, <1>4, <2>2, <2>3 DEF Shows, Listing
    <2> QED BY <1>2, <2>1, <2>4
<1> QED BY <1>9, <1>10 DEF NotesInv, DossierInv

LEMMA NotedNotes ==
    ASSUME NotesInv, NEW p \in posts, Noted(p)
    PROVE  NotesInv'
<1>1. /\ posts' = posts \ {p} /\ crossed' = (crossed \/ p.got = "failed") /\ p.got # "asked"
      /\ UNCHANGED <<selected, user, notesLoading, reads, up, memory, table, added>>
      /\ notes' = IF p.alive /\ p.got = "ok" THEN Append(notes, p.note) ELSE notes
    BY DEF Noted, browser, server
<1>2. PostShaped(p) /\ p.note \in AnyNote /\ notes \in Seq(AnyNote)
    BY DEF NotesInv, ArchiveInv, PostShaped
<1>3. notes' \in Seq(AnyNote)
    BY <1>1, <1>2
<1>4. ArchiveInv'
    BY <1>1, <1>3, ArchiveStays DEF NotesInv, ArchiveInv
<1>5. ASSUME user # None, selected # None, ~crossed'
      PROVE  (\A r \in reads : Awaits(r))' /\ (~notesLoading => Shows)'
    <2>1. ~crossed /\ p.got = "ok"
        BY <1>1, <1>2, <1>5 DEF PostShaped
    <2>2. reads = {}
        BY <1>5, <2>1 DEF NotesInv, DossierInv, Awaits
    <2>3. ASSUME ~notesLoading PROVE Shows'
        <3>1. Shows
            BY <1>5, <2>1, <2>3 DEF NotesInv, DossierInv
        <3>2. p.note \in Late /\ p.alive
            BY <2>1, <3>1 DEF Late, Shows
        <3>3. Late' = Late \ {p.note}
            BY <1>1 DEF Late, NotesInv, ArchiveInv
        <3>4. notes' = Append(notes, p.note) /\ p.note \notin ToSet(notes) /\ IsInjective(notes)
            BY <1>1, <2>1, <3>1, <3>2 DEF Shows
        <3>5. IsInjective(notes') /\ ToSet(notes') = ToSet(notes) \cup {p.note}
            BY <1>2, <3>4, AppendNew
        <3>6. ToSet(notes)' = ToSet(notes') /\ IsInjective(notes)' = IsInjective(notes')
              /\ ToSet(Listing(selected))' = ToSet(Listing(selected))
            BY <1>1 DEF ToSet, IsInjective, Listing
        <3> QED BY <1>1, <3>1, <3>2, <3>3, <3>5, <3>6 DEF Shows
    <2> QED BY <1>1, <2>2, <2>3
<1> QED BY <1>1, <1>4, <1>5 DEF NotesInv, DossierInv

LEMMA ServeReadNotes ==
    ASSUME NotesInv, NEW r \in reads, ServeRead(r)
    PROVE  NotesInv'
<1>1. /\ UNCHANGED <<selected, user, notes, notesLoading, posts, up, memory, table, added>>
      /\ r.got = "asked"
    BY DEF ServeRead, browser, server
<1>2. PICK got \in {"ok", "failed"}, list \in Seq(AnyNote) :
          /\ reads' = (reads \ {r}) \cup {[r EXCEPT !.got = got, !.list = list]}
          /\ crossed' \/ (crossed' = crossed /\ got = "ok" /\ list = Listing(r.flow))
    <2> DEFINE Answer(got, list) == reads' = (reads \ {r}) \cup {[r EXCEPT !.got = got, !.list = list]}
    <2>1. r.flow \in Flows /\ Listing(r.flow) \in Seq(AnyNote) /\ memory[r.flow] \in Seq(AnyNote)
          /\ <<>> \in Seq(AnyNote)
        BY DEF NotesInv, ArchiveInv, ReadShaped, Sound, Listing
    <2>2. CASE Answer("ok", Listing(r.flow)) /\ UNCHANGED crossed
        BY <2>1, <2>2
    <2>3. CASE Answer("ok", memory[r.flow]) /\ crossed'
        BY <2>1, <2>3
    <2>4. CASE Answer("failed", <<>>) /\ crossed'
        BY <2>1, <2>4
    <2> QED BY <2>2, <2>3, <2>4 DEF ServeRead
<1>3. PICK s : s = [r EXCEPT !.got = got, !.list = list]
    OBVIOUS
<1>4. r = [n |-> r.n, flow |-> r.flow, got |-> r.got, list |-> r.list] /\ r.flow \in Flows
    BY DEF NotesInv, ArchiveInv, ReadShaped
<1>5. s = [n |-> r.n, flow |-> r.flow, got |-> got, list |-> list]
    BY <1>3, <1>4
<1>6. ReadShaped(s) /\ s.flow = r.flow /\ s.got = got /\ s.list = list
    BY <1>4, <1>5 DEF ReadShaped
<1>7. reads' = (reads \ {r}) \cup {s}
    BY <1>2, <1>3
<1>8. \A q \in reads' : ReadShaped(q)
    BY <1>6, <1>7 DEF NotesInv, ArchiveInv
<1>9. ArchiveInv'
    BY <1>1, <1>8, ArchiveStays DEF NotesInv, ArchiveInv
<1>10. ASSUME user # None, selected # None, ~crossed'
       PROVE  (\A q \in reads : Awaits(q))' /\ notesLoading'
    <2>1. crossed' = crossed /\ ~crossed /\ list = Listing(r.flow)
        BY <1>2, <1>10
    <2>2. Awaits(r)
        BY <1>10, <2>1 DEF NotesInv, DossierInv
    <2>3. reads' = {s} /\ r.flow = selected
        BY <1>7, <2>2 DEF Awaits
    <2>4. Awaits(s)'
        BY <1>1, <1>6, <2>1, <2>2, <2>3 DEF Awaits, Listing
    <2> QED BY <1>1, <2>2, <2>3, <2>4 DEF Awaits
<1> QED BY <1>1, <1>9, <1>10 DEF NotesInv, DossierInv
LEMMA StoredOnce ==
    ASSUME NEW store \in [Flows -> Seq(AnyNote)], NEW note \in AnyNote,
           \A f \in Flows : IsInjective(store[f]), note \notin ToSet(store[note.flow])
    PROVE  /\ Stored(store, note) \in [Flows -> Seq(AnyNote)]
           /\ \A f \in Flows : /\ IsInjective(Stored(store, note)[f])
                               /\ ToSet(Stored(store, note)[f]) =
                                     IF f = note.flow THEN ToSet(store[f]) \cup {note} ELSE ToSet(store[f])
<1>1. note.flow \in Flows /\ store[note.flow] \in Seq(AnyNote)
    BY DEF AnyNote
<1>2. PICK longer : longer = Append(store[note.flow], note)
    OBVIOUS
<1>3. /\ longer \in Seq(AnyNote) /\ IsInjective(longer)
      /\ ToSet(longer) = ToSet(store[note.flow]) \cup {note}
    BY <1>1, <1>2, AppendNew
<1>4. Stored(store, note) = [store EXCEPT ![note.flow] = longer]
    BY <1>2 DEF Stored
<1> QED BY <1>1, <1>3, <1>4

\* A request that is taken up stores its note in the memory, in the table too
\* or not at all; it is stored where a listing finds it unless something fails.
LEMMA AddNotes ==
    ASSUME NotesInv, NEW p \in posts, AddNote(p)
    PROVE  NotesInv'
<1>1. /\ UNCHANGED <<selected, user, notes, notesLoading, reads, up, added>>
      /\ p.got = "asked"
      /\ \/ memory' = Stored(memory, p.note) /\ table' = (IF up THEN Stored(table, p.note) ELSE table)
            /\ crossed' = crossed
         \/ memory' = Stored(memory, p.note) /\ table' = table /\ crossed'
         \/ memory' = memory /\ table' = table /\ crossed'
    BY DEF AddNote, browser
<1>2. PICK got \in {"ok", "failed"} : posts' = (posts \ {p}) \cup {[p EXCEPT !.got = got]}
    <2>1. PICK g \in {"ok", "failed"} :
              posts' = (posts \ {p}) \cup {[p EXCEPT !.got = IF memory' = memory THEN "failed" ELSE g]}
        BY DEF AddNote
    <2>2. PICK h : h = IF memory' = memory THEN "failed" ELSE g
        OBVIOUS
    <2> QED BY <2>1, <2>2
<1>3. p = [note |-> p.note, got |-> p.got, alive |-> p.alive] /\ p.note \in AnyNote /\ p.note.id <= added
    BY DEF NotesInv, ArchiveInv, PostShaped
<1>4. PICK s : s = [note |-> p.note, got |-> got, alive |-> p.alive]
    OBVIOUS
<1>5. posts' = (posts \ {p}) \cup {s}
    BY <1>2, <1>3, <1>4
<1>6. s.note = p.note /\ s.got = got /\ s.alive = p.alive /\ s.got # "asked"
    BY <1>4
<1>7. (\A q \in posts : PostShaped(q))'
    BY <1>1, <1>3, <1>4, <1>5, <1>6 DEF NotesInv, ArchiveInv, PostShaped
<1>8. \A q, r \in posts' : q.note = r.note => q = r
    BY <1>5, <1>6 DEF NotesInv, ArchiveInv
<1>9. \A q \in posts' : q.got = "asked" => q \in posts /\ q.note # p.note
    BY <1>5, <1>6 DEF NotesInv, ArchiveInv
<1>10. /\ Stored(memory, p.note) \in [Flows -> Seq(AnyNote)]
       /\ \A f \in Flows : /\ IsInjective(Stored(memory, p.note)[f])
                           /\ ToSet(Stored(memory, p.note)[f]) =
                                 IF f = p.note.flow THEN ToSet(memory[f]) \cup {p.note} ELSE ToSet(memory[f])
       /\ Stored(table, p.note) \in [Flows -> Seq(AnyNote)]
       /\ \A f \in Flows : /\ IsInjective(Stored(table, p.note)[f])
                           /\ ToSet(Stored(table, p.note)[f]) =
                                 IF f = p.note.flow THEN ToSet(table[f]) \cup {p.note} ELSE ToSet(table[f])
    <2>1. p.note.flow \in Flows
        BY <1>3 DEF AnyNote
    <2> QED BY <1>1, <1>3, <2>1, StoredOnce DEF NotesInv, ArchiveInv, Sound
<1>11. ASSUME NEW store, store \in {memory, table, Stored(memory, p.note), Stored(table, p.note)}
       PROVE  /\ store \in [Flows -> Seq(AnyNote)]
              /\ \A f \in Flows :
                    /\ IsInjective(store[f])
                    /\ \A n \in ToSet(store[f]) : n.id <= added
                    /\ \A q \in posts' : q.got = "asked" => q.note \notin ToSet(store[f])
    <2>1. CASE store = memory \/ store = table
        BY <1>9, <2>1 DEF NotesInv, ArchiveInv, Sound
    <2>2. CASE store = Stored(memory, p.note)
        BY <1>3, <1>9, <1>10, <2>2 DEF NotesInv, ArchiveInv, Sound
    <2>3. CASE store = Stored(table, p.note)
        BY <1>3, <1>9, <1>10, <2>3 DEF NotesInv, ArchiveInv, Sound
    <2> QED BY <1>11, <2>1, <2>2, <2>3
<1>12. Sound(memory)' /\ Sound(table)'
    <2>1. memory' \in {memory, Stored(memory, p.note)} /\ table' \in {table, Stored(table, p.note)}
        BY <1>1
    <2> QED BY <1>1, <1>11, <2>1 DEF Sound
<1>13. ArchiveInv'
    BY <1>1, <1>7, <1>8, <1>12 DEF NotesInv, ArchiveInv, ReadShaped
<1>14. ASSUME user # None, selected # None, ~crossed'
       PROVE  (\A r \in reads : Awaits(r))' /\ (~notesLoading => Shows)'
    <2>1. ~crossed /\ memory' = Stored(memory, p.note) /\ table' = IF up THEN Stored(table, p.note) ELSE table
        BY <1>1, <1>14
    <2>2. reads = {}
        BY <1>14, <2>1 DEF NotesInv, DossierInv, Awaits
    <2>3. ASSUME ~notesLoading PROVE Shows'
        <3>1. Shows /\ p.note.flow = selected /\ selected \in Flows
            BY <1>14, <2>1, <2>3 DEF NotesInv, DossierInv, Shows, ArchiveInv
        <3>2. ToSet(Listing(selected))' = ToSet(Listing(selected)) \cup {p.note}
            <4>1. Listing(selected)' = IF up THEN Stored(table, p.note)[selected] ELSE Stored(memory, p.note)[selected]
                BY <1>1, <2>1 DEF Listing
            <4>2. ToSet(Listing(selected))' = ToSet(Listing(selected)')
                BY DEF ToSet
            <4> QED BY <1>10, <3>1, <4>1, <4>2 DEF Listing
        <3>3. Late' = Late \cup {p.note}
            BY <1>1, <1>5, <1>6 DEF Late
        <3>4. p.note \notin ToSet(notes)
            <4>1. p.note \notin ToSet(Listing(selected))
                BY <1>1, <3>1 DEF NotesInv, ArchiveInv, Sound, Listing
            <4> QED BY <3>1, <4>1 DEF Shows
        <3>5. \A q \in posts' : q.alive /\ q.note.flow = selected
            BY <1>5, <1>6, <3>1 DEF Shows
        <3>6. ToSet(notes)' = ToSet(notes) /\ IsInjective(notes)'
            BY <1>1, <3>1 DEF ToSet, IsInjective, Shows
        <3> QED BY <1>1, <3>1, <3>2, <3>3, <3>4, <3>5, <3>6 DEF Shows
    <2> QED BY <1>1, <2>2, <2>3
<1> QED BY <1>1, <1>13, <1>14 DEF NotesInv, DossierInv

LEMMA ClearedNotes ==
    ASSUME NotesInv, ClearNotes
    PROVE  NotesInv'
<1>1. \A f \in Flows : NoNotes[f] = <<>> /\ ToSet(NoNotes[f]) = {} /\ IsInjective(NoNotes[f])
    <2>1. DOMAIN <<>> = {}
        OBVIOUS
    <2> QED BY <2>1 DEF NoNotes, ToSet, IsInjective
<1>2. NoNotes \in [Flows -> Seq(AnyNote)]
    BY DEF NoNotes
<1>3. /\ memory' = NoNotes /\ table' \in {table, NoNotes} /\ crossed'
      /\ UNCHANGED <<selected, notes, reads, posts, added>>
    BY DEF ClearNotes, drawer
<1>4. Sound(memory)' /\ Sound(table)'
    BY <1>1, <1>2, <1>3 DEF NotesInv, ArchiveInv, Sound
<1>5. ArchiveInv'
    BY <1>3, <1>4 DEF NotesInv, ArchiveInv, ReadShaped, PostShaped
<1> QED BY <1>3, <1>5 DEF NotesInv, DossierInv

LEMMA StepNotes ==
    ASSUME NotesInv, [Next]_vars
    PROVE  NotesInv'
<1>1. CASE Reload
    BY <1>1, UnmountedKeeps DEF Reload, NotesInv, server
<1>2. CASE Logout
    BY <1>2, UnmountedKeeps DEF Logout, NotesInv, server
<1>3. CASE LoggedIn
    <2>1. CASE motion
        BY <1>3, <2>1, OtherNotes DEF LoggedIn, drawer
    <2>2. CASE ~motion
        BY <1>3, <2>2, SignedInNotes DEF LoggedIn
    <2> QED BY <2>1, <2>2
<1>4. CASE Exited
    BY <1>4, SignedInNotes DEF Exited
<1>5. ASSUME NEW f \in Flows, Select(f) PROVE NotesInv'
    BY <1>5, MountedKeeps DEF Select, NotesInv, server
<1>6. CASE Draft
    BY <1>6 DEF Draft, NotesInv, ArchiveInv, DossierInv, Awaits, Shows, Late, Listing, Sound,
       ReadShaped, PostShaped, browser, server
<1>7. CASE Outage
    <2>1. ArchiveInv'
        BY <1>7, ArchiveStays DEF Outage, NotesInv, ArchiveInv, drawer
    <2> QED BY <1>7, <2>1 DEF Outage, NotesInv, DossierInv
<1>8. ASSUME UNCHANGED <<user, selected, drawer, server, added, crossed>> PROVE NotesInv'
    BY <1>8, OtherNotes
<1>9. Rerender \/ Submit \/ ServeLogin \/ LoginFailed \/ Granted
        => UNCHANGED <<user, selected, drawer, server, added, crossed>>
    BY DEF Rerender, Submit, ServeLogin, LoginFailed, Granted, browser
<1>10. ASSUME NEW x, FillCredentials(x) \/ OtherTab(x) \/ Type(x) \/ Copy(x) \/ Fade(x)
       PROVE  UNCHANGED <<user, selected, drawer, server, added, crossed>>
    BY <1>10 DEF FillCredentials, OtherTab, Type, Copy, Fade, browser
<1>11. CASE UNCHANGED vars
    BY <1>8, <1>11 DEF vars, browser
<1>12. CASE \/ Rerender \/ Submit \/ ServeLogin \/ LoginFailed \/ Granted
            \/ \E r \in Roles : FillCredentials(r)
            \/ \E r \in Roles \cup {None} : OtherTab(r)
            \/ \E c \in {None, "unknown"} : Type(c)
            \/ \E k \in AllKeys : Copy(k) \/ Fade(k)
    BY <1>8, <1>9, <1>10, <1>12
<1>13. CASE \/ Close \/ SubmitNote \/ ClearNotes
            \/ \E r \in reads : ServeRead(r) \/ Read(r)
            \/ \E p \in posts : AddNote(p) \/ Noted(p)
    BY <1>13, CloseNotes, SubmitNotes, ClearedNotes, ServeReadNotes, ReadNotes, AddNotes, NotedNotes
<1> QED BY <1>1, <1>2, <1>3, <1>4, <1>5, <1>6, <1>7, <1>11, <1>12, <1>13 DEF Next

(* What a dossier shows is what the archive lists for its flow, each note  *)
(* once (submitNote and the effect of ForensicDrawer, add_note and         *)
(* get_notes of the archive), for any flows and any number of notes, unless*)
(* its requests overlapped or something failed.                            *)
THEOREM DossierAgrees == Spec => []NotesAgree
<1>1. NotesInv => NotesAgree
    BY DEF NotesInv, DossierInv, Shows, Late, NotesAgree, NotesShown
<1> QED BY InitNotes, StepNotes, <1>1, PTL DEF Spec
----------------------------------------------------------------------------
(* The labels of the copy buttons: one that says COPIED has a timer.       *)

LabelInv ==
    /\ fades \in [AllKeys -> Nat]
    /\ copied # None => copied \in AllKeys /\ fades[copied] > 0

LEMMA InitLabels == Init => LabelInv
BY DEF Init, LabelInv

LEMMA CopyLabels ==
    ASSUME LabelInv, NEW k \in AllKeys, Copy(k) \/ Fade(k)
    PROVE  LabelInv' /\ (copied # None /\ copied' # copied =>
                            copied' # None \/ fades'[copied] < fades[copied])
<1>1. CASE Copy(k)
    <2>1. copied' = k /\ fades' = [fades EXCEPT ![k] = fades[k] + 1]
        BY <1>1 DEF Copy
    <2>2. fades' \in [AllKeys -> Nat] /\ fades'[k] > 0
        BY <2>1 DEF LabelInv
    <2>3. copied' = k /\ k # None
        BY <2>1, KeysAssumption
    <2> QED BY <2>2, <2>3 DEF LabelInv
<1>2. CASE Fade(k)
    <2>1. fades' \in [AllKeys -> Nat] /\ fades'[k] = fades[k] - 1 /\ fades[k] \in Nat
          /\ \A j \in AllKeys : j # k => fades'[j] = fades[j]
        BY <1>2 DEF Fade, LabelInv
    <2> QED BY <1>2, <2>1 DEF Fade, LabelInv
<1> QED BY <1>1, <1>2

LEMMA UnmountedLabels ==
    ASSUME LabelInv, Unmounted
    PROVE  LabelInv' /\ (copied # None => fades'[copied] < fades[copied])
<1>1. copied' = None /\ fades' = [k \in AllKeys |-> 0]
    BY DEF Unmounted
<1> QED BY <1>1 DEF LabelInv

LEMMA StepLabels ==
    ASSUME LabelInv, [Next]_vars
    PROVE  LabelInv' /\ (copied # None /\ copied' # copied =>
                            copied' # None \/ fades'[copied] < fades[copied])
<1>1. CASE Reload
    BY <1>1, UnmountedLabels DEF Reload
<1>2. CASE Logout
    BY <1>2, UnmountedLabels DEF Logout
<1>3. CASE \E k \in AllKeys : Copy(k) \/ Fade(k)
    BY <1>3, CopyLabels
<1>4. ASSUME UNCHANGED <<copied, fades>>
      PROVE  LabelInv' /\ (copied # None /\ copied' # copied =>
                            copied' # None \/ fades'[copied] < fades[copied])
    BY <1>4 DEF LabelInv
<1>5. CASE ~(Reload \/ Logout \/ \E k \in AllKeys : Copy(k) \/ Fade(k))
    <2>1. UNCHANGED <<copied, fades>>
        BY <1>5 DEF Next, vars, copies, Rerender, Submit, ServeLogin, LoggedIn, LoginFailed, Granted,
           Exited, FillCredentials, OtherTab, Type, Select, Close, Draft, SubmitNote, Outage,
           ClearNotes, ServeRead, Read, AddNote, Noted
    <2> QED BY <1>4, <2>1
<1> QED BY <1>1, <1>2, <1>3, <1>5

(* A label is taken away by a timer of its own field (handleCopy of the    *)
(* dossier compares the field), by another copy or with the dashboard, and *)
(* always has a timer, for any number of buttons and timers.               *)
THEOREM LabelsStand == Spec => LabelStands
<1>1. LabelInv /\ [Next]_vars => LabelInv'
    BY StepLabels
<1>2. LabelInv /\ [Next]_vars =>
          [/\ copied # None /\ copied' # copied => copied' # None \/ fades'[copied] < fades[copied]
           /\ copied' # None => fades'[copied'] > 0]_vars
    BY StepLabels DEF LabelInv
<1> QED BY InitLabels, <1>1, <1>2, PTL DEF Spec, LabelStands
=============================================================================
