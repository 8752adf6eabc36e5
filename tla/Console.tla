------------------------------- MODULE Console -------------------------------
(***************************************************************************)
(* A tab of the dashboard: the session (App in frontend/src/App.tsx, the   *)
(* LoginPage and the address the hook useThreatSocket connects to) and the *)
(* dossier of an alert (components/ForensicDrawer.tsx) with the analysts'  *)
(* notes, kept by the archive (backend/app/storage.py).                    *)
(*                                                                         *)
(* A step is a handler with the render and the effects that follow it, a   *)
(* timer, the answer to a request, or the server taking one up.  The       *)
(* analyst of a behaviour signs in and out, writes notes, writes a note    *)
(* while things fail, or copies.                                           *)
(***************************************************************************)
EXTENDS SequencesExt, FiniteSetsExt

CONSTANTS Roles, Analyst,    \* the accounts, and the one that writes notes
          Flows,             \* flows an alert of which may be selected
          ClassOf,           \* ... and the threat class of each
          None,
          MaxNotes,          \* bound on the notes that are asked for
          MaxRisked,         \* ... when things fail
          MaxReads,          \* bound on the requests for notes in flight
          MaxTimers          \* bound on the timers of copied labels

ASSUME ConsoleAssumption ==
    /\ Analyst \in Roles /\ None \notin Roles \cup Flows
    /\ None \notin [stage : {"granted", "exiting"}, role : Roles]
    /\ DOMAIN ClassOf = Flows
    /\ MaxNotes \in Nat /\ MaxReads \in Nat /\ MaxTimers \in Nat /\ MaxRisked \in 0..MaxNotes

VARIABLES
    work, motion,           \* what the analyst does; useMotionEnabled
    tab, disk,              \* whose token sessionStorage and localStorage hold
    user, url,              \* App's user; whose token targetUrl has
    creds, loading, error,  \* the login form
    login, timer,           \* the login request; the timers of the success
    selected,               \* the flow of selectedAlert
    notes, notesLoading,    \* of the drawer
    draft,                  \* noteText is not blank
    reads, posts,           \* requests of the drawer
    up, memory, table,      \* the archive: ClickHouse answers; where notes are
    added,                  \* number of notes that were asked for
    crossed,                \* history: requests overlapped or something failed
    copied, fades, clipboard \* copiedKey; its timers by key; the clipboard

browser == <<tab, disk, user, url>>
form    == <<creds, loading, error, login, timer>>
drawer  == <<notes, notesLoading, draft, reads, posts>>
server  == <<up, memory, table>>
copies  == <<copied, fades, clipboard>>
vars    == <<work, motion, browser, form, selected, drawer, server, added, crossed, copies>>

\* The sections of getEvidenceVisibility that have copy buttons, with these.
SectionKeys(c) ==
    CASE c = "Botnet C2 Beaconing" -> {"c2-ja3", "c2-ja4"}
      [] c = "DGA & DNS Tunneling" -> {"dns-query"}
      [] c = "Encrypted Malware"   -> {"malware-ja3", "mw-ja3-inline", "mw-ja4-inline"}
      [] OTHER                     -> {}
Keys(f) == {"flow-id", "src-ip", "dest-ip", "raw-json"} \cup SectionKeys(ClassOf[f])
AllKeys == UNION {Keys(f) : f \in Flows}

ASSUME KeysAssumption == None \notin AllKeys

\* The notes of each flow, in memory or in the table: a listing is of one flow.
NoNotes == [f \in Flows |-> <<>>]

\* The network, ClickHouse and the server may fail.
Faults == work = "failures"

Init ==
    /\ work \in {"session", "notes", "failures", "copy"}
    /\ motion \in BOOLEAN /\ (motion => work = "session")
    /\ disk \in Roles \cup {None}
    /\ tab = (IF work = "session" THEN None ELSE disk) /\ (work # "session" => disk = Analyst)
    /\ user = tab /\ url = (IF work = "session" THEN disk ELSE tab)
    /\ creds = None /\ loading = FALSE /\ error = FALSE /\ login = None /\ timer = None
    /\ selected = None /\ notes = <<>> /\ notesLoading = FALSE /\ draft = FALSE
    /\ reads = {} /\ posts = {}
    /\ up \in BOOLEAN /\ (work = "failures" \/ up) /\ memory = NoNotes /\ table = NoNotes /\ added = 0
    /\ crossed = FALSE /\ copied = None /\ fades = [k \in AllKeys |-> 0] /\ clipboard = None
----------------------------------------------------------------------------
(* The dossier's effect on the flow and its unmounting.                    *)

NewRead(f) == [n |-> Min((1..MaxReads + 1) \ {r.n : r \in reads}), flow |-> f, got |-> "asked", list |-> <<>>]

\* The drawer is rendered with an alert of flow f: its notes are asked for.
Mounted(f) ==
    /\ notesLoading' = TRUE
    /\ reads' = reads \cup {NewRead(f)}
    /\ crossed' = (reads # {} \/ posts # {})

\* App does not render the drawer: its state goes, answers and timers find nothing.
Unmounted ==
    /\ notes' = <<>> /\ notesLoading' = FALSE /\ draft' = FALSE /\ reads' = {}
    /\ posts' = {[p EXCEPT !.alive = FALSE] : p \in posts}
    /\ copied' = None /\ fades' = [k \in AllKeys |-> 0]
----------------------------------------------------------------------------
(* The session.                                                            *)

\* A bug: the token any tab stored last.
TokenOfAll(s, l) == IF l # None THEN l ELSE s

\* The token in targetUrl, from what the two storages hold.
Token(s, l) == IF s # None THEN s ELSE l

\* The page is loaded again: App takes the user from sessionStorage.
Reload ==
    /\ user' = tab /\ url' = Token(tab, disk) /\ selected' = None
    /\ creds' = None /\ loading' = FALSE /\ error' = FALSE /\ login' = None /\ timer' = None
    /\ Unmounted
    /\ UNCHANGED <<work, motion, tab, disk, server, added, crossed, clipboard>>

\* App is rendered again, because an alert arrived.
Rerender ==
    /\ url # Token(tab, disk)
    /\ url' = Token(tab, disk)
    /\ UNCHANGED <<work, motion, tab, disk, user, form, selected, drawer, server, added, crossed, copies>>

\* Another tab signs in or out.
OtherTab(r) ==
    /\ work = "session"
    /\ disk' = r
    /\ UNCHANGED <<work, motion, tab, user, url, form, selected, drawer, server, added, crossed, copies>>

\* The buttons of the two accounts stay enabled while a login is under way.
CanFill(r) == user = None /\ (work # "session" => r = Analyst)

\* fillCredentials
FillCredentials(r) ==
    /\ CanFill(r)
    /\ creds' = r /\ error' = FALSE
    /\ UNCHANGED <<work, motion, browser, loading, login, timer, selected, drawer, server, added, crossed, copies>>

\* The inputs: nothing, or what is no account's.
Type(c) ==
    /\ user = None /\ ~loading /\ work = "session"
    /\ creds' = c /\ error' \in {error, FALSE}
    /\ UNCHANGED <<work, motion, browser, loading, login, timer, selected, drawer, server, added, crossed, copies>>

\* The button is disabled while a login is under way, and after its success.
CanSubmit == user = None /\ ~loading

\* handleSubmit
Submit ==
    /\ CanSubmit
    /\ \/ creds = None /\ error' = TRUE /\ UNCHANGED <<loading, login>>
       \/ creds # None /\ loading' = TRUE /\ error' = FALSE /\ login' = [creds |-> creds, got |-> "asked"]
    /\ UNCHANGED <<work, motion, browser, creds, timer, selected, drawer, server, added, crossed, copies>>

\* POST /api/auth/login: the token of the account, 401, or a failure.
ServeLogin ==
    /\ login # None /\ login.got = "asked"
    /\ \E got \in {IF login.creds \in Roles THEN login.creds ELSE "failed"} \cup (IF work = "session" THEN {"failed"} ELSE {}) :
          login' = [login EXCEPT !.got = got]
    /\ UNCHANGED <<work, motion, browser, creds, loading, error, timer, selected, drawer, server, added, crossed, copies>>

\* setUser, with which App replaces the form by the dashboard.  An alert that
\* was selected when the last user signed out is still.
SignedIn(r) ==
    /\ user' = r /\ url' = Token(tab', disk')
    /\ creds' = None /\ loading' = FALSE /\ error' = FALSE /\ timer' = None
    /\ IF selected = None THEN UNCHANGED <<notesLoading, reads, crossed>> ELSE Mounted(selected)

\* ... the login's answer: the token is stored, and then the user set, after
\* two timers when motion is enabled.
LoggedIn ==
    /\ login # None /\ login.got \in Roles
    /\ login' = None /\ tab' = login.got /\ disk' = login.got
    /\ IF motion
       THEN /\ timer' = [stage |-> "granted", role |-> login.got]
            /\ UNCHANGED <<user, url, creds, loading, error, notesLoading, reads, crossed>>
       ELSE SignedIn(login.got)
    /\ UNCHANGED <<work, motion, selected, notes, draft, posts, server, added, copies>>

\* A bug: the form stays disabled.
LoginFailedLoading ==
    /\ login # None /\ login.got = "failed"
    /\ login' = None /\ error' = TRUE
    /\ UNCHANGED <<work, motion, browser, creds, loading, timer, selected, drawer, server, added, crossed, copies>>

LoginFailed ==
    /\ login # None /\ login.got = "failed"
    /\ login' = None /\ error' = TRUE /\ loading' = FALSE
    /\ UNCHANGED <<work, motion, browser, creds, timer, selected, drawer, server, added, crossed, copies>>

Granted ==
    /\ timer # None /\ timer.stage = "granted"
    /\ timer' = [timer EXCEPT !.stage = "exiting"]
    /\ UNCHANGED <<work, motion, browser, creds, loading, error, login, selected, drawer, server, added, crossed, copies>>

Exited ==
    /\ timer # None /\ timer.stage = "exiting"
    /\ UNCHANGED <<work, motion, tab, disk, login, selected, notes, draft, posts, server, added, copies>>
    /\ SignedIn(timer.role)

\* handleLogout: also what other tabs have stored.
Logout ==
    /\ user # None
    /\ tab' = None /\ disk' = None /\ user' = None /\ url' = Token(tab', disk')
    /\ Unmounted
    /\ UNCHANGED <<work, motion, form, selected, server, added, crossed, clipboard>>
----------------------------------------------------------------------------
(* The dossier.                                                            *)

Select(f) ==
    /\ work # "session" /\ user # None /\ selected = None /\ Cardinality(reads) < MaxReads
    /\ selected' = f
    /\ Mounted(f)
    /\ UNCHANGED <<work, motion, browser, form, notes, draft, posts, server, added, copies>>

\* The dossier shows its notes, rather than that they are loading.
NotesShown == user # None /\ selected # None /\ ~notesLoading

\* onClose; the drawer keeps its notes and its draft for the next alert.
Close ==
    /\ user # None /\ selected # None
    /\ selected' = None
    /\ UNCHANGED <<work, motion, browser, form, drawer, server, added, crossed, copies>>

\* The answer to a request for notes, of whatever flow it was.
Read(r) ==
    /\ r.got # "asked"
    /\ reads' = reads \ {r}
    /\ notesLoading' = FALSE
    /\ IF r.got = "failed" THEN notes' = <<>> /\ crossed' = TRUE
                           ELSE notes' = r.list /\ UNCHANGED crossed
    /\ UNCHANGED <<work, motion, browser, form, selected, draft, posts, server, added, copies>>

NoteBound == CASE work = "notes" -> MaxNotes [] work = "failures" -> MaxRisked [] OTHER -> 0

\* The text area.
Draft ==
    /\ user # None /\ selected # None /\ added < NoteBound
    /\ draft' = ~draft
    /\ UNCHANGED <<work, motion, browser, form, selected, notes, notesLoading, reads, posts, server, added, crossed, copies>>

\* ADD NOTE is enabled by the text alone.
CanAddNote == user # None /\ selected # None /\ draft

\* submitNote; a second click, before the answer, sends the text again.
SubmitNote ==
    /\ CanAddNote /\ added < NoteBound
    /\ added' = added + 1
    /\ posts' = posts \cup {[note |-> [id |-> added', flow |-> selected], got |-> "asked", alive |-> TRUE]}
    /\ crossed' = (crossed \/ reads # {})
    /\ UNCHANGED <<work, motion, browser, form, selected, notes, notesLoading, draft, reads, server, copies>>

\* ... its answer; a text typed since is cleared with the one that was sent.
Noted(p) ==
    /\ p.got # "asked"
    /\ posts' = posts \ {p}
    /\ IF p.alive /\ p.got = "ok" THEN notes' = Append(notes, p.note) /\ draft' = FALSE
                                  ELSE UNCHANGED <<notes, draft>>
    /\ crossed' = (crossed \/ p.got = "failed")
    /\ UNCHANGED <<work, motion, browser, form, selected, notesLoading, reads, server, added, copies>>
----------------------------------------------------------------------------
(* The notes in the archive.                                               *)

\* get_notes: from the table, or from memory when it cannot be asked.
Listing(f) == IF up THEN table[f] ELSE memory[f]

ServeRead(r) ==
    LET Answer(got, list) == reads' = (reads \ {r}) \cup {[r EXCEPT !.got = got, !.list = list]} IN
    /\ r.got = "asked"
    /\ \/ Answer("ok", Listing(r.flow)) /\ UNCHANGED crossed
       \/ Faults /\ crossed' = TRUE /\ (Answer("ok", memory[r.flow]) \/ Answer("failed", <<>>))
    /\ UNCHANGED <<work, motion, browser, form, selected, notes, notesLoading, draft, posts, server, added, copies>>

Stored(store, note) == [store EXCEPT ![note.flow] = Append(@, note)]

\* A bug: the note is inserted when ClickHouse is not there.
AddNoteOffline(p) ==
    /\ p.got = "asked"
    /\ memory' = Stored(memory, p.note)
    /\ table' = IF up THEN table ELSE Stored(table, p.note)
    /\ posts' = (posts \ {p}) \cup {[p EXCEPT !.got = "ok"]}
    /\ UNCHANGED <<work, motion, browser, form, selected, notes, notesLoading, draft, reads, up, added, crossed, copies>>

\* add_note: to memory and, when connected, to the table; an insert that fails
\* is logged and the note answered as added.
AddNote(p) ==
    /\ p.got = "asked"
    /\ \/ memory' = Stored(memory, p.note) /\ table' = (IF up THEN Stored(table, p.note) ELSE table)
          /\ UNCHANGED crossed
       \/ Faults /\ up /\ memory' = Stored(memory, p.note) /\ UNCHANGED table /\ crossed' = TRUE
       \/ Faults /\ UNCHANGED <<memory, table>> /\ crossed' = TRUE
    /\ \E got \in {"ok"} \cup (IF Faults THEN {"failed"} ELSE {}) :
          posts' = (posts \ {p}) \cup {[p EXCEPT !.got = IF memory' = memory THEN "failed" ELSE got]}
    /\ UNCHANGED <<work, motion, browser, form, selected, notes, notesLoading, draft, reads, up, added, copies>>

\* ClickHouse goes, or is there again.
Outage ==
    /\ Faults
    /\ up' = ~up /\ crossed' = TRUE
    /\ UNCHANGED <<work, motion, browser, form, selected, drawer, memory, table, added, copies>>

\* clear, by an admin or as the server starts.
ClearNotes ==
    /\ Faults /\ memory # NoNotes
    /\ memory' = NoNotes /\ table' \in {table, IF up THEN NoNotes ELSE table} /\ crossed' = TRUE
    /\ UNCHANGED <<work, motion, browser, form, selected, drawer, up, added, copies>>
----------------------------------------------------------------------------
(* Copying.                                                                *)

\* handleCopy
Copy(k) ==
    /\ work = "copy" /\ user # None /\ selected # None /\ k \in Keys(selected)
    /\ FoldFunction(LAMBDA x, y : x + y, 0, fades) < MaxTimers
    /\ clipboard' = [key |-> k, flow |-> selected]
    /\ copied' = k /\ fades' = [fades EXCEPT ![k] = @ + 1]
    /\ UNCHANGED <<work, motion, browser, form, selected, drawer, server, added, crossed>>

\* A bug: whichever label there is goes.
FadeAny(k) ==
    /\ fades[k] > 0
    /\ fades' = [fades EXCEPT ![k] = @ - 1]
    /\ copied' = None
    /\ UNCHANGED <<work, motion, browser, form, selected, drawer, server, added, crossed, clipboard>>

\* ... 1200 ms later.
Fade(k) ==
    /\ fades[k] > 0
    /\ fades' = [fades EXCEPT ![k] = @ - 1]
    /\ copied' = IF copied = k THEN None ELSE copied
    /\ UNCHANGED <<work, motion, browser, form, selected, drawer, server, added, crossed, clipboard>>
----------------------------------------------------------------------------
Next ==
    \/ Reload \/ Rerender \/ Submit \/ ServeLogin \/ LoggedIn \/ LoginFailed
    \/ Granted \/ Exited \/ Logout
    \/ \E r \in Roles : FillCredentials(r)
    \/ \E r \in Roles \cup {None} : OtherTab(r)
    \/ \E c \in {None, "unknown"} : Type(c)
    \/ \E f \in Flows : Select(f)
    \/ Close \/ Draft \/ SubmitNote \/ Outage \/ ClearNotes
    \/ \E r \in reads : ServeRead(r) \/ Read(r)
    \/ \E p \in posts : AddNote(p) \/ Noted(p)
    \/ \E k \in AllKeys : Copy(k) \/ Fade(k)

Spec == Init /\ [][Next]_vars

(* Requests are taken up and answered, timers fire.                        *)
Fairness ==
    /\ WF_vars(ServeLogin) /\ WF_vars(LoggedIn) /\ WF_vars(LoginFailed)
    /\ WF_vars(Granted) /\ WF_vars(Exited)
    /\ WF_vars(\E r \in reads : ServeRead(r)) /\ WF_vars(\E r \in reads : Read(r))
    /\ \A k \in AllKeys : WF_vars(Fade(k))

FairSpec == Spec /\ Fairness
----------------------------------------------------------------------------
Note == [id : 1..MaxNotes, flow : Flows]

TypeOK ==
    /\ {tab, disk, user, url} \subseteq Roles \cup {None}
    /\ creds \in Roles \cup {None, "unknown"} /\ {loading, error, draft, up, crossed} \subseteq BOOLEAN
    /\ (login # None \/ timer # None) = loading
    /\ timer # None => motion /\ timer \in [stage : {"granted", "exiting"}, role : Roles]
    /\ selected \in Flows \cup {None}
    /\ ToSet(notes) \subseteq Note
    /\ \A f \in Flows : ToSet(memory[f]) \cup ToSet(table[f]) \subseteq Note
    /\ notesLoading => reads # {}
    /\ added \in 0..MaxNotes /\ \A p \in posts : p.note \in Note
    /\ copied \in AllKeys \cup {None} /\ fades \in [AllKeys -> 0..MaxTimers]

(* The copies of the session agree: loading the page again never changes  *)
(* who is signed in, though while the success of a login is shown the      *)
(* storage is ahead of App's user, and the socket of a signed-in tab has   *)
(* the token of its own user, whoever signs in or out in other tabs.       *)
SessionAgrees ==
    /\ tab = IF timer # None THEN timer.role ELSE user
    /\ user # None => url = user

(* The dossier of an alert shows the notes the archive lists for its flow, *)
(* each once, after reading them and after adding some, as long as no      *)
(* request for notes overlapped with another request and nothing failed.   *)
NotesAgree ==
    NotesShown /\ posts = {} /\ ~crossed =>
        IsInjective(notes) /\ ToSet(notes) = ToSet(Listing(selected))

(* A COPIED label is taken away by a timer of a copy of the same field, by *)
(* the copy of another one, or with the dashboard and all its timers: the  *)
(* timers of other fields leave it alone.  And it never stands without a   *)
(* timer that will take it away.  (Of a field that is copied twice the     *)
(* first timer is enough: the code compares the field only, and the label  *)
(* of the second copy stands shorter.)                                     *)
LabelStands ==
    [][/\ copied # None /\ copied' # copied => copied' # None \/ fades'[copied] < fades[copied]
       /\ copied' # None => fades'[copied'] > 0]_vars

(* The form that asked for a login is free again or gives way to the       *)
(* dashboard, and notes that are loading have loaded or failed to.         *)
FormsReturn == (loading ~> ~loading) /\ (notesLoading ~> ~notesLoading)
=============================================================================
