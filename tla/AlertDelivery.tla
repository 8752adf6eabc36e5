---------------------------- MODULE AlertDelivery ----------------------------
(***************************************************************************)
(* The way of an alert to the dashboards: the ConnectionManager and its    *)
(* broadcasts (backend/app/websocket_manager.py), the socket endpoint of   *)
(* main.py, and the hook that keeps a dashboard's live alerts              *)
(* (frontend/src/hooks/useThreatSocket.ts).                                *)
(*                                                                         *)
(* The server side runs on one event loop: a step is what runs between two *)
(* awaits.  A browser's handlers are its steps.  Broadcasts of the Kafka   *)
(* consumer are tasks, started in the order of their alerts; those the     *)
(* synthetic worker awaits are the case where each ends before the next    *)
(* alert.  The archive is a list of alerts, newest first; AlertArchive has *)
(* its detail.  Alerts are numbered as they are recorded, which makes the  *)
(* number their identity.                                                  *)
(***************************************************************************)
EXTENDS SequencesExt

CONSTANTS Dashboards,
          Sockets,      \* WebSocket objects, each with its dashboard
          BufferSize,   \* MAX_ALERTS_BUFFER
          PageSize,     \* the limit of the initial fetch
          ArchiveSize,  \* bound of the archive
          MaxAlerts,    \* bound on the alerts recorded
          MaxEffects,   \* bound on the runs of the hook's effect, by dashboard
          Faults        \* which of "network", "clear" may happen

ASSUME ConstantsAssumption ==
    /\ Sockets \subseteq Dashboards \X Nat /\ BufferSize \in Nat \ {0}
    /\ PageSize \in Nat /\ ArchiveSize \in Nat
    /\ MaxAlerts \in Nat /\ MaxEffects \in Nat
    /\ Faults \subseteq {"network", "clear"}

Owner(s) == s[1]
NoSocket == <<>>
Ids      == 1..MaxAlerts

VARIABLES
    archive,    \* the archive's listing
    recorded,   \* how many alerts have been recorded
    active,     \* active_connections
    serving,    \* sockets whose endpoint runs
    asked,      \* sockets whose upgrade request is on its way
    up,         \* sockets whose connection is there
    wire,       \* what was sent on a socket and not yet received
    task,       \* the broadcast of each alert
    net,        \* connections last, requests are answered
    client,     \* a socket's readyState in its browser
    socketRef,  \* socketRef.current, or NoSocket
    status,     \* the status the dashboard shows
    timer,      \* a reconnection is scheduled
    fetching,   \* the initial fetch of the effect's last run is under way
    pages,      \* answers whose JSON is being read
    buffer,     \* alerts, newest arrival first
    clearing,   \* the dashboard has cleared the archive, not yet its buffer
    effects,    \* how often the effect of the hook has run
    since,      \* history: the last alert whose broadcast began before the socket was accepted
    dropped     \* history: the last alert recorded before the dashboard emptied its buffer

server  == <<archive, recorded, active, serving, task, since>>
network == <<asked, up, wire, net>>
socket  == <<client, socketRef, status, timer, effects>>
alerts  == <<fetching, pages, buffer, clearing, dropped>>
vars    == <<server, network, socket, alerts>>

NoTask == [stage |-> "none", to |-> <<>>, next |-> 1, dead |-> {}]

First(n, seq) == SubSeq(seq, 1, IF n < Len(seq) THEN n ELSE Len(seq))

\* What is left of a list, in its order.
Without(gone, seq) ==
    LET kept[i \in 0..Len(seq)] ==
            IF i = 0 THEN <<>>
            ELSE IF seq[i] \in gone THEN kept[i - 1] ELSE Append(kept[i - 1], seq[i])
    IN kept[Len(seq)]

Init ==
    /\ archive = <<>> /\ recorded = 0
    /\ active = <<>> /\ serving = {} /\ asked = {} /\ up = {}
    /\ wire = [s \in Sockets |-> <<>>] /\ task = [a \in Ids |-> NoTask]
    /\ net \in {b \in BOOLEAN : b \/ "network" \in Faults}
    /\ client = [s \in Sockets |-> "closed"]
    /\ socketRef = [d \in Dashboards |-> NoSocket]
    /\ status = [d \in Dashboards |-> "CONNECTING"]
    /\ timer = [d \in Dashboards |-> FALSE]
    /\ fetching = [d \in Dashboards |-> FALSE] /\ pages = [d \in Dashboards |-> <<>>]
    /\ buffer = [d \in Dashboards |-> <<>>]
    /\ clearing = [d \in Dashboards |-> FALSE] /\ effects = [d \in Dashboards |-> 0]
    /\ since = [s \in Sockets |-> 0] /\ dropped = [d \in Dashboards |-> 0]
----------------------------------------------------------------------------
(* The server.                                                             *)

\* The alert is archived; unless a rule suppresses it a broadcast is created.
Record ==
    /\ recorded < MaxAlerts
    /\ recorded' = recorded + 1
    /\ archive' = First(ArchiveSize, <<recorded'>> \o archive)
    /\ \E suppressed \in BOOLEAN :
          task' = [task EXCEPT ![recorded'].stage = IF suppressed THEN "suppressed" ELSE "created"]
    /\ UNCHANGED <<active, serving, since, network, socket, alerts>>

\* broadcast() takes its copy of the list.
Start(a) ==
    /\ task[a].stage = "created"
    /\ \A b \in 1..(a - 1) : task[b].stage # "created"
    /\ task' = [task EXCEPT ![a].to = active,
                            ![a].stage = IF active = <<>> THEN "done" ELSE "sending"]
    /\ UNCHANGED <<archive, recorded, active, serving, since, network, socket, alerts>>

Sending(a) == task[a].stage = "sending" /\ task[a].next <= Len(task[a].to)

\* A bug: the broadcast iterates over the list itself.
SendLive(a) ==
    /\ Sending(a)
    /\ task' = [task EXCEPT ![a].next = @ + 1]
    /\ wire' = IF task[a].next <= Len(active) /\ active[task[a].next] \in up
               THEN [wire EXCEPT ![active[task[a].next]] = Append(@, a)] ELSE wire
    /\ UNCHANGED <<archive, recorded, active, serving, since, asked, up, net, socket, alerts>>

\* One send_text.  On a connection that is gone it fails, or is lost.
Send(a) ==
    /\ Sending(a)
    /\ LET s == task[a].to[task[a].next]
       IN \/ /\ wire' = IF s \in up THEN [wire EXCEPT ![s] = Append(@, a)] ELSE wire
             /\ task' = [task EXCEPT ![a].next = @ + 1]
          \/ /\ s \notin up
             /\ task' = [task EXCEPT ![a] = [task[a] EXCEPT !.next = @ + 1, !.dead = @ \cup {s}]]
             /\ UNCHANGED wire
    /\ UNCHANGED <<archive, recorded, active, serving, since, asked, up, net, socket, alerts>>

\* After the last send, the connections that failed are unregistered.
FinishBroadcast(a) ==
    /\ task[a].stage = "sending" /\ ~Sending(a)
    /\ active' = Without(task[a].dead, active)
    /\ task' = [task EXCEPT ![a] = [NoTask EXCEPT !.stage = "done"]]
    /\ UNCHANGED <<archive, recorded, serving, since, network, socket, alerts>>

\* websocket_threat_feed: accept() and the registration.  A replay of the archive
\* to the new client, which SIMULATION_REPLAY_HISTORY can turn on, is left out: it
\* is off by default.
Accept(s) ==
    /\ s \in asked /\ net
    /\ asked' = asked \ {s}
    /\ serving' = serving \cup {s}
    /\ active' = Append(active, s)
    /\ since' = [since EXCEPT ![s] = Max({0} \cup {a \in Ids : task[a].stage \in {"sending", "done"}})]
    /\ UNCHANGED <<archive, recorded, task, up, wire, net, socket, alerts>>

\* receive_text() raises: the endpoint unregisters its socket and ends.
Leave(s) ==
    /\ s \in serving \ up
    /\ serving' = serving \ {s}
    /\ active' = Without({s}, active)
    /\ since' = [since EXCEPT ![s] = 0]
    /\ UNCHANGED <<archive, recorded, task, network, socket, alerts>>
----------------------------------------------------------------------------
(* The dashboard's socket.                                                 *)

\* A new WebSocket of d: an object that nothing refers to any more.
Unused(s) ==
    /\ client[s] = "closed" /\ s \notin serving \cup asked
    /\ \A a \in Ids : s \notin ToSet(task[a].to)

Live(s) == s # NoSocket /\ client[s] \in {"connecting", "open"}

\* A bug: the cleanup forgets to close the socket.
EffectLeaky(d) ==
    /\ effects[d] < MaxEffects
    /\ effects' = [effects EXCEPT ![d] = @ + 1]
    /\ fetching' = [fetching EXCEPT ![d] = TRUE]
    /\ timer' = [timer EXCEPT ![d] = FALSE]
    /\ status' = [status EXCEPT ![d] = "CONNECTING"]
    /\ \E s \in {q \in Sockets : Owner(q) = d /\ Unused(q)} :
          /\ socketRef' = [socketRef EXCEPT ![d] = s]
          /\ client' = [client EXCEPT ![s] = "connecting"]
          /\ wire' = [wire EXCEPT ![s] = <<>>]
          /\ asked' = asked \cup {s} /\ up' = up \cup {s}
    /\ UNCHANGED <<server, net, pages, buffer, clearing, dropped>>

\* The effect runs on mount and when the socket's URL changes (a login): the
\* cleanup of the run before it, then the initial fetch and connect().  The
\* close event of the old socket finds that it is not socketRef.current.  An
\* old fetch is dropped, unless its JSON is already being read.
Effect(d) ==
    /\ effects[d] < MaxEffects
    /\ effects' = [effects EXCEPT ![d] = @ + 1]
    /\ fetching' = [fetching EXCEPT ![d] = TRUE]
    /\ timer' = [timer EXCEPT ![d] = FALSE]
    /\ status' = [status EXCEPT ![d] = "CONNECTING"]
    /\ \E s \in {q \in Sockets : Owner(q) = d /\ Unused(q)} :
          LET old == {q \in Sockets : q = socketRef[d]}
          IN /\ socketRef' = [socketRef EXCEPT ![d] = s]
             /\ client' = [q \in Sockets |-> IF q = s THEN "connecting"
                                             ELSE IF q \in old THEN "closed" ELSE client[q]]
             /\ wire' = [q \in Sockets |-> IF q \in old \cup {s} THEN <<>> ELSE wire[q]]
             /\ asked' = asked \cup {s}
             /\ up' = (up \ old) \cup {s}
    /\ UNCHANGED <<server, net, pages, buffer, clearing, dropped>>

\* The timer of a reconnection: connect() does nothing if there is a socket.  What
\* it catches, without a retry, is an address that is malformed: the hook's is not.
Reconnect(d) ==
    /\ timer[d]
    /\ timer' = [timer EXCEPT ![d] = FALSE]
    /\ \/ /\ Live(socketRef[d])
          /\ UNCHANGED <<client, socketRef, status, asked, up, wire>>
       \/ /\ ~Live(socketRef[d])
          /\ status' = [status EXCEPT ![d] = "CONNECTING"]
          /\ \E s \in {q \in Sockets : Owner(q) = d /\ Unused(q)} :
                /\ socketRef' = [socketRef EXCEPT ![d] = s]
                /\ client' = [client EXCEPT ![s] = "connecting"]
                /\ wire' = [wire EXCEPT ![s] = <<>>]
                /\ asked' = asked \cup {s} /\ up' = up \cup {s}
    /\ UNCHANGED <<server, net, effects, alerts>>

\* onopen.
Opened(s) ==
    /\ client[s] = "connecting" /\ s \in serving \cap up
    /\ client' = [client EXCEPT ![s] = "open"]
    /\ status' = [status EXCEPT ![Owner(s)] = "CONNECTED"]
    /\ UNCHANGED <<server, network, socketRef, timer, effects, alerts>>

\* A bug: connect() does not reset closingRef, which a cleanup has set.
CloseOnce(s) ==
    /\ Live(s) /\ s \notin up /\ wire[s] = <<>>
    /\ client' = [client EXCEPT ![s] = "closed"]
    /\ socketRef' = [socketRef EXCEPT ![Owner(s)] = NoSocket]
    /\ status' = [status EXCEPT ![Owner(s)] = "DISCONNECTED"]
    /\ timer' = [timer EXCEPT ![Owner(s)] = (effects[Owner(s)] = 1)]
    /\ UNCHANGED <<server, network, effects, alerts>>

\* onclose: the browser has noticed.  A reconnection is scheduled.
Closed(s) ==
    /\ Live(s) /\ s \notin up /\ wire[s] = <<>>
    /\ client' = [client EXCEPT ![s] = "closed"]
    /\ IF socketRef[Owner(s)] = s
       THEN /\ socketRef' = [socketRef EXCEPT ![Owner(s)] = NoSocket]
            /\ status' = [status EXCEPT ![Owner(s)] = "DISCONNECTED"]
            /\ timer' = [timer EXCEPT ![Owner(s)] = TRUE]
       ELSE UNCHANGED <<socketRef, status, timer>>
    /\ UNCHANGED <<server, network, effects, alerts>>
----------------------------------------------------------------------------
(* The dashboard's alerts.                                                 *)

\* onmessage.
Receive(s) ==
    /\ client[s] = "open" /\ wire[s] # <<>>
    /\ LET a == Head(wire[s])
       IN buffer' = [buffer EXCEPT ![Owner(s)] =
                        IF Contains(@, a) THEN @ ELSE First(BufferSize, <<a>> \o @)]
    /\ wire' = [wire EXCEPT ![s] = Tail(@)]
    /\ UNCHANGED <<server, asked, up, net, socket, fetching, pages, clearing, dropped>>

\* GET /api/alerts is answered, or fails.
ServePage(d) ==
    /\ fetching[d]
    /\ fetching' = [fetching EXCEPT ![d] = FALSE]
    /\ pages' = IF net THEN [pages EXCEPT ![d] = Append(@, First(PageSize, archive))] ELSE pages
    /\ UNCHANGED <<server, network, socket, buffer, clearing, dropped>>

\* A bug: the page is appended as it is.
HydrateAll(d) ==
    /\ \E k \in DOMAIN pages[d] :
          /\ pages' = [pages EXCEPT ![d] = RemoveAt(@, k)]
          /\ buffer' = [buffer EXCEPT ![d] = First(BufferSize, @ \o pages[d][k])]
    /\ UNCHANGED <<server, network, socket, fetching, clearing, dropped>>

\* A bug: the page replaces what the socket has brought.
HydrateReplace(d) ==
    /\ \E k \in DOMAIN pages[d] :
          /\ pages' = [pages EXCEPT ![d] = RemoveAt(@, k)]
          /\ buffer' = [buffer EXCEPT ![d] = pages[d][k]]
    /\ UNCHANGED <<server, network, socket, fetching, clearing, dropped>>

\* ... and what is not yet in the buffer goes behind it.  An empty buffer
\* becomes the page, whatever its size.
Hydrate(d) ==
    /\ \E k \in DOMAIN pages[d] :
          LET new == Without(ToSet(buffer[d]), pages[d][k])
          IN /\ pages' = [pages EXCEPT ![d] = RemoveAt(@, k)]
             /\ buffer' = [buffer EXCEPT ![d] = IF @ = <<>> THEN new ELSE First(BufferSize, @ \o new)]
    /\ UNCHANGED <<server, network, socket, fetching, clearing, dropped>>

\* clearAllAlerts: POST /api/alerts/clear, which may fail ...
ServeClear(d) ==
    /\ "clear" \in Faults /\ ~clearing[d]
    /\ clearing' = [clearing EXCEPT ![d] = TRUE]
    /\ archive' = IF net THEN <<>> ELSE archive
    /\ UNCHANGED <<recorded, active, serving, task, since, network, socket, fetching, pages, buffer, dropped>>

\* ... and the buffer, in either case.
ClearBuffer(d) ==
    /\ clearing[d]
    /\ clearing' = [clearing EXCEPT ![d] = FALSE]
    /\ buffer' = [buffer EXCEPT ![d] = <<>>]
    /\ dropped' = [dropped EXCEPT ![d] = recorded]
    /\ UNCHANGED <<server, network, socket, fetching, pages>>
----------------------------------------------------------------------------
(* The network.                                                            *)

\* A connection breaks; what is on the wire arrives up to some message, or
\* nothing does if the answer to the upgrade request is lost.
Break(s) ==
    /\ ~net /\ s \in up
    /\ up' = up \ {s} /\ asked' = asked \ {s}
    /\ \E n \in 0..Len(wire[s]) :
          /\ client[s] = "connecting" => n = 0
          /\ wire' = [wire EXCEPT ![s] = First(n, @)]
    /\ UNCHANGED <<server, net, socket, alerts>>

NetSwitch ==
    /\ "network" \in Faults
    /\ net' = ~net
    /\ UNCHANGED <<server, asked, up, wire, socket, alerts>>
----------------------------------------------------------------------------
Broadcast(a) == Start(a) \/ Send(a) \/ FinishBroadcast(a)
Serve(s)     == Accept(s) \/ Leave(s)
Browse(s)    == Opened(s) \/ Closed(s) \/ Receive(s)
Fetch(d)     == ServePage(d) \/ Hydrate(d)
Clear(d)     == ServeClear(d) \/ ClearBuffer(d)

Next ==
    \/ Record \/ NetSwitch
    \/ \E a \in Ids : Broadcast(a)
    \/ \E s \in Sockets : Serve(s) \/ Browse(s) \/ Break(s)
    \/ \E d \in Dashboards : Effect(d) \/ Reconnect(d) \/ Fetch(d) \/ Clear(d)

Spec == Init /\ [][Next]_vars

(* The event loop and the browsers run, timers run out, and a connection   *)
(* request is answered while the network lasts.  A browser notices that a  *)
(* connection is gone, and so does the server's receive_text().            *)
Fairness ==
    /\ \A a \in Ids : WF_vars(Broadcast(a))
    /\ \A s \in Sockets : WF_vars(Accept(s)) /\ WF_vars(Leave(s)) /\ WF_vars(Browse(s))
    /\ \A d \in Dashboards : WF_vars(Reconnect(d))

FairSpec == Spec /\ Fairness
----------------------------------------------------------------------------
TypeOK ==
    /\ archive \in Seq(Ids) /\ Len(archive) <= ArchiveSize /\ recorded \in 0..MaxAlerts
    /\ active \in Seq(Sockets) /\ IsInjective(active) /\ serving \subseteq Sockets
    /\ asked \subseteq Sockets /\ up \subseteq Sockets /\ net \in BOOLEAN
    /\ wire \in [Sockets -> Seq(Ids)]
    /\ task \in [Ids -> [stage : {"none", "suppressed", "created", "sending", "done"},
                         to : Seq(Sockets), next : Nat \ {0}, dead : SUBSET Sockets]]
    /\ client \in [Sockets -> {"closed", "connecting", "open"}]
    /\ socketRef \in [Dashboards -> Sockets \cup {NoSocket}]
    /\ status \in [Dashboards -> {"CONNECTING", "CONNECTED", "DISCONNECTED"}]
    /\ timer \in [Dashboards -> BOOLEAN] /\ clearing \in [Dashboards -> BOOLEAN]
    /\ fetching \in [Dashboards -> BOOLEAN] /\ pages \in [Dashboards -> Seq(Seq(Ids))]
    /\ buffer \in [Dashboards -> Seq(Ids)]
    /\ \A d \in Dashboards : Len(buffer[d]) <= Max({BufferSize, PageSize})
    /\ effects \in [Dashboards -> 0..MaxEffects]
    /\ since \in [Sockets -> 0..MaxAlerts] /\ dropped \in [Dashboards -> 0..MaxAlerts]

(* A dashboard lists no alert twice, although it may get one from its      *)
(* initial fetch and from a socket, or from two sockets, in any order.     *)
NoDuplicates == \A d \in Dashboards : IsInjective(buffer[d])

(* An alert whose broadcast began after a socket was registered, and is    *)
(* over, has reached the socket's dashboard or is on its way, as long as   *)
(* the connection holds: no other client that comes, goes or fails while   *)
(* the broadcast waits makes it skip this one, and no initial fetch or     *)
(* reconnection throws the alert away.  It may have left a full buffer, or *)
(* the analyst may have emptied it.                                        *)
Delivered ==
    \A d \in Dashboards : LET s == socketRef[d] IN
        s \in serving \cap up =>
            \A a \in (Max({since[s], dropped[d]}) + 1)..recorded :
                task[a].stage = "done" =>
                    \/ Contains(wire[s], a) \/ Contains(buffer[d], a)
                    \/ Len(buffer[d]) >= BufferSize

(* A dashboard never has two sockets that are open or opening: no order of *)
(* closings, timers and runs of the effect leaves one behind.              *)
OneSocket ==
    \A d \in Dashboards, s \in Sockets : Owner(s) = d /\ Live(s) => socketRef[d] = s

(* When the network holds for good every mounted dashboard is connected in *)
(* the end, and stays so.                                                  *)
Reconnects ==
    <>[]net => <>[](\A d \in Dashboards : effects[d] > 0 => status[d] = "CONNECTED")
=============================================================================
