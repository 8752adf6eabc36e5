---------------------------- MODULE AlertArchive ----------------------------
(***************************************************************************)
(* ClickHouseAlertStore (backend/app/storage.py): alerts go to a bounded   *)
(* ring in memory and, when it answers, to a ClickHouse table; analysts    *)
(* change the status of a flow's alerts and clear it all.  Their notes,    *)
(* which share nothing with the alerts but the connection, are in Console. *)
(*                                                                         *)
(* Writers are the event loop and the replay threads, readers the dash-    *)
(* boards' polling, analysts the threads of the other endpoints.  _lock    *)
(* makes each change of the memory one step and _ch_lock each ClickHouse   *)
(* command; between two of them anything may happen.  Alerts are numbered  *)
(* as they are recorded, and their timestamps follow that order.           *)
(***************************************************************************)
EXTENDS SequencesExt

CONSTANTS Writers, Analysts, Readers,
          Flows,        \* flow ids
          Statuses,     \* lifecycle statuses other than New
          New,          \* the status an alert is recorded with
          None,         \* no override
          RingSize,     \* max_memory_buffer
          MaxAlerts,    \* bound on the alerts recorded
          MaxMutations, \* bound on the mutations ClickHouse has not applied
          Faults        \* which of "clickhouse", "clear", "restart" may happen

ASSUME ConstantsAssumption ==
    /\ Writers \cap Analysts = {} /\ Writers \cap Readers = {} /\ Analysts \cap Readers = {}
    /\ New \notin Statuses /\ None \notin Statuses \cup {New}
    /\ RingSize \in Nat \ {0} /\ MaxAlerts \in Nat /\ MaxMutations \in Nat
    /\ Faults \subseteq {"clickhouse", "clear", "restart"}

VARIABLES
    ring,        \* _memory_ring, newest first
    overrides,   \* _status_overrides
    connected,   \* is_connected
    client,      \* the client object is not None
    retryDue,    \* 60 s have passed since _last_reconnect_attempt
    pc, job,     \* what each thread does next, and what with
    chUp,        \* ClickHouse answers
    table,       \* the table alerts
    mutations,   \* ALTER ... UPDATE commands accepted and not yet applied
    recorded,    \* history: how many alerts were recorded
    marked       \* history: the status last given to an alert, since the last clear

memory  == <<ring, overrides>>
link    == <<connected, client, retryDue>>
threads == <<pc, job>>
server  == <<chUp, table, mutations>>
history == <<recorded, marked>>
vars    == <<memory, link, threads, server, history>>

Threads == Writers \cup Analysts \cup Readers
Status  == Statuses \cup {New}
Ids     == 1..MaxAlerts
Alert   == [id : Ids, flow : Flows, status : Status]
NoJob   == [id |-> 0]

Init ==
    /\ ring = <<>> /\ overrides = [f \in Flows |-> None]
    /\ chUp \in {b \in BOOLEAN : b \/ "clickhouse" \in Faults}
    /\ connected = chUp /\ client = chUp /\ retryDue = FALSE
    /\ pc = [t \in Threads |-> "idle"] /\ job = [t \in Threads |-> NoJob]
    /\ table = {} /\ mutations = <<>>
    /\ recorded = 0 /\ marked = [i \in Ids |-> None]

Goto(t, l) == pc' = [pc EXCEPT ![t] = l]
Finish(t)  == Goto(t, "idle") /\ job' = [job EXCEPT ![t] = NoJob]

\* A client that has an object and a server that answers.
Answers == client /\ chUp
----------------------------------------------------------------------------
(* The connection.                                                         *)

\* A bug: the throttle is not reset, only the constructor connects.
NeverReconnect(t) ==
    /\ pc[t] = IF t \in Writers THEN "connect" ELSE "idle"
    /\ IF connected THEN Goto(t, IF t \in Writers THEN "insert" ELSE "query") /\ UNCHANGED job
                    ELSE Finish(t)
    /\ UNCHANGED <<link, memory, server, history>>

\* insert_alert and get_recent_alerts: connect() when the throttle allows it.
Open(t) ==
    /\ pc[t] = IF t \in Writers THEN "connect" ELSE "idle"
    /\ connected' = (connected \/ (retryDue /\ chUp))
    /\ client' = IF connected \/ ~retryDue THEN client ELSE chUp
    /\ retryDue' = (retryDue /\ connected)
    /\ IF connected' THEN Goto(t, IF t \in Writers THEN "insert" ELSE "query") /\ UNCHANGED job
                     ELSE Finish(t)
    /\ UNCHANGED <<memory, server, history>>

\* The except clause of a failed insert or query, after _ch_lock is released.
Disconnect(t) ==
    /\ pc[t] = "failed"
    /\ connected' = FALSE
    /\ Finish(t)
    /\ UNCHANGED <<memory, client, retryDue, server, history>>

\* The SELECT of get_recent_alerts.
Query(t) ==
    /\ pc[t] = "query"
    /\ IF Answers THEN Finish(t) ELSE Goto(t, "failed") /\ UNCHANGED job
    /\ UNCHANGED <<memory, link, server, history>>
----------------------------------------------------------------------------
(* Recording an alert.                                                     *)

\* The first n elements, or all there are.
First(n, seq) == SubSeq(seq, 1, IF n < Len(seq) THEN n ELSE Len(seq))

\* appendleft on a deque with maxlen.
AppendLeft(r, a) == First(RingSize, <<a>> \o r)

\* insert_alert puts the alert in the ring first.
Record(t) ==
    /\ pc[t] = "idle" /\ recorded < MaxAlerts
    /\ \E f \in Flows :
          LET a == [id |-> recorded + 1, flow |-> f, status |-> New]
          IN /\ ring' = AppendLeft(ring, a)
             /\ job' = [job EXCEPT ![t] = a]
    /\ recorded' = recorded + 1
    /\ Goto(t, "connect")
    /\ UNCHANGED <<overrides, link, server, marked>>

\* ... and then in the table: it may be there although the call failed.
Insert(t) ==
    /\ pc[t] = "insert"
    /\ \/ Answers /\ table' = table \cup {job[t]} /\ Finish(t)
       \/ "clickhouse" \in Faults /\ Answers /\ table' = table \cup {job[t]}
             /\ Goto(t, "failed") /\ UNCHANGED job
       \/ ~Answers /\ Goto(t, "failed") /\ UNCHANGED <<table, job>>
    /\ UNCHANGED <<memory, link, chUp, mutations, history>>
----------------------------------------------------------------------------
(* What analysts do.                                                       *)

Restatus(r, f, s) == [i \in DOMAIN r |-> IF r[i].flow = f THEN [r[i] EXCEPT !.status = s] ELSE r[i]]

\* The alerts in a store, or on their way to the table.
Held == ToSet(ring) \cup table \cup {job[t] : t \in {w \in Writers : pc[w] # "idle"}}

\* A bug: the status is left to the ring and to ClickHouse.
UpdateNoOverride(t, f, s) ==
    /\ pc[t] = "idle" /\ Len(mutations) < MaxMutations
    /\ ring' = Restatus(ring, f, s)
    /\ job' = [job EXCEPT ![t] = [id |-> 0, flow |-> f, status |-> s]]
    /\ marked' = [i \in Ids |-> IF \E a \in Held : a.id = i /\ a.flow = f THEN s ELSE marked[i]]
    /\ Goto(t, "mutate")
    /\ UNCHANGED <<overrides, link, server, recorded>>

\* update_alert_status: override and ring under _lock.
Update(t, f, s) ==
    /\ pc[t] = "idle" /\ Len(mutations) < MaxMutations
    /\ overrides' = [overrides EXCEPT ![f] = s]
    /\ ring' = Restatus(ring, f, s)
    /\ job' = [job EXCEPT ![t] = [id |-> 0, flow |-> f, status |-> s]]
    /\ marked' = [i \in Ids |-> IF \E a \in Held : a.id = i /\ a.flow = f THEN s ELSE marked[i]]
    /\ Goto(t, "mutate")
    /\ UNCHANGED <<link, server, recorded>>

\* ALTER TABLE ... UPDATE is accepted for the rows there are now.  A failure
\* is logged and leaves the connection as it is.
Mutate(t) ==
    /\ pc[t] = "mutate"
    /\ mutations' = IF connected /\ Answers
                    THEN Append(mutations, [status |-> job[t].status,
                                            ids |-> {r.id : r \in {q \in table : q.flow = job[t].flow}}])
                    ELSE mutations
    /\ Finish(t)
    /\ UNCHANGED <<memory, link, chUp, table, history>>

\* clear(): the memory, under _lock.
ClearMemory(t) ==
    /\ "clear" \in Faults
    /\ pc[t] = "idle"
    /\ ring' = <<>> /\ overrides' = [f \in Flows |-> None]
    /\ marked' = [i \in Ids |-> None]
    /\ job' = [job EXCEPT ![t] = [id |-> recorded]]
    /\ Goto(t, "truncate")
    /\ UNCHANGED <<link, server, recorded>>

\* ... then the table, if connected.
Truncate(t) ==
    /\ pc[t] = "truncate"
    /\ table' = IF connected /\ Answers THEN {} ELSE table
    /\ Finish(t)
    /\ UNCHANGED <<memory, link, chUp, mutations, recorded, marked>>
----------------------------------------------------------------------------
(* The process and ClickHouse.                                             *)

\* The process dies and starts again: the constructor connects, lifespan()
\* clears the archive.  ClickHouse neither comes nor goes in between.
Restart ==
    /\ "restart" \in Faults
    /\ ring' = <<>> /\ overrides' = [f \in Flows |-> None]
    /\ connected' = chUp /\ client' = chUp /\ retryDue' = FALSE
    /\ pc' = [t \in Threads |-> "idle"] /\ job' = [t \in Threads |-> NoJob]
    /\ table' = IF chUp THEN {} ELSE table
    /\ marked' = [i \in Ids |-> None]
    /\ UNCHANGED <<chUp, mutations, recorded>>

RetryTick ==
    /\ ~retryDue /\ ~connected
    /\ retryDue' = TRUE
    /\ UNCHANGED <<memory, connected, client, threads, server, history>>

ClickHouseSwitch ==
    /\ "clickhouse" \in Faults
    /\ chUp' = ~chUp
    /\ UNCHANGED <<memory, link, threads, table, mutations, history>>

\* ClickHouse applies its mutations in the background and in order.
ApplyMutation ==
    /\ chUp /\ mutations # <<>>
    /\ table' = {IF r.id \in Head(mutations).ids THEN [r EXCEPT !.status = Head(mutations).status]
                                                 ELSE r : r \in table}
    /\ mutations' = Tail(mutations)
    /\ UNCHANGED <<memory, link, threads, chUp, history>>
----------------------------------------------------------------------------
Write(t)   == Record(t) \/ Open(t) \/ Insert(t) \/ Disconnect(t)
Read(t)    == Open(t) \/ Query(t) \/ Disconnect(t)
Analyse(t) == \/ \E f \in Flows, s \in Status : Update(t, f, s)
              \/ Mutate(t) \/ ClearMemory(t) \/ Truncate(t)

Next ==
    \/ \E t \in Writers : Write(t)
    \/ \E t \in Readers : Read(t)
    \/ \E t \in Analysts : Analyse(t)
    \/ Restart \/ RetryTick \/ ClickHouseSwitch \/ ApplyMutation

Spec == Init /\ [][Next]_vars

(* Time passes, a call that has begun goes on, and dashboards keep reading *)
(* (IncidentsPanel polls the incidents every 5 s).                         *)
Fairness ==
    /\ WF_vars(RetryTick)
    /\ \A t \in Readers : WF_vars(Read(t))
    /\ \A t \in Writers : WF_vars(pc[t] # "idle" /\ Write(t))

FairSpec == Spec /\ Fairness
----------------------------------------------------------------------------
\* What get_recent_alerts makes of a row and of a ring entry.
Listed(row) == [row EXCEPT !.status = IF overrides[row.flow] = None THEN @ ELSE overrides[row.flow]]

TypeOK ==
    /\ ring \in Seq(Alert) /\ Len(ring) <= RingSize
    /\ overrides \in [Flows -> Status \cup {None}]
    /\ connected \in BOOLEAN /\ client \in BOOLEAN /\ retryDue \in BOOLEAN /\ chUp \in BOOLEAN
    /\ pc \in [Threads -> {"idle", "connect", "insert", "query", "failed", "mutate", "truncate"}]
    /\ \A t \in Threads : job[t].id \in 0..MaxAlerts
    /\ \A t \in Writers : pc[t] # "idle" => job[t] \in Alert
    /\ table \subseteq Alert
    /\ mutations \in Seq([status : Status, ids : SUBSET Ids])
    /\ recorded \in 0..MaxAlerts
    /\ marked \in [Ids -> Status \cup {None}]

(* Once an analyst has set the status of a flow, each alert the flow had   *)
(* is listed with that status, from the ring and from the table, until the *)
(* next change or clear: no mutation still under way, no insert that had   *)
(* begun before, and no failure of ClickHouse shows the old status again.  *)
StatusSticks ==
    \A i \in Ids : marked[i] # None =>
        /\ \A k \in DOMAIN ring : ring[k].id = i => ring[k].status = marked[i]
        /\ \A r \in table : r.id = i => Listed(r).status = marked[i]

(* A store that ClickHouse answers is connected in the end, whatever       *)
(* failures of earlier calls are still to be noticed: the fallback is not  *)
(* permanent ("A transient backend-infrastructure failure must not perma-  *)
(* nently pin a persistent-mode store to its in-memory fallback").         *)
FallbackEnds == <>[]chUp => <>[](connected /\ client)
=============================================================================
