------------------------ MODULE IncidentCorrelation ------------------------
(***************************************************************************)
(* AlertAggregator (engine/models/aggregator.py): alerts of one source are *)
(* put under one incident id, and the threat classes seen in an incident   *)
(* raise the score of its later alerts.                                    *)
(*                                                                         *)
(* One aggregator serves the event loop (Kafka consumer or synthetic       *)
(* worker) and every replay job's thread: they are Workers.  An event's    *)
(* timestamp is the one its producer gave it, Lags behind the clock at     *)
(* most; the engines' verdict is an input, the set of classes that fired.  *)
(***************************************************************************)
EXTENDS Naturals, Sequences, FiniteSets

CONSTANTS Workers,    \* threads that call aggregate()
          Sources,    \* source addresses
          Anonymous,  \* what src_ip is when the event has none
          Classes,    \* threat classes
          Window,     \* correlation.window_seconds
          Lags,       \* how late an event may be stamped
          MaxClock,   \* bound on the clock
          MaxEvents   \* bound on the events that raise an alert

ASSUME ConstantsAssumption ==
    /\ IsFiniteSet(Workers) /\ Anonymous \notin Sources
    /\ Window \in Nat /\ Lags \subseteq Nat
    /\ MaxClock \in Nat /\ MaxEvents \in Nat

VARIABLES
    clock,
    lastAlert,  \* _source_incidents: the last alert of a source, or NoEntry
    nextId,     \* uuid4() never repeats itself
    dicts,      \* _incident_stages: how many dicts have been assigned to it
    stages,     \* the stage set of each incident, in each of these dicts
    pc, job,    \* what each worker does next, and the event it is at
    events,     \* how many events have begun
    log,        \* history: correlated alerts and clears, in order
    scored      \* history: what alerts said of the stages of their incident

vars == <<clock, lastAlert, nextId, dicts, stages, pc, job, events, log, scored>>

Default == 0                  \* the key "default", for alerts without a source
Ids     == 0..MaxEvents       \* every event opens one incident at most
NoEntry == [ts |-> 0, id |-> Default]
NoJob   == [src |-> Anonymous, ts |-> 0, fired |-> {}, id |-> Default, dict |-> 0]
Cleared == [src |-> Anonymous, ts |-> 0, id |-> Default, fired |-> {}]

Known(s) == lastAlert[s] # NoEntry

Init ==
    /\ clock = 0
    /\ lastAlert = [s \in Sources |-> NoEntry]
    /\ nextId = 1
    /\ dicts = 0
    /\ stages = [d \in 0..Cardinality(Workers) |-> [i \in Ids |-> {}]]
    /\ pc = [w \in Workers |-> "idle"] /\ job = [w \in Workers |-> NoJob]
    /\ events = 0 /\ log = <<>> /\ scored = {}
----------------------------------------------------------------------------
Tick ==
    /\ clock < MaxClock
    /\ clock' = clock + 1
    /\ UNCHANGED <<lastAlert, nextId, dicts, stages, pc, job, events, log, scored>>

\* At least one engine fires on an event.
Begin(w) ==
    /\ pc[w] = "idle" /\ events < MaxEvents
    /\ \E s \in Sources \cup {Anonymous}, lag \in Lags, fired \in (SUBSET Classes) \ {{}} :
          /\ lag <= clock
          /\ job' = [job EXCEPT ![w] = [src |-> s, ts |-> clock - lag, fired |-> fired,
                                        id |-> Default, dict |-> 0]]
    /\ pc' = [pc EXCEPT ![w] = "correlate"]
    /\ events' = events + 1
    /\ UNCHANGED <<clock, lastAlert, nextId, dicts, stages, log, scored>>

\* A bug: the window is not looked at.
JoinForever(s, ts) == Known(s)

\* Is there an incident of this source to join?
InWindow(s, ts) == Known(s) /\ ts <= lastAlert[s].ts + Window

\* A bug: the incident is looked up among all sources.
AnyIncidentFor(s, ts) ==
    IF \E q \in Sources : InWindow(q, ts)
    THEN lastAlert[CHOOSE q \in Sources : InWindow(q, ts)].id ELSE nextId

IncidentFor(s, ts) == IF InWindow(s, ts) THEN lastAlert[s].id ELSE nextId

\* The map is rebuilt without the entries older than the window, for all sources.
Prune(map, ts) == [s \in Sources |-> IF map[s].ts + Window < ts THEN NoEntry ELSE map[s]]

\* _incident_id_for_source, under _correlation_lock.
Correlate(w) ==
    /\ pc[w] = "correlate"
    /\ LET s == job[w].src  ts == job[w].ts
       IN \/ /\ s = Anonymous
             /\ UNCHANGED <<lastAlert, nextId, job, log>>
          \/ /\ s # Anonymous
             /\ LET id == IncidentFor(s, ts)
                IN /\ lastAlert' = Prune([lastAlert EXCEPT ![s] = [ts |-> ts, id |-> id]], ts)
                   /\ nextId' = IF id = nextId THEN nextId + 1 ELSE nextId
                   /\ job' = [job EXCEPT ![w].id = id]
                   /\ log' = Append(log, [src |-> s, ts |-> ts, id |-> id, fired |-> job[w].fired])
    /\ pc' = [pc EXCEPT ![w] = "check"]
    /\ UNCHANGED <<clock, dicts, stages, events, scored>>

\* if not hasattr(self, "_incident_stages") ...
CheckStages(w) ==
    /\ pc[w] = "check"
    /\ pc' = [pc EXCEPT ![w] = IF dicts = 0 THEN "create" ELSE "track"]
    /\ UNCHANGED <<clock, lastAlert, nextId, dicts, stages, job, events, log, scored>>

\* ... self._incident_stages = {}
CreateStages(w) ==
    /\ pc[w] = "create"
    /\ dicts' = dicts + 1
    /\ pc' = [pc EXCEPT ![w] = "track"]
    /\ UNCHANGED <<clock, lastAlert, nextId, stages, job, events, log, scored>>

\* A bug: all alerts are tracked under one key.
TrackTogether(w) ==
    /\ pc[w] = "track"
    /\ stages' = [stages EXCEPT ![dicts] = [i \in Ids |-> @[i] \cup job[w].fired]]
    /\ job' = [job EXCEPT ![w].dict = dicts]
    /\ pc' = [pc EXCEPT ![w] = "score"]
    /\ UNCHANGED <<clock, lastAlert, nextId, dicts, events, log, scored>>

\* A bug: the source is tracked instead of the classes.
TrackSource(w) ==
    /\ pc[w] = "track"
    /\ stages' = [stages EXCEPT ![dicts][job[w].id] = @ \cup {job[w].src}]
    /\ job' = [job EXCEPT ![w].dict = dicts]
    /\ pc' = [pc EXCEPT ![w] = "score"]
    /\ UNCHANGED <<clock, lastAlert, nextId, dicts, events, log, scored>>

\* The classes join the set of the incident, in the dict that is there now.
TrackStages(w) ==
    /\ pc[w] = "track"
    /\ stages' = [stages EXCEPT ![dicts][job[w].id] = @ \cup job[w].fired]
    /\ job' = [job EXCEPT ![w].dict = dicts]
    /\ pc' = [pc EXCEPT ![w] = "score"]
    /\ UNCHANGED <<clock, lastAlert, nextId, dicts, events, log, scored>>

\* attack_chain_bonus is computed from the size of the set, and the alerts leave.
Score(w) ==
    /\ pc[w] = "score"
    /\ scored' = scored \cup {[src |-> job[w].src, id |-> job[w].id, fired |-> job[w].fired,
                               counted |-> stages[job[w].dict][job[w].id]]}
    /\ job' = [job EXCEPT ![w] = NoJob]
    /\ pc' = [pc EXCEPT ![w] = "idle"]
    /\ UNCHANGED <<clock, lastAlert, nextId, dicts, stages, events, log>>

\* POST /api/alerts/clear empties _source_incidents, and no stage set.
Clear ==
    /\ \E s \in Sources : Known(s)
    /\ lastAlert' = [s \in Sources |-> NoEntry]
    /\ log' = Append(log, Cleared)
    /\ UNCHANGED <<clock, nextId, dicts, stages, pc, job, events, scored>>

Aggregate(w) ==
    \/ Begin(w) \/ Correlate(w) \/ CheckStages(w) \/ CreateStages(w)
    \/ TrackStages(w) \/ Score(w)

Next == Tick \/ Clear \/ \E w \in Workers : Aggregate(w)

Spec == Init /\ [][Next]_vars
----------------------------------------------------------------------------
Job == [src : Sources \cup {Anonymous}, ts : Nat, fired : SUBSET Classes, id : Ids,
        dict : 0..Cardinality(Workers)]

TypeOK ==
    /\ clock \in 0..MaxClock
    /\ lastAlert \in [Sources -> [ts : Nat, id : Ids]]
    /\ nextId \in 1..(MaxEvents + 1)
    /\ dicts \in 0..Cardinality(Workers)
    /\ stages \in [0..Cardinality(Workers) -> [Ids -> SUBSET Classes]]
    /\ pc \in [Workers -> {"idle", "correlate", "check", "create", "track", "score"}]
    /\ job \in [Workers -> Job]
    /\ events \in 0..MaxEvents
    /\ log \in Seq([src : Sources \cup {Anonymous}, ts : Nat, id : Ids, fired : SUBSET Classes])
    /\ \A a \in scored : /\ a.src \in Sources \cup {Anonymous} /\ a.id \in Ids
                         /\ a.fired \subseteq Classes /\ a.counted \subseteq Classes

(* Alerts i and j of the log are of one source, and none of that source    *)
(* was correlated in between.                                              *)
Consecutive(i, j) ==
    /\ i < j /\ log[i].src = log[j].src /\ log[i].src # Anonymous
    /\ \A k \in (i + 1)..(j - 1) : log[k].src # log[i].src

\* What makes the aggregator forget alert i before it correlates alert j.
Forgotten(i, j) ==
    \E k \in (i + 1)..(j - 1) : log[k] = Cleared \/ log[k].ts > log[i].ts + Window

(* No incident mixes alerts of two sources, whatever order alerts come in  *)
(* and whatever is forgotten in between.                                   *)
IncidentHasOneSource ==
    \A i, j \in DOMAIN log :
        log[i] # Cleared /\ log[j] # Cleared /\ log[i].id = log[j].id => log[i].src = log[j].src

(* An alert never joins an incident whose last alert is older than the     *)
(* window, and it opens a new one inside the window only if a clear, or an *)
(* alert of another source stamped past the window, came in between.       *)
IncidentsFollowWindow ==
    \A i, j \in DOMAIN log : Consecutive(i, j) =>
        /\ log[i].id = log[j].id => log[j].ts <= log[i].ts + Window
        /\ log[i].id # log[j].id => log[j].ts > log[i].ts + Window \/ Forgotten(i, j)

(* The score of an alert counts its own classes, and no class that was not *)
(* detected in the same incident, with any number of workers: no other     *)
(* source's stages, and none of the alerts a clear has forgotten.          *)
ChainFromOneIncident ==
    \A a \in scored :
        /\ a.fired \subseteq a.counted
        /\ a.src # Anonymous =>
              a.counted \subseteq UNION {log[i].fired : i \in {k \in DOMAIN log : log[k].id = a.id}}

=============================================================================
