---------------------------- MODULE SlidingWindow ----------------------------
(***************************************************************************)
(* SlidingWindowStore (engine/features/store.py): the events of one key in *)
(* one window, in a Redis sorted set or, without Redis, in a deque.        *)
(*                                                                         *)
(* Workers are the threads that run the pipeline (the event loop and the   *)
(* replay threads): each adds the event it is given, pruning as it goes,   *)
(* and then reads the window as of that event's timestamp.  Between two    *)
(* Redis commands of a worker another one may run.  A command, or the      *)
(* attempt to connect, fails when Faulty, and a failed command may have    *)
(* been carried out; that covers the throttle of the connection attempts.  *)
(***************************************************************************)
EXTENDS SequencesExt

CONSTANTS Workers,
          Window,     \* window_sec
          Lags,       \* how late an event may be stamped
          Backends,   \* which of "redis", "memory" the store may start on
          Faulty,     \* may Redis fail and come back?
          Clearing,   \* may an analyst clear the alerts?
          MaxClock,   \* bound on the clock
          MaxEvents   \* bound on the events

ASSUME ConstantsAssumption ==
    /\ Window \in Nat \ {0} /\ Lags \subseteq Nat
    /\ Backends \subseteq {"redis", "memory"}
    /\ Faulty \in BOOLEAN /\ Clearing \in BOOLEAN
    /\ MaxClock \in Nat /\ MaxEvents \in Nat

VARIABLES
    clock,
    connected,  \* is_redis_connected
    deque,      \* _memory_store[key], in order of arrival
    zset,       \* the sorted set: timestamps are the scores
    expiry,     \* when Redis expires the key
    pc, job,    \* what each worker does next, and the event it is at
    started,    \* how many events have begun
    added,      \* history: events put into a store, since the last clear
    evicted,    \* history: those that left with their key before their time
    reads       \* history: the last answer of get_events to each worker

vars == <<clock, connected, deque, zset, expiry, pc, job, started, added, evicted, reads>>

Event  == [id : 1..MaxEvents, ts : 0..MaxClock]
NoJob  == [id |-> 0, ts |-> 0]
NoRead == [at |-> 0, now |-> 0, due |-> {}, got |-> {}]

Init ==
    /\ clock = 0
    /\ connected \in {b = "redis" : b \in Backends}
    /\ deque = <<>> /\ zset = {} /\ expiry = 0
    /\ pc = [w \in Workers |-> "idle"] /\ job = [w \in Workers |-> NoJob]
    /\ started = 0 /\ added = {} /\ evicted = {} /\ reads = [w \in Workers |-> NoRead]

Goto(w, l) == pc' = [pc EXCEPT ![w] = l]

\* A command fails, and takes the store to its fallback.
Fails == Faulty /\ connected' = FALSE

Expired(e, t) == e.ts + Window <= t
Age(e, t)     == t - e.ts

\* The sorted set becomes s: without a member the key is gone, with its TTL.
Keep(s) == zset' = s /\ expiry' = IF s = {} THEN 0 ELSE expiry
Pruned(t) == {e \in zset : ~Expired(e, t)}
----------------------------------------------------------------------------
(* add_event.                                                              *)

\* The event is given to the pipeline; a store that is not connected tries to be.
Begin(w) ==
    /\ pc[w] = "idle" /\ started < MaxEvents
    /\ \E lag \in Lags : lag <= clock
                         /\ job' = [job EXCEPT ![w] = [id |-> started + 1, ts |-> clock - lag]]
    /\ started' = started + 1
    /\ connected' \in {connected, connected \/ Faulty}
    /\ Goto(w, IF connected' THEN "zadd" ELSE "append")
    /\ UNCHANGED <<clock, deque, zset, expiry, added, evicted, reads>>

\* A bug: an event Redis has refused does not go to the deque.
ZaddOrDrop(w) ==
    /\ pc[w] = "zadd"
    /\ added' = added \cup {job[w]}
    /\ \/ zset' = zset \cup {job[w]} /\ Goto(w, "zrem") /\ UNCHANGED connected
       \/ Fails /\ UNCHANGED zset /\ Goto(w, "read")
    /\ UNCHANGED <<clock, deque, expiry, job, started, evicted, reads>>

\* ZADD.
Zadd(w) ==
    /\ pc[w] = "zadd"
    /\ \/ /\ zset' = zset \cup {job[w]} /\ added' = added \cup {job[w]}
          /\ Goto(w, "zrem")
          /\ UNCHANGED connected
       \/ /\ Fails
          /\ \/ zset' = zset \cup {job[w]} /\ added' = added \cup {job[w]}
             \/ UNCHANGED <<zset, added>>
          /\ Goto(w, "append")
    /\ UNCHANGED <<clock, deque, expiry, job, started, evicted, reads>>

\* ZREMRANGEBYSCORE -inf cutoff, and EXPIRE: a failure of either sends the
\* event to the deque as well.
Zrem(w) ==
    /\ pc[w] = "zrem"
    /\ \/ /\ zset' = Pruned(job[w].ts)
          /\ expiry' = IF zset' = {} THEN 0 ELSE clock + 2 * Window
          /\ Goto(w, "read")
          /\ UNCHANGED connected
       \/ /\ Fails
          /\ \E s \in {zset, Pruned(job[w].ts)} : Keep(s)
          /\ Goto(w, "append")
    /\ UNCHANGED <<clock, deque, job, started, added, evicted, reads>>

\* A bug: pops up to the last expired event, in place of the first kept one.
PopThrough(d, t) ==
    LET old == {i \in DOMAIN d : Age(d[i], t) > Window}
    IN IF old = {} THEN d ELSE SubSeq(d, Max(old) + 1, Len(d))

\* while dq and dq[0][0] < cutoff: dq.popleft()
PopExpired(d, t) ==
    LET kept == {i \in DOMAIN d : Age(d[i], t) <= Window}
    IN IF kept = {} THEN <<>> ELSE SubSeq(d, Min(kept), Len(d))

\* The deque: append, then pop.
Push(w) ==
    /\ pc[w] = "append"
    /\ deque' = PopExpired(Append(deque, job[w]), job[w].ts)
    /\ added' = added \cup {job[w]}
    /\ Goto(w, "read")
    /\ UNCHANGED <<clock, connected, zset, expiry, job, started, evicted, reads>>
----------------------------------------------------------------------------
(* get_events, as of the timestamp of the event.                           *)

\* elsewhere: what the other store holds, and this read cannot find.
Answer(w, got, elsewhere) ==
    /\ reads' = [reads EXCEPT ![w] = [at |-> job[w].ts, now |-> clock, got |-> got,
                                      due |-> added \ (evicted \cup elsewhere)]]
    /\ Goto(w, "idle") /\ job' = [job EXCEPT ![w] = NoJob]

\* A read does not try to connect.  Redis prunes first ...
ReadPrune(w) ==
    /\ pc[w] = "read" /\ connected
    /\ \/ /\ Keep(Pruned(job[w].ts))
          /\ Goto(w, "range")
          /\ UNCHANGED connected
       \/ /\ Fails
          /\ \E s \in {zset, Pruned(job[w].ts)} : Keep(s)
          /\ Goto(w, "readDeque")
    /\ UNCHANGED <<clock, deque, job, started, added, evicted, reads>>

\* ... then ZRANGEBYSCORE cutoff +inf.
ReadRange(w) ==
    /\ pc[w] = "range"
    /\ \/ /\ Answer(w, {e \in zset : Age(e, job[w].ts) <= Window}, ToSet(deque))
          /\ UNCHANGED connected
       \/ /\ Fails
          /\ Goto(w, "readDeque")
          /\ UNCHANGED <<job, reads>>
    /\ UNCHANGED <<clock, deque, zset, expiry, started, added, evicted>>

\* The deque: pop, then what is left that is not newer than now.
ReadDeque(w) ==
    /\ pc[w] = "readDeque" \/ (pc[w] = "read" /\ ~connected)
    /\ deque' = PopExpired(deque, job[w].ts)
    /\ Answer(w, {e \in ToSet(deque') : e.ts <= job[w].ts}, zset)
    /\ UNCHANGED <<clock, connected, zset, expiry, started, added, evicted>>
----------------------------------------------------------------------------
\* Time does not pass the expiry of a key.
Tick ==
    /\ clock < MaxClock /\ (expiry # 0 => clock < expiry)
    /\ clock' = clock + 1
    /\ UNCHANGED <<connected, deque, zset, expiry, pc, job, started, added, evicted, reads>>

\* Redis expires a key that has not been written for two windows.
Expire ==
    /\ expiry # 0 /\ expiry = clock
    /\ Keep({})
    /\ evicted' = evicted \cup {e \in zset : ~Expired(e, clock)}
    /\ UNCHANGED <<clock, connected, deque, pc, job, started, added, reads>>

\* POST /api/alerts/clear: the deques, and flushdb() if connected.
Clear ==
    /\ Clearing
    /\ deque' = <<>>
    /\ \/ connected /\ Keep({})
       \/ (~connected \/ Faulty) /\ UNCHANGED <<zset, expiry>>
    /\ added' = {} /\ evicted' = {}
    /\ UNCHANGED <<clock, connected, pc, job, started, reads>>

Process(w) ==
    \/ Begin(w) \/ Zadd(w) \/ Zrem(w) \/ Push(w)
    \/ ReadPrune(w) \/ ReadRange(w) \/ ReadDeque(w)

Next == Tick \/ Expire \/ Clear \/ \E w \in Workers : Process(w)

Spec == Init /\ [][Next]_vars
----------------------------------------------------------------------------
TypeOK ==
    /\ clock \in 0..MaxClock /\ started \in 0..MaxEvents
    /\ connected \in BOOLEAN
    /\ deque \in Seq(Event) /\ zset \subseteq Event /\ added \subseteq Event /\ evicted \subseteq Event
    /\ expiry \in 0..(MaxClock + 2 * Window)
    /\ pc \in [Workers -> {"idle", "zadd", "zrem", "append", "read", "range", "readDeque"}]
    /\ \A w \in Workers : job[w] = NoJob \/ job[w] \in Event
    /\ \A w \in Workers : reads[w].got \subseteq Event /\ reads[w].due \subseteq Event

(* Failing over and back never throws away an event that is still in the   *)
(* window of the wall clock: it is in the sorted set or in the deque,      *)
(* however late the events that prune them are stamped.  The one exception *)
(* is a TTL that runs out between ZADD, which does not renew it, and       *)
(* EXPIRE.                                                                 *)
NothingLost ==
    \A e \in added \ evicted : ~Expired(e, clock) => e \in zset \cup ToSet(deque)

(* A read misses an event up to its own timestamp that is still in the     *)
(* window of the wall clock only if that event is in the store the read    *)
(* does not ask, after a failover: late events and other workers pruning   *)
(* under it hide nothing, from either store.                               *)
ReadsComplete ==
    \A w \in Workers : \A e \in reads[w].due :
        e.ts <= reads[w].at /\ ~Expired(e, reads[w].now) => e \in reads[w].got
=============================================================================
