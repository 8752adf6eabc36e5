--------------------------- MODULE RuntimeConfig ---------------------------
(***************************************************************************)
(* The runtime configuration store: the analysts' threshold overrides and  *)
(* suppression rules, kept in memory and mirrored in Redis                 *)
(* (engine/runtime_config.py, and the live thresholds of engine/config.py).*)
(*                                                                         *)
(* Request handlers run on threads of their own (FastAPI's thread pool)    *)
(* and the detection pipeline reads the active rules for every alert.      *)
(* They share one RuntimeConfigStore, whose RLock is `lock`.  A step is    *)
(* what runs between two points where another thread, Redis or a crash can *)
(* come in: taking the lock and one Redis command at a time.               *)
(*                                                                         *)
(* A threshold is Baseline when it has its environment default, otherwise  *)
(* one of Settings; the map threshold_overrides() returns is then `live`   *)
(* itself, and a hash field that does not exist is Baseline as well.  A    *)
(* rule is abstracted to its enabled flag: matching and expiry belong to   *)
(* the pipeline.                                                           *)
(***************************************************************************)
EXTENDS Naturals

CONSTANTS Analysts,   \* threads that serve the configuration endpoints
          Pipeline,   \* the thread that evaluates alerts against the rules
          Params,     \* tunable thresholds, "rule.parameter"
          Settings,   \* values of a threshold other than its default
          Baseline,   \* the environment default of a threshold
          RuleIds,    \* the uuid4s create_suppression_rule may be given
          None,       \* no thread, no argument
          Faults      \* which of "redis", "clear", "crash" may happen

ASSUME ConstantsAssumption ==
    /\ Pipeline \notin Analysts
    /\ None \notin Analysts \cup {Pipeline}
    /\ None \notin RuleIds
    /\ Baseline \notin Settings
    /\ Params \cap RuleIds = {}
    /\ Faults \subseteq {"redis", "clear", "crash"}

VARIABLES
    live,        \* THRESHOLDS, what the engines read on every evaluation
    stored,      \* _stored_overrides, the snapshot the next HSET writes
    rules,       \* _suppressions: the enabled flag, or "absent"
    connected,   \* is_redis_connected (never cleared while the process lives)
    retryDue,    \* 15 s have passed since the last connection attempt
    refreshDue,  \* refresh_interval_seconds have passed since _last_refresh
    lock,        \* holder of _lock, or None
    pc, arg,     \* what each thread does next, and the parameter or rule id
    fetched,     \* the rules a refresh has read and not yet installed
    boot,        \* "down", "constructed" and "loading" (before and in load()) or "up"
    redisUp,     \* Redis answers
    redisThr, redisRules,   \* the two hashes in Redis
    issued, gone,           \* history: ids created; ids whose deletion is final
    unsynced, thrSynced     \* history: ids, and whether thresholds, a failed
                            \* call may have left different from Redis

process == <<live, stored, rules, connected, retryDue, refreshDue>>
threads == <<lock, pc, arg, fetched>>
redis   == <<redisUp, redisThr, redisRules>>
history == <<issued, gone, unsynced, thrSynced>>
vars    == <<process, threads, boot, redis, history>>

Threads == Analysts \cup {Pipeline}
Value   == Settings \cup {Baseline}
Flag    == {"on", "off"}
Slot    == Flag \cup {"absent"}
NoOverride == [p \in Params |-> Baseline]
NoRule     == [r \in RuleIds |-> "absent"]

\* A handler that changes a threshold and has not finished persisting it.
WritingThresholds(t) == pc[t] \in {"set", "setDel", "setPut", "resetDel"}
Present(r) == rules[r] # "absent"

Labels == {"idle", "set", "setDel", "setPut", "resetDel", "rulePut", "ruleDel",
           "stale", "fetch", "install", "list", "patch"}
\* Where a thread holds _lock.
Critical == {"setDel", "setPut", "resetDel", "rulePut", "ruleDel", "fetch", "install"}
----------------------------------------------------------------------------
(* The memory of the process before its first start means nothing: load()  *)
(* overwrites it.                                                          *)
Init ==
    /\ live = NoOverride /\ stored = NoOverride /\ rules = NoRule
    /\ connected = FALSE /\ retryDue = FALSE /\ refreshDue = FALSE
    /\ lock = None /\ fetched = NoRule
    /\ pc = [t \in Threads |-> "idle"] /\ arg = [t \in Threads |-> None]
    /\ boot = "down"
    /\ redisUp \in {b \in BOOLEAN : b \/ "redis" \in Faults}
    /\ redisThr = NoOverride /\ redisRules = NoRule
    /\ issued = {} /\ gone = {} /\ unsynced = {} /\ thrSynced = TRUE

Goto(t, l)  == pc' = [pc EXCEPT ![t] = l]
Finish(t)   == Goto(t, "idle") /\ arg' = [arg EXCEPT ![t] = None]
Acquire(t)  == lock = None /\ lock' = t
Release(t)  == lock' = None /\ Finish(t)

\* A bug: only the constructor ever tries to connect.
NeverRetry == connected

(* The value of the `persistent` property, and what reading it does: a     *)
(* client that is not connected tries once when the throttle allows it.    *)
Persistent == connected \/ (retryDue /\ redisUp)
TryConnect == connected' = Persistent /\ retryDue' = (retryDue /\ connected)
----------------------------------------------------------------------------
(* Thresholds.                                                             *)

\* A bug: a value is stored before it is validated.
UnvalidatedSet(t) ==
    /\ boot = "up" /\ pc[t] = "idle"
    /\ \E p \in Params : /\ live' = [live EXCEPT ![p] = None]
                         /\ arg' = [arg EXCEPT ![t] = p]
    /\ Goto(t, "set")
    /\ UNCHANGED <<stored, rules, connected, retryDue, refreshDue, lock, fetched,
                   boot, redis, history>>

\* set_threshold: the live value changes before _lock is taken.
SetLive(t) ==
    /\ boot = "up" /\ pc[t] = "idle"
    /\ \E p \in Params, v \in Value : /\ live' = [live EXCEPT ![p] = v]
                                      /\ arg' = [arg EXCEPT ![t] = p]
    /\ Goto(t, "set")
    /\ UNCHANGED <<stored, rules, connected, retryDue, refreshDue, lock, fetched,
                   boot, redis, history>>

\* ... then, under the lock, the overrides are taken from the live values.
SetSnapshot(t) ==
    /\ boot = "up" /\ pc[t] = "set"
    /\ Acquire(t)
    /\ stored' = live
    /\ Goto(t, "setDel")
    /\ UNCHANGED <<live, rules, connected, retryDue, refreshDue, arg, fetched,
                   boot, redis, history>>

\* A bug: the hash is not deleted before the HSET.
KeepOldFields(t) ==
    /\ boot = "up" /\ pc[t] = "setDel"
    /\ TryConnect
    /\ IF Persistent THEN Goto(t, "setPut") /\ UNCHANGED <<lock, arg, thrSynced>>
                     ELSE Release(t) /\ thrSynced' = FALSE
    /\ UNCHANGED <<live, stored, rules, refreshDue, fetched, boot, redis,
                   issued, gone, unsynced>>

\* _persist_threshold_overrides, first command: DELETE the hash.  With no
\* override left, that is all.
PersistDelete(t) ==
    /\ boot = "up" /\ pc[t] = "setDel"
    /\ TryConnect
    /\ \/ /\ Persistent /\ redisUp
          /\ redisThr' = NoOverride
          /\ IF stored = NoOverride
             THEN Release(t) /\ thrSynced' = TRUE
             ELSE Goto(t, "setPut") /\ UNCHANGED <<lock, arg, thrSynced>>
       \/ /\ ~(Persistent /\ redisUp)
          /\ Release(t)
          /\ thrSynced' = FALSE
          /\ UNCHANGED redisThr
    /\ UNCHANGED <<live, stored, rules, refreshDue, fetched, boot, redisUp, redisRules,
                   issued, gone, unsynced>>

\* Second command: HSET adds the fields of the snapshot to the hash.
PersistPut(t) ==
    /\ boot = "up" /\ pc[t] = "setPut"
    /\ \/ /\ redisUp
          /\ redisThr' = [p \in Params |->
                            IF stored[p] = Baseline THEN redisThr[p] ELSE stored[p]]
          /\ thrSynced' = TRUE
       \/ /\ ~redisUp
          /\ thrSynced' = FALSE
          /\ UNCHANGED redisThr
    /\ Release(t)
    /\ UNCHANGED <<process, fetched, boot, redisUp, redisRules, issued, gone, unsynced>>

\* reset_thresholds: live values first, both under the lock.
Reset(t) ==
    /\ boot = "up" /\ pc[t] = "idle"
    /\ Acquire(t)
    /\ live' = NoOverride /\ stored' = NoOverride
    /\ Goto(t, "resetDel")
    /\ UNCHANGED <<rules, connected, retryDue, refreshDue, arg, fetched,
                   boot, redis, history>>

ResetDelete(t) ==
    /\ boot = "up" /\ pc[t] = "resetDel"
    /\ TryConnect
    /\ \/ /\ Persistent /\ redisUp
          /\ redisThr' = NoOverride /\ thrSynced' = TRUE
       \/ /\ ~(Persistent /\ redisUp)
          /\ thrSynced' = FALSE
          /\ UNCHANGED redisThr
    /\ Release(t)
    /\ UNCHANGED <<live, stored, rules, refreshDue, fetched, boot, redisUp, redisRules,
                   issued, gone, unsynced>>
----------------------------------------------------------------------------
(* Suppression rules.                                                      *)

\* create_suppression_rule, up to its HSET.  The id is a fresh uuid4.
CreateRule(t) ==
    /\ boot = "up" /\ pc[t] = "idle"
    /\ Acquire(t)
    /\ \E r \in RuleIds \ issued, f \in Flag :
          /\ rules' = [rules EXCEPT ![r] = f]
          /\ arg' = [arg EXCEPT ![t] = r]
          /\ issued' = issued \cup {r}
          /\ unsynced' = unsynced \cup {r}
    /\ Goto(t, "rulePut")
    /\ UNCHANGED <<live, stored, connected, retryDue, refreshDue, fetched, boot, redis,
                   gone, thrSynced>>

\* _persist_suppression.
PutRule(t) ==
    /\ boot = "up" /\ pc[t] = "rulePut"
    /\ TryConnect
    /\ \/ /\ Persistent /\ redisUp
          /\ redisRules' = [redisRules EXCEPT ![arg[t]] = rules[arg[t]]]
          /\ unsynced' = unsynced \ {arg[t]}
       \/ /\ ~(Persistent /\ redisUp)
          /\ UNCHANGED <<redisRules, unsynced>>
    /\ refreshDue' = FALSE
    /\ Release(t)
    /\ UNCHANGED <<live, stored, rules, fetched, boot, redisUp, redisThr,
                   issued, gone, thrSynced>>

\* delete_suppression_rule, up to its HDEL.  An unknown id is a 404.
DeleteRule(t) ==
    /\ boot = "up" /\ pc[t] = "idle"
    /\ Acquire(t)
    /\ \E r \in RuleIds :
          /\ Present(r)
          /\ rules' = [rules EXCEPT ![r] = "absent"]
          /\ arg' = [arg EXCEPT ![t] = r]
          /\ unsynced' = unsynced \cup {r}
    /\ refreshDue' = FALSE
    /\ Goto(t, "ruleDel")
    /\ UNCHANGED <<live, stored, connected, retryDue, fetched, boot, redis,
                   issued, gone, thrSynced>>

\* The HDEL.  A failure is logged and the handler still answers "deleted".
\* The deletion is final unless the HDEL failed.
DropRule(t) ==
    /\ boot = "up" /\ pc[t] = "ruleDel"
    /\ TryConnect
    /\ \/ /\ Persistent /\ redisUp
          /\ redisRules' = [redisRules EXCEPT ![arg[t]] = "absent"]
          /\ unsynced' = unsynced \ {arg[t]}
          /\ gone' = gone \cup {arg[t]}
       \/ /\ ~Persistent
          /\ gone' = gone \cup {arg[t]}
          /\ UNCHANGED <<redisRules, unsynced>>
       \/ /\ Persistent /\ ~redisUp
          /\ UNCHANGED <<redisRules, unsynced, gone>>
    /\ Release(t)
    /\ UNCHANGED <<live, stored, rules, refreshDue, fetched, boot, redisUp, redisThr,
                   issued, thrSynced>>
----------------------------------------------------------------------------
(* Reading the rules.  get_suppression_rules, get_active_suppression_rules *)
(* and the PATCH handler, which looks the rule up in the list first, all   *)
(* begin with _refresh_if_stale.                                           *)

\* r is the rule to patch, None for a plain read.
BeginRead(t, r) ==
    /\ boot = "up" /\ pc[t] = "idle"
    /\ TryConnect
    /\ Goto(t, IF Persistent /\ refreshDue THEN "stale" ELSE "list")
    /\ arg' = [arg EXCEPT ![t] = r]
    /\ UNCHANGED <<live, stored, rules, refreshDue, lock, fetched, boot, redis, history>>

\* A bug: the refresh reads Redis before it takes the lock.
FetchUnlocked(t) ==
    /\ boot = "up" /\ pc[t] = "stale"
    /\ Goto(t, IF refreshDue THEN "fetch" ELSE "list")
    /\ UNCHANGED <<process, lock, arg, fetched, boot, redis, history>>

\* The staleness test again, under the lock.
RecheckStale(t) ==
    /\ boot = "up" /\ pc[t] = "stale"
    /\ IF refreshDue THEN Acquire(t) /\ Goto(t, "fetch")
                     ELSE lock = None /\ Goto(t, "list") /\ UNCHANGED lock
    /\ UNCHANGED <<process, arg, fetched, boot, redis, history>>

\* _load_suppressions (connected by now): a failed HGETALL leaves an empty dictionary.
FetchRules(t) ==
    /\ boot = "up" /\ pc[t] = "fetch"
    /\ fetched' = IF redisUp THEN redisRules ELSE NoRule
    /\ unsynced' = IF redisUp THEN {} ELSE RuleIds
    /\ Goto(t, "install")
    /\ UNCHANGED <<process, lock, arg, boot, redis, issued, gone, thrSynced>>

\* ... which replaces the rules in memory, whatever it holds.
InstallRules(t) ==
    /\ boot = "up" /\ pc[t] = "install"
    /\ rules' = fetched /\ fetched' = NoRule
    /\ refreshDue' = FALSE
    /\ lock' = None
    /\ Goto(t, "list")
    /\ UNCHANGED <<live, stored, connected, retryDue, arg, boot, redis, history>>

\* list(self._suppressions.values()); a PATCH goes on if the id is in it.
ListRules(t) ==
    /\ boot = "up" /\ pc[t] = "list"
    /\ lock = None
    /\ IF arg[t] # None /\ Present(arg[t])
       THEN Goto(t, "patch") /\ UNCHANGED arg
       ELSE Finish(t)
    /\ UNCHANGED <<process, lock, fetched, boot, redis, history>>

\* A bug: the rule that was listed is written back without looking it up.
PatchListed(t) ==
    /\ boot = "up" /\ pc[t] = "patch"
    /\ Acquire(t)
    /\ \E f \in Flag : rules' = [rules EXCEPT ![arg[t]] = f]
    /\ unsynced' = unsynced \cup {arg[t]}
    /\ Goto(t, "rulePut")
    /\ UNCHANGED <<live, stored, connected, retryDue, refreshDue, arg, fetched, boot, redis,
                   issued, gone, thrSynced>>

\* update_suppression_rule, up to its HSET: the rule is looked up again.
PatchRule(t) ==
    /\ boot = "up" /\ pc[t] = "patch"
    /\ \/ /\ Present(arg[t])
          /\ Acquire(t)
          /\ \E f \in Flag : rules' = [rules EXCEPT ![arg[t]] = f]
          /\ unsynced' = unsynced \cup {arg[t]}
          /\ Goto(t, "rulePut")
          /\ UNCHANGED arg
       \/ /\ ~Present(arg[t]) /\ lock = None
          /\ Finish(t)
          /\ UNCHANGED <<lock, rules, unsynced>>
    /\ UNCHANGED <<live, stored, connected, retryDue, refreshDue, fetched, boot, redis,
                   issued, gone, thrSynced>>
----------------------------------------------------------------------------
(* The process and its environment.                                        *)

\* RuntimeConfigStore(): the first connection attempt.
Construct ==
    /\ boot = "down"
    /\ boot' = "constructed"
    /\ connected' = redisUp /\ retryDue' = FALSE
    /\ UNCHANGED <<live, stored, rules, refreshDue, threads, redis, history>>

\* load(): the overrides and then the rules, each by an HGETALL.  Without Redis
\* the process starts from the baseline and no rules.
LoadThresholds ==
    /\ boot = "constructed"
    /\ boot' = "loading"
    /\ LET read == connected /\ redisUp
       IN /\ live' = IF read THEN redisThr ELSE NoOverride
          /\ stored' = live'
          /\ thrSynced' = read
    /\ UNCHANGED <<rules, connected, retryDue, refreshDue, threads, redis, issued, gone, unsynced>>

LoadRules ==
    /\ boot = "loading"
    /\ boot' = "up"
    /\ LET read == connected /\ redisUp
       IN /\ rules' = IF read THEN redisRules ELSE NoRule
          /\ unsynced' = IF read THEN {} ELSE RuleIds
    /\ refreshDue' = FALSE
    /\ UNCHANGED <<live, stored, connected, retryDue, threads, redis, issued, gone, thrSynced>>

\* The process dies between any two steps, and its threads with it.
Crash ==
    /\ "crash" \in Faults
    /\ boot = "up"
    /\ boot' = "down"
    /\ lock' = None /\ fetched' = NoRule
    /\ pc' = [t \in Threads |-> "idle"] /\ arg' = [t \in Threads |-> None]
    /\ UNCHANGED <<process, redis, history>>

\* POST /api/alerts/clear: flushdb() through the window store's client, on
\* the same database and without _lock.
ClearAlerts ==
    /\ "clear" \in Faults
    /\ boot = "up" /\ redisUp
    /\ redisThr' = NoOverride /\ redisRules' = NoRule
    /\ unsynced' = RuleIds /\ thrSynced' = FALSE
    /\ UNCHANGED <<process, threads, boot, redisUp, issued, gone>>

RedisSwitch ==
    /\ "redis" \in Faults
    /\ redisUp' = ~redisUp
    /\ UNCHANGED <<process, threads, boot, redisThr, redisRules, history>>

\* The wall clock passes the throttle, or the refresh interval.
RetryTick ==
    /\ boot = "up" /\ ~retryDue /\ ~connected
    /\ retryDue' = TRUE
    /\ UNCHANGED <<live, stored, rules, connected, refreshDue, threads, boot, redis, history>>

RefreshTick ==
    /\ boot = "up" /\ ~refreshDue
    /\ refreshDue' = TRUE
    /\ UNCHANGED <<live, stored, rules, connected, retryDue, threads, boot, redis, history>>
----------------------------------------------------------------------------
Continue(t) ==
    \/ SetSnapshot(t) \/ PersistDelete(t) \/ PersistPut(t) \/ ResetDelete(t)
    \/ PutRule(t) \/ DropRule(t)
    \/ RecheckStale(t) \/ FetchRules(t) \/ InstallRules(t) \/ ListRules(t) \/ PatchRule(t)

ThresholdRequest(t) == SetLive(t) \/ Reset(t)

RuleRequest(t) == CreateRule(t) \/ DeleteRule(t) \/ \E r \in RuleIds : BeginRead(t, r)

Environment == Crash \/ ClearAlerts \/ RedisSwitch \/ RetryTick \/ RefreshTick

Next ==
    \/ Construct \/ LoadThresholds \/ LoadRules
    \/ \E t \in Analysts : ThresholdRequest(t) \/ RuleRequest(t)
    \/ \E t \in Threads : BeginRead(t, None) \/ Continue(t)
    \/ Environment

Spec == Init /\ [][Next]_vars

(* Time passes; a handler that has begun is scheduled until it answers; the*)
(* worker loop of the backend evaluates alerts, and so reads the rules, for*)
(* as long as the process lives.  Nothing makes an analyst send a request, *)
(* and nothing makes Redis come or go.                                     *)
Fairness ==
    /\ WF_vars(Construct) /\ WF_vars(LoadThresholds) /\ WF_vars(LoadRules)
    /\ WF_vars(RetryTick) /\ WF_vars(RefreshTick)
    /\ WF_vars(BeginRead(Pipeline, None))
    /\ \A t \in Threads : WF_vars(Continue(t))

FairSpec == Spec /\ Fairness
----------------------------------------------------------------------------
TypeOK ==
    /\ live \in [Params -> Value] /\ stored \in [Params -> Value]
    /\ rules \in [RuleIds -> Slot] /\ fetched \in [RuleIds -> Slot]
    /\ connected \in BOOLEAN /\ retryDue \in BOOLEAN /\ refreshDue \in BOOLEAN
    /\ lock \in Threads \cup {None}
    /\ pc \in [Threads -> Labels]
    /\ arg \in [Threads -> Params \cup RuleIds \cup {None}]
    /\ boot \in {"down", "constructed", "loading", "up"}
    /\ redisUp \in BOOLEAN
    /\ redisThr \in [Params -> Value] /\ redisRules \in [RuleIds -> Slot]
    /\ issued \subseteq RuleIds /\ gone \subseteq RuleIds /\ unsynced \subseteq RuleIds
    /\ thrSynced \in BOOLEAN

(* Memory and Redis hold the same rule for every id, except the ids whose  *)
(* last call failed or is under way: no order of creates, patches, deletes *)
(* and refreshes by concurrent handlers makes them differ on another one.  *)
RulesMirrored ==
    boot = "up" /\ (\A t \in Threads : pc[t] # "install")
        => \A r \in RuleIds \ unsynced : rules[r] = redisRules[r]

(* Once no handler is changing a threshold, Redis holds the overrides that *)
(* are live, unless its last DELETE or HSET failed: the snapshot a handler *)
(* writes is never older than a change another handler has answered.       *)
OverridesMirrored ==
    boot = "up" /\ thrSynced /\ (\A t \in Threads : ~WritingThresholds(t))
        => redisThr = live

(* A rule whose deletion did not fail never suppresses an alert again: no  *)
(* refresh, no concurrent patch and no restart brings it back.             *)
DeletedStaysDeleted ==
    /\ boot = "up" => \A r \in gone : rules[r] = "absent" /\ fetched[r] = "absent"
    /\ \A r \in gone : redisRules[r] = "absent"

(* When Redis stays up and the analysts are quiet, the store reconnects by *)
(* itself and the rules in memory and in Redis agree for good: the alerts  *)
(* the pipeline evaluates are enough to trigger reconnection and refresh.  *)
Quiet == redisUp /\ \A t \in Analysts : pc[t] = "idle"
Reconverges == <>[]Quiet => <>[](connected /\ rules = redisRules)
=============================================================================
