------------------------ MODULE RuntimeConfigProofs ------------------------
(***************************************************************************)
(* For any number of threads, parameters, values and rule ids, and any set *)
(* of faults: RuntimeConfig is type correct, its lock excludes, and its    *)
(* three safety invariants hold.  Each invariant is proved from the ones   *)
(* before it, action by action.                                            *)
(***************************************************************************)
EXTENDS RuntimeConfig, TLAPS

(* The argument a handler carries from step to step is a rule id wherever  *)
(* it indexes the rules.                                                   *)
ArgOK ==
    \A t \in Threads :
        /\ pc[t] \in {"rulePut", "ruleDel", "patch"} => arg[t] \in RuleIds
        /\ pc[t] \in {"stale", "fetch", "install", "list"} => arg[t] \in RuleIds \cup {None}

(* _lock is held exactly by the thread that is between two commands, and a *)
(* process that is not up has no threads.                                  *)
LockOK ==
    \A t \in Threads : /\ pc[t] \in Critical <=> lock = t
                       /\ boot # "up" => pc[t] = "idle"

(* What a handler has done to the rules before its Redis command.          *)
HeldRule ==
    /\ \A t \in Threads :
          /\ pc[t] = "rulePut" => rules[arg[t]] # "absent"
          /\ pc[t] = "ruleDel" => rules[arg[t]] = "absent"
          /\ pc[t] \in {"stale", "fetch", "install"} /\ boot = "up" => connected
    /\ (\A t \in Threads : pc[t] # "install") => fetched = NoRule

(* No copy of a rule exists before it is created.                          *)
IssuedOK ==
    /\ gone \subseteq issued
    /\ \A r \in RuleIds \ issued :
          rules[r] = "absent" /\ fetched[r] = "absent" /\ redisRules[r] = "absent"
    /\ \A t \in Threads : pc[t] = "ruleDel" => arg[t] \in issued

(* A process that never reached Redis only knows rules Redis never had.    *)
MemoryMode ==
    boot = "up" /\ ~connected =>
        \A r \in RuleIds :
            rules[r] # "absent" \/ (\E t \in Threads : pc[t] = "ruleDel" /\ arg[t] = r)
                => redisRules[r] = "absent"

(* RulesMirrored, and what a refresh is about to install.                  *)
InstallOK ==
    boot = "up" => \A t \in Threads : pc[t] = "install" =>
        \A r \in RuleIds \ unsynced : fetched[r] = redisRules[r]

(* What a handler that persists thresholds relies on between two commands. *)
SnapshotOK ==
    /\ \A t \in Threads : pc[t] \in {"setDel", "setPut"} /\ (\A u \in Threads : pc[u] # "set")
          => stored = live
    /\ \A t \in Threads : pc[t] = "resetDel" /\ (\A u \in Threads : pc[u] # "set")
          => live = NoOverride
    /\ boot = "up" => \A t \in Threads : pc[t] = "setPut" => redisThr = NoOverride
    /\ boot = "loading" /\ thrSynced => redisThr = live
----------------------------------------------------------------------------
(* Every variable keeps its type, for any constants the assumption allows. *)
LEMMA Typing == Spec => [](TypeOK /\ ArgOK)
<1> USE DEF Value, Slot, Flag, NoOverride, NoRule, Labels, Threads
<1>1. Init => TypeOK /\ ArgOK
  <2> SUFFICES ASSUME Init PROVE TypeOK /\ ArgOK
    OBVIOUS
  <2>1. redisUp \in BOOLEAN
    BY DEF Init
  <2>2. TypeOK
    BY <2>1, ConstantsAssumption DEF Init, TypeOK
  <2> QED
    BY <2>2 DEF Init, ArgOK
<1>2. TypeOK /\ ArgOK /\ [Next]_vars => TypeOK' /\ ArgOK'
  <2> SUFFICES ASSUME TypeOK, ArgOK, [Next]_vars PROVE TypeOK' /\ ArgOK'
    OBVIOUS
  <2> USE DEF TypeOK, ArgOK, process, threads, redis, history, Goto, Finish, Acquire,
              Release, Persistent, TryConnect, Present
  <2>1. ASSUME NEW t \in Analysts, SetLive(t)
         PROVE  TypeOK' /\ ArgOK'
    BY <2>1 DEF SetLive
  <2>2. ASSUME NEW t \in Analysts, Reset(t)
         PROVE  TypeOK' /\ ArgOK'
    BY <2>2 DEF Reset
  <2>3. ASSUME NEW t \in Analysts, CreateRule(t)
         PROVE  TypeOK' /\ ArgOK'
    BY <2>3 DEF CreateRule
  <2>4. ASSUME NEW t \in Analysts, DeleteRule(t)
         PROVE  TypeOK' /\ ArgOK'
    <3>1. PICK r \in RuleIds : /\ rules' = [rules EXCEPT ![r] = "absent"]
                              /\ arg' = [arg EXCEPT ![t] = r]
                              /\ unsynced' = unsynced \cup {r}
      BY <2>4 DEF DeleteRule
    <3>2. TypeOK'
      BY <2>4, <3>1 DEF DeleteRule
    <3> QED
      BY <2>4, <3>1, <3>2 DEF DeleteRule
  <2>5. ASSUME NEW t \in Threads, NEW r \in RuleIds \cup {None}, BeginRead(t, r)
         PROVE  TypeOK' /\ ArgOK'
    BY <2>5 DEF BeginRead
  <2>6. ASSUME NEW t \in Threads, SetSnapshot(t)
         PROVE  TypeOK' /\ ArgOK'
    BY <2>6 DEF SetSnapshot
  <2>7. ASSUME NEW t \in Threads, PersistDelete(t)
         PROVE  TypeOK' /\ ArgOK'
    BY <2>7 DEF PersistDelete
  <2>8. ASSUME NEW t \in Threads, PersistPut(t)
         PROVE  TypeOK' /\ ArgOK'
    BY <2>8 DEF PersistPut
  <2>9. ASSUME NEW t \in Threads, ResetDelete(t)
         PROVE  TypeOK' /\ ArgOK'
    BY <2>9 DEF ResetDelete
  <2>10. ASSUME NEW t \in Threads, PutRule(t)
         PROVE  TypeOK' /\ ArgOK'
    BY <2>10 DEF PutRule
  <2>11. ASSUME NEW t \in Threads, DropRule(t)
         PROVE  TypeOK' /\ ArgOK'
    BY <2>11 DEF DropRule
  <2>12. ASSUME NEW t \in Threads, RecheckStale(t)
         PROVE  TypeOK' /\ ArgOK'
    BY <2>12 DEF RecheckStale
  <2>13. ASSUME NEW t \in Threads, FetchRules(t)
         PROVE  TypeOK' /\ ArgOK'
    BY <2>13 DEF FetchRules
  <2>14. ASSUME NEW t \in Threads, InstallRules(t)
         PROVE  TypeOK' /\ ArgOK'
    BY <2>14 DEF InstallRules
  <2>15. ASSUME NEW t \in Threads, ListRules(t)
         PROVE  TypeOK' /\ ArgOK'
    BY <2>15 DEF ListRules
  <2>16. ASSUME NEW t \in Threads, PatchRule(t)
         PROVE  TypeOK' /\ ArgOK'
    BY <2>16 DEF PatchRule
  <2>17. CASE Construct
    BY <2>17 DEF Construct
  <2>18. CASE LoadThresholds \/ LoadRules
    <3>1. CASE LoadThresholds
      <4>1. live' \in {redisThr, NoOverride} /\ stored' = live'
        BY <3>1 DEF LoadThresholds
      <4> QED
        BY <3>1, <4>1 DEF LoadThresholds
    <3> QED
      BY <2>18, <3>1 DEF LoadRules
  <2>19. CASE Crash
    BY <2>19 DEF Crash
  <2>20. CASE ClearAlerts
    BY <2>20 DEF ClearAlerts
  <2>21. CASE RedisSwitch
    BY <2>21 DEF RedisSwitch
  <2>22. CASE RetryTick
    BY <2>22 DEF RetryTick
  <2>23. CASE RefreshTick
    BY <2>23 DEF RefreshTick
  <2>24. CASE UNCHANGED vars
    BY <2>24 DEF vars
  <2> QED
    BY <2>1, <2>2, <2>3, <2>4, <2>5, <2>6, <2>7, <2>8, <2>9, <2>10, <2>11, <2>12,
       <2>13, <2>14, <2>15, <2>16, <2>17, <2>18, <2>19, <2>20, <2>21, <2>22, <2>23, <2>24
       DEF Next, ThresholdRequest, RuleRequest, Continue, Environment, Threads
<1>3. QED
  BY <1>1, <1>2, PTL DEF Spec

(* The type invariant of the component, checked by TLC on small instances. *)
THEOREM TypeCorrect == Spec => []TypeOK
BY Typing, PTL

(* _lock is exclusive: whoever is between two Redis commands of a handler  *)
(* that changes the configuration holds it.                                *)
LEMMA Locking == Spec => []LockOK
<1>1. Init => LockOK
  BY ConstantsAssumption DEF Init, LockOK, Critical, Threads
<1>2. TypeOK /\ LockOK /\ [Next]_vars => LockOK'
  <2> SUFFICES ASSUME TypeOK, LockOK, [Next]_vars PROVE LockOK'
    OBVIOUS
  <2>0. None \notin Threads /\ pc \in [Threads -> Labels] /\ lock \in Threads \cup {None}
    BY ConstantsAssumption DEF TypeOK, Threads
  <2> USE <2>0 DEF LockOK, Critical, process, threads, Goto, Finish, Acquire, Release
  <2>1. ASSUME NEW t \in Analysts, SetLive(t)
         PROVE  LockOK'
    BY <2>1 DEF SetLive
  <2>2. ASSUME NEW t \in Analysts, Reset(t)
         PROVE  LockOK'
    BY <2>2 DEF Reset
  <2>3. ASSUME NEW t \in Analysts, CreateRule(t)
         PROVE  LockOK'
    BY <2>3 DEF CreateRule
  <2>4. ASSUME NEW t \in Analysts, DeleteRule(t)
         PROVE  LockOK'
    BY <2>4 DEF DeleteRule
  <2>5. ASSUME NEW t \in Threads, NEW r \in RuleIds \cup {None}, BeginRead(t, r)
         PROVE  LockOK'
    BY <2>5 DEF BeginRead
  <2>6. ASSUME NEW t \in Threads, SetSnapshot(t)
         PROVE  LockOK'
    BY <2>6 DEF SetSnapshot
  <2>7. ASSUME NEW t \in Threads, PersistDelete(t)
         PROVE  LockOK'
    BY <2>7 DEF PersistDelete
  <2>8. ASSUME NEW t \in Threads, PersistPut(t)
         PROVE  LockOK'
    BY <2>8 DEF PersistPut
  <2>9. ASSUME NEW t \in Threads, ResetDelete(t)
         PROVE  LockOK'
    BY <2>9 DEF ResetDelete
  <2>10. ASSUME NEW t \in Threads, PutRule(t)
         PROVE  LockOK'
    BY <2>10 DEF PutRule
  <2>11. ASSUME NEW t \in Threads, DropRule(t)
         PROVE  LockOK'
    BY <2>11 DEF DropRule
  <2>12. ASSUME NEW t \in Threads, RecheckStale(t)
         PROVE  LockOK'
    BY <2>12 DEF RecheckStale
  <2>13. ASSUME NEW t \in Threads, FetchRules(t)
         PROVE  LockOK'
    BY <2>13 DEF FetchRules
  <2>14. ASSUME NEW t \in Threads, InstallRules(t)
         PROVE  LockOK'
    BY <2>14 DEF InstallRules
  <2>15. ASSUME NEW t \in Threads, ListRules(t)
         PROVE  LockOK'
    BY <2>15 DEF ListRules
  <2>16. ASSUME NEW t \in Threads, PatchRule(t)
         PROVE  LockOK'
    BY <2>16 DEF PatchRule
  <2>17. CASE Construct
    BY <2>17 DEF Construct
  <2>18. CASE LoadThresholds \/ LoadRules
    BY <2>18 DEF LoadThresholds, LoadRules
  <2>19. CASE Crash
    BY <2>19 DEF Crash
  <2>20. CASE ClearAlerts
    BY <2>20 DEF ClearAlerts
  <2>21. CASE RedisSwitch
    BY <2>21 DEF RedisSwitch
  <2>22. CASE RetryTick
    BY <2>22 DEF RetryTick
  <2>23. CASE RefreshTick
    BY <2>23 DEF RefreshTick
  <2>24. CASE UNCHANGED vars
    BY <2>24 DEF vars
  <2> QED
    BY <2>1, <2>2, <2>3, <2>4, <2>5, <2>6, <2>7, <2>8, <2>9, <2>10, <2>11, <2>12,
       <2>13, <2>14, <2>15, <2>16, <2>17, <2>18, <2>19, <2>20, <2>21, <2>22, <2>23, <2>24
       DEF Next, ThresholdRequest, RuleRequest, Continue, Environment, Threads
<1>3. QED
  BY <1>1, <1>2, Typing, PTL DEF Spec

(* What a handler knows about the rules while it holds the lock.           *)
LEMMA HeldRules == Spec => [](HeldRule /\ IssuedOK)
<1> USE DEF NoOverride, NoRule
<1>1. Init => HeldRule /\ IssuedOK
  BY ConstantsAssumption DEF Init, HeldRule, IssuedOK, Threads
<1>2. TypeOK /\ ArgOK /\ LockOK /\ HeldRule /\ IssuedOK /\ [Next]_vars => (HeldRule /\ IssuedOK)'
  <2> SUFFICES ASSUME TypeOK, ArgOK, LockOK, HeldRule /\ IssuedOK, [Next]_vars
               PROVE  (HeldRule /\ IssuedOK)'
    OBVIOUS
  <2> USE DEF HeldRule, IssuedOK, TypeOK, ArgOK, LockOK, Critical, process, threads, redis, history, Goto, Finish,
              Acquire, Release, Persistent, TryConnect, Present, Labels, Slot, Flag
  <2>1. ASSUME NEW t \in Analysts, SetLive(t)
         PROVE  (HeldRule /\ IssuedOK)'
    BY <2>1 DEF SetLive
  <2>2. ASSUME NEW t \in Analysts, Reset(t)
         PROVE  (HeldRule /\ IssuedOK)'
    BY <2>2 DEF Reset
  <2>3. ASSUME NEW t \in Analysts, CreateRule(t)
         PROVE  (HeldRule /\ IssuedOK)'
    <3>1. PICK r \in RuleIds \ issued, f \in Flag :
                /\ rules' = [rules EXCEPT ![r] = f]
                /\ arg' = [arg EXCEPT ![t] = r]
                /\ issued' = issued \cup {r}
      BY <2>3 DEF CreateRule
    <3>2. pc' = [pc EXCEPT ![t] = "rulePut"] /\ UNCHANGED <<connected, boot, redisRules, gone, fetched>>
      BY <2>3 DEF CreateRule
    <3>3. \A u \in Threads : pc[u] \notin Critical
      BY <2>3, ConstantsAssumption DEF CreateRule, Threads
    <3>4. HeldRule'
      BY <3>1, <3>2, <3>3 DEF Threads
    <3>5. IssuedOK'
      BY <3>1, <3>2, <3>3 DEF Threads
    <3> QED
      BY <3>4, <3>5
  <2>4. ASSUME NEW t \in Analysts, DeleteRule(t)
         PROVE  (HeldRule /\ IssuedOK)'
    <3>1. PICK r \in RuleIds : /\ rules[r] # "absent"
                              /\ rules' = [rules EXCEPT ![r] = "absent"]
                              /\ arg' = [arg EXCEPT ![t] = r]
      BY <2>4 DEF DeleteRule
    <3>2. pc' = [pc EXCEPT ![t] = "ruleDel"] /\ UNCHANGED <<connected, boot, redisRules, issued, gone, fetched>>
      BY <2>4 DEF DeleteRule
    <3>3. \A u \in Threads : pc[u] \notin Critical
      BY <2>4, ConstantsAssumption DEF DeleteRule, Threads
    <3>4. HeldRule'
      BY <3>1, <3>2, <3>3 DEF Threads
    <3>5. IssuedOK'
      BY <3>1, <3>2, <3>3 DEF Threads
    <3> QED
      BY <3>4, <3>5
  <2>5. ASSUME NEW t \in Threads, NEW r \in RuleIds \cup {None}, BeginRead(t, r)
         PROVE  (HeldRule /\ IssuedOK)'
    BY <2>5 DEF BeginRead
  <2>6. ASSUME NEW t \in Threads, SetSnapshot(t)
         PROVE  (HeldRule /\ IssuedOK)'
    BY <2>6 DEF SetSnapshot
  <2>7. ASSUME NEW t \in Threads, PersistDelete(t)
         PROVE  (HeldRule /\ IssuedOK)'
    BY <2>7 DEF PersistDelete
  <2>8. ASSUME NEW t \in Threads, PersistPut(t)
         PROVE  (HeldRule /\ IssuedOK)'
    BY <2>8 DEF PersistPut
  <2>9. ASSUME NEW t \in Threads, ResetDelete(t)
         PROVE  (HeldRule /\ IssuedOK)'
    BY <2>9 DEF ResetDelete
  <2>10. ASSUME NEW t \in Threads, PutRule(t)
         PROVE  (HeldRule /\ IssuedOK)'
    BY <2>10 DEF PutRule
  <2>11. ASSUME NEW t \in Threads, DropRule(t)
         PROVE  (HeldRule /\ IssuedOK)'
    BY <2>11 DEF DropRule
  <2>12. ASSUME NEW t \in Threads, RecheckStale(t)
         PROVE  (HeldRule /\ IssuedOK)'
    BY <2>12 DEF RecheckStale
  <2>13. ASSUME NEW t \in Threads, FetchRules(t)
         PROVE  (HeldRule /\ IssuedOK)'
    BY <2>13 DEF FetchRules
  <2>14. ASSUME NEW t \in Threads, InstallRules(t)
         PROVE  (HeldRule /\ IssuedOK)'
    BY <2>14 DEF InstallRules
  <2>15. ASSUME NEW t \in Threads, ListRules(t)
         PROVE  (HeldRule /\ IssuedOK)'
    BY <2>15 DEF ListRules
  <2>16. ASSUME NEW t \in Threads, PatchRule(t)
         PROVE  (HeldRule /\ IssuedOK)'
    BY <2>16 DEF PatchRule
  <2>17. CASE Construct
    BY <2>17 DEF Construct
  <2>18. CASE LoadThresholds \/ LoadRules
    BY <2>18 DEF LoadThresholds, LoadRules
  <2>19. CASE Crash
    BY <2>19 DEF Crash
  <2>20. CASE ClearAlerts
    BY <2>20 DEF ClearAlerts
  <2>21. CASE RedisSwitch
    BY <2>21 DEF RedisSwitch
  <2>22. CASE RetryTick
    BY <2>22 DEF RetryTick
  <2>23. CASE RefreshTick
    BY <2>23 DEF RefreshTick
  <2>24. CASE UNCHANGED vars
    BY <2>24 DEF vars
  <2> QED
    BY <2>1, <2>2, <2>3, <2>4, <2>5, <2>6, <2>7, <2>8, <2>9, <2>10, <2>11, <2>12,
       <2>13, <2>14, <2>15, <2>16, <2>17, <2>18, <2>19, <2>20, <2>21, <2>22, <2>23, <2>24
       DEF Next, ThresholdRequest, RuleRequest, Continue, Environment, Threads
<1>3. QED
  BY <1>1, <1>2, Typing, Locking, PTL DEF Spec

(* Memory and Redis agree on every rule whose last call did not fail.      *)
THEOREM MirrorRules == Spec => []RulesMirrored
<1> USE DEF NoOverride, NoRule
<1>1. Init => RulesMirrored /\ InstallOK
  BY ConstantsAssumption DEF Init, RulesMirrored, InstallOK
<1>2. TypeOK /\ ArgOK /\ LockOK /\ HeldRule /\ RulesMirrored /\ InstallOK /\ [Next]_vars => (RulesMirrored /\ InstallOK)'
  <2> SUFFICES ASSUME TypeOK, ArgOK, LockOK, HeldRule, RulesMirrored /\ InstallOK, [Next]_vars
               PROVE  (RulesMirrored /\ InstallOK)'
    OBVIOUS
  <2> USE DEF RulesMirrored, InstallOK, HeldRule, TypeOK, ArgOK, LockOK, Critical, process, threads, redis, history, Goto, Finish,
              Acquire, Release, Persistent, TryConnect, Present, Labels, Slot, Flag
  <2>1. ASSUME NEW t \in Analysts, SetLive(t)
         PROVE  (RulesMirrored /\ InstallOK)'
    BY <2>1 DEF SetLive
  <2>2. ASSUME NEW t \in Analysts, Reset(t)
         PROVE  (RulesMirrored /\ InstallOK)'
    BY <2>2 DEF Reset
  <2>3. ASSUME NEW t \in Analysts, CreateRule(t)
         PROVE  (RulesMirrored /\ InstallOK)'
    BY <2>3 DEF CreateRule
  <2>4. ASSUME NEW t \in Analysts, DeleteRule(t)
         PROVE  (RulesMirrored /\ InstallOK)'
    BY <2>4 DEF DeleteRule
  <2>5. ASSUME NEW t \in Threads, NEW r \in RuleIds \cup {None}, BeginRead(t, r)
         PROVE  (RulesMirrored /\ InstallOK)'
    BY <2>5 DEF BeginRead
  <2>6. ASSUME NEW t \in Threads, SetSnapshot(t)
         PROVE  (RulesMirrored /\ InstallOK)'
    BY <2>6 DEF SetSnapshot
  <2>7. ASSUME NEW t \in Threads, PersistDelete(t)
         PROVE  (RulesMirrored /\ InstallOK)'
    BY <2>7 DEF PersistDelete
  <2>8. ASSUME NEW t \in Threads, PersistPut(t)
         PROVE  (RulesMirrored /\ InstallOK)'
    BY <2>8 DEF PersistPut
  <2>9. ASSUME NEW t \in Threads, ResetDelete(t)
         PROVE  (RulesMirrored /\ InstallOK)'
    BY <2>9 DEF ResetDelete
  <2>10. ASSUME NEW t \in Threads, PutRule(t)
         PROVE  (RulesMirrored /\ InstallOK)'
    BY <2>10 DEF PutRule
  <2>11. ASSUME NEW t \in Threads, DropRule(t)
         PROVE  (RulesMirrored /\ InstallOK)'
    BY <2>11 DEF DropRule
  <2>12. ASSUME NEW t \in Threads, RecheckStale(t)
         PROVE  (RulesMirrored /\ InstallOK)'
    BY <2>12 DEF RecheckStale
  <2>13. ASSUME NEW t \in Threads, FetchRules(t)
         PROVE  (RulesMirrored /\ InstallOK)'
    BY <2>13 DEF FetchRules
  <2>14. ASSUME NEW t \in Threads, InstallRules(t)
         PROVE  (RulesMirrored /\ InstallOK)'
    BY <2>14 DEF InstallRules
  <2>15. ASSUME NEW t \in Threads, ListRules(t)
         PROVE  (RulesMirrored /\ InstallOK)'
    BY <2>15 DEF ListRules
  <2>16. ASSUME NEW t \in Threads, PatchRule(t)
         PROVE  (RulesMirrored /\ InstallOK)'
    BY <2>16 DEF PatchRule
  <2>17. CASE Construct
    BY <2>17 DEF Construct
  <2>18. CASE LoadThresholds \/ LoadRules
    BY <2>18 DEF LoadThresholds, LoadRules
  <2>19. CASE Crash
    BY <2>19 DEF Crash
  <2>20. CASE ClearAlerts
    BY <2>20 DEF ClearAlerts
  <2>21. CASE RedisSwitch
    BY <2>21 DEF RedisSwitch
  <2>22. CASE RetryTick
    BY <2>22 DEF RetryTick
  <2>23. CASE RefreshTick
    BY <2>23 DEF RefreshTick
  <2>24. CASE UNCHANGED vars
    BY <2>24 DEF vars
  <2> QED
    BY <2>1, <2>2, <2>3, <2>4, <2>5, <2>6, <2>7, <2>8, <2>9, <2>10, <2>11, <2>12,
       <2>13, <2>14, <2>15, <2>16, <2>17, <2>18, <2>19, <2>20, <2>21, <2>22, <2>23, <2>24
       DEF Next, ThresholdRequest, RuleRequest, Continue, Environment, Threads
<1>3. QED
  BY <1>1, <1>2, Typing, Locking, HeldRules, PTL DEF Spec

(* A rule whose deletion did not fail never comes back.                    *)
THEOREM DeletionIsFinal == Spec => []DeletedStaysDeleted
<1> USE DEF NoOverride, NoRule
<1>1. Init => DeletedStaysDeleted /\ MemoryMode
  BY ConstantsAssumption DEF Init, DeletedStaysDeleted, MemoryMode
<1>2. TypeOK /\ ArgOK /\ LockOK /\ HeldRule /\ IssuedOK /\ DeletedStaysDeleted /\ MemoryMode /\ [Next]_vars => (DeletedStaysDeleted /\ MemoryMode)'
  <2> SUFFICES ASSUME TypeOK, ArgOK, LockOK, HeldRule, IssuedOK, DeletedStaysDeleted /\ MemoryMode, [Next]_vars
               PROVE  (DeletedStaysDeleted /\ MemoryMode)'
    OBVIOUS
  <2> USE DEF DeletedStaysDeleted, MemoryMode, HeldRule, IssuedOK, TypeOK, ArgOK, LockOK, Critical, process, threads, redis, history, Goto, Finish,
              Acquire, Release, Persistent, TryConnect, Present, Labels, Slot, Flag
  <2>1. ASSUME NEW t \in Analysts, SetLive(t)
         PROVE  (DeletedStaysDeleted /\ MemoryMode)'
    BY <2>1 DEF SetLive
  <2>2. ASSUME NEW t \in Analysts, Reset(t)
         PROVE  (DeletedStaysDeleted /\ MemoryMode)'
    BY <2>2 DEF Reset
  <2>3. ASSUME NEW t \in Analysts, CreateRule(t)
         PROVE  (DeletedStaysDeleted /\ MemoryMode)'
    BY <2>3 DEF CreateRule
  <2>4. ASSUME NEW t \in Analysts, DeleteRule(t)
         PROVE  (DeletedStaysDeleted /\ MemoryMode)'
    BY <2>4 DEF DeleteRule
  <2>5. ASSUME NEW t \in Threads, NEW r \in RuleIds \cup {None}, BeginRead(t, r)
         PROVE  (DeletedStaysDeleted /\ MemoryMode)'
    BY <2>5 DEF BeginRead
  <2>6. ASSUME NEW t \in Threads, SetSnapshot(t)
         PROVE  (DeletedStaysDeleted /\ MemoryMode)'
    BY <2>6 DEF SetSnapshot
  <2>7. ASSUME NEW t \in Threads, PersistDelete(t)
         PROVE  (DeletedStaysDeleted /\ MemoryMode)'
    BY <2>7 DEF PersistDelete
  <2>8. ASSUME NEW t \in Threads, PersistPut(t)
         PROVE  (DeletedStaysDeleted /\ MemoryMode)'
    BY <2>8 DEF PersistPut
  <2>9. ASSUME NEW t \in Threads, ResetDelete(t)
         PROVE  (DeletedStaysDeleted /\ MemoryMode)'
    BY <2>9 DEF ResetDelete
  <2>10. ASSUME NEW t \in Threads, PutRule(t)
         PROVE  (DeletedStaysDeleted /\ MemoryMode)'
    BY <2>10 DEF PutRule
  <2>11. ASSUME NEW t \in Threads, DropRule(t)
         PROVE  (DeletedStaysDeleted /\ MemoryMode)'
    BY <2>11 DEF DropRule
  <2>12. ASSUME NEW t \in Threads, RecheckStale(t)
         PROVE  (DeletedStaysDeleted /\ MemoryMode)'
    BY <2>12 DEF RecheckStale
  <2>13. ASSUME NEW t \in Threads, FetchRules(t)
         PROVE  (DeletedStaysDeleted /\ MemoryMode)'
    BY <2>13 DEF FetchRules
  <2>14. ASSUME NEW t \in Threads, InstallRules(t)
         PROVE  (DeletedStaysDeleted /\ MemoryMode)'
    BY <2>14 DEF InstallRules
  <2>15. ASSUME NEW t \in Threads, ListRules(t)
         PROVE  (DeletedStaysDeleted /\ MemoryMode)'
    BY <2>15 DEF ListRules
  <2>16. ASSUME NEW t \in Threads, PatchRule(t)
         PROVE  (DeletedStaysDeleted /\ MemoryMode)'
    BY <2>16 DEF PatchRule
  <2>17. CASE Construct
    BY <2>17 DEF Construct
  <2>18. CASE LoadThresholds \/ LoadRules
    BY <2>18 DEF LoadThresholds, LoadRules
  <2>19. CASE Crash
    BY <2>19 DEF Crash
  <2>20. CASE ClearAlerts
    BY <2>20 DEF ClearAlerts
  <2>21. CASE RedisSwitch
    BY <2>21 DEF RedisSwitch
  <2>22. CASE RetryTick
    BY <2>22 DEF RetryTick
  <2>23. CASE RefreshTick
    BY <2>23 DEF RefreshTick
  <2>24. CASE UNCHANGED vars
    BY <2>24 DEF vars
  <2> QED
    BY <2>1, <2>2, <2>3, <2>4, <2>5, <2>6, <2>7, <2>8, <2>9, <2>10, <2>11, <2>12,
       <2>13, <2>14, <2>15, <2>16, <2>17, <2>18, <2>19, <2>20, <2>21, <2>22, <2>23, <2>24
       DEF Next, ThresholdRequest, RuleRequest, Continue, Environment, Threads
<1>3. QED
  BY <1>1, <1>2, Typing, Locking, HeldRules, PTL DEF Spec

(* Redis holds the live overrides once no handler is changing one, unless  *)
(* its last command failed.                                                *)
THEOREM MirrorOverrides == Spec => []OverridesMirrored
<1> USE DEF NoOverride, NoRule
<1>1. Init => OverridesMirrored /\ SnapshotOK
  BY ConstantsAssumption DEF Init, OverridesMirrored, SnapshotOK
<1>2. TypeOK /\ LockOK /\ OverridesMirrored /\ SnapshotOK /\ [Next]_vars => (OverridesMirrored /\ SnapshotOK)'
  <2> SUFFICES ASSUME TypeOK, LockOK, OverridesMirrored /\ SnapshotOK, [Next]_vars
               PROVE  (OverridesMirrored /\ SnapshotOK)'
    OBVIOUS
  <2> USE DEF OverridesMirrored, SnapshotOK, WritingThresholds, Value, TypeOK, ArgOK, LockOK, Critical, process, threads, redis, history, Goto, Finish,
              Acquire, Release, Persistent, TryConnect, Present, Labels, Slot, Flag
  <2>1. ASSUME NEW t \in Analysts, SetLive(t)
         PROVE  (OverridesMirrored /\ SnapshotOK)'
    <3>1. /\ pc' = [pc EXCEPT ![t] = "set"] /\ boot = "up"
          /\ UNCHANGED <<stored, boot, redisThr, thrSynced>>
      BY <2>1 DEF SetLive
    <3>2. t \in Threads /\ pc'[t] = "set"
      BY <3>1 DEF Threads
    <3>3. OverridesMirrored'
      BY <3>2
    <3>4. SnapshotOK'
      BY <3>1, <3>2
    <3> QED
      BY <3>3, <3>4
  <2>2. ASSUME NEW t \in Analysts, Reset(t)
         PROVE  (OverridesMirrored /\ SnapshotOK)'
    <3>1. /\ pc' = [pc EXCEPT ![t] = "resetDel"] /\ live' = NoOverride /\ boot = "up"
          /\ UNCHANGED <<boot, redisThr, thrSynced>>
      BY <2>2 DEF Reset
    <3>2. t \in Threads /\ pc'[t] = "resetDel"
      BY <3>1 DEF Threads
    <3>3. \A u \in Threads : pc[u] \notin Critical
      BY <2>2, ConstantsAssumption DEF Reset, Threads
    <3>4. OverridesMirrored'
      BY <3>2
    <3>5. SnapshotOK'
      BY <3>1, <3>2, <3>3
    <3> QED
      BY <3>4, <3>5
  <2>3. ASSUME NEW t \in Analysts, CreateRule(t)
         PROVE  (OverridesMirrored /\ SnapshotOK)'
    BY <2>3 DEF CreateRule
  <2>4. ASSUME NEW t \in Analysts, DeleteRule(t)
         PROVE  (OverridesMirrored /\ SnapshotOK)'
    BY <2>4 DEF DeleteRule
  <2>5. ASSUME NEW t \in Threads, NEW r \in RuleIds \cup {None}, BeginRead(t, r)
         PROVE  (OverridesMirrored /\ SnapshotOK)'
    BY <2>5 DEF BeginRead
  <2>6. ASSUME NEW t \in Threads, SetSnapshot(t)
         PROVE  (OverridesMirrored /\ SnapshotOK)'
    <3>1. /\ pc' = [pc EXCEPT ![t] = "setDel"] /\ stored' = live
          /\ UNCHANGED <<live, boot, redisThr, thrSynced>>
      BY <2>6 DEF SetSnapshot
    <3>2. pc'[t] = "setDel"
      BY <3>1
    <3>3. \A u \in Threads : pc[u] \notin Critical
      BY <2>6, ConstantsAssumption DEF SetSnapshot, Threads
    <3>4. OverridesMirrored'
      BY <3>2
    <3>5. SnapshotOK'
      BY <3>1, <3>2, <3>3
    <3> QED
      BY <3>4, <3>5
  <2>7. ASSUME NEW t \in Threads, PersistDelete(t)
         PROVE  (OverridesMirrored /\ SnapshotOK)'
    BY <2>7 DEF PersistDelete
  <2>8. ASSUME NEW t \in Threads, PersistPut(t)
         PROVE  (OverridesMirrored /\ SnapshotOK)'
    BY <2>8 DEF PersistPut
  <2>9. ASSUME NEW t \in Threads, ResetDelete(t)
         PROVE  (OverridesMirrored /\ SnapshotOK)'
    BY <2>9 DEF ResetDelete
  <2>10. ASSUME NEW t \in Threads, PutRule(t)
         PROVE  (OverridesMirrored /\ SnapshotOK)'
    BY <2>10 DEF PutRule
  <2>11. ASSUME NEW t \in Threads, DropRule(t)
         PROVE  (OverridesMirrored /\ SnapshotOK)'
    BY <2>11 DEF DropRule
  <2>12. ASSUME NEW t \in Threads, RecheckStale(t)
         PROVE  (OverridesMirrored /\ SnapshotOK)'
    BY <2>12 DEF RecheckStale
  <2>13. ASSUME NEW t \in Threads, FetchRules(t)
         PROVE  (OverridesMirrored /\ SnapshotOK)'
    BY <2>13 DEF FetchRules
  <2>14. ASSUME NEW t \in Threads, InstallRules(t)
         PROVE  (OverridesMirrored /\ SnapshotOK)'
    BY <2>14 DEF InstallRules
  <2>15. ASSUME NEW t \in Threads, ListRules(t)
         PROVE  (OverridesMirrored /\ SnapshotOK)'
    BY <2>15 DEF ListRules
  <2>16. ASSUME NEW t \in Threads, PatchRule(t)
         PROVE  (OverridesMirrored /\ SnapshotOK)'
    BY <2>16 DEF PatchRule
  <2>17. CASE Construct
    BY <2>17 DEF Construct
  <2>18. CASE LoadThresholds \/ LoadRules
    BY <2>18 DEF LoadThresholds, LoadRules
  <2>19. CASE Crash
    BY <2>19 DEF Crash
  <2>20. CASE ClearAlerts
    BY <2>20 DEF ClearAlerts
  <2>21. CASE RedisSwitch
    BY <2>21 DEF RedisSwitch
  <2>22. CASE RetryTick
    BY <2>22 DEF RetryTick
  <2>23. CASE RefreshTick
    BY <2>23 DEF RefreshTick
  <2>24. CASE UNCHANGED vars
    BY <2>24 DEF vars
  <2> QED
    BY <2>1, <2>2, <2>3, <2>4, <2>5, <2>6, <2>7, <2>8, <2>9, <2>10, <2>11, <2>12,
       <2>13, <2>14, <2>15, <2>16, <2>17, <2>18, <2>19, <2>20, <2>21, <2>22, <2>23, <2>24
       DEF Next, ThresholdRequest, RuleRequest, Continue, Environment, Threads
<1>3. QED
  BY <1>1, <1>2, Typing, Locking, PTL DEF Spec
=============================================================================
