---------------------- MODULE IncidentCorrelationProofs ----------------------
(***************************************************************************)
(* For any finite set of workers, any sources, classes, window and bounds: *)
(* IncidentCorrelation is type correct, no incident mixes two sources, an  *)
(* alert joins the incident of its source exactly when the window says so, *)
(* and no score counts a class of another incident.                        *)
(***************************************************************************)
EXTENDS IncidentCorrelation, FiniteSetTheorems, TLAPS

Labels == {"idle", "correlate", "check", "create", "track", "score"}

At(l) == {w \in Workers : pc[w] = l}

(* Every id belongs to an event that has begun, and every worker assigns   *)
(* the dictionary of stages at most once.                                  *)
CountOK ==
    /\ nextId + Cardinality(At("correlate")) <= events + 1
    /\ dicts + Cardinality(At("create")) <= Cardinality(Workers)

TypeInv == TypeOK /\ CountOK

LEMMA AtFinite ==
    \A l : IsFiniteSet(At(l)) /\ Cardinality(At(l)) \in Nat /\ Cardinality(Workers) \in Nat
                /\ Cardinality(At(l)) <= Cardinality(Workers)
<1> TAKE l
<1>1. IsFiniteSet(Workers) /\ At(l) \subseteq Workers
    BY ConstantsAssumption DEF At
<1> QED BY <1>1, FS_Subset, FS_CardinalityType

\* Worker w goes from its label to k.
LEMMA AtMoves ==
    ASSUME TypeOK, NEW w \in Workers, NEW k \in Labels, pc' = [pc EXCEPT ![w] = k]
    PROVE  \A l \in Labels : At(l)' = IF l = k THEN At(l) \cup {w} ELSE At(l) \ {w}
BY DEF TypeOK, At, Labels

LEMMA CountMoves ==
    ASSUME TypeOK, NEW w \in Workers, NEW k \in Labels, pc' = [pc EXCEPT ![w] = k], k # pc[w]
    PROVE  \A l \in Labels :
               /\ Cardinality(At(l))' \in Nat /\ Cardinality(At(l)) \in Nat
               /\ Cardinality(At(l))' = IF l = k THEN Cardinality(At(l)) + 1
                                        ELSE IF l = pc[w] THEN Cardinality(At(l)) - 1
                                        ELSE Cardinality(At(l))
<1> TAKE l \in Labels
<1>1. w \in At(l) <=> pc[w] = l
    BY DEF At
<1>2. IsFiniteSet(At(l)) /\ Cardinality(At(l)) \in Nat
    BY AtFinite
<1>3. At(l)' = IF l = k THEN At(l) \cup {w} ELSE At(l) \ {w}
    BY AtMoves
<1>4. CASE l = k
    <2>1. At(l)' = At(l) \cup {w} /\ w \notin At(l)
        BY <1>1, <1>3, <1>4
    <2>2. Cardinality(At(l) \cup {w}) = Cardinality(At(l)) + 1
        BY <2>1, <1>2, FS_AddElement
    <2> QED BY <2>1, <2>2, <1>2, <1>4
<1>5. CASE l # k /\ l = pc[w]
    <2>1. At(l)' = At(l) \ {w} /\ w \in At(l)
        BY <1>1, <1>3, <1>5
    <2>2. Cardinality(At(l) \ {w}) = Cardinality(At(l)) - 1
          /\ Cardinality(At(l) \ {w}) \in Nat
        BY <2>1, <1>2, FS_RemoveElement, FS_CardinalityType
    <2> QED BY <2>1, <2>2, <1>2, <1>5
<1>6. CASE l # k /\ l # pc[w]
    <2>1. At(l)' = At(l)
        BY <1>1, <1>3, <1>6 DEF At
    <2> QED BY <2>1, <1>2, <1>6
<1> QED BY <1>4, <1>5, <1>6
----------------------------------------------------------------------------
(* Types.                                                                  *)

Entry    == [ts : Nat, id : Ids]
LogEntry == [src : Sources \cup {Anonymous}, ts : Nat, id : Ids, fired : SUBSET Classes]

LEMMA InitType == Init => TypeInv
<1> SUFFICES ASSUME Init PROVE TypeInv
    OBVIOUS
<1>1. \A l \in Labels \ {"idle"} : At(l) = {}
    BY DEF Init, At, Labels
<1>2. At("correlate") = {} /\ At("create") = {}
    BY <1>1 DEF Labels
<1>3. Cardinality(At("correlate")) = 0 /\ Cardinality(At("create")) = 0
    BY <1>2, FS_EmptySet
<1>4. CountOK
    BY <1>3, AtFinite DEF Init, CountOK
<1>5. 0 \in Ids /\ MaxEvents \in Nat /\ MaxClock \in Nat /\ Cardinality(Workers) \in Nat
    BY ConstantsAssumption, AtFinite DEF Ids
<1>6. NoJob \in Job /\ NoEntry \in Entry
    BY <1>5 DEF NoJob, Job, NoEntry, Entry, Default
<1>7. TypeOK
    BY <1>5, <1>6 DEF Init, TypeOK, Entry
<1> QED BY <1>4, <1>7 DEF TypeInv

\* A step that moves no worker and changes no counter keeps the counts.
LEMMA CountSame ==
    ASSUME TypeInv, pc' = pc, nextId' = nextId, events' = events, dicts' = dicts
    PROVE  CountOK'
BY DEF TypeInv, CountOK, At

LEMMA BeginType == ASSUME TypeInv, NEW w \in Workers, Begin(w) PROVE TypeInv'
<1>1. PICK s \in Sources \cup {Anonymous}, lag \in Lags, fired \in (SUBSET Classes) \ {{}} :
          /\ lag <= clock
          /\ job' = [job EXCEPT ![w] = [src |-> s, ts |-> clock - lag, fired |-> fired,
                                        id |-> Default, dict |-> 0]]
    BY DEF Begin
<1>2. /\ lag \in Nat /\ clock \in Nat /\ clock - lag \in Nat
      /\ 0 \in Ids /\ 0 \in 0..Cardinality(Workers)
    <2>1. lag \in Nat /\ clock \in Nat /\ lag <= clock
        BY <1>1, ConstantsAssumption DEF TypeInv, TypeOK
    <2>2. MaxEvents \in Nat /\ Cardinality(Workers) \in Nat
        BY ConstantsAssumption, FS_CardinalityType
    <2> QED BY <2>1, <2>2 DEF Ids
<1>3. [src |-> s, ts |-> clock - lag, fired |-> fired, id |-> Default, dict |-> 0] \in Job
    BY <1>2 DEF Job, Default
<1>4. job' \in [Workers -> Job]
    BY <1>1, <1>3 DEF TypeInv, TypeOK
<1>5. TypeOK'
    <2>1. events' \in 0..MaxEvents
        BY ConstantsAssumption DEF TypeInv, TypeOK, Begin
    <2>2. pc' \in [Workers -> {"idle", "correlate", "check", "create", "track", "score"}]
        BY DEF TypeInv, TypeOK, Begin
    <2> QED BY <2>1, <2>2, <1>4 DEF TypeInv, TypeOK, Begin
<1>6. \A l \in Labels : Cardinality(At(l))' = IF l = "correlate" THEN Cardinality(At(l)) + 1
                                             ELSE IF l = "idle" THEN Cardinality(At(l)) - 1
                                             ELSE Cardinality(At(l))
    BY CountMoves DEF Begin, TypeInv, Labels
<1>7. /\ Cardinality(At("correlate"))' = Cardinality(At("correlate")) + 1
      /\ Cardinality(At("create"))' = Cardinality(At("create"))
    BY <1>6 DEF Labels
<1>8. CountOK'
    BY <1>7, AtFinite DEF CountOK, TypeInv, TypeOK, Begin
<1> QED BY <1>5, <1>8 DEF TypeInv

LEMMA CorrelateType == ASSUME TypeInv, NEW w \in Workers, Correlate(w) PROVE TypeInv'
<1> DEFINE s == job[w].src  ts == job[w].ts  id == IncidentFor(s, ts)
<1>0. /\ TypeOK /\ CountOK /\ pc[w] = "correlate" /\ pc' = [pc EXCEPT ![w] = "check"]
      /\ UNCHANGED <<clock, dicts, stages, events, scored>>
    BY DEF TypeInv, Correlate
<1>1. /\ Cardinality(At("correlate"))' = Cardinality(At("correlate")) - 1
      /\ Cardinality(At("create"))' = Cardinality(At("create"))
      /\ Cardinality(At("correlate"))' \in Nat /\ Cardinality(At("correlate")) \in Nat
    BY <1>0, CountMoves DEF Labels
<1>2. nextId \in Nat /\ events \in Nat /\ events <= MaxEvents /\ MaxEvents \in Nat
      /\ nextId <= events /\ nextId \in Ids
    BY <1>0, <1>1, ConstantsAssumption DEF TypeOK, CountOK, Ids
<1>3. job[w] \in Job /\ s \in Sources \cup {Anonymous} /\ ts \in Nat
    BY <1>0 DEF TypeOK, Job
<1>4. pc' \in [Workers -> Labels]
    BY <1>0 DEF TypeOK, Labels
<1>5. CASE s = Anonymous
    <2>1. UNCHANGED <<lastAlert, nextId, job, log>>
        BY <1>5 DEF Correlate
    <2>2. TypeOK'
        BY <2>1, <1>0, <1>4 DEF TypeOK, Labels
    <2>3. CountOK'
        BY <2>1, <1>0, <1>1, <1>2 DEF CountOK
    <2> QED BY <2>2, <2>3 DEF TypeInv
<1>6. CASE s # Anonymous
    <2>1. /\ s \in Sources
          /\ lastAlert' = Prune([lastAlert EXCEPT ![s] = [ts |-> ts, id |-> id]], ts)
          /\ nextId' = IF id = nextId THEN nextId + 1 ELSE nextId
          /\ job' = [job EXCEPT ![w].id = id]
          /\ log' = Append(log, [src |-> s, ts |-> ts, id |-> id, fired |-> job[w].fired])
        BY <1>6, <1>3 DEF Correlate
    <2>2. id \in Ids
        BY <2>1, <1>0, <1>2 DEF IncidentFor, TypeOK
    <2>3. lastAlert' \in [Sources -> Entry]
        <3>1. [lastAlert EXCEPT ![s] = [ts |-> ts, id |-> id]] \in [Sources -> Entry]
            BY <2>1, <2>2, <1>0, <1>3 DEF TypeOK, Entry
        <3>2. NoEntry \in Entry
            BY <1>2 DEF NoEntry, Entry, Ids, Default
        <3> HIDE DEF id
        <3> QED BY <3>1, <3>2, <2>1 DEF Prune
    <2>4. job' \in [Workers -> Job]
        BY <2>1, <2>2, <1>0, <1>3 DEF TypeOK, Job
    <2>5. log' \in Seq(LogEntry)
        <3>1. [src |-> s, ts |-> ts, id |-> id, fired |-> job[w].fired] \in LogEntry
            BY <2>2, <1>3 DEF Job, LogEntry
        <3>2. log \in Seq(LogEntry)
            BY <1>0 DEF TypeOK, LogEntry
        <3> QED BY <3>1, <3>2, <2>1
    <2>6. nextId' \in 1..(MaxEvents + 1) /\ nextId' <= nextId + 1
        BY <2>1, <1>0, <1>2 DEF TypeOK
    <2>7. TypeOK'
        BY <2>3, <2>4, <2>5, <2>6, <1>0, <1>4 DEF TypeOK, Labels, Entry, LogEntry
    <2>8. CountOK'
        BY <2>6, <1>0, <1>1, <1>2 DEF CountOK, TypeOK
    <2> QED BY <2>7, <2>8 DEF TypeInv
<1> QED BY <1>5, <1>6

LEMMA CheckType == ASSUME TypeInv, NEW w \in Workers, CheckStages(w) PROVE TypeInv'
<1> DEFINE k == IF dicts = 0 THEN "create" ELSE "track"
<1>1. /\ TypeOK /\ CountOK /\ pc[w] = "check" /\ pc' = [pc EXCEPT ![w] = k] /\ k \in Labels
      /\ UNCHANGED <<clock, lastAlert, nextId, dicts, stages, job, events, log, scored>>
    BY DEF TypeInv, CheckStages, Labels
<1>2. TypeOK'
    BY <1>1 DEF TypeOK, Labels
<1>3. \A l \in Labels : Cardinality(At(l))' = IF l = k THEN Cardinality(At(l)) + 1
                                             ELSE IF l = "check" THEN Cardinality(At(l)) - 1
                                             ELSE Cardinality(At(l))
    BY <1>1, CountMoves
<1>4. Cardinality(At("correlate"))' = Cardinality(At("correlate"))
    BY <1>3 DEF Labels
<1>5. dicts' + Cardinality(At("create"))' <= Cardinality(Workers)
    <2>1. CASE dicts = 0
        <3>1. IsFiniteSet(Workers) /\ At("create")' \subseteq Workers
            BY ConstantsAssumption DEF At
        <3>2. Cardinality(At("create")') <= Cardinality(Workers) /\ Cardinality(At("create")') \in Nat
            BY <3>1, FS_Subset, FS_CardinalityType
        <3> QED BY <3>2, <2>1, <1>1
    <2>2. CASE dicts # 0
        <3>1. Cardinality(At("create"))' = Cardinality(At("create"))
            BY <1>3, <2>2 DEF Labels
        <3> QED BY <3>1, <1>1 DEF CountOK
    <2> QED BY <2>1, <2>2
<1>6. CountOK'
    BY <1>1, <1>4, <1>5 DEF CountOK
<1> QED BY <1>2, <1>6 DEF TypeInv

LEMMA CreateType == ASSUME TypeInv, NEW w \in Workers, CreateStages(w) PROVE TypeInv'
<1>1. /\ TypeOK /\ CountOK /\ pc[w] = "create" /\ pc' = [pc EXCEPT ![w] = "track"]
      /\ dicts' = dicts + 1
      /\ UNCHANGED <<clock, lastAlert, nextId, stages, job, events, log, scored>>
    BY DEF TypeInv, CreateStages
<1>2. /\ Cardinality(At("create"))' = Cardinality(At("create")) - 1
      /\ Cardinality(At("create")) \in Nat /\ Cardinality(At("create"))' \in Nat
      /\ Cardinality(At("correlate"))' = Cardinality(At("correlate"))
    BY <1>1, CountMoves DEF Labels
<1>3. dicts \in Nat /\ Cardinality(Workers) \in Nat
    <2>1. Cardinality(Workers) \in Nat
        BY ConstantsAssumption, FS_CardinalityType
    <2> QED BY <1>1, <2>1 DEF TypeOK
<1>4. CountOK'
    BY <1>1, <1>2, <1>3 DEF CountOK
<1>5. dicts' \in 0..Cardinality(Workers)
    BY <1>1, <1>2, <1>3 DEF CountOK
<1>6. TypeOK'
    BY <1>1, <1>5 DEF TypeOK
<1> QED BY <1>4, <1>6 DEF TypeInv

LEMMA TrackType == ASSUME TypeInv, NEW w \in Workers, TrackStages(w) PROVE TypeInv'
<1>1. /\ TypeOK /\ CountOK /\ pc[w] = "track" /\ pc' = [pc EXCEPT ![w] = "score"]
      /\ stages' = [stages EXCEPT ![dicts][job[w].id] = @ \cup job[w].fired]
      /\ job' = [job EXCEPT ![w].dict = dicts]
      /\ UNCHANGED <<clock, lastAlert, nextId, dicts, events, log, scored>>
    BY DEF TypeInv, TrackStages
<1>2. /\ job[w] \in Job /\ dicts \in 0..Cardinality(Workers)
      /\ job[w].id \in Ids /\ job[w].fired \subseteq Classes
    BY <1>1 DEF TypeOK, Job
<1>3. stages' \in [0..Cardinality(Workers) -> [Ids -> SUBSET Classes]]
    BY <1>1, <1>2 DEF TypeOK
<1>4. job' \in [Workers -> Job]
    BY <1>1, <1>2 DEF TypeOK, Job
<1>5. TypeOK'
    BY <1>1, <1>3, <1>4 DEF TypeOK
<1>6. /\ Cardinality(At("create"))' = Cardinality(At("create"))
      /\ Cardinality(At("correlate"))' = Cardinality(At("correlate"))
    BY <1>1, CountMoves DEF Labels
<1>7. CountOK'
    BY <1>1, <1>6 DEF CountOK
<1> QED BY <1>5, <1>7 DEF TypeInv

LEMMA ScoreType == ASSUME TypeInv, NEW w \in Workers, Score(w) PROVE TypeInv'
<1> DEFINE a == [src |-> job[w].src, id |-> job[w].id, fired |-> job[w].fired,
                 counted |-> stages[job[w].dict][job[w].id]]
<1>1. /\ TypeOK /\ CountOK /\ pc[w] = "score" /\ pc' = [pc EXCEPT ![w] = "idle"]
      /\ scored' = scored \cup {a} /\ job' = [job EXCEPT ![w] = NoJob]
      /\ UNCHANGED <<clock, lastAlert, nextId, dicts, stages, events, log>>
    BY DEF TypeInv, Score
<1>2. 0 \in Ids /\ 0 \in 0..Cardinality(Workers)
    BY ConstantsAssumption, FS_CardinalityType DEF Ids
<1>3. NoJob \in Job
    BY <1>2 DEF NoJob, Job, Default
<1>4. job[w] \in Job
    BY <1>1 DEF TypeOK
<1>5. /\ a.src \in Sources \cup {Anonymous} /\ a.id \in Ids
      /\ a.fired \subseteq Classes /\ a.counted \subseteq Classes
    BY <1>1, <1>4 DEF TypeOK, Job
<1>6. TypeOK'
    <2> HIDE DEF a
    <2> QED BY <1>1, <1>3, <1>5 DEF TypeOK
<1>7. /\ Cardinality(At("create"))' = Cardinality(At("create"))
      /\ Cardinality(At("correlate"))' = Cardinality(At("correlate"))
    BY <1>1, CountMoves DEF Labels
<1>8. CountOK'
    BY <1>1, <1>7 DEF CountOK
<1> QED BY <1>6, <1>8 DEF TypeInv

LEMMA TickType == ASSUME TypeInv, Tick PROVE TypeInv'
<1>1. CountOK'
    BY CountSame DEF Tick
<1>2. TypeOK'
    BY ConstantsAssumption DEF TypeInv, TypeOK, Tick
<1> QED BY <1>1, <1>2 DEF TypeInv

LEMMA ClearType == ASSUME TypeInv, Clear PROVE TypeInv'
<1>1. CountOK'
    BY CountSame DEF Clear
<1>2. 0 \in Ids
    BY ConstantsAssumption DEF Ids
<1>3. Cleared \in LogEntry /\ NoEntry \in Entry
    BY <1>2 DEF Cleared, LogEntry, NoEntry, Entry, Default
<1>4. log' \in Seq(LogEntry) /\ lastAlert' \in [Sources -> Entry]
    BY <1>3 DEF Clear, TypeInv, TypeOK, LogEntry
<1>5. TypeOK'
    BY <1>4 DEF Clear, TypeInv, TypeOK, LogEntry, Entry
<1> QED BY <1>1, <1>5 DEF TypeInv

LEMMA StepType == TypeInv /\ [Next]_vars => TypeInv'
<1> SUFFICES ASSUME TypeInv, [Next]_vars PROVE TypeInv'
    OBVIOUS
<1>1. CASE Tick
    BY <1>1, TickType
<1>2. CASE Clear
    BY <1>2, ClearType
<1>3. ASSUME NEW w \in Workers, Aggregate(w) PROVE TypeInv'
    BY <1>3, BeginType, CorrelateType, CheckType, CreateType, TrackType, ScoreType DEF Aggregate
<1>4. CASE UNCHANGED vars
    <2>1. CountOK'
        BY <1>4, CountSame DEF vars
    <2> QED BY <1>4, <2>1 DEF vars, TypeInv, TypeOK
<1> QED BY <1>1, <1>2, <1>3, <1>4 DEF Next

(* Every variable keeps its type: in particular no id is given out beyond  *)
(* the events that have begun, and _incident_stages is assigned at most    *)
(* once by each worker.                                                    *)
THEOREM TypeCorrect == Spec => []TypeOK
<1>1. TypeInv => TypeOK
    BY DEF TypeInv
<1> QED BY InitType, StepType, <1>1, PTL DEF Spec
----------------------------------------------------------------------------
(* One source for each incident.                                           *)

(* The ids that are in use: those of the map and of the log have been      *)
(* given out, no two sources have the same, and whoever was correlated     *)
(* under the id a source has in the map is that source.                    *)
Owned ==
    /\ \A s \in Sources : Known(s) =>
          /\ lastAlert[s].id \in 1..(nextId - 1)
          /\ \A q \in Sources : Known(q) /\ lastAlert[q].id = lastAlert[s].id => q = s
          /\ \A i \in DOMAIN log : log[i].id = lastAlert[s].id => log[i].src = s
    /\ \A i \in DOMAIN log : log[i] = Cleared \/ log[i].id \in 1..(nextId - 1)

SourceInv == Owned /\ IncidentHasOneSource

\* What a correlation does: the entry it appends, the map and the counter.
LEMMA Correlated ==
    ASSUME TypeInv, NEW w \in Workers, Correlate(w), job[w].src # Anonymous
    PROVE  LET s == job[w].src  id == IncidentFor(s, job[w].ts)
               e == [src |-> s, ts |-> job[w].ts, id |-> id, fired |-> job[w].fired]
           IN /\ s \in Sources /\ id \in Ids /\ e \in LogEntry
              /\ log \in Seq(LogEntry) /\ log' = Append(log, e)
              /\ nextId \in Nat \ {0} /\ nextId' = IF id = nextId THEN nextId + 1 ELSE nextId
              /\ lastAlert \in [Sources -> Entry]
              /\ \A q \in Sources : lastAlert'[q] \in {NoEntry, IF q = s THEN [ts |-> job[w].ts, id |-> id]
                                                                ELSE lastAlert[q]}
              /\ job' = [job EXCEPT ![w].id = id]
<1> DEFINE s == job[w].src  ts == job[w].ts  id == IncidentFor(s, ts)
           e == [src |-> s, ts |-> ts, id |-> id, fired |-> job[w].fired]
<1>1. /\ TypeOK /\ pc[w] = "correlate" /\ pc' = [pc EXCEPT ![w] = "check"] /\ events \in 0..MaxEvents
      /\ CountOK
    BY DEF TypeInv, TypeOK, Correlate
<1>2. nextId \in Nat \ {0} /\ nextId \in Ids
    <2>1. /\ Cardinality(At("correlate"))' = Cardinality(At("correlate")) - 1
          /\ Cardinality(At("correlate"))' \in Nat /\ Cardinality(At("correlate")) \in Nat
        BY <1>1, CountMoves DEF Labels
    <2> QED BY <1>1, <2>1, ConstantsAssumption DEF TypeOK, CountOK, Ids
<1>3. job[w] \in Job /\ s \in Sources /\ ts \in Nat /\ job[w].fired \subseteq Classes
    BY <1>1 DEF TypeOK, Job
<1>4. id \in Ids
    BY <1>1, <1>2, <1>3 DEF IncidentFor, TypeOK
<1>5. e \in LogEntry /\ log \in Seq(LogEntry) /\ lastAlert \in [Sources -> Entry]
    BY <1>1, <1>3, <1>4 DEF LogEntry, TypeOK, Entry
<1>6. /\ lastAlert' = Prune([lastAlert EXCEPT ![s] = [ts |-> ts, id |-> id]], ts)
      /\ nextId' = IF id = nextId THEN nextId + 1 ELSE nextId
      /\ log' = Append(log, e) /\ job' = [job EXCEPT ![w].id = id]
    BY DEF Correlate
<1>7. \A q \in Sources : lastAlert'[q] \in {NoEntry, IF q = s THEN [ts |-> ts, id |-> id] ELSE lastAlert[q]}
    <2> HIDE DEF id
    <2> QED BY <1>5, <1>6, <1>3 DEF Prune
<1> QED BY <1>2, <1>3, <1>4, <1>5, <1>6, <1>7

LEMMA CorrelateOwned ==
    ASSUME TypeInv, SourceInv, NEW w \in Workers, Correlate(w), job[w].src # Anonymous
    PROVE  SourceInv'
<1> DEFINE s == job[w].src  id == IncidentFor(s, job[w].ts)
           e == [src |-> s, ts |-> job[w].ts, id |-> id, fired |-> job[w].fired]
<1>1. /\ s \in Sources /\ id \in Ids /\ e \in LogEntry
      /\ log \in Seq(LogEntry) /\ log' = Append(log, e)
      /\ nextId \in Nat \ {0} /\ nextId' = IF id = nextId THEN nextId + 1 ELSE nextId
      /\ lastAlert \in [Sources -> Entry]
      /\ \A q \in Sources : lastAlert'[q] \in {NoEntry, IF q = s THEN [ts |-> job[w].ts, id |-> id]
                                                        ELSE lastAlert[q]}
    BY Correlated
<1>2. \/ id = nextId
      \/ Known(s) /\ id = lastAlert[s].id
    BY DEF IncidentFor, InWindow
<1>3. e.src = s /\ e.id = id
    OBVIOUS
<1> HIDE DEF e, id
<1>4. /\ DOMAIN log' = DOMAIN log \cup {Len(log) + 1} /\ log'[Len(log) + 1] = e
      /\ \A i \in DOMAIN log : log'[i] = log[i] /\ i # Len(log) + 1
    BY <1>1
\* The id is new, or it is the source's own: nothing else has it.
<1>5. /\ id \in 1..(nextId' - 1)
      /\ \A i \in DOMAIN log : log[i] # Cleared /\ log[i].id = id => log[i].src = s
      /\ \A q \in Sources : Known(q) /\ lastAlert[q].id = id => q = s
    BY <1>1, <1>2 DEF SourceInv, Owned
<1>6. \A i \in DOMAIN log : log[i] = Cleared => log[i].id # id
    BY <1>1, <1>5 DEF Cleared, Default
<1>7. \A q \in Sources : Known(q)' =>
          \/ q = s /\ lastAlert'[q].id = id
          \/ q # s /\ Known(q) /\ lastAlert'[q].id = lastAlert[q].id /\ lastAlert[q].id # id
    BY <1>1, <1>5 DEF Known
<1>8. Owned'
    <2>1. ASSUME NEW q \in Sources, Known(q)'
          PROVE  /\ lastAlert'[q].id \in 1..(nextId' - 1)
                 /\ \A r \in Sources : Known(r)' /\ lastAlert'[r].id = lastAlert'[q].id => r = q
                 /\ \A i \in DOMAIN log' : log'[i].id = lastAlert'[q].id => log'[i].src = q
        <3>1. CASE q = s /\ lastAlert'[q].id = id
            <4>1. \A r \in Sources : Known(r)' /\ lastAlert'[r].id = lastAlert'[q].id => r = q
                BY <3>1, <1>7
            <4>2. \A i \in DOMAIN log' : log'[i].id = lastAlert'[q].id => log'[i].src = q
                BY <3>1, <1>3, <1>4, <1>5, <1>6
            <4> QED BY <3>1, <4>1, <4>2, <1>5
        <3>2. CASE q # s /\ Known(q) /\ lastAlert'[q].id = lastAlert[q].id /\ lastAlert[q].id # id
            <4>1. lastAlert'[q].id \in 1..(nextId' - 1)
                BY <3>2, <1>1 DEF SourceInv, Owned
            <4>2. \A r \in Sources : Known(r)' /\ lastAlert'[r].id = lastAlert'[q].id => r = q
                BY <3>2, <1>7 DEF SourceInv, Owned
            <4>3. \A i \in DOMAIN log' : log'[i].id = lastAlert'[q].id => log'[i].src = q
                BY <3>2, <1>3, <1>4 DEF SourceInv, Owned
            <4> QED BY <4>1, <4>2, <4>3
        <3> QED BY <2>1, <3>1, <3>2, <1>7
    <2>2. \A i \in DOMAIN log' : log'[i] = Cleared \/ log'[i].id \in 1..(nextId' - 1)
        BY <1>1, <1>3, <1>4, <1>5 DEF SourceInv, Owned
    <2> QED BY <2>1, <2>2 DEF Owned, Known
<1>9. IncidentHasOneSource'
    BY <1>3, <1>4, <1>5 DEF SourceInv, IncidentHasOneSource
<1> QED BY <1>8, <1>9 DEF SourceInv

LEMMA ClearOwned == ASSUME TypeInv, SourceInv, Clear PROVE SourceInv'
<1>1. log \in Seq(LogEntry) /\ log' = Append(log, Cleared) /\ nextId' = nextId
    BY DEF Clear, TypeInv, TypeOK, LogEntry
<1>2. \A s \in Sources : ~Known(s)'
    BY DEF Clear, Known
<1>3. /\ DOMAIN log' = DOMAIN log \cup {Len(log) + 1} /\ log'[Len(log) + 1] = Cleared
      /\ \A i \in DOMAIN log : log'[i] = log[i]
    BY <1>1
<1>4. Owned'
    BY <1>1, <1>2, <1>3 DEF SourceInv, Owned
<1>5. IncidentHasOneSource'
    BY <1>3 DEF SourceInv, IncidentHasOneSource
<1> QED BY <1>4, <1>5 DEF SourceInv

LEMMA OthersOwned ==
    ASSUME SourceInv, UNCHANGED <<lastAlert, nextId, log>> PROVE SourceInv'
BY DEF SourceInv, Owned, Known, IncidentHasOneSource

LEMMA StepOwned == TypeInv /\ SourceInv /\ [Next]_vars => SourceInv'
<1> SUFFICES ASSUME TypeInv, SourceInv, [Next]_vars PROVE SourceInv'
    OBVIOUS
<1>1. CASE Clear
    BY <1>1, ClearOwned
<1>2. ASSUME NEW w \in Workers, Aggregate(w) PROVE SourceInv'
    <2>1. CASE Correlate(w) /\ job[w].src # Anonymous
        BY <2>1, CorrelateOwned
    <2>2. CASE Correlate(w) /\ job[w].src = Anonymous
        BY <2>2, OthersOwned DEF Correlate
    <2>3. CASE ~Correlate(w)
        BY <1>2, <2>3, OthersOwned DEF Aggregate, Begin, CheckStages, CreateStages, TrackStages, Score
    <2> QED BY <2>1, <2>2, <2>3
<1>3. CASE Tick \/ UNCHANGED vars
    BY <1>3, OthersOwned DEF Tick, vars
<1> QED BY <1>1, <1>2, <1>3 DEF Next

(* No incident mixes alerts of two sources, for any number of threads, in  *)
(* whatever order events come and whatever is pruned or cleared between.   *)
THEOREM OneSource == Spec => []IncidentHasOneSource
<1>1. Init => SourceInv
    BY DEF Init, SourceInv, Owned, Known, IncidentHasOneSource
<1>2. SourceInv => IncidentHasOneSource
    BY DEF SourceInv
<1> QED BY InitType, StepType, StepOwned, <1>1, <1>2, PTL DEF Spec
----------------------------------------------------------------------------
(* What the map remembers is the last alert of a source.                   *)

\* Alert i of the log is the last one of source s.
LastOf(s, i) ==
    i \in DOMAIN log /\ log[i].src = s /\ \A k \in (i + 1)..Len(log) : log[k].src # s

\* A clear, or an alert stamped past the window, came after alert i.
Passed(i) == \E k \in (i + 1)..Len(log) : log[k] = Cleared \/ log[k].ts > log[i].ts + Window

(* A source the map knows is there with its last alert, and one it does    *)
(* not know has none, or something that makes it forget came after.        *)
Remembered ==
    \A s \in Sources, i \in DOMAIN log : LastOf(s, i) =>
        IF Known(s) THEN lastAlert[s] = [ts |-> log[i].ts, id |-> log[i].id] ELSE Passed(i)

FollowInv == Remembered /\ IncidentsFollowWindow

\* What of the log changes when it gets one more entry.
LEMMA LogGrows ==
    ASSUME NEW e \in LogEntry, log \in Seq(LogEntry), log' = Append(log, e),
           NEW n \in Nat, n = Len(log) + 1
    PROVE  /\ DOMAIN log' = DOMAIN log \cup {n} /\ log'[n] = e
           /\ \A i \in DOMAIN log : log'[i] = log[i]
           /\ \A i \in DOMAIN log : Consecutive(i, n)' => LastOf(e.src, i) /\ e.src # Anonymous
           /\ \A i \in DOMAIN log : Passed(i) => Passed(i)' /\ Forgotten(i, n)'
           /\ \A i \in DOMAIN log : e = Cleared \/ e.ts > log[i].ts + Window => Passed(i)'
           /\ \A i \in DOMAIN log, s \in Sources : LastOf(s, i)' => LastOf(s, i) /\ e.src # s
           /\ \A s \in Sources : LastOf(s, n)' => e.src = s
           /\ \A i, j \in DOMAIN log : Consecutive(i, j)' => Consecutive(i, j)
           /\ \A i, j \in DOMAIN log : Forgotten(i, j) => Forgotten(i, j)'
           /\ \A j \in DOMAIN log' : ~Consecutive(n, j)'
<1>1. /\ Len(log) \in Nat /\ Len(log') = n /\ log'[n] = e
      /\ DOMAIN log = 1..Len(log) /\ DOMAIN log' = 1..n
      /\ \A i \in DOMAIN log : log'[i] = log[i]
    OBVIOUS
<1>2. ASSUME NEW i \in DOMAIN log, Consecutive(i, n)' PROVE LastOf(e.src, i) /\ e.src # Anonymous
    BY <1>1, <1>2 DEF Consecutive, LastOf
<1>3. ASSUME NEW i \in DOMAIN log, Passed(i) PROVE Passed(i)' /\ Forgotten(i, n)'
    BY <1>1, <1>3 DEF Passed, Forgotten
<1>4. ASSUME NEW i \in DOMAIN log, e = Cleared \/ e.ts > log[i].ts + Window PROVE Passed(i)'
    BY <1>1, <1>4 DEF Passed
<1>5. ASSUME NEW i \in DOMAIN log, NEW s \in Sources, LastOf(s, i)' PROVE LastOf(s, i) /\ e.src # s
    <2>1. n \in (i + 1)..Len(log') /\ \A k \in (i + 1)..Len(log) : k \in (i + 1)..Len(log') /\ k \in DOMAIN log
        BY <1>1
    <2> QED BY <1>1, <1>5, <2>1 DEF LastOf
<1>6. ASSUME NEW s \in Sources, LastOf(s, n)' PROVE e.src = s
    BY <1>1, <1>6 DEF LastOf
<1>7. ASSUME NEW i \in DOMAIN log, NEW j \in DOMAIN log, Consecutive(i, j)' PROVE Consecutive(i, j)
    BY <1>1, <1>7 DEF Consecutive
<1>8. ASSUME NEW i \in DOMAIN log, NEW j \in DOMAIN log, Forgotten(i, j) PROVE Forgotten(i, j)'
    BY <1>1, <1>8 DEF Forgotten
<1>9. \A j \in DOMAIN log' : ~Consecutive(n, j)'
    BY <1>1 DEF Consecutive
<1> QED BY <1>1, <1>2, <1>3, <1>4, <1>5, <1>6, <1>7, <1>8, <1>9

LEMMA CorrelateFollows ==
    ASSUME TypeInv, SourceInv, FollowInv, NEW w \in Workers, Correlate(w), job[w].src # Anonymous
    PROVE  FollowInv'
<1> DEFINE s == job[w].src  ts == job[w].ts  id == IncidentFor(s, ts)
           e == [src |-> s, ts |-> ts, id |-> id, fired |-> job[w].fired]
<1>1. /\ s \in Sources /\ s # Anonymous /\ e \in LogEntry /\ log \in Seq(LogEntry) /\ log' = Append(log, e)
      /\ nextId \in Nat \ {0} /\ lastAlert \in [Sources -> Entry]
    BY Correlated
<1>2. ts \in Nat /\ Window \in Nat /\ id # Default
    <2>1. job[w] \in Job
        BY DEF TypeInv, TypeOK
    <2>2. id # Default
        BY <1>1 DEF IncidentFor, InWindow, SourceInv, Owned, Default
    <2> QED BY <2>1, <2>2, ConstantsAssumption DEF Job
<1>3. lastAlert' = Prune([lastAlert EXCEPT ![s] = [ts |-> ts, id |-> id]], ts)
    BY <1>1 DEF Correlate
<1>4. /\ InWindow(s, ts) => id = lastAlert[s].id
      /\ ~InWindow(s, ts) => id = nextId
    BY DEF IncidentFor
<1>5. e.src = s /\ e.ts = ts /\ e.id = id
    OBVIOUS
<1> HIDE DEF e, id
<1>n. PICK n \in Nat : n = Len(log) + 1
    BY <1>1
\* The source is remembered with this alert, the others as before or not at all.
<1>6. lastAlert'[s] = [ts |-> ts, id |-> id] /\ lastAlert'[s] # NoEntry
    <2>1. lastAlert'[s] = [ts |-> ts, id |-> id]
        BY <1>1, <1>2, <1>3 DEF Prune
    <2> QED BY <2>1, <1>2 DEF NoEntry
<1>7. ASSUME NEW q \in Sources, q # s
      PROVE  lastAlert'[q] = IF lastAlert[q].ts + Window < ts THEN NoEntry ELSE lastAlert[q]
    BY <1>1, <1>3, <1>7 DEF Prune
<1>8. /\ DOMAIN log' = DOMAIN log \cup {n} /\ log'[n] = e
      /\ \A i \in DOMAIN log : log'[i] = log[i] /\ log[i].ts \in Nat /\ (log[i].src = s => log[i] # Cleared)
    <2>1. DOMAIN log' = DOMAIN log \cup {n} /\ log'[n] = e /\ \A i \in DOMAIN log : log'[i] = log[i]
        BY <1>1, <1>n, LogGrows
    <2>2. \A i \in DOMAIN log : log[i] \in LogEntry
        BY <1>1
    <2> QED BY <2>1, <2>2, <1>1 DEF LogEntry, Cleared
<1>9. Remembered'
    <2>1. ASSUME NEW q \in Sources, NEW i \in DOMAIN log', LastOf(q, i)'
          PROVE  IF Known(q)' THEN lastAlert'[q] = [ts |-> log'[i].ts, id |-> log'[i].id] ELSE Passed(i)'
        <3>1. CASE i = n
            <4>1. q = s
                BY <3>1, <2>1, <1>1, <1>5, <1>n, LogGrows
            <4> QED BY <4>1, <3>1, <1>5, <1>6, <1>8 DEF Known
        <3>2. CASE i \in DOMAIN log
            <4>1. LastOf(q, i) /\ q # s
                BY <3>2, <2>1, <1>1, <1>5, <1>n, LogGrows
            <4>2. CASE Known(q)
                <5>1. lastAlert[q] = [ts |-> log[i].ts, id |-> log[i].id]
                    BY <4>1, <4>2, <3>2 DEF FollowInv, Remembered
                <5>2. CASE lastAlert[q].ts + Window < ts
                    <6>1. ~Known(q)'
                        BY <5>2, <4>1, <1>7 DEF Known
                    <6>2. e.ts > log[i].ts + Window
                        BY <5>1, <5>2, <1>2, <1>5, <1>8, <3>2
                    <6> QED BY <6>1, <6>2, <3>2, <1>1, <1>n, LogGrows
                <5>3. CASE ~(lastAlert[q].ts + Window < ts)
                    <6>1. lastAlert'[q] = lastAlert[q] /\ Known(q)'
                        BY <5>3, <4>1, <4>2, <1>7 DEF Known
                    <6> QED BY <6>1, <5>1, <3>2, <1>8
                <5> QED BY <5>2, <5>3
            <4>3. CASE ~Known(q)
                <5>1. Passed(i)
                    BY <4>1, <4>3, <3>2 DEF FollowInv, Remembered
                <5>2. Passed(i)'
                    BY <5>1, <3>2, <1>1, <1>n, LogGrows
                <5>3. ~Known(q)'
                    BY <4>1, <4>3, <1>7 DEF Known
                <5> QED BY <5>2, <5>3
            <4> QED BY <4>2, <4>3
        <3> QED BY <2>1, <3>1, <3>2, <1>8
    <2> QED BY <2>1 DEF Remembered
\* The source's last alert before this one decides whether the two share an incident.
<1>10. ASSUME NEW i \in DOMAIN log, Consecutive(i, n)'
       PROVE  /\ log[i].id = id => ts <= log[i].ts + Window
              /\ log[i].id # id => ts > log[i].ts + Window \/ Forgotten(i, n)'
    <2>1. LastOf(s, i) /\ log[i].src = s
        BY <1>10, <1>1, <1>5, <1>n, LogGrows DEF LastOf
    <2>2. log[i].id # nextId
        BY <1>1, <1>8, <2>1 DEF SourceInv, Owned
    <2>3. CASE Known(s)
        <3>1. lastAlert[s].ts = log[i].ts /\ lastAlert[s].id = log[i].id
            BY <2>1, <2>3, <1>1 DEF FollowInv, Remembered
        <3> QED BY <3>1, <2>2, <2>3, <1>2, <1>4, <1>8 DEF InWindow
    <2>4. CASE ~Known(s)
        <3>1. Passed(i) /\ id = nextId
            BY <2>1, <2>4, <1>1, <1>4 DEF FollowInv, Remembered, InWindow
        <3> QED BY <3>1, <2>2, <1>1, <1>n, LogGrows
    <2> QED BY <2>3, <2>4
<1>11. IncidentsFollowWindow'
    <2>1. ASSUME NEW i \in DOMAIN log', NEW j \in DOMAIN log', Consecutive(i, j)'
          PROVE  /\ log'[i].id = log'[j].id => log'[j].ts <= log'[i].ts + Window
                 /\ log'[i].id # log'[j].id => log'[j].ts > log'[i].ts + Window \/ Forgotten(i, j)'
        <3>1. i \in DOMAIN log
            BY <2>1, <1>1, <1>8, <1>n, LogGrows
        <3>2. CASE j = n
            BY <3>1, <3>2, <2>1, <1>5, <1>8, <1>10
        <3>3. CASE j \in DOMAIN log
            <4>1. Consecutive(i, j)
                BY <3>1, <3>3, <2>1, <1>1, <1>n, LogGrows
            <4>2. Forgotten(i, j) => Forgotten(i, j)'
                BY <3>1, <3>3, <1>1, <1>n, LogGrows
            <4> QED BY <3>1, <3>3, <4>1, <4>2, <1>8 DEF FollowInv, IncidentsFollowWindow
        <3> QED BY <3>2, <3>3, <1>8
    <2> QED BY <2>1 DEF IncidentsFollowWindow
<1> QED BY <1>9, <1>11 DEF FollowInv

LEMMA ClearFollows == ASSUME TypeInv, FollowInv, Clear PROVE FollowInv'
<1>1. log \in Seq(LogEntry) /\ log' = Append(log, Cleared) /\ Cleared \in LogEntry
    <2>1. 0 \in Ids
        BY ConstantsAssumption DEF Ids
    <2> QED BY <2>1 DEF Clear, TypeInv, TypeOK, LogEntry, Cleared, Default
<1>2. Cleared.src = Anonymous /\ Anonymous \notin Sources
    BY ConstantsAssumption DEF Cleared
<1>n. PICK n \in Nat : n = Len(log) + 1
    BY <1>1
<1>3. \A s \in Sources : ~Known(s)'
    BY DEF Clear, Known
<1>4. DOMAIN log' = DOMAIN log \cup {n} /\ \A i \in DOMAIN log : log'[i] = log[i]
    BY <1>1, <1>n, LogGrows
<1>5. \A i \in DOMAIN log : Passed(i)'
    BY <1>1, <1>n, LogGrows
<1>6. \A s \in Sources : ~LastOf(s, n)'
    BY <1>1, <1>2, <1>n, LogGrows
<1>7. Remembered'
    BY <1>3, <1>4, <1>5, <1>6 DEF Remembered
<1>8. ASSUME NEW i \in DOMAIN log', NEW j \in DOMAIN log', Consecutive(i, j)'
      PROVE  /\ log'[i].id = log'[j].id => log'[j].ts <= log'[i].ts + Window
             /\ log'[i].id # log'[j].id => log'[j].ts > log'[i].ts + Window \/ Forgotten(i, j)'
    <2>1. i \in DOMAIN log /\ j \in DOMAIN log
        BY <1>8, <1>1, <1>2, <1>4, <1>n, LogGrows
    <2>2. Consecutive(i, j) /\ (Forgotten(i, j) => Forgotten(i, j)')
        BY <2>1, <1>8, <1>1, <1>n, LogGrows
    <2> QED BY <2>1, <2>2, <1>4 DEF FollowInv, IncidentsFollowWindow
<1>9. IncidentsFollowWindow'
    BY <1>8 DEF IncidentsFollowWindow
<1> QED BY <1>7, <1>9 DEF FollowInv

LEMMA OthersFollow == ASSUME FollowInv, UNCHANGED <<lastAlert, log>> PROVE FollowInv'
BY DEF FollowInv, Remembered, IncidentsFollowWindow, LastOf, Passed, Known, Consecutive, Forgotten

LEMMA StepFollows == TypeInv /\ SourceInv /\ FollowInv /\ [Next]_vars => FollowInv'
<1> SUFFICES ASSUME TypeInv, SourceInv, FollowInv, [Next]_vars PROVE FollowInv'
    OBVIOUS
<1>1. CASE Clear
    BY <1>1, ClearFollows
<1>2. ASSUME NEW w \in Workers, Aggregate(w) PROVE FollowInv'
    <2>1. CASE Correlate(w) /\ job[w].src # Anonymous
        BY <2>1, CorrelateFollows
    <2>2. CASE Correlate(w) /\ job[w].src = Anonymous
        BY <2>2, OthersFollow DEF Correlate
    <2>3. CASE ~Correlate(w)
        BY <1>2, <2>3, OthersFollow DEF Aggregate, Begin, CheckStages, CreateStages, TrackStages, Score
    <2> QED BY <2>1, <2>2, <2>3
<1>3. CASE Tick \/ UNCHANGED vars
    BY <1>3, OthersFollow DEF Tick, vars
<1> QED BY <1>1, <1>2, <1>3 DEF Next

(* Two consecutive alerts of a source share an incident only inside the    *)
(* window, and have two inside it only if a clear or an alert stamped past *)
(* it came between, whatever the threads, the lateness and the window are. *)
THEOREM WindowDecides == Spec => []IncidentsFollowWindow
<1>1. Init => SourceInv /\ FollowInv
    BY DEF Init, SourceInv, Owned, Known, IncidentHasOneSource, FollowInv, Remembered, LastOf,
           IncidentsFollowWindow
<1>2. FollowInv => IncidentsFollowWindow
    BY DEF FollowInv
<1> QED BY InitType, StepType, StepOwned, StepFollows, <1>1, <1>2, PTL DEF Spec
----------------------------------------------------------------------------
(* The chain of an alert is of its own incident.                           *)

Seen(c, i) == \E k \in DOMAIN log : log[k].id = i /\ c \in log[k].fired

Correlating == {"check", "create", "track", "score"}

(* What the stage sets, the workers and the scored alerts have was seen in *)
(* the incident they have it for.  Alerts without a source share Default.  *)
StagesSeen == \A d \in 0..Cardinality(Workers), i \in Ids \ {Default} :
                  \A c \in stages[d][i] : Seen(c, i)

JobOK(w) ==
    /\ job[w].src = Anonymous => job[w].id = Default
    /\ pc[w] \in Correlating /\ job[w].src # Anonymous =>
          job[w].id # Default /\ \A c \in job[w].fired : Seen(c, job[w].id)
    /\ pc[w] = "score" => job[w].fired \subseteq stages[job[w].dict][job[w].id]

JobSeen == \A w \in Workers : JobOK(w)

ScoredSeen == \A a \in scored :
    /\ a.fired \subseteq a.counted
    /\ a.src # Anonymous => \A c \in a.counted : Seen(c, a.id)

ChainInv == StagesSeen /\ JobSeen /\ ScoredSeen

LEMMA ScoredChain == ScoredSeen => ChainFromOneIncident
<1> SUFFICES ASSUME ScoredSeen, NEW a \in scored, a.src # Anonymous, NEW c \in a.counted
             PROVE  c \in UNION {log[i].fired : i \in {k \in DOMAIN log : log[k].id = a.id}}
    BY DEF ScoredSeen, ChainFromOneIncident
<1>1. PICK k \in DOMAIN log : log[k].id = a.id /\ c \in log[k].fired
    BY DEF ScoredSeen, Seen
<1> QED BY <1>1

\* The log grows, and what was seen stays seen.
LEMMA SeenGrows ==
    ASSUME TypeInv, [Next]_vars
    PROVE  \A c, i : Seen(c, i) => Seen(c, i)'
<1>1. log \in Seq(LogEntry)
    BY DEF TypeInv, TypeOK, LogEntry
<1>2. log' = log \/ \E e \in LogEntry : log' = Append(log, e)
    <2>1. CASE Clear
        <3>1. 0 \in Ids
            BY ConstantsAssumption DEF Ids
        <3>2. Cleared \in LogEntry
            BY <3>1 DEF Cleared, LogEntry, Default
        <3> QED BY <2>1, <3>2 DEF Clear
    <2>2. ASSUME NEW w \in Workers, Correlate(w), job[w].src # Anonymous
          PROVE  \E e \in LogEntry : log' = Append(log, e)
        BY <2>2, Correlated
    <2>3. ASSUME NEW w \in Workers, Correlate(w), job[w].src = Anonymous PROVE log' = log
        BY <2>3 DEF Correlate
    <2>4. CASE Tick \/ UNCHANGED vars
        BY <2>4 DEF Tick, vars
    <2>5. ASSUME NEW w \in Workers, Aggregate(w), ~Correlate(w) PROVE log' = log
        BY <2>5 DEF Aggregate, Begin, CheckStages, CreateStages, TrackStages, Score
    <2> QED BY <2>1, <2>2, <2>3, <2>4, <2>5 DEF Next, Aggregate
<1>3. \A k \in DOMAIN log : k \in DOMAIN log' /\ log'[k] = log[k]
    BY <1>1, <1>2
<1> QED BY <1>3 DEF Seen

\* Steps that touch no stage set, no score and no worker but w.
LEMMA JobStep ==
    ASSUME TypeInv, ChainInv, [Next]_vars, UNCHANGED <<stages, scored>>, NEW w \in Workers,
           \A v \in Workers \ {w} : job'[v] = job[v] /\ pc'[v] = pc[v],
           JobOK(w)'
    PROVE  ChainInv'
<1>1. \A c, i : Seen(c, i) => Seen(c, i)'
    BY SeenGrows
<1>2. StagesSeen' /\ ScoredSeen'
    BY <1>1 DEF ChainInv, StagesSeen, ScoredSeen
<1>3. ASSUME NEW v \in Workers, v # w PROVE JobOK(v)'
    <2>1. job'[v] = job[v] /\ pc'[v] = pc[v] /\ stages' = stages /\ JobOK(v)
        BY <1>3 DEF ChainInv, JobSeen
    <2>2. \A c : Seen(c, job[v].id) => Seen(c, job[v].id)'
        BY <2>1, <1>1
    <2> QED BY <2>1, <2>2 DEF JobOK
<1>4. JobSeen'
    BY <1>3 DEF JobSeen
<1> QED BY <1>2, <1>4 DEF ChainInv

LEMMA BeginChain == ASSUME TypeInv, ChainInv, NEW w \in Workers, Begin(w) PROVE ChainInv'
<1>1. PICK s \in Sources \cup {Anonymous}, lag \in Lags, fired \in (SUBSET Classes) \ {{}} :
          job' = [job EXCEPT ![w] = [src |-> s, ts |-> clock - lag, fired |-> fired,
                                        id |-> Default, dict |-> 0]]
    BY DEF Begin
<1>2. job \in [Workers -> Job] /\ pc \in [Workers -> Labels]
    BY DEF TypeInv, TypeOK, Labels
<1>3. /\ [Next]_vars /\ UNCHANGED <<stages, scored>>
      /\ job'[w].id = Default /\ pc'[w] = "correlate"
      /\ \A v \in Workers \ {w} : job'[v] = job[v] /\ pc'[v] = pc[v]
    BY <1>1, <1>2 DEF Begin, Next, Aggregate
<1>4. JobOK(w)'
    BY <1>3 DEF JobOK, Correlating
<1> QED BY <1>3, <1>4, JobStep

LEMMA CorrelateChain ==
    ASSUME TypeInv, SourceInv, ChainInv, NEW w \in Workers, Correlate(w) PROVE ChainInv'
<1>1. /\ [Next]_vars /\ UNCHANGED <<stages, scored>> /\ pc' = [pc EXCEPT ![w] = "check"]
      /\ job \in [Workers -> Job] /\ pc \in [Workers -> Labels] /\ pc[w] = "correlate"
    BY DEF Correlate, Next, Aggregate, TypeInv, TypeOK, Labels
<1>2. CASE job[w].src = Anonymous
    <2>1. job' = job /\ job[w].id = Default
        BY <1>2 DEF Correlate, ChainInv, JobSeen, JobOK
    <2>2. JobOK(w)'
        BY <2>1, <1>1, <1>2 DEF JobOK
    <2> QED BY <1>1, <2>1, <2>2, JobStep
<1>3. CASE job[w].src # Anonymous
    <2> DEFINE id == IncidentFor(job[w].src, job[w].ts)
               e == [src |-> job[w].src, ts |-> job[w].ts, id |-> id, fired |-> job[w].fired]
    <2>1. /\ job' = [job EXCEPT ![w].id = id] /\ log' = Append(log, e) /\ log \in Seq(LogEntry)
          /\ e \in LogEntry /\ nextId \in Nat \ {0}
        BY <1>3, Correlated
    <2>2. id # Default
        BY <2>1, <1>1, <1>3 DEF IncidentFor, InWindow, SourceInv, Owned, Default, Job
    <2>3. e.id = id /\ e.fired = job[w].fired
        OBVIOUS
    <2> HIDE DEF e, id
    <2>4. Len(log) + 1 \in DOMAIN log' /\ log'[Len(log) + 1] = e
        BY <2>1
    <2>5. job'[w].id = id /\ job'[w].fired = job[w].fired /\ job'[w].src = job[w].src
        BY <2>1, <1>1 DEF Job
    <2>6. \A c \in job'[w].fired : Seen(c, job[w].id)'
        BY <2>3, <2>4, <2>5 DEF Seen
    <2>7. pc'[w] = "check" /\ \A v \in Workers \ {w} : job'[v] = job[v] /\ pc'[v] = pc[v]
        BY <2>1, <1>1
    <2>8. JobOK(w)'
        BY <1>3, <2>2, <2>5, <2>6, <2>7 DEF JobOK
    <2> QED BY <1>1, <2>7, <2>8, JobStep
<1> QED BY <1>2, <1>3

LEMMA CheckChain ==
    ASSUME TypeInv, ChainInv, NEW w \in Workers, CheckStages(w) \/ CreateStages(w) PROVE ChainInv'
<1>1. /\ [Next]_vars /\ UNCHANGED <<stages, scored, job, log>>
      /\ pc \in [Workers -> Labels] /\ pc[w] \in Correlating
      /\ pc'[w] \in {"create", "track"} /\ \A v \in Workers \ {w} : pc'[v] = pc[v]
    BY DEF CheckStages, CreateStages, Next, Aggregate, TypeInv, TypeOK, Labels, Correlating
<1>2. JobOK(w)'
    BY <1>1 DEF ChainInv, JobSeen, JobOK, Seen
<1> QED BY <1>1, <1>2, JobStep

\* The set of the incident grows by what the worker's event has added to it.
LEMMA TrackChain == ASSUME TypeInv, ChainInv, NEW w \in Workers, TrackStages(w) PROVE ChainInv'
<1>1. /\ [Next]_vars /\ TypeOK /\ pc[w] = "track" /\ pc' = [pc EXCEPT ![w] = "score"]
      /\ stages' = [stages EXCEPT ![dicts][job[w].id] = @ \cup job[w].fired]
      /\ job' = [job EXCEPT ![w].dict = dicts] /\ UNCHANGED <<log, scored>>
    BY DEF TypeInv, TrackStages, Next, Aggregate
<1>2. /\ job \in [Workers -> Job] /\ pc \in [Workers -> Labels]
      /\ \A v \in Workers : job[v].id \in Ids /\ job[v].dict \in 0..Cardinality(Workers)
      /\ dicts \in 0..Cardinality(Workers)
      /\ stages \in [0..Cardinality(Workers) -> [Ids -> SUBSET Classes]]
    BY <1>1 DEF TypeOK, Job, Labels
<1>3. \A d \in 0..Cardinality(Workers), i \in Ids :
          stages'[d][i] = IF d = dicts /\ i = job[w].id THEN stages[d][i] \cup job[w].fired
                                                        ELSE stages[d][i]
    BY <1>1, <1>2
<1>4. \A v \in Workers :
          /\ job'[v].src = job[v].src /\ job'[v].id = job[v].id /\ job'[v].fired = job[v].fired
          /\ job'[v].dict = IF v = w THEN dicts ELSE job[v].dict
          /\ pc'[v] = IF v = w THEN "score" ELSE pc[v]
    BY <1>1, <1>2 DEF Job
<1>5. job[w].id # Default => \A c \in job[w].fired : Seen(c, job[w].id)
    BY <1>1 DEF ChainInv, JobSeen, JobOK, Correlating
<1>6. \A c, i : Seen(c, i)' <=> Seen(c, i)
    BY <1>1 DEF Seen
<1>7. StagesSeen'
    <2>1. ASSUME NEW d \in 0..Cardinality(Workers), NEW i \in Ids \ {Default}, NEW c \in stages'[d][i]
          PROVE  Seen(c, i)
        <3>1. CASE c \in stages[d][i]
            BY <3>1 DEF ChainInv, StagesSeen
        <3>2. CASE c \notin stages[d][i]
            <4>1. i = job[w].id /\ c \in job[w].fired
                BY <3>2, <2>1, <1>3
            <4> QED BY <4>1, <2>1, <1>5
        <3> QED BY <3>1, <3>2
    <2> QED BY <2>1, <1>6 DEF StagesSeen
<1>8. ASSUME NEW v \in Workers PROVE JobOK(v)'
    <2>1. JobOK(v) /\ (v = w => pc[v] \in Correlating)
        BY <1>1 DEF ChainInv, JobSeen, Correlating
    <2>2. pc'[v] = "score" => job'[v].fired \subseteq stages'[job'[v].dict][job'[v].id]
        <3>1. CASE v = w
            <4>1. stages'[dicts][job[w].id] = stages[dicts][job[w].id] \cup job[w].fired
                BY <1>2, <1>3
            <4> QED BY <3>1, <4>1, <1>4
        <3>2. CASE v # w
            <4>1. stages[job[v].dict][job[v].id] \subseteq stages'[job[v].dict][job[v].id]
                BY <1>2, <1>3
            <4> QED BY <3>2, <4>1, <2>1, <1>4 DEF JobOK
        <3> QED BY <3>1, <3>2
    <2>3. \A c : Seen(c, job[v].id) => Seen(c, job[v].id)'
        BY <1>1, <1>4 DEF Seen
    <2> QED BY <2>1, <2>2, <2>3, <1>4 DEF JobOK, Correlating
<1>9. ScoredSeen'
    BY <1>1, <1>6 DEF ChainInv, ScoredSeen
<1> QED BY <1>7, <1>8, <1>9 DEF ChainInv, JobSeen

LEMMA ScoreChain == ASSUME TypeInv, ChainInv, NEW w \in Workers, Score(w) PROVE ChainInv'
<1> DEFINE a == [src |-> job[w].src, id |-> job[w].id, fired |-> job[w].fired,
                 counted |-> stages[job[w].dict][job[w].id]]
<1>1. /\ [Next]_vars /\ TypeOK /\ pc[w] = "score" /\ pc' = [pc EXCEPT ![w] = "idle"]
      /\ scored' = scored \cup {a} /\ job' = [job EXCEPT ![w] = NoJob]
      /\ UNCHANGED <<stages, log>>
    BY DEF TypeInv, Score, Next, Aggregate
<1>2. /\ job \in [Workers -> Job] /\ pc \in [Workers -> Labels] /\ JobOK(w)
      /\ job[w].id \in Ids /\ job[w].dict \in 0..Cardinality(Workers)
    BY <1>1 DEF TypeOK, Job, Labels, ChainInv, JobSeen
<1>3. \A c, i : Seen(c, i)' <=> Seen(c, i)
    BY <1>1 DEF Seen
<1>4. StagesSeen'
    BY <1>1, <1>3 DEF ChainInv, StagesSeen
<1>5. a.fired \subseteq a.counted /\ (a.src # Anonymous => \A c \in a.counted : Seen(c, a.id))
    BY <1>1, <1>2 DEF JobOK, ChainInv, StagesSeen, Correlating
<1>6. ScoredSeen'
    <2> HIDE DEF a
    <2> QED BY <1>1, <1>3, <1>5 DEF ChainInv, ScoredSeen
<1>7. ASSUME NEW v \in Workers PROVE JobOK(v)'
    <2>1. CASE v = w
        <3>1. job'[v] = NoJob /\ pc'[v] = "idle"
            BY <2>1, <1>1, <1>2
        <3> QED BY <3>1 DEF JobOK, NoJob, Correlating
    <2>2. CASE v # w
        <3>1. job'[v] = job[v] /\ pc'[v] = pc[v] /\ JobOK(v)
            BY <2>2, <1>1, <1>2 DEF ChainInv, JobSeen
        <3>2. \A c : Seen(c, job[v].id) => Seen(c, job[v].id)'
            BY <1>1, <3>1 DEF Seen
        <3> QED BY <3>1, <3>2, <1>1 DEF JobOK
    <2> QED BY <2>1, <2>2
<1> QED BY <1>4, <1>6, <1>7 DEF ChainInv, JobSeen

LEMMA OthersChain ==
    ASSUME TypeInv, ChainInv, [Next]_vars, UNCHANGED <<stages, scored, job, pc>> PROVE ChainInv'
<1>1. \A c, i : Seen(c, i) => Seen(c, i)'
    BY SeenGrows
<1>2. StagesSeen' /\ ScoredSeen'
    BY <1>1 DEF ChainInv, StagesSeen, ScoredSeen
<1>3. ASSUME NEW v \in Workers PROVE JobOK(v)'
    <2>1. \A c : Seen(c, job[v].id) => Seen(c, job[v].id)'
        BY <1>1
    <2> QED BY <2>1 DEF ChainInv, JobSeen, JobOK
<1> QED BY <1>2, <1>3 DEF ChainInv, JobSeen

LEMMA StepChain == TypeInv /\ SourceInv /\ ChainInv /\ [Next]_vars => ChainInv'
<1> SUFFICES ASSUME TypeInv, SourceInv, ChainInv, [Next]_vars PROVE ChainInv'
    OBVIOUS
<1>1. ASSUME NEW w \in Workers, Aggregate(w) PROVE ChainInv'
    BY <1>1, BeginChain, CorrelateChain, CheckChain, TrackChain, ScoreChain DEF Aggregate
<1>2. CASE Tick \/ Clear \/ UNCHANGED vars
    BY <1>2, OthersChain DEF Tick, Clear, vars
<1> QED BY <1>1, <1>2 DEF Next

(* The score of an alert counts its own classes, and only classes that were*)
(* detected in its own incident, for any number of threads that share the  *)
(* stage sets and assign the dictionary over each other.                   *)
THEOREM ChainOfOneIncident == Spec => []ChainFromOneIncident
<1>1. Init => SourceInv
    BY DEF Init, SourceInv, Owned, Known, IncidentHasOneSource
<1>2. Init => ChainInv
    BY DEF Init, ChainInv, StagesSeen, JobSeen, JobOK, ScoredSeen, NoJob, Correlating
<1>3. ChainInv => ChainFromOneIncident
    BY ScoredChain DEF ChainInv
<1> QED BY InitType, StepType, StepOwned, StepChain, <1>1, <1>2, <1>3, PTL DEF Spec
=============================================================================
