----------------------------- MODULE ReplayProofs -----------------------------
(***************************************************************************)
(* The replays from end to end, for any number of jobs, older replays,     *)
(* captures and polls: the topics they share with the consumer             *)
(* (KafkaIngest), the jobs (ReplayJobs, which implements JobStore), what   *)
(* they make of their captures (ZeekLogs), and the panel that shows them   *)
(* (ReplayPanel, which relies on JobStore).                                *)
(***************************************************************************)
EXTENDS ReplayJobs, ReplayPanel, SequenceTheorems, FiniteSetTheorems, WellFoundedInduction, TLAPS

(* What a bad record costs, for every size of a batch and every number of  *)
(* records.  The loss is bounded because the record that aborts a batch    *)
(* and the ones it takes along are of one poll, hence within MaxPoll of    *)
(* each other; and because no record of the topics ever changes.           *)

IngestInv ==
    /\ topic \in Seq({Other, Bad})
    /\ next \in 1..(Len(topic) + 1)
    /\ LossOnlyBehindBad

LEMMA InitIngest == KafkaInit => IngestInv
<1>1. SUFFICES ASSUME KafkaInit PROVE IngestInv
    OBVIOUS
<1>2. topic \in Seq({Other, Bad}) /\ next = 1 /\ Len(topic) = 0
    BY <1>1 DEF KafkaInit
<1>3. LossOnlyBehindBad
    BY <1>2 DEF LossOnlyBehindBad
<1> QED BY <1>2, <1>3 DEF IngestInv

\* A round of the loop: the records it loses are behind a bad one of its batch.
LEMMA ConsumeKeeps == IngestInv /\ Consume => IngestInv'
<1>1. SUFFICES ASSUME IngestInv, Consume PROVE IngestInv'
    OBVIOUS
<1>2. PICK n \in 1..MaxPoll : /\ next + n - 1 <= Len(topic)
                              /\ next' = next + n
                              /\ evaluated' = evaluated \cup Processed(next + n - 1)
    BY <1>1, KafkaAssumption DEF Consume, IngestInv
<1>3. /\ topic' = topic /\ topic \in Seq({Other, Bad})
      /\ next \in Nat \ {0} /\ Len(topic) \in Nat /\ n \in Nat /\ MaxPoll \in Nat
    BY <1>1, <1>2, KafkaAssumption DEF Consume, IngestInv
<1>4. next' \in 1..(Len(topic') + 1)
    BY <1>2, <1>3
<1>5. ASSUME NEW i \in 1..(next' - 1)
      PROVE  i \in evaluated' \/ \E b \in 1..i : ~topic[b].ok /\ b > i - MaxPoll
    <2>1. CASE i < next
        <3>1. i \in 1..(next - 1)
            BY <2>1, <1>2, <1>3
        <3> QED BY <3>1, <1>1, <1>2 DEF IngestInv, LossOnlyBehindBad
    <2>2. CASE i >= next
        <3>1. i \in next..(next + n - 1)
            BY <2>2, <1>2, <1>3
        <3>2. CASE \A b \in next..i : topic[b].ok
            BY <3>1, <3>2, <1>2 DEF Processed
        <3>3. CASE \E b \in next..i : ~topic[b].ok
            <4>1. PICK b \in next..i : ~topic[b].ok
                BY <3>3
            <4>2. b \in 1..i /\ b > i - MaxPoll
                BY <4>1, <3>1, <1>2, <1>3
            <4> QED BY <4>1, <4>2
        <3> QED BY <3>2, <3>3
    <2> QED BY <2>1, <2>2, <1>2, <1>3
<1>6. LossOnlyBehindBad'
    BY <1>3, <1>5 DEF LossOnlyBehindBad
<1> QED BY <1>3, <1>4, <1>6 DEF IngestInv

\* A record of another producer is appended; those before it stay as they are.
LEMMA ForeignKeeps == IngestInv /\ Foreign => IngestInv'
<1>1. SUFFICES ASSUME IngestInv, Foreign PROVE IngestInv'
    OBVIOUS
<1>2. PICK r \in {Other, Bad} : topic' = Append(topic, r)
    BY <1>1 DEF Foreign
<1>3. next' = next /\ evaluated' = evaluated
    BY <1>1 DEF Foreign
<1>4. /\ topic' \in Seq({Other, Bad}) /\ Len(topic') = Len(topic) + 1
      /\ \A i \in 1..Len(topic) : topic'[i] = topic[i]
    BY <1>1, <1>2 DEF IngestInv
<1>5. next' \in 1..(Len(topic') + 1) /\ Len(topic) \in Nat
    BY <1>1, <1>3, <1>4 DEF IngestInv
<1>6. LossOnlyBehindBad'
    BY <1>1, <1>3, <1>4, <1>5 DEF IngestInv, LossOnlyBehindBad
<1> QED BY <1>4, <1>5, <1>6 DEF IngestInv

(* A record the consumer has passed was evaluated, could not be, or was    *)
(* polled together with an earlier record that could not be                *)
(* (run_consumer_loop's handler outside of the loop over the batch).       *)
THEOREM BoundedLoss == KafkaSpec => []LossOnlyBehindBad
<1>1. IngestInv /\ [KafkaNext]_kafka => IngestInv'
    <2>1. SUFFICES ASSUME IngestInv, [KafkaNext]_kafka PROVE IngestInv'
        OBVIOUS
    <2>2. CASE Consume
        BY <2>1, <2>2, ConsumeKeeps
    <2>3. CASE Foreign
        BY <2>1, <2>3, ForeignKeeps
    <2>4. CASE BrokerSwitch
        BY <2>1, <2>4 DEF BrokerSwitch, IngestInv, LossOnlyBehindBad
    <2>5. CASE UNCHANGED kafka
        BY <2>1, <2>5 DEF kafka, IngestInv, LossOnlyBehindBad
    <2> QED BY <2>1, <2>2, <2>3, <2>4, <2>5 DEF KafkaNext
<1>2. IngestInv => LossOnlyBehindBad
    BY DEF IngestInv
<1> QED BY InitIngest, <1>1, <1>2, PTL DEF KafkaSpec
----------------------------------------------------------------------------
(* The replays implement the job store.  A step maps to one of the store   *)
(* because the label of a job's thread says what its status is, and        *)
(* because a thread writes the status of its own job only: Jobs and        *)
(* Legacies share none.                                                    *)

Statuses == {"none", "queued", "processing", "completed", "failed"}
Working  == {"remove", "run", "wait", "native", "ship", "read", "evaluate", "done"}

\* The label of a job's thread and the status of the job.
InStep(j) ==
    \/ pc[j] = "idle" /\ status[j] \in {"none", "completed", "failed"}
    \/ pc[j] = "begin" /\ status[j] = "queued"
    \/ pc[j] \in Working /\ status[j] = "processing"

StoreInv ==
    /\ status \in [Jobs -> Statuses]
    /\ pc \in [Threads -> {"idle", "begin"} \cup Working]
    /\ \A j \in Jobs : InStep(j)

\* A thread goes on at its work, and no status changes.
Continues(t) == /\ pc[t] \in Working /\ UNCHANGED status
               /\ \E l \in Working : pc' = [pc EXCEPT ![t] = l]

LEMMA InitStore == Init => StoreInv /\ Store!StoreInit
BY DEF Init, StoreInv, InStep, Statuses, Working, Threads, Store!StoreInit

\* What keeps every status keeps the invariant if the labels stay in step.
LEMMA WorkKeeps ==
    ASSUME StoreInv, NEW t \in Threads, Continues(t)
    PROVE  StoreInv' /\ UNCHANGED status
<1>1. PICK l \in Working : pc' = [pc EXCEPT ![t] = l]
    BY DEF Continues
<1>2. status' = status /\ pc[t] \in Working /\ t \in DOMAIN pc
    BY DEF Continues, StoreInv
<1>3. pc' \in [Threads -> {"idle", "begin"} \cup Working]
    BY <1>1 DEF StoreInv
<1>4. ASSUME NEW j \in Jobs PROVE InStep(j)'
    <2>1. InStep(j) /\ j \in Threads
        BY DEF StoreInv, Threads
    <2>2. CASE j = t
        BY <1>1, <1>2, <2>1, <2>2 DEF InStep, StoreInv, Working
    <2>3. CASE j # t
        BY <1>1, <1>2, <2>1, <2>3 DEF InStep, StoreInv
    <2> QED BY <2>2, <2>3
<1> QED BY <1>2, <1>3, <1>4 DEF StoreInv

\* What each step of a thread at its work does to the labels.
LEMMA Works ==
    ASSUME StoreInv, NEW t \in Threads,
           \/ RemoveContainer(t) \/ Run(t) \/ GiveUp(t) \/ Native(t) \/ Ship(t)
           \/ ReadLine(t) \/ EndOfFile(t) \/ Evaluate(t) \/ NextFile(t) \/ Finished(t)
    PROVE  Continues(t)
<1>1. CASE RemoveContainer(t)
    BY <1>1 DEF RemoveContainer, Continues, Goto, Working
<1>2. CASE Run(t)
    BY <1>2 DEF Run, Continues, Goto, Working
<1>3. CASE GiveUp(t)
    BY <1>3 DEF GiveUp, Continues, Goto, Working, setup
<1>4. CASE Native(t)
    BY <1>4 DEF Native, Continues, Goto, Working, setup
<1>5. CASE Ship(t)
    BY <1>5 DEF Ship, Continues, Goto, Working, setup
<1>6. CASE ReadLine(t)
    <2>1. pc[t] = "read" /\ UNCHANGED <<status, pc>>
        BY <1>6 DEF ReadLine, setup
    <2>2. pc' = [pc EXCEPT ![t] = "read"]
        BY <2>1 DEF StoreInv
    <2> QED BY <2>1, <2>2 DEF Continues, Working
<1>7. CASE EndOfFile(t)
    BY <1>7 DEF EndOfFile, Continues, Goto, Working, setup
<1>8. CASE Evaluate(t)
    <2>1. pc[t] = "evaluate" /\ UNCHANGED <<status, pc>>
        BY <1>8 DEF Evaluate, setup
    <2>2. pc' = [pc EXCEPT ![t] = "evaluate"]
        BY <2>1 DEF StoreInv
    <2> QED BY <2>1, <2>2 DEF Continues, Working
<1>9. CASE NextFile(t)
    <2>1. pc[t] = "evaluate" /\ UNCHANGED status /\ pc' = [pc EXCEPT ![t] = IF step[t] < 2 THEN "read" ELSE "done"]
        BY <1>9 DEF NextFile, Goto, setup
    <2> QED BY <2>1 DEF Continues, Working
<1>10. CASE Finished(t)
    <2>1. pc[t] = "wait" /\ UNCHANGED status /\ pc' = [pc EXCEPT ![t] = IF t \in Jobs THEN "native" ELSE "ship"]
        BY <1>10 DEF Finished, Goto
    <2> QED BY <2>1 DEF Continues, Working
<1> QED BY <1>1, <1>2, <1>3, <1>4, <1>5, <1>6, <1>7, <1>8, <1>9, <1>10

\* A job is triggered.
LEMMA TriggerMaps == ASSUME StoreInv, NEW j \in Jobs, Trigger(j) PROVE StoreInv' /\ Store!Queue(j)
<1>1. /\ status[j] = "none" /\ j \in Threads
      /\ status' = [status EXCEPT ![j] = "queued"] /\ pc' = [pc EXCEPT ![j] = "begin"]
    BY DEF Trigger, Goto, Threads
<1>2. status' \in [Jobs -> Statuses] /\ pc' \in [Threads -> {"idle", "begin"} \cup Working]
    BY <1>1 DEF StoreInv, Statuses
<1>3. ASSUME NEW k \in Jobs PROVE InStep(k)'
    BY <1>1 DEF StoreInv, InStep, Threads
<1> QED BY <1>1, <1>2, <1>3 DEF StoreInv, Store!Queue

\* An older replay is asked for: it has no job.
LEMMA RequestMaps == ASSUME StoreInv, NEW l \in Legacies, Request(l) PROVE StoreInv' /\ UNCHANGED status
<1>1. status' = status /\ pc' = [pc EXCEPT ![l] = "begin"] /\ l \in Threads /\ l \notin Jobs
    BY ReplayAssumption DEF Request, Goto, Threads
<1>2. ASSUME NEW k \in Jobs PROVE InStep(k)'
    BY <1>1 DEF StoreInv, InStep, Threads
<1> QED BY <1>1, <1>2 DEF StoreInv

\* A thread begins.
LEMMA BeginMaps ==
    ASSUME StoreInv, NEW t \in Threads, Begin(t)
    PROVE  StoreInv' /\ (UNCHANGED status \/ (t \in Jobs /\ Store!Start(t)))
<1>1. /\ pc[t] = "begin"
      /\ status' = [j \in Jobs |-> IF j = t THEN "processing" ELSE status[j]]
    BY DEF Begin
<1>2. PICK w \in Working : pc' = [pc EXCEPT ![t] = w]
    BY DEF Begin, Goto, Working
<1>3. status' \in [Jobs -> Statuses] /\ pc' \in [Threads -> {"idle", "begin"} \cup Working]
    BY <1>1, <1>2 DEF StoreInv, Statuses
<1>4. ASSUME NEW k \in Jobs PROVE InStep(k)'
    BY <1>1, <1>2 DEF StoreInv, InStep, Threads
<1>5. CASE t \in Jobs
    <2>1. InStep(t)
        BY <1>5 DEF StoreInv
    <2>2. status[t] = "queued"
        BY <1>1, <2>1 DEF InStep, Working
    <2>3. status' = [status EXCEPT ![t] = "processing"]
        BY <1>1 DEF StoreInv
    <2> QED BY <1>5, <1>3, <1>4, <2>2, <2>3 DEF StoreInv, Store!Start
<1>6. CASE t \notin Jobs
    <2>1. status' = status
        BY <1>1, <1>6 DEF StoreInv
    <2> QED BY <1>3, <1>4, <2>1 DEF StoreInv
<1> QED BY <1>5, <1>6

\* A thread ends, well or not.
LEMMA EndMaps ==
    ASSUME StoreInv, NEW t \in Threads, NEW o \in {"completed", "failed"},
           pc[t] \in Working, End(t, o)
    PROVE  StoreInv' /\ (UNCHANGED status \/ (t \in Jobs /\ Store!Finish(t)))
<1>1. /\ status' = [j \in Jobs |-> IF j = t THEN o ELSE status[j]]
      /\ pc' = [pc EXCEPT ![t] = "idle"]
    BY DEF End, Goto
<1>2. status' \in [Jobs -> Statuses] /\ pc' \in [Threads -> {"idle", "begin"} \cup Working]
    BY <1>1 DEF StoreInv, Statuses
<1>3. ASSUME NEW k \in Jobs PROVE InStep(k)'
    BY <1>1 DEF StoreInv, InStep, Threads
<1>4. CASE t \in Jobs
    <2>1. InStep(t)
        BY <1>4 DEF StoreInv
    <2>2. status[t] = "processing"
        BY <2>1 DEF InStep, Working
    <2>3. status' = [status EXCEPT ![t] = o]
        BY <1>1 DEF StoreInv
    <2> QED BY <1>4, <1>2, <1>3, <2>2, <2>3 DEF StoreInv, Store!Finish, Store!Ended
<1>5. CASE t \notin Jobs
    <2>1. status' = status
        BY <1>1, <1>5 DEF StoreInv
    <2> QED BY <1>2, <1>3, <2>1 DEF StoreInv
<1> QED BY <1>4, <1>5

\* Every step is one of the store, or none.
LEMMA StepMaps == StoreInv /\ [Next]_vars => StoreInv' /\ [Store!StoreNext]_status
<1>1. SUFFICES ASSUME StoreInv, [Next]_vars PROVE StoreInv' /\ [Store!StoreNext]_status
    OBVIOUS
<1>2. ASSUME NEW j \in Jobs, Trigger(j) PROVE StoreInv' /\ [Store!StoreNext]_status
    BY <1>1, <1>2, TriggerMaps DEF Store!StoreNext
<1>3. ASSUME NEW l \in Legacies, Request(l) PROVE StoreInv' /\ [Store!StoreNext]_status
    BY <1>1, <1>3, RequestMaps
<1>4. ASSUME NEW t \in Threads, Proceed(t) \/ Fail(t) \/ Finished(t) \/ Linger(t)
      PROVE  StoreInv' /\ [Store!StoreNext]_status
    <2>1. CASE Begin(t)
        BY <1>1, <2>1, BeginMaps DEF Store!StoreNext
    <2>2. CASE \/ RemoveContainer(t) \/ Run(t) \/ GiveUp(t) \/ Native(t) \/ Ship(t)
               \/ ReadLine(t) \/ EndOfFile(t) \/ Evaluate(t) \/ NextFile(t) \/ Finished(t)
        BY <1>1, <2>2, Works, WorkKeeps
    <2>3. CASE Complete(t)
        <3>1. pc[t] \in Working /\ End(t, "completed")
            BY <2>3 DEF Complete, Working
        <3> QED BY <1>1, <3>1, EndMaps DEF Store!StoreNext
    <2>4. CASE Fail(t)
        <3>1. pc[t] \in Working /\ End(t, "failed")
            BY <2>4 DEF Fail, Working
        <3> QED BY <1>1, <3>1, EndMaps DEF Store!StoreNext
    <2>5. CASE Linger(t)
        <3>1. UNCHANGED <<status, pc>>
            BY <2>5 DEF Linger
        <3> QED BY <1>1, <3>1 DEF StoreInv, InStep
    <2> QED BY <1>4, <2>1, <2>2, <2>3, <2>4, <2>5 DEF Proceed
<1>5. CASE UNCHANGED replay
    BY <1>1, <1>5 DEF replay, setup, StoreInv, InStep
<1> QED BY <1>1, <1>2, <1>3, <1>4, <1>5 DEF Next, vars

(* The replays are the job store that the panel relies on: the statuses    *)
(* that execute_pcap_replay_job and the endpoint write are those of a job  *)
(* that is queued, processed and ends once.                                *)
THEOREM Implementation == Spec => ImplementsJobStore
<1> QED BY InitStore, StepMaps, PTL DEF Spec, ImplementsJobStore, Store!StoreSpec
----------------------------------------------------------------------------
(***************************************************************************)
(* Recursion and induction.  A recursive function of a module is CHOSEN,   *)
(* so a lemma about it first shows that there is one, and then follows it  *)
(* along its argument: by the least index at which the claim would fail.   *)

\* Every set of natural numbers that is not empty has a least one.
LEMMA LeastNatural ==
    ASSUME NEW T, T \subseteq Nat, T # {}
    PROVE  \E m \in T : \A y \in T : m <= y
<1> DEFINE R == OpToRel(<, Nat)
<1>1. IsWellFoundedOn(R, Nat)
    BY NatLessThanWellFounded
<1>2. \A x, y \in Nat : <<y, x>> \in R <=> y < x
    BY DEF OpToRel
<1> HIDE DEF R
<1>3. PICK x \in T : \A y \in T : <<y, x>> \notin R
    BY <1>1, WFMin
<1>4. x \in Nat /\ \A y \in T : y \in Nat /\ ~(y < x)
    BY <1>2, <1>3
<1>5. \A y \in T : x <= y
    BY <1>4
<1> QED BY <1>3, <1>5

\* Induction, of a set: what holds of 0 and is handed on holds up to n.
LEMMA Upwards ==
    ASSUME NEW n \in Nat, NEW G, 0 \in G, \A i \in 0..(n - 1) : i \in G => i + 1 \in G
    PROVE  \A i \in 0..n : i \in G
<1> DEFINE T == {i \in 0..n : i \notin G}
<1>1. SUFFICES ASSUME T # {} PROVE FALSE
    OBVIOUS
<1>2. PICK m \in T : \A y \in T : m <= y
    <2>1. T \subseteq Nat
        OBVIOUS
    <2> HIDE DEF T
    <2> QED BY <1>1, <2>1, LeastNatural
<1>3. m \in 0..n /\ m \notin G /\ m # 0
    OBVIOUS
<1>4. m - 1 \in 0..(n - 1) /\ m - 1 \notin T /\ (m - 1) + 1 = m
    BY <1>2, <1>3
<1>5. m - 1 \in G
    BY <1>3, <1>4
<1> QED BY <1>3, <1>4, <1>5

\* A recursion along 1..n whose steps stay in A has a solution.
Steps(n, A, go) == go \in [1..n -> [A -> A]]

Solution(f, n, A, base, go) ==
    f \in [0..n -> A] /\ f[0] = base /\ \A i \in 1..n : f[i] = go[i][f[i - 1]]

LEMMA Recursion ==
    ASSUME NEW n \in Nat, NEW A, NEW base \in A, NEW go, Steps(n, A, go)
    PROVE  \E f : Solution(f, n, A, base, go)
<1> USE DEF Steps
<1> DEFINE Solved(k) == \E f \in [0..k -> A] :
                            f[0] = base /\ \A i \in 1..k : f[i] = go[i][f[i - 1]]
           G == {k \in 0..n : Solved(k)}
<1>1. Solved(0)
    <2> DEFINE f == [i \in 0..0 |-> base]
    <2>1. f \in [0..0 -> A] /\ f[0] = base /\ 1..0 = {}
        OBVIOUS
    <2> QED BY <2>1
<1>2. ASSUME NEW k \in 0..(n - 1), Solved(k) PROVE Solved(k + 1)
    <2>1. PICK f \in [0..k -> A] : f[0] = base /\ \A i \in 1..k : f[i] = go[i][f[i - 1]]
        BY <1>2
    <2> DEFINE g == [i \in 0..(k + 1) |-> IF i = k + 1 THEN go[k + 1][f[k]] ELSE f[i]]
    <2>2. k + 1 \in 1..n /\ k \in 0..k /\ go[k + 1][f[k]] \in A
        OBVIOUS
    <2>3. g \in [0..(k + 1) -> A]
        BY <2>2
    <2>4. \A i \in 0..k : g[i] = f[i]
        OBVIOUS
    <2>5. g[k + 1] = go[k + 1][f[k]]
        OBVIOUS
    <2> HIDE DEF g
    <2>6. ASSUME NEW i \in 1..(k + 1) PROVE g[i] = go[i][g[i - 1]]
        <3>1. CASE i = k + 1
            <4>1. i - 1 = k
                BY <3>1
            <4> QED BY <3>1, <4>1, <2>2, <2>4, <2>5
        <3>2. CASE i # k + 1
            <4>1. i \in 1..k /\ i - 1 \in 0..k
                BY <3>2
            <4> QED BY <4>1, <2>1, <2>4
        <3> QED BY <3>1, <3>2
    <2>7. g[0] = base
        BY <2>1, <2>4
    <2> QED BY <2>3, <2>6, <2>7
<1>3. 0 \in G /\ \A k \in 0..(n - 1) : k \in G => k + 1 \in G
    <2> HIDE DEF Solved
    <2>1. \A k \in 0..(n - 1) : k + 1 \in 0..n
        OBVIOUS
    <2> QED BY <1>1, <1>2, <2>1
<1>4. \A k \in 0..n : k \in G
    <2> HIDE DEF G
    <2> QED BY <1>3, Upwards
<1>5. n \in G
    BY <1>4
<1> QED BY <1>5 DEF Solution

IsSeq(s) == \E S : s \in Seq(S)

\* No two elements are of one connection.
Distinct(s) == \A i, j \in 1..Len(s) : s[i].uid = s[j].uid => i = j

LEMMA AtProperties ==
    ASSUME NEW S, NEW seq \in Seq(S), NEW kept
    PROVE  /\ At(kept, seq) \in Seq(S)
           /\ \A k \in 1..Len(At(kept, seq)) : \E j \in 1..Len(seq) : j \in kept /\ At(kept, seq)[k] = seq[j]
           /\ Distinct(seq) => Distinct(At(kept, seq))
<1> DEFINE n == Len(seq)
           Longer(some, i) == IF i \in kept THEN Append(some, seq[i]) ELSE some
           go == [i \in 1..n |-> [a \in Seq(S) |-> Longer(a, i)]]
           Solves(f) == f = [i \in 0..n |-> IF i = 0 THEN <<>>
                                            ELSE IF i \in kept THEN Append(f[i - 1], seq[i]) ELSE f[i - 1]]
<1>1. n \in Nat /\ \A i \in 1..n : seq[i] \in S
    OBVIOUS
<1>2. go \in [1..n -> [Seq(S) -> Seq(S)]] /\ <<>> \in Seq(S)
    BY <1>1
<1>3. PICK g \in [0..n -> Seq(S)] : g[0] = <<>> /\ \A i \in 1..n : g[i] = go[i][g[i - 1]]
    <2>1. Steps(n, Seq(S), go)
        BY <1>2 DEF Steps
    <2>2. \E g : Solution(g, n, Seq(S), <<>>, go)
        <3> HIDE DEF n, go
        <3> QED BY <1>1, <1>2, <2>1, Recursion
    <2> HIDE DEF n, go
    <2> QED BY <2>2 DEF Solution
<1>4. Solves(g)
    <2>1. ASSUME NEW i \in 1..n PROVE g[i] = Longer(g[i - 1], i)
        <3>1. i - 1 \in 0..n
            BY <1>1
        <3> QED BY <3>1, <1>3
    <2>2. g[0] = <<>> /\ g = [i \in 0..n |-> g[i]] /\ \A i \in 0..n : i = 0 \/ i \in 1..n
        BY <1>1, <1>3
    <2> HIDE DEF go
    <2> QED BY <2>1, <2>2, <1>1
<1> DEFINE f == CHOOSE f : Solves(f)
<1>5. Solves(f) /\ At(kept, seq) = f[n]
    <2>1. Solves(f)
        BY <1>4
    <2>2. At(kept, seq) = f[n]
        BY DEF At
    <2> QED BY <2>1, <2>2
<1> HIDE DEF f
<1>6. f[0] = <<>> /\ \A i \in 0..(n - 1) : f[i + 1] = IF i + 1 \in kept THEN Append(f[i], seq[i + 1]) ELSE f[i]
    <2>1. 0 \in 0..n
        BY <1>1
    <2>2. f[0] = <<>>
        BY <1>5, <2>1
    <2>3. ASSUME NEW i \in 0..(n - 1)
          PROVE  f[i + 1] = IF i + 1 \in kept THEN Append(f[i], seq[i + 1]) ELSE f[i]
        <3>1. i + 1 \in 0..n /\ i + 1 # 0 /\ (i + 1) - 1 = i
            BY <1>1
        <3> QED BY <1>5, <3>1
    <2> QED BY <2>2, <2>3
<1> DEFINE Right(i) ==
        /\ f[i] \in Seq(S)
        /\ \A k \in 1..Len(f[i]) : \E j \in 1..i : j \in kept /\ f[i][k] = seq[j]
        /\ Distinct(seq) => Distinct(f[i])
           G == {i \in 0..n : Right(i)}
<1>7. Right(0)
    BY <1>6 DEF Distinct
<1>8. ASSUME NEW i \in 0..(n - 1), Right(i) PROVE Right(i + 1)
    <2>1. i + 1 \in 1..n /\ seq[i + 1] \in S
        BY <1>1
    <2>2. CASE i + 1 \notin kept
        <3>1. f[i + 1] = f[i]
            BY <1>6, <2>2
        <3>2. 1..i \subseteq 1..(i + 1)
            OBVIOUS
        <3> QED BY <3>1, <3>2, <1>8
    <2>3. CASE i + 1 \in kept
        <3> DEFINE m == Len(f[i])
        <3>1. /\ m \in Nat /\ f[i + 1] = Append(f[i], seq[i + 1])
              /\ Len(f[i + 1]) = m + 1 /\ f[i + 1][m + 1] = seq[i + 1]
              /\ \A k \in 1..m : f[i + 1][k] = f[i][k]
            <4>1. f[i + 1] = Append(f[i], seq[i + 1])
                BY <1>6, <2>3
            <4>2. f[i] \in Seq(S)
                BY <1>8
            <4> HIDE DEF Right
            <4> QED BY <4>1, <4>2, <2>1
        <3>2. f[i + 1] \in Seq(S)
            BY <3>1, <1>8, <2>1
        <3>3. \A k \in 1..Len(f[i + 1]) : \E j \in 1..(i + 1) : j \in kept /\ f[i + 1][k] = seq[j]
            <4>1. ASSUME NEW k \in 1..(m + 1)
                  PROVE  \E j \in 1..(i + 1) : j \in kept /\ f[i + 1][k] = seq[j]
                <5>1. CASE k \in 1..m
                    <6>1. PICK j \in 1..i : j \in kept /\ f[i][k] = seq[j]
                        BY <5>1, <1>8
                    <6>2. j \in 1..(i + 1)
                        OBVIOUS
                    <6> QED BY <6>1, <6>2, <5>1, <3>1
                <5>2. CASE k = m + 1
                    <6>1. i + 1 \in 1..(i + 1)
                        OBVIOUS
                    <6> QED BY <5>2, <6>1, <3>1, <2>3
                <5> HIDE DEF m
                <5> QED BY <5>1, <5>2, <3>1
            <4> HIDE DEF m
            <4> QED BY <4>1, <3>1
        <3>4. ASSUME Distinct(seq) PROVE Distinct(f[i + 1])
            <4>1. Distinct(f[i])
                BY <3>4, <1>8
            <4>2. \A k \in 1..m : f[i][k].uid # seq[i + 1].uid
                <5>1. ASSUME NEW k \in 1..m, f[i][k].uid = seq[i + 1].uid PROVE FALSE
                    <6>1. PICK j \in 1..i : f[i][k] = seq[j]
                        BY <1>8
                    <6> QED BY <6>1, <5>1, <3>4, <2>1, <1>1 DEF Distinct
                <5> QED BY <5>1
            <4>3. \A k \in 1..(m + 1) : k \in 1..m \/ k = m + 1
                BY <3>1
            <4> HIDE DEF m
            <4> QED BY <4>1, <4>2, <4>3, <3>1 DEF Distinct, m
        <3> QED BY <3>2, <3>3, <3>4
    <2> QED BY <2>2, <2>3
<1>9. \A i \in 0..n : i \in G
    <2>1. 0 \in G /\ \A i \in 0..(n - 1) : i \in G => i + 1 \in G
        <3> HIDE DEF Right
        <3>1. 0 \in 0..n /\ \A i \in 0..(n - 1) : i + 1 \in 0..n
            BY <1>1
        <3> QED BY <1>7, <1>8, <3>1
    <2> HIDE DEF G, n
    <2> QED BY <1>1, <2>1, Upwards
<1>10. Right(n)
    BY <1>1, <1>9
<1> QED BY <1>5, <1>10
----------------------------------------------------------------------------
(* The sums of bytes and the flows, packet by packet.                      *)

\* Packets, as the engine reads them.
ArePackets(P) == \A p \in P : p.len \in Nat

Sums(packets, keys) ==
    CHOOSE sum : sum = [i \in 0..Len(packets) |->
                           IF i = 0 THEN 0
                           ELSE sum[i - 1] + IF Key(packets[i]) \in keys THEN packets[i].len ELSE 0]

LEMMA SumsGrow ==
    ASSUME NEW P, ArePackets(P), NEW packets \in Seq(P), NEW keys
    PROVE  /\ Sum(packets, keys) = Sums(packets, keys)[Len(packets)]
           /\ Sums(packets, keys) \in [0..Len(packets) -> Nat]
           /\ Sums(packets, keys)[0] = 0
           /\ \A i \in 1..Len(packets) :
                 Sums(packets, keys)[i] = Sums(packets, keys)[i - 1] +
                                          IF Key(packets[i]) \in keys THEN packets[i].len ELSE 0
<1> DEFINE n == Len(packets)
           More(i) == IF Key(packets[i]) \in keys THEN packets[i].len ELSE 0
           go == [i \in 1..n |-> [a \in Nat |-> a + More(i)]]
           Solves(f) == f = [i \in 0..n |-> IF i = 0 THEN 0 ELSE f[i - 1] + More(i)]
<1>1. n \in Nat /\ \A i \in 1..n : More(i) \in Nat
    BY DEF ArePackets
<1>2. Steps(n, Nat, go) /\ 0 \in Nat
    <2> HIDE DEF More
    <2> QED BY <1>1 DEF Steps
<1>3. PICK g : Solution(g, n, Nat, 0, go)
    <2> HIDE DEF n, go
    <2> QED BY <1>1, <1>2, Recursion
<1>4. Solves(g) /\ g \in [0..n -> Nat]
    <2> HIDE DEF More
    <2>1. /\ g \in [0..n -> Nat] /\ g[0] = 0 /\ \A i \in 1..n : g[i] = go[i][g[i - 1]]
        BY <1>3 DEF Solution
    <2>2. \A i \in 1..n : i - 1 \in 0..n /\ g[i] = g[i - 1] + More(i)
        BY <1>1, <2>1
    <2>3. g = [i \in 0..n |-> g[i]] /\ \A i \in 0..n : i = 0 \/ i \in 1..n
        BY <1>1, <2>1
    <2> HIDE DEF go
    <2> QED BY <2>1, <2>2, <2>3
<1> DEFINE f == Sums(packets, keys)
<1>5. Solves(f) /\ Sum(packets, keys) = f[n]
    BY <1>4 DEF Sum, Sums
<1> HIDE DEF f, More, go
<1>6. f[0] = 0 /\ \A i \in 1..n : f[i] = f[i - 1] + More(i)
    BY <1>1, <1>5
<1>7. f \in [0..n -> Nat]
    <2> DEFINE G == {i \in 0..n : f[i] \in Nat}
    <2>1. 0 \in G /\ \A i \in 0..(n - 1) : i \in G => i + 1 \in G
        <3>1. 0 \in 0..n /\ \A i \in 0..(n - 1) : i + 1 \in 1..n /\ i + 1 \in 0..n /\ (i + 1) - 1 = i
            BY <1>1
        <3> QED BY <1>1, <1>6, <3>1
    <2>2. \A i \in 0..n : i \in G
        <3> HIDE DEF G, n
        <3> QED BY <1>1, <2>1, Upwards
    <2> QED BY <2>2, <1>5
<1> QED BY <1>5, <1>6, <1>7 DEF f, More

FlowsUpTo(packets) ==
    CHOOSE flows : flows = [i \in 0..Len(packets) |->
                               IF i = 0 THEN <<>> ELSE AddPacket(flows[i - 1], packets[i])]

\* Flows of packets of P.
FlowSet(P) == [uid : {Key(p) : p \in P}, flags : SUBSET UNION {p.flags : p \in P},
               dns : {p.dns : p \in P}, sni : {p.sni : p \in P},
               out : Nat, in : Nat, pout : Nat, pin : Nat]

\* The two directions of a connection.
Both(k) == {k, Mirror(k)}

LEMMA Mirrored == \A p, q : /\ Mirror(Mirror(Key(p))) = Key(p)
                            /\ Key(p) \in Both(Key(q)) <=> Key(q) \in Both(Key(p))
BY DEF Mirror, Key, Both

LEMMA FlowOfProperties ==
    ASSUME NEW S, NEW flows \in Seq(S), NEW k
    PROVE  \/ FlowOf(flows, k) = 0 /\ \A i \in 1..Len(flows) : flows[i].uid # k
           \/ FlowOf(flows, k) \in 1..Len(flows) /\ flows[FlowOf(flows, k)].uid = k
<1>1. DOMAIN flows = 1..Len(flows) /\ Len(flows) \in Nat
    OBVIOUS
<1>2. CASE \E i \in 1..Len(flows) : flows[i].uid = k
    <2> DEFINE i == CHOOSE i \in 1..Len(flows) : flows[i].uid = k
    <2>1. i \in 1..Len(flows) /\ flows[i].uid = k
        BY <1>2
    <2>2. FlowOf(flows, k) = i
        BY <1>1, <1>2 DEF FlowOf
    <2> QED BY <2>1, <2>2
<1>3. CASE ~\E i \in 1..Len(flows) : flows[i].uid = k
    BY <1>1, <1>3 DEF FlowOf
<1> QED BY <1>2, <1>3

\* What a packet does: it joins the flow of its connection, or opens one.
Joined(P, p, old, new) ==
    \/ /\ new = Append(old, NewFlow(p))
       /\ NewFlow(p).uid = Key(p) /\ NewFlow(p).out + NewFlow(p).in = p.len
       /\ \A i \in 1..Len(old) : old[i].uid \notin Both(Key(p))
    \/ \E i \in 1..Len(old), g \in FlowSet(P) :
          /\ new = [old EXCEPT ![i] = g]
          /\ old[i].uid \in Both(Key(p))
          /\ g.uid = old[i].uid /\ g.out + g.in = old[i].out + old[i].in + p.len

LEMMA PacketAdded ==
    ASSUME NEW P, ArePackets(P), NEW p \in P, NEW flows \in Seq(FlowSet(P))
    PROVE  /\ AddPacket(flows, p) \in Seq(FlowSet(P))
           /\ Joined(P, p, flows, AddPacket(flows, p))
<1> DEFINE i == FlowOf(flows, Key(p))  j == FlowOf(flows, Mirror(Key(p)))
<1>1. /\ p.len \in Nat /\ Key(p) \in {Key(q) : q \in P} /\ p.flags \subseteq UNION {q.flags : q \in P}
      /\ p.dns \in {q.dns : q \in P} /\ p.sni \in {q.sni : q \in P}
    BY DEF ArePackets
<1>2. /\ \/ i = 0 /\ \A k \in 1..Len(flows) : flows[k].uid # Key(p)
         \/ i \in 1..Len(flows) /\ flows[i].uid = Key(p)
      /\ \/ j = 0 /\ \A k \in 1..Len(flows) : flows[k].uid # Mirror(Key(p))
         \/ j \in 1..Len(flows) /\ flows[j].uid = Mirror(Key(p))
      /\ Len(flows) \in Nat
    BY FlowOfProperties
<1>3. AddPacket(flows, p) = IF i # 0 THEN [flows EXCEPT ![i] = Forward(@, p)]
                            ELSE IF j # 0 THEN [flows EXCEPT ![j] = Backward(@, p)]
                            ELSE Append(flows, NewFlow(p))
    BY DEF AddPacket
<1> HIDE DEF i, j
<1>4. ASSUME NEW f \in FlowSet(P)
      PROVE  /\ Forward(f, p) \in FlowSet(P) /\ Forward(f, p).uid = f.uid
             /\ Forward(f, p).out + Forward(f, p).in = f.out + f.in + p.len
    <2>1. /\ f.out \in Nat /\ f.in \in Nat /\ f.pout \in Nat /\ f.pin \in Nat
          /\ f.flags \subseteq UNION {q.flags : q \in P}
        BY DEF FlowSet
    <2>0. f = [uid |-> f.uid, flags |-> f.flags, dns |-> f.dns, sni |-> f.sni,
               out |-> f.out, in |-> f.in, pout |-> f.pout, pin |-> f.pin]
        BY DEF FlowSet
    <2>2. Forward(f, p) = [uid |-> f.uid, flags |-> f.flags \cup p.flags,
                           dns |-> IF f.dns = None THEN p.dns ELSE f.dns,
                           sni |-> IF f.sni = None THEN p.sni ELSE f.sni,
                           out |-> f.out + p.len, in |-> f.in, pout |-> f.pout + 1, pin |-> f.pin]
        <3>1. Forward(f, p) = [f EXCEPT !.out = f.out + p.len, !.pout = f.pout + 1,
                                        !.flags = f.flags \cup p.flags,
                                        !.dns = IF f.dns = None THEN p.dns ELSE f.dns,
                                        !.sni = IF f.sni = None THEN p.sni ELSE f.sni]
            BY <2>0 DEF Forward
        <3> QED BY <2>0, <3>1
    <2>3. Forward(f, p) \in FlowSet(P)
        BY <1>1, <2>1, <2>2 DEF FlowSet
    <2> QED BY <1>1, <2>1, <2>2, <2>3
<1>5. ASSUME NEW f \in FlowSet(P)
      PROVE  /\ Backward(f, p) \in FlowSet(P) /\ Backward(f, p).uid = f.uid
             /\ Backward(f, p).out + Backward(f, p).in = f.out + f.in + p.len
    <2>1. /\ f.out \in Nat /\ f.in \in Nat /\ f.pout \in Nat /\ f.pin \in Nat
          /\ f.flags \subseteq UNION {q.flags : q \in P}
        BY DEF FlowSet
    <2>0. f = [uid |-> f.uid, flags |-> f.flags, dns |-> f.dns, sni |-> f.sni,
               out |-> f.out, in |-> f.in, pout |-> f.pout, pin |-> f.pin]
        BY DEF FlowSet
    <2>2. Backward(f, p) = [uid |-> f.uid, flags |-> f.flags \cup p.flags, dns |-> f.dns, sni |-> f.sni,
                            out |-> f.out, in |-> f.in + p.len, pout |-> f.pout, pin |-> f.pin + 1]
        <3>1. Backward(f, p) = [f EXCEPT !.in = f.in + p.len, !.pin = f.pin + 1,
                                         !.flags = f.flags \cup p.flags]
            BY <2>0 DEF Backward
        <3> QED BY <2>0, <3>1
    <2>3. Backward(f, p) \in FlowSet(P)
        BY <1>1, <2>1, <2>2 DEF FlowSet
    <2> QED BY <1>1, <2>1, <2>2, <2>3
<1>6. NewFlow(p) \in FlowSet(P) /\ NewFlow(p).uid = Key(p) /\ NewFlow(p).out + NewFlow(p).in = p.len
    BY <1>1 DEF NewFlow, FlowSet
<1>7. CASE i # 0
    <2>1. i \in 1..Len(flows) /\ flows[i].uid = Key(p) /\ flows[i] \in FlowSet(P)
        BY <1>2, <1>7
    <2>2. AddPacket(flows, p) = [flows EXCEPT ![i] = Forward(flows[i], p)]
        BY <1>3, <1>7
    <2>3. Forward(flows[i], p) \in FlowSet(P) /\ flows[i].uid \in Both(Key(p))
        BY <1>4, <2>1 DEF Both
    <2> DEFINE g == Forward(flows[i], p)
    <2>4. g \in FlowSet(P) /\ g.uid = flows[i].uid /\ g.out + g.in = flows[i].out + flows[i].in + p.len
        BY <1>4, <2>1
    <2>5. AddPacket(flows, p) = [flows EXCEPT ![i] = g]
        BY <2>2
    <2> HIDE DEF g
    <2>6. AddPacket(flows, p) \in Seq(FlowSet(P))
        BY <2>1, <2>4, <2>5
    <2> QED BY <2>1, <2>3, <2>4, <2>5, <2>6 DEF Joined
<1>8. CASE i = 0 /\ j # 0
    <2>1. j \in 1..Len(flows) /\ flows[j].uid = Mirror(Key(p)) /\ flows[j] \in FlowSet(P)
        BY <1>2, <1>8
    <2>2. AddPacket(flows, p) = [flows EXCEPT ![j] = Backward(flows[j], p)]
        BY <1>3, <1>8
    <2>3. Backward(flows[j], p) \in FlowSet(P) /\ flows[j].uid \in Both(Key(p))
        BY <1>5, <2>1 DEF Both
    <2> DEFINE g == Backward(flows[j], p)
    <2>4. g \in FlowSet(P) /\ g.uid = flows[j].uid /\ g.out + g.in = flows[j].out + flows[j].in + p.len
        BY <1>5, <2>1
    <2>5. AddPacket(flows, p) = [flows EXCEPT ![j] = g]
        BY <2>2
    <2> HIDE DEF g
    <2>6. AddPacket(flows, p) \in Seq(FlowSet(P))
        BY <2>1, <2>4, <2>5
    <2> QED BY <2>1, <2>3, <2>4, <2>5, <2>6 DEF Joined
<1>9. CASE i = 0 /\ j = 0
    <2>1. \A k \in 1..Len(flows) : flows[k].uid \notin Both(Key(p))
        BY <1>2, <1>9 DEF Both
    <2>2. AddPacket(flows, p) = Append(flows, NewFlow(p))
        BY <1>3, <1>9
    <2> QED BY <1>6, <2>1, <2>2 DEF Joined
<1> QED BY <1>7, <1>8, <1>9

LEMMA FlowsGrow ==
    ASSUME NEW P, ArePackets(P), NEW packets \in Seq(P)
    PROVE  /\ Aggregated(packets) = FlowsUpTo(packets)[Len(packets)]
           /\ FlowsUpTo(packets)[0] = <<>>
           /\ \A i \in 1..Len(packets) :
                 FlowsUpTo(packets)[i] = AddPacket(FlowsUpTo(packets)[i - 1], packets[i])
<1> DEFINE n == Len(packets)
           A == Seq(FlowSet(P))
           go == [i \in 1..n |-> [a \in A |-> AddPacket(a, packets[i])]]
           Solves(f) == f = [i \in 0..n |-> IF i = 0 THEN <<>> ELSE AddPacket(f[i - 1], packets[i])]
<1>1. n \in Nat /\ \A i \in 1..n : packets[i] \in P
    OBVIOUS
<1>2. Steps(n, A, go) /\ <<>> \in A
    <2>1. ASSUME NEW i \in 1..n, NEW a \in A PROVE AddPacket(a, packets[i]) \in A
        <3>1. packets[i] \in P /\ a \in Seq(FlowSet(P))
            BY <1>1
        <3> QED BY <3>1, PacketAdded
    <2> HIDE DEF A, n
    <2>2. Steps(n, A, go)
        BY <2>1 DEF Steps
    <2> QED BY <2>2 DEF A
<1>3. PICK g : Solution(g, n, A, <<>>, go)
    <2> HIDE DEF n, go, A
    <2> QED BY <1>1, <1>2, Recursion
<1>4. Solves(g)
    <2>1. /\ g \in [0..n -> A] /\ g[0] = <<>> /\ \A i \in 1..n : g[i] = go[i][g[i - 1]]
        BY <1>3 DEF Solution
    <2> HIDE DEF A
    <2>2. ASSUME NEW i \in 1..n PROVE g[i] = AddPacket(g[i - 1], packets[i])
        <3>1. i - 1 \in 0..n
            BY <1>1
        <3>2. g[i - 1] \in A
            BY <2>1, <3>1
        <3>3. go[i][g[i - 1]] = AddPacket(g[i - 1], packets[i])
            BY <3>2
        <3> QED BY <2>1, <3>3
    <2>3. g = [i \in 0..n |-> g[i]] /\ \A i \in 0..n : i = 0 \/ i \in 1..n
        BY <1>1, <2>1
    <2> HIDE DEF go
    <2> QED BY <2>1, <2>2, <2>3
<1> DEFINE f == FlowsUpTo(packets)
<1>5. Solves(f) /\ Aggregated(packets) = f[n]
    BY <1>4 DEF Aggregated, FlowsUpTo
<1> HIDE DEF f, go
<1>6. f[0] = <<>> /\ \A i \in 1..n : f[i] = AddPacket(f[i - 1], packets[i])
    BY <1>1, <1>5
<1> QED BY <1>5, <1>6 DEF f

(* What aggregation has made of the first packets, whose bytes are in sum: *)
(* every connection has one flow, with all its bytes, if it has any.       *)
OneFlowEach(flows) ==
    \A i, j \in 1..Len(flows) : flows[i].uid \in Both(flows[j].uid) => i = j

AggregatedOK(P, packets, i) ==
    /\ FlowsUpTo(packets)[i] \in Seq(FlowSet(P))
    /\ OneFlowEach(FlowsUpTo(packets)[i])
    /\ \A k \in 1..Len(FlowsUpTo(packets)[i]) :
          LET f == FlowsUpTo(packets)[i][k] IN f.out + f.in = Sums(packets, Both(f.uid))[i]
    /\ \A q \in P : \/ \E k \in 1..Len(FlowsUpTo(packets)[i]) : FlowsUpTo(packets)[i][k].uid \in Both(Key(q))
                    \/ Sums(packets, Both(Key(q)))[i] = 0

LEMMA AggregationKeeps ==
    ASSUME NEW P, ArePackets(P), NEW packets \in Seq(P), NEW i \in 1..Len(packets),
           AggregatedOK(P, packets, i - 1)
    PROVE  AggregatedOK(P, packets, i)
<1> DEFINE n == Len(packets)  p == packets[i]
           old == FlowsUpTo(packets)[i - 1]  new == FlowsUpTo(packets)[i]
           Before(q) == Sums(packets, Both(q))[i - 1]
           After(q)  == Sums(packets, Both(q))[i]
<1>1. /\ p \in P /\ p.len \in Nat /\ new = AddPacket(old, p)
    BY FlowsGrow DEF ArePackets
<1>2. /\ old \in Seq(FlowSet(P)) /\ OneFlowEach(old)
      /\ \A k \in 1..Len(old) : old[k].out + old[k].in = Before(old[k].uid)
      /\ \A q \in P : Before(Key(q)) = 0 \/ \E k \in 1..Len(old) : old[k].uid \in Both(Key(q))
    BY DEF AggregatedOK
<1>3. \A q : After(q) = Before(q) + IF Key(p) \in Both(q) THEN p.len ELSE 0
    BY SumsGrow
<1>4. \A q : Before(q) \in Nat
    <2>1. i - 1 \in 0..n
        OBVIOUS
    <2> QED BY <2>1, SumsGrow
<1> HIDE DEF p, old, new, Before, After
<1>5. new \in Seq(FlowSet(P)) /\ Joined(P, p, old, new)
    <2>1. p \in P /\ old \in Seq(FlowSet(P))
        BY <1>1, <1>2
    <2> QED BY <1>1, <2>1, PacketAdded
<1>6. Len(old) \in Nat /\ \A k \in 1..Len(old) : \E q \in P : old[k].uid = Key(q)
    <2>1. \A f \in FlowSet(P) : \E q \in P : f.uid = Key(q)
        BY DEF FlowSet
    <2>2. Len(old) \in Nat /\ \A k \in 1..Len(old) : old[k] \in FlowSet(P)
        BY <1>2
    <2> QED BY <2>1, <2>2
<1>7. CASE /\ new = Append(old, NewFlow(p))
           /\ NewFlow(p).uid = Key(p) /\ NewFlow(p).out + NewFlow(p).in = p.len
           /\ \A k \in 1..Len(old) : old[k].uid \notin Both(Key(p))
    <2> DEFINE g == NewFlow(p)
    <2>1. /\ Len(new) = Len(old) + 1 /\ new[Len(old) + 1] = g
          /\ \A k \in 1..Len(old) : new[k] = old[k]
          /\ g.uid = Key(p) /\ g.out + g.in = p.len
          /\ \A k \in 1..(Len(old) + 1) : k \in 1..Len(old) \/ k = Len(old) + 1
        BY <1>2, <1>6, <1>7
    <2> HIDE DEF g
    <2>2. \A k \in 1..Len(old) : Key(p) \notin Both(old[k].uid) /\ old[k].uid \notin Both(Key(p))
        BY <1>6, <1>7, Mirrored
    <2>3. OneFlowEach(new)
        BY <1>2, <1>6, <2>1, <2>2 DEF OneFlowEach
    <2>4. After(Key(p)) = p.len
        <3>1. Before(Key(p)) = 0
            BY <1>1, <1>2, <1>7
        <3> QED BY <1>1, <1>3, <3>1 DEF Both
    <2>5. \A k \in 1..Len(new) : new[k].out + new[k].in = After(new[k].uid)
        <3>1. ASSUME NEW k \in 1..Len(old) PROVE new[k].out + new[k].in = After(new[k].uid)
            BY <1>2, <1>3, <1>4, <2>1, <2>2
        <3> QED BY <3>1, <2>1, <2>4
    <2>6. ASSUME NEW q \in P, After(Key(q)) # 0
          PROVE  \E k \in 1..Len(new) : new[k].uid \in Both(Key(q))
        <3>1. CASE Key(p) \in Both(Key(q))
            BY <3>1, <2>1, <1>6
        <3>2. CASE Key(p) \notin Both(Key(q))
            <4>1. Before(Key(q)) # 0
                BY <3>2, <2>6, <1>3, <1>4
            <4>2. PICK k \in 1..Len(old) : old[k].uid \in Both(Key(q))
                BY <4>1, <1>2
            <4>3. k \in 1..Len(new) /\ new[k] = old[k]
                BY <2>1, <1>6
            <4> QED BY <4>2, <4>3
        <3> QED BY <3>1, <3>2
    <2> QED BY <1>5, <2>3, <2>5, <2>6 DEF AggregatedOK, new, After
<1>8. ASSUME NEW a \in 1..Len(old), NEW g \in FlowSet(P),
             new = [old EXCEPT ![a] = g], old[a].uid \in Both(Key(p)),
             g.uid = old[a].uid, g.out + g.in = old[a].out + old[a].in + p.len
      PROVE  AggregatedOK(P, packets, i)
    <2>1. /\ Len(new) = Len(old) /\ new[a] = g
          /\ \A k \in 1..Len(old) : k # a => new[k] = old[k]
          /\ \A k \in 1..Len(old) : new[k].uid = old[k].uid
        BY <1>2, <1>8
    <2>2. OneFlowEach(new)
        BY <1>2, <2>1 DEF OneFlowEach
    <2>3. PICK q \in P : old[a].uid = Key(q)
        BY <1>6
    <2>4. Key(p) \in Both(old[a].uid)
        BY <2>3, <1>8, Mirrored
    <2>5. ASSUME NEW k \in 1..Len(old), k # a PROVE Key(p) \notin Both(old[k].uid)
        <3>1. SUFFICES ASSUME Key(p) \in Both(old[k].uid) PROVE FALSE
            OBVIOUS
        <3>2. PICK r \in P : old[k].uid = Key(r)
            BY <1>6
        <3>3. Key(q) \in Both(Key(p)) /\ Key(p) \in Both(Key(r))
            BY <1>8, <2>3, <3>1, <3>2
        <3>4. Key(q) \in Both(Key(r))
            BY <3>3, Mirrored DEF Both
        <3> QED BY <3>4, <2>3, <3>2, <2>5, <1>2 DEF OneFlowEach
    <2>6. \A k \in 1..Len(new) : new[k].out + new[k].in = After(new[k].uid)
        <3>1. new[a].out + new[a].in = After(new[a].uid)
            BY <1>2, <1>3, <1>8, <2>1, <2>4
        <3>2. ASSUME NEW k \in 1..Len(old), k # a PROVE new[k].out + new[k].in = After(new[k].uid)
            BY <1>2, <1>3, <1>4, <2>1, <2>5, <3>2
        <3> QED BY <3>1, <3>2, <2>1
    <2>7. ASSUME NEW r \in P, After(Key(r)) # 0
          PROVE  \E k \in 1..Len(new) : new[k].uid \in Both(Key(r))
        <3>1. CASE Key(p) \in Both(Key(r))
            <4>1. old[a].uid \in Both(Key(r))
                BY <3>1, <1>8, Mirrored DEF Both
            <4> QED BY <4>1, <2>1
        <3>2. CASE Key(p) \notin Both(Key(r))
            <4>1. Before(Key(r)) # 0
                BY <3>2, <2>7, <1>3, <1>4
            <4> QED BY <4>1, <1>2, <2>1
        <3> QED BY <3>1, <3>2
    <2> QED BY <1>5, <2>2, <2>6, <2>7 DEF AggregatedOK, new, After
<1> QED BY <1>5, <1>7, <1>8 DEF Joined

\* Every connection has one flow, and the flow all bytes of the connection.
LEMMA AggregatedProperties ==
    ASSUME NEW P, ArePackets(P), NEW packets \in Seq(P)
    PROVE  LET flows == Aggregated(packets)
           IN /\ flows \in Seq(FlowSet(P)) /\ OneFlowEach(flows)
              /\ \A k \in 1..Len(flows) :
                    flows[k].out + flows[k].in = Sum(packets, Both(flows[k].uid))
<1> DEFINE n == Len(packets)  G == {i \in 0..n : AggregatedOK(P, packets, i)}
<1>1. n \in Nat
    OBVIOUS
<1>2. AggregatedOK(P, packets, 0)
    <2>1. FlowsUpTo(packets)[0] = <<>> /\ \A q : Sums(packets, Both(q))[0] = 0
        BY FlowsGrow, SumsGrow
    <2> QED BY <2>1 DEF AggregatedOK, OneFlowEach
<1>3. 0 \in G /\ \A i \in 0..(n - 1) : i \in G => i + 1 \in G
    <2>1. 0 \in 0..n /\ \A i \in 0..(n - 1) : i + 1 \in 0..n /\ i + 1 \in 1..n /\ (i + 1) - 1 = i
        BY <1>1
    <2>2. ASSUME NEW i \in 0..(n - 1), AggregatedOK(P, packets, i) PROVE AggregatedOK(P, packets, i + 1)
        BY <2>1, <2>2, AggregationKeeps
    <2> QED BY <1>2, <2>1, <2>2
<1>4. \A i \in 0..n : i \in G
    <2> HIDE DEF G, n
    <2> QED BY <1>1, <1>3, Upwards
<1>5. AggregatedOK(P, packets, n)
    BY <1>1, <1>4
<1>6. Aggregated(packets) = FlowsUpTo(packets)[n] /\ \A q : Sum(packets, Both(q)) = Sums(packets, Both(q))[n]
    BY FlowsGrow, SumsGrow
<1> QED BY <1>5, <1>6 DEF AggregatedOK
----------------------------------------------------------------------------
(* The logs of a capture.                                                  *)

Counted(c, lines) ==
    \A i \in 1..Len(lines) : LET e == lines[i] IN
        e.out \in Nat /\ e.in \in Nat /\ e.out + e.in = Bytes(c, Both(e.uid))

\* A capture whose frames have a length.
IsCapture(c) == c \in Seq(ToSet(c)) /\ \A f \in ToSet(c) : f.len \in Nat

LEMMA PacketsProperties ==
    ASSUME NEW c, IsCapture(c)
    PROVE  \E P : ArePackets(P) /\ Packets(c) \in Seq(P)
<1> DEFINE F == ToSet(c)  P == {Packet(f) : f \in F}
           ipv4 == At({i \in DOMAIN c : c[i].ether = "ipv4"}, c)
<1>1. c \in Seq(F) /\ \A f \in F : f.len \in Nat
    BY DEF IsCapture
<1>2. ipv4 \in Seq(F)
    <2> HIDE DEF F
    <2> QED BY <1>1, AtProperties
<1>3. Packets(c) = [i \in DOMAIN ipv4 |-> Packet(ipv4[i])]
    BY DEF Packets
<1>4. ArePackets(P)
    <2>1. \A f : Packet(f).len = f.len
        BY DEF Packet
    <2> HIDE DEF F
    <2> QED BY <1>1, <2>1 DEF ArePackets
<1>5. Packets(c) \in Seq(P)
    <2> HIDE DEF F, ipv4
    <2>1. /\ DOMAIN ipv4 = 1..Len(ipv4) /\ Len(ipv4) \in Nat
          /\ \A i \in 1..Len(ipv4) : Packet(ipv4[i]) \in P
        BY <1>2
    <2> HIDE DEF P
    <2> QED BY <1>3, <2>1
<1> QED BY <1>4, <1>5

\* One flow of each connection, with all its bytes.
LEMMA FlowsProperties ==
    ASSUME NEW c, IsCapture(c)
    PROVE  IsSeq(Flows(c)) /\ Distinct(Flows(c)) /\ Counted(c, Flows(c))
<1>1. PICK P : ArePackets(P) /\ Packets(c) \in Seq(P)
    BY PacketsProperties
<1> DEFINE flows == Flows(c)
<1>2. /\ flows \in Seq(FlowSet(P)) /\ OneFlowEach(flows)
      /\ \A k \in 1..Len(flows) : flows[k].out + flows[k].in = Bytes(c, Both(flows[k].uid))
    BY <1>1, AggregatedProperties DEF Flows, Bytes
<1> HIDE DEF flows
<1>3. \A k \in 1..Len(flows) : flows[k].out \in Nat /\ flows[k].in \in Nat
    <2>1. \A f \in FlowSet(P) : f.out \in Nat /\ f.in \in Nat
        BY DEF FlowSet
    <2> QED BY <1>2, <2>1
<1>4. IsSeq(flows) /\ Distinct(flows)
    BY <1>2 DEF IsSeq, Distinct, OneFlowEach, Both
<1> QED BY <1>2, <1>3, <1>4 DEF flows, Counted

\* Lines made of a sequence one by one.
LEMMA LinesMade ==
    ASSUME NEW seq, IsSeq(seq), Distinct(seq), NEW lines, DOMAIN lines = DOMAIN seq,
           lines = [i \in DOMAIN lines |-> lines[i]],
           \A i \in DOMAIN seq : lines[i].uid = seq[i].uid
    PROVE  IsSeq(lines) /\ Len(lines) = Len(seq) /\ Distinct(lines)
<1>1. DOMAIN seq = 1..Len(seq) /\ Len(seq) \in Nat
    BY DEF IsSeq
<1>2. lines \in Seq({lines[i] : i \in 1..Len(seq)}) /\ Len(lines) = Len(seq)
    BY <1>1
<1> QED BY <1>1, <1>2 DEF IsSeq, Distinct

\* Of each log, the lines of different connections, all of which are in conn.log.
LEMMA ExportedLines ==
    ASSUME NEW c, IsCapture(c)
    PROVE  /\ \A l \in Logs : /\ IsSeq(Exported(c)[l]) /\ Distinct(Exported(c)[l])
                             /\ \A i \in 1..Len(Exported(c)[l]) :
                                   \E e \in ToSet(Exported(c)["conn"]) : e.uid = Exported(c)[l][i].uid
           /\ Counted(c, Exported(c)["conn"])
           /\ \A i \in 1..Len(Exported(c)["conn"]) : LET e == Exported(c)["conn"][i] IN
                 e.outIp = 0 /\ e.inIp = 0
<1> DEFINE flows == Flows(c)  logsOf == Exported(c)
           queries == At({i \in DOMAIN flows : flows[i].dns # None}, flows)
           hellos  == At({i \in DOMAIN flows : flows[i].sni # None}, flows)
<1>1. IsSeq(flows) /\ Distinct(flows) /\ Counted(c, flows)
    BY FlowsProperties
<1>2. /\ IsSeq(queries) /\ Distinct(queries) /\ IsSeq(hellos) /\ Distinct(hellos)
      /\ \A k \in 1..Len(queries) : \E j \in 1..Len(flows) : queries[k] = flows[j]
      /\ \A k \in 1..Len(hellos) : \E j \in 1..Len(flows) : hellos[k] = flows[j]
    <2>1. PICK S : flows \in Seq(S)
        BY <1>1 DEF IsSeq
    <2> HIDE DEF flows
    <2>2. /\ queries \in Seq(S) /\ Distinct(queries)
          /\ \A k \in 1..Len(queries) : \E j \in 1..Len(flows) : queries[k] = flows[j]
        <3> DEFINE kept == {i \in DOMAIN flows : flows[i].dns # None}
        <3>1. queries = At(kept, flows)
            OBVIOUS
        <3> HIDE DEF kept, queries
        <3> QED BY <1>1, <2>1, <3>1, AtProperties
    <2>3. /\ hellos \in Seq(S) /\ Distinct(hellos)
          /\ \A k \in 1..Len(hellos) : \E j \in 1..Len(flows) : hellos[k] = flows[j]
        <3> DEFINE kept == {i \in DOMAIN flows : flows[i].sni # None}
        <3>1. hellos = At(kept, flows)
            OBVIOUS
        <3> HIDE DEF kept, hellos
        <3> QED BY <1>1, <2>1, <3>1, AtProperties
    <2> QED BY <2>2, <2>3 DEF IsSeq
<1>3. /\ logsOf["conn"] = [i \in DOMAIN flows |-> ConnLine(flows[i])]
      /\ logsOf["dns"] = [i \in DOMAIN queries |-> [uid |-> queries[i].uid, dns |-> queries[i].dns]]
      /\ logsOf["ssl"] = [i \in DOMAIN hellos |-> [uid |-> hellos[i].uid, ja3 |-> hellos[i].sni]]
    BY DEF Exported
<1> HIDE DEF flows, logsOf, queries, hellos
<1>4. \A f : /\ ConnLine(f).uid = f.uid /\ ConnLine(f).out = f.out /\ ConnLine(f).in = f.in
             /\ ConnLine(f).outIp = 0 /\ ConnLine(f).inIp = 0
    BY DEF ConnLine
<1>5. /\ IsSeq(logsOf["conn"]) /\ Distinct(logsOf["conn"]) /\ Len(logsOf["conn"]) = Len(flows)
      /\ IsSeq(logsOf["dns"]) /\ Distinct(logsOf["dns"]) /\ Len(logsOf["dns"]) = Len(queries)
      /\ IsSeq(logsOf["ssl"]) /\ Distinct(logsOf["ssl"]) /\ Len(logsOf["ssl"]) = Len(hellos)
    <2>2. IsSeq(logsOf["conn"]) /\ Distinct(logsOf["conn"]) /\ Len(logsOf["conn"]) = Len(flows)
        BY <1>1, <1>3, <1>4, LinesMade
    <2>3. IsSeq(logsOf["dns"]) /\ Distinct(logsOf["dns"]) /\ Len(logsOf["dns"]) = Len(queries)
        BY <1>2, <1>3, LinesMade
    <2>4. IsSeq(logsOf["ssl"]) /\ Distinct(logsOf["ssl"]) /\ Len(logsOf["ssl"]) = Len(hellos)
        BY <1>2, <1>3, LinesMade
    <2> QED BY <2>2, <2>3, <2>4
<1>6. \A i \in 1..Len(flows) : logsOf["conn"][i] = ConnLine(flows[i])
    BY <1>1, <1>3 DEF IsSeq
<1>7. \A i \in 1..Len(flows) : \E e \in ToSet(logsOf["conn"]) : e.uid = flows[i].uid
    <2>1. DOMAIN logsOf["conn"] = 1..Len(flows)
        BY <1>5 DEF IsSeq
    <2>2. \A i \in 1..Len(flows) : logsOf["conn"][i] \in ToSet(logsOf["conn"])
        BY <2>1 DEF ToSet
    <2> QED BY <2>2, <1>4, <1>6
<1>8. ASSUME NEW l \in Logs, NEW i \in 1..Len(logsOf[l])
      PROVE  \E e \in ToSet(logsOf["conn"]) : e.uid = logsOf[l][i].uid
    <2>1. CASE l = "conn"
        BY <1>4, <1>5, <1>6, <1>7, <1>8, <2>1
    <2>2. CASE l = "dns"
        <3>1. logsOf["dns"][i].uid = queries[i].uid
            BY <1>2, <1>3, <1>5, <1>8, <2>2 DEF IsSeq
        <3>2. PICK j \in 1..Len(flows) : queries[i] = flows[j]
            BY <1>2, <1>5, <1>8, <2>2
        <3> QED BY <3>1, <3>2, <1>7, <2>2
    <2>3. CASE l = "ssl"
        <3>1. logsOf["ssl"][i].uid = hellos[i].uid
            BY <1>2, <1>3, <1>5, <1>8, <2>3 DEF IsSeq
        <3>2. PICK j \in 1..Len(flows) : hellos[i] = flows[j]
            BY <1>2, <1>5, <1>8, <2>3
        <3> QED BY <3>1, <3>2, <1>7, <2>3
    <2> QED BY <2>1, <2>2, <2>3 DEF Logs
<1>9. Counted(c, logsOf["conn"])
    BY <1>1, <1>4, <1>5, <1>6 DEF Counted
<1>10. \A i \in 1..Len(logsOf["conn"]) : logsOf["conn"][i].outIp = 0 /\ logsOf["conn"][i].inIp = 0
    BY <1>4, <1>5, <1>6
<1>11. \A l \in Logs : IsSeq(logsOf[l]) /\ Distinct(logsOf[l])
    BY <1>5 DEF Logs
<1> QED BY <1>8, <1>9, <1>10, <1>11 DEF logsOf

\* The lines that one engine writes in a log of a thread's capture.
GivenFor(t, f) == IF t \in Jobs THEN f ELSE Every

Source(t, f, log, by) == IF by = "engine" THEN EngineLogs[f][log] ELSE Zeek[GivenFor(t, f)][log]

Engines == {"engine", "zeek"}

\* Which connections they are of, and what their counts add up to.
SourceOK(t, f, log, by) ==
    LET lines == Source(t, f, log, by)
    IN /\ IsSeq(lines)
       /\ log = "conn" \/ by = "engine" => Distinct(lines)
       /\ \A n \in 1..Len(lines) : lines[n].uid \in EngineUids(f) <=> by = "engine"
       /\ log = "conn" => \A n \in 1..Len(lines) : LET e == lines[n] IN
             /\ Or(e.out, e.outIp) \in Nat /\ Or(e.in, e.inIp) \in Nat
             /\ by = "engine" => Or(e.out, e.outIp) + Or(e.in, e.inIp) = Bytes(Capture[f], Both(e.uid))
             /\ by = "zeek" => e \in ToSet(Zeek[GivenFor(t, f)].conn)

LEMMA Sources ==
    ASSUME NEW t, NEW f \in Files, NEW log \in Logs, NEW by \in Engines
    PROVE  SourceOK(t, f, log, by)
<1> DEFINE lines == Source(t, f, log, by)
<1>1. CASE by = "engine"
    <2> DEFINE own == Exported(Capture[f])
    <2>1. lines = own[log] /\ EngineLogs[f] = own
        BY <1>1 DEF Source, EngineLogs
    <2>2. IsCapture(Capture[f])
        BY ReplayAssumption DEF IsCapture
    <2>3. /\ IsSeq(own[log]) /\ Distinct(own[log])
          /\ \A i \in 1..Len(own[log]) : \E e \in ToSet(own["conn"]) : e.uid = own[log][i].uid
          /\ Counted(Capture[f], own["conn"])
          /\ \A i \in 1..Len(own["conn"]) : own["conn"][i].outIp = 0 /\ own["conn"][i].inIp = 0
        BY <2>2, ExportedLines
    <2> HIDE DEF own
    <2>4. \A n \in 1..Len(lines) : lines[n].uid \in EngineUids(f)
        BY <2>1, <2>3 DEF EngineUids
    <2>5. ASSUME log = "conn", NEW n \in 1..Len(lines)
          PROVE  LET e == lines[n] IN
                 /\ Or(e.out, e.outIp) \in Nat /\ Or(e.in, e.inIp) \in Nat
                 /\ Or(e.out, e.outIp) + Or(e.in, e.inIp) = Bytes(Capture[f], Both(e.uid))
        <3>1. LET e == lines[n] IN
              /\ e.out \in Nat /\ e.in \in Nat /\ e.out + e.in = Bytes(Capture[f], Both(e.uid))
              /\ e.outIp = 0 /\ e.inIp = 0
            BY <2>1, <2>3, <2>5 DEF Counted
        <3>2. \A m \in Nat : Or(m, 0) = m
            BY DEF Or
        <3> QED BY <3>1, <3>2
    <2> QED BY <1>1, <2>1, <2>3, <2>4, <2>5 DEF SourceOK
<1>2. CASE by = "zeek"
    <2> DEFINE g == GivenFor(t, f)
    <2>1. lines = Zeek[g][log] /\ g \in Files \cup {Every} /\ by # "engine"
        BY <1>2 DEF Source, GivenFor
    <2>2. /\ \A l \in Logs : Zeek[g][l] \in Seq(ToSet(Zeek[g][l]))
          /\ \A i, k \in DOMAIN Zeek[g].conn : Zeek[g].conn[i].uid = Zeek[g].conn[k].uid => i = k
          /\ \A l \in Logs : \A e \in ToSet(Zeek[g][l]) : e.uid \notin EngineUids(f)
          /\ \A e \in ToSet(Zeek[g].conn) : {e.out, e.in, e.outIp, e.inIp} \subseteq Nat
        BY <2>1, ZeekAssumption
    <2> HIDE DEF g
    <2>3. /\ lines \in Seq(ToSet(lines)) /\ DOMAIN lines = 1..Len(lines)
          /\ \A n \in 1..Len(lines) : lines[n] \in ToSet(lines)
        BY <2>1, <2>2
    <2>4. \A n \in 1..Len(lines) : lines[n].uid \notin EngineUids(f)
        BY <2>1, <2>2, <2>3
    <2>5. log = "conn" => Distinct(lines)
        BY <2>1, <2>2, <2>3 DEF Distinct
    <2>6. ASSUME log = "conn", NEW n \in 1..Len(lines)
          PROVE  LET e == lines[n] IN
                 /\ Or(e.out, e.outIp) \in Nat /\ Or(e.in, e.inIp) \in Nat
                 /\ e \in ToSet(Zeek[g].conn)
        <3>1. lines[n] \in ToSet(Zeek[g].conn)
            BY <2>1, <2>3, <2>6
        <3>2. \A a, b \in Nat : Or(a, b) \in Nat
            BY DEF Or
        <3> QED BY <3>1, <3>2, <2>2
    <2> QED BY <1>2, <2>1, <2>3, <2>4, <2>5, <2>6 DEF SourceOK, IsSeq, g
<1> QED BY <1>1, <1>2 DEF Engines
----------------------------------------------------------------------------
(* The shipper and a line.                                                 *)

LEMMA KnownPut ==
    ASSUME NEW memory, NEW u, NEW what
    PROVE  /\ Known(Put(memory, u, what), u) = what
           /\ \A v : v # u => Known(Put(memory, u, what), v) = Known(memory, v)
BY DEF Known, Put

LEMMA KnownRestrict ==
    ASSUME NEW memory, NEW u, NEW v, v # u
    PROVE  Known(Restrict(memory, DOMAIN memory \ {u}), v) = Known(memory, v)
BY DEF Known, Restrict

\* What the shipper makes of a line, and what it knows of each connection then.
OneLine(log, e, memory, p) ==
    /\ p.record.log = log /\ p.record.uid = e.uid
    /\ \A u : u # e.uid => Known(p.cache, u) = Known(memory, u)
    /\ log = "conn" => /\ p.record.dns = Known(memory, e.uid).dns
                       /\ p.record.ja3 = Known(memory, e.uid).ja3
                       /\ Or(e.out, e.outIp) \in Nat /\ Or(e.in, e.inIp) \in Nat =>
                             p.record.out + p.record.in = Or(e.out, e.outIp) + Or(e.in, e.inIp)
    /\ log = "dns"  => /\ p.record.dns = e.dns /\ Known(p.cache, e.uid).dns = e.dns
                       /\ Known(p.cache, e.uid).ja3 = None
    /\ log = "ssl"  => /\ p.record.ja3 = e.ja3 /\ Known(p.cache, e.uid).ja3 = e.ja3
                       /\ Known(p.cache, e.uid).dns = Known(memory, e.uid).dns

LEMMA ConnRecord ==
    ASSUME NEW e, NEW known
    PROVE  LET r == [NormalConn(e) EXCEPT !.dns = known.dns, !.ja3 = known.ja3]
           IN /\ r.log = "conn" /\ r.uid = e.uid /\ r.dns = known.dns /\ r.ja3 = known.ja3
              /\ Or(e.out, e.outIp) \in Nat /\ Or(e.in, e.inIp) \in Nat =>
                    r.out + r.in = Or(e.out, e.outIp) + Or(e.in, e.inIp)
<1> DEFINE pout == Or(e.pout, 1)  out == Or(e.out, e.outIp)  in == Or(e.in, e.inIp)
           flags == FlagsOf(e.history)
           n == [log |-> "conn", uid |-> e.uid, out |-> out, in |-> in,
                 pout |-> pout, pin |-> e.pin, flags |-> flags, dns |-> None, ja3 |-> None]
           m == [log |-> "conn", uid |-> e.uid, out |-> in, in |-> out,
                 pout |-> e.pin, pin |-> pout, flags |-> flags, dns |-> None, ja3 |-> None]
<1>1. Swap(n) = m
    <2> HIDE DEF pout, flags, out, in
    <2>1. Swap(n) = [n EXCEPT !.out = in, !.in = out, !.pout = e.pin, !.pin = pout]
        BY DEF Swap
    <2> QED BY <2>1
<1>2. NormalConn(e) = n \/ NormalConn(e) = m
    BY <1>1 DEF NormalConn
<1> HIDE DEF pout, flags, out, in
<1>3. CASE NormalConn(e) = n
    BY <1>3 DEF out, in
<1>4. CASE NormalConn(e) = m
    BY <1>4 DEF out, in
<1> QED BY <1>2, <1>3, <1>4

LEMMA ProcessProperties ==
    ASSUME NEW log \in Logs, NEW e, NEW memory
    PROVE  OneLine(log, e, memory, Process(log, e, memory))
<1> DEFINE p == Process(log, e, memory)  known == Known(memory, e.uid)
<1>1. CASE log = "conn"
    <2>1. /\ p.record = [NormalConn(e) EXCEPT !.dns = known.dns, !.ja3 = known.ja3]
          /\ p.cache = Restrict(memory, DOMAIN memory \ {e.uid})
        BY <1>1 DEF Process
    <2> HIDE DEF p, known
    <2>2. \A u : u # e.uid => Known(p.cache, u) = Known(memory, u)
        <3>1. p.cache = Restrict(memory, DOMAIN memory \ {e.uid})
            BY <2>1
        <3>2. \A u : u # e.uid => Known(Restrict(memory, DOMAIN memory \ {e.uid}), u) = Known(memory, u)
            BY KnownRestrict
        <3> QED BY <3>1, <3>2
    <2>3. /\ p.record.log = "conn" /\ p.record.uid = e.uid
          /\ p.record.dns = known.dns /\ p.record.ja3 = known.ja3
          /\ Or(e.out, e.outIp) \in Nat /\ Or(e.in, e.inIp) \in Nat =>
                             p.record.out + p.record.in = Or(e.out, e.outIp) + Or(e.in, e.inIp)
        BY <2>1, ConnRecord
    <2> QED BY <1>1, <2>2, <2>3 DEF OneLine, p, known
<1>2. CASE log = "dns"
    <2>1. p.record = NormalDns(e) /\ p.cache = Put(memory, e.uid, [dns |-> e.dns, ja3 |-> None])
        BY <1>2 DEF Process
    <2> HIDE DEF p
    <2> DEFINE what == [dns |-> e.dns, ja3 |-> None]
    <2>2. Known(p.cache, e.uid) = what /\ \A u : u # e.uid => Known(p.cache, u) = Known(memory, u)
        <3> HIDE DEF what
        <3>1. p.cache = Put(memory, e.uid, what)
            BY <2>1 DEF what
        <3> QED BY <3>1, KnownPut
    <2>3. p.record.log = "dns" /\ p.record.uid = e.uid /\ p.record.dns = e.dns
        BY <2>1 DEF NormalDns
    <2>4. Known(p.cache, e.uid).dns = e.dns /\ Known(p.cache, e.uid).ja3 = None
        BY <2>2
    <2> QED BY <1>2, <2>2, <2>3, <2>4 DEF OneLine, p
<1>3. CASE log = "ssl"
    <2>1. p.record = NormalSsl(e) /\ p.cache = Put(memory, e.uid, [dns |-> known.dns, ja3 |-> e.ja3])
        BY <1>3 DEF Process, Remember
    <2> HIDE DEF p, known
    <2> DEFINE what == [dns |-> known.dns, ja3 |-> e.ja3]
    <2>2. Known(p.cache, e.uid) = what /\ \A u : u # e.uid => Known(p.cache, u) = Known(memory, u)
        <3> HIDE DEF what
        <3>1. p.cache = Put(memory, e.uid, what)
            BY <2>1 DEF what
        <3> QED BY <3>1, KnownPut
    <2>3. p.record.log = "ssl" /\ p.record.uid = e.uid /\ p.record.ja3 = e.ja3
        BY <2>1 DEF NormalSsl
    <2>4. Known(p.cache, e.uid).dns = known.dns /\ Known(p.cache, e.uid).ja3 = e.ja3
        BY <2>2
    <2> QED BY <1>3, <2>2, <2>3, <2>4 DEF OneLine, p, known
<1> QED BY <1>1, <1>2, <1>3 DEF Logs
----------------------------------------------------------------------------
(* What is true of a replay at every step.  View is the part of the state  *)
(* that belongs to one thread.                                             *)

View(t) == [file |-> file[t], pc |-> pc[t], logs |-> logs[t], exported |-> exported[t],
            cache |-> cache[t], step |-> step[t], pos |-> pos[t], records |-> records[t],
            handled |-> handled[t], counted |-> IF t \in Jobs THEN counted[t] ELSE Zero]

\* A record is made of the n-th line of one engine for its log.
From(t, f, r, by, n) == LET lines == Source(t, f, r.log, by)
                        IN n \in 1..Len(lines) /\ lines[n].uid = r.uid

\* Its bytes, if it is of a connection.
Adds(t, f, r) ==
    r.log = "conn" =>
        IF r.uid \in EngineUids(f)
        THEN r.out + r.in = Bytes(Capture[f], Both(r.uid))
        ELSE \E e \in ToSet(Zeek[GivenFor(t, f)].conn) :
                e.uid = r.uid /\ r.out + r.in = Or(e.out, e.outIp) + Or(e.in, e.inIp)

RecordOf(t, f, alone, r) ==
    /\ r.log \in Logs
    /\ \E by \in Engines, n \in Nat : From(t, f, r, by, n) /\ (alone => by = "engine")
    /\ Adds(t, f, r)

\* No connection is read twice, and of the PCAP engine no line.
Once(f, seen) ==
    \A i, k \in 1..Len(seen) :
        /\ seen[i].log = seen[k].log /\ seen[i].uid = seen[k].uid
        /\ seen[i].log = "conn" \/ seen[i].uid \in EngineUids(f)
        => i = k

\* The last of the first n records of another log tells this of a connection.
Field(log, r) == IF log = "dns" THEN r.dns ELSE r.ja3
OfLog(r, log, u) == r.log = log /\ r.uid = u

Tells(seen, n, u, log, what) ==
    \/ what = None /\ \A k \in 1..n : ~OfLog(seen[k], log, u)
    \/ \E k \in 1..n : /\ OfLog(seen[k], log, u) /\ what = Field(log, seen[k])
                       /\ \A m \in (k + 1)..n : ~OfLog(seen[m], log, u)

Others == {"dns", "ssl"}

Enriched(seen) ==
    \A i \in 1..Len(seen) : seen[i].log = "conn" =>
        \A log \in Others : Tells(seen, i - 1, seen[i].uid, log, Field(log, seen[i]))

\* The cache knows it of every connection that has not been read.
Remembered(memory, seen) ==
    \A u : (\A i \in 1..Len(seen) : ~OfLog(seen[i], "conn", u)) =>
        \A log \in Others : Tells(seen, Len(seen), u, log, Field(log, Known(memory, u)))

Conns(seen, n) == Cardinality({i \in 1..n : seen[i].log = "conn"})
Tally(seen, n) == [flows |-> Conns(seen, n), published |-> n]

\* The first n lines of the PCAP engine for a log are among the records.
Covered(f, log, n, seen) ==
    \A k \in 1..n : \E i \in 1..Len(seen) : OfLog(seen[i], log, EngineLogs[f][log][k].uid)

All(f, seen) == \A log \in Logs : Covered(f, log, Len(EngineLogs[f][log]), seen)

Records(t, v) ==
    /\ IsSeq(v.records) /\ v.handled \in 0..Len(v.records)
    /\ \A i \in 1..Len(v.records) : RecordOf(t, v.file, v.exported, v.records[i])
    /\ Once(v.file, v.records)
    /\ t \in Legacies => Enriched(v.records)

\* Of the log it reads a thread has the lines it is past, and before the file is
\* done it has handled none of them.
Placed(t, v, log, i) ==
    LET r == v.records[i]
    IN /\ i <= v.handled \/ r.log = log
       /\ r.log = log \/ \E a \in 1..v.step : r.log = Order(t)[a]
       /\ r.log = log => \E by \in Engines : \E n \in 1..v.pos[by] : From(t, v.file, r, by, n)

Reading(t, v) ==
    LET log == Order(t)[v.step + 1]
    IN /\ v.step \in 0..2
       /\ v.pos \in [engine : Nat, zeek : Nat] /\ v.pos.engine <= Len(EngineLogs[v.file][log])
       /\ \A i \in 1..Len(v.records) : Placed(t, v, log, i)
       /\ v.exported =>
             /\ \A a \in 1..v.step : Covered(v.file, Order(t)[a], Len(EngineLogs[v.file][Order(t)[a]]), v.records)
             /\ Covered(v.file, log, v.pos.engine, v.records)
             /\ v.pc = "evaluate" => v.pos.engine = Len(EngineLogs[v.file][log])
       /\ t \in Jobs => v.counted = Tally(v.records, IF v.pc = "read" THEN v.handled ELSE Len(v.records))
       /\ t \in Legacies => Remembered(v.cache, v.records)

Through(t, v) ==
    /\ v.handled = Len(v.records)
    /\ v.exported => All(v.file, v.records)
    /\ t \in Jobs => v.counted = Tally(v.records, v.handled)

Setup == {"begin", "remove", "run", "wait", "native", "ship"}

Fresh(v) == v.records = <<>> /\ v.handled = 0
Reset(v) == v.step = 0 /\ v.pos = Top /\ v.cache = NoCache /\ v.counted = Zero

GoodLogs(f, alone, g) ==
    \A l \in Logs : /\ g[l] \in [engine : Nat, zeek : BOOLEAN] /\ g[l].engine <= Len(EngineLogs[f][l])
                    /\ alone => g[l].engine = Len(EngineLogs[f][l]) /\ ~g[l].zeek

Sound(t, v) ==
    /\ v.file \in Files \cup {NoFile} /\ v.exported \in BOOLEAN
    /\ v.pc \in Setup \cup {"idle", "read", "evaluate", "done"}
    /\ Records(t, v)
    /\ v.file = NoFile => v.pc = "idle" /\ Fresh(v) /\ ~v.exported
    /\ v.pc \in Setup => Fresh(v)
    /\ v.pc \in Setup \ {"ship"} => ~v.exported
    /\ v.pc \in Setup \cup {"idle"} => Reset(v)
    /\ v.pc = "idle" => v.logs = Empty
    /\ v.pc # "idle" => GoodLogs(v.file, v.exported, v.logs)
    /\ v.pc \in {"read", "evaluate"} => Reading(t, v)
    /\ v.pc = "done" => Through(t, v)

\* What a completed job reports.
Reported(f, seen, n, total, alone) ==
    /\ n = Len(seen) /\ total = Tally(seen, n)
    /\ alone => All(f, seen)

ReplayInv ==
    /\ \A t \in Threads : Sound(t, View(t))
    /\ \A j \in Jobs :
          /\ status[j] = "none" => file[j] = NoFile
          /\ status[j] = "completed" => Reported(file[j], records[j], handled[j], totals[j], exported[j])
----------------------------------------------------------------------------
(* Facts about the records.                                                *)

LEMMA OrderProperties ==
    ASSUME NEW t
    PROVE  /\ \A n \in 0..2 : Order(t)[n + 1] \in Logs
           /\ \A a, b \in 1..3 : Order(t)[a] = Order(t)[b] => a = b
           /\ \A l \in Logs : \E a \in 1..3 : Order(t)[a] = l
           /\ Order(t)[1] # "conn" => Order(t)[1] = "dns" /\ Order(t)[2] = "ssl" /\ Order(t)[3] = "conn"
           /\ t \notin Jobs => Order(t)[1] = "dns"
<1>1. CASE t \in Jobs
    <2>1. Order(t)[1] = "conn" /\ Order(t)[2] = "dns" /\ Order(t)[3] = "ssl"
        BY <1>1 DEF Order
    <2> QED BY <1>1, <2>1 DEF Logs
<1>2. CASE t \notin Jobs
    <2>1. Order(t)[1] = "dns" /\ Order(t)[2] = "ssl" /\ Order(t)[3] = "conn"
        BY <1>2 DEF Order
    <2> QED BY <1>2, <2>1 DEF Logs
<1> QED BY <1>1, <1>2

LEMMA NothingRead ==
    /\ IsSeq(<<>>) /\ Len(<<>>) = 0 /\ Enriched(<<>>) /\ Tally(<<>>, 0) = Zero
    /\ \A f : Once(f, <<>>)
    /\ Remembered(NoCache, <<>>)
    /\ \A t, v : v.records = <<>> /\ v.handled = 0 => Records(t, v)
<1>1. Len(<<>>) = 0 /\ 1..0 = {} /\ 0 \in 0..0
    OBVIOUS
<1>2. {i \in 1..0 : (<<>>)[i].log = "conn"} = {}
    BY <1>1
<1>3. Tally(<<>>, 0) = Zero
    BY <1>2, FS_EmptySet DEF Tally, Conns, Zero
<1>4. IsSeq(<<>>)
    BY DEF IsSeq
<1>5. Enriched(<<>>) /\ \A f : Once(f, <<>>)
    BY <1>1 DEF Enriched, Once
<1>6. Remembered(NoCache, <<>>)
    <2>1. \A u : Known(NoCache, u).dns = None /\ Known(NoCache, u).ja3 = None
        BY DEF Known, NoCache
    <2> QED BY <1>1, <2>1 DEF Remembered, Tells, Field
<1>7. \A t, v : v.records = <<>> /\ v.handled = 0 => Records(t, v)
    BY <1>1, <1>4, <1>5 DEF Records
<1> QED BY <1>1, <1>3, <1>4, <1>5, <1>6, <1>7

\* One more record.
Longer(seen, r, new) ==
    /\ IsSeq(new) /\ Len(seen) \in Nat /\ Len(new) = Len(seen) + 1
    /\ \A i \in 1..Len(seen) : new[i] = seen[i]
    /\ new[Len(seen) + 1] = r

LEMMA Appended ==
    ASSUME NEW seen, IsSeq(seen), NEW r
    PROVE  Longer(seen, r, Append(seen, r))
<1>1. PICK S : seen \in Seq(S)
    BY DEF IsSeq
<1>2. seen \in Seq(S \cup {r}) /\ r \in S \cup {r}
    BY <1>1
<1> HIDE <1>1
<1> DEFINE T == S \cup {r}
<1>3. seen \in Seq(T) /\ r \in T
    BY <1>2
<1> HIDE DEF T
<1> QED BY <1>3 DEF Longer, IsSeq

LEMMA TellsOn ==
    ASSUME NEW seen, NEW r, NEW new, Longer(seen, r, new), NEW u, NEW log, NEW what
    PROVE  /\ \A n \in 0..Len(seen) : Tells(seen, n, u, log, what) => Tells(new, n, u, log, what)
           /\ Tells(seen, Len(seen), u, log, what) /\ ~OfLog(r, log, u) => Tells(new, Len(new), u, log, what)
           /\ OfLog(r, log, u) /\ what = Field(log, r) => Tells(new, Len(new), u, log, what)
           /\ (\A i \in 1..Len(new) : ~OfLog(new[i], log, u)) /\ what = None => Tells(new, Len(new), u, log, what)
<1>1. /\ Len(seen) \in Nat /\ Len(new) = Len(seen) + 1
      /\ \A i \in 1..Len(seen) : new[i] = seen[i]
      /\ new[Len(seen) + 1] = r
    BY DEF Longer
<1>2. ASSUME NEW n \in 0..Len(seen), Tells(seen, n, u, log, what)
      PROVE  Tells(new, n, u, log, what)
    <2>1. \A k \in 1..n : new[k] = seen[k]
        BY <1>1
    <2> QED BY <1>2, <2>1 DEF Tells
<1>3. ASSUME Tells(seen, Len(seen), u, log, what), ~OfLog(r, log, u)
      PROVE  Tells(new, Len(new), u, log, what)
    <2>1. CASE what = None /\ \A k \in 1..Len(seen) : ~OfLog(seen[k], log, u)
        <3>1. \A k \in 1..Len(new) : ~OfLog(new[k], log, u)
            BY <1>1, <1>3, <2>1
        <3> QED BY <2>1, <3>1 DEF Tells
    <2>2. ASSUME NEW k \in 1..Len(seen), OfLog(seen[k], log, u), what = Field(log, seen[k]),
                 \A m \in (k + 1)..Len(seen) : ~OfLog(seen[m], log, u)
          PROVE  Tells(new, Len(new), u, log, what)
        <3>1. new[k] = seen[k] /\ k \in 1..Len(new)
            BY <1>1
        <3>2. \A m \in (k + 1)..Len(new) : ~OfLog(new[m], log, u)
            BY <1>1, <1>3, <2>2
        <3> QED BY <2>2, <3>1, <3>2 DEF Tells
    <2> QED BY <1>3, <2>1, <2>2 DEF Tells
<1>4. ASSUME OfLog(r, log, u), what = Field(log, r) PROVE Tells(new, Len(new), u, log, what)
    <2>1. Len(new) \in 1..Len(new) /\ new[Len(new)] = r /\ \A m \in (Len(new) + 1)..Len(new) : FALSE
        BY <1>1
    <2> QED BY <1>4, <2>1 DEF Tells
<1>5. (\A i \in 1..Len(new) : ~OfLog(new[i], log, u)) /\ what = None => Tells(new, Len(new), u, log, what)
    BY DEF Tells
<1> QED BY <1>2, <1>3, <1>4, <1>5

LEMMA CoveredOn ==
    ASSUME NEW seen, NEW r, NEW new, Longer(seen, r, new), NEW f, NEW log, NEW n, Covered(f, log, n, seen)
    PROVE  Covered(f, log, n, new)
<1>1. Len(seen) \in Nat /\ \A i \in 1..Len(seen) : i \in 1..Len(new) /\ new[i] = seen[i]
    BY DEF Longer
<1> QED BY <1>1 DEF Covered

LEMMA TallyOn ==
    ASSUME NEW seen, NEW r, NEW new, Longer(seen, r, new), NEW n \in 0..Len(seen)
    PROVE  Tally(new, n) = Tally(seen, n)
<1>1. \A i \in 1..n : new[i] = seen[i]
    BY DEF Longer
<1>2. {i \in 1..n : new[i].log = "conn"} = {i \in 1..n : seen[i].log = "conn"}
    BY <1>1
<1> QED BY <1>2 DEF Tally, Conns

\* The records of one more file are counted.
LEMMA TallyOfFile ==
    ASSUME NEW seen, NEW m \in Nat, NEW n \in 0..m, NEW log,
           \A i \in 1..m : i <= n \/ seen[i].log = log
    PROVE  Tally(seen, m) = [flows |-> Conns(seen, n) + (IF log = "conn" THEN m - n ELSE 0),
                             published |-> n + (m - n)]
<1> DEFINE old == {i \in 1..n : seen[i].log = "conn"}  new == (n + 1)..m
           all == {i \in 1..m : seen[i].log = "conn"}
<1>1. m - n \in Nat /\ n + (m - n) = m /\ n \in Nat
    OBVIOUS
<1>2. IsFiniteSet(old) /\ Cardinality(old) \in Nat
    <2>1. IsFiniteSet(1..n)
        BY <1>1, FS_Interval
    <2>2. old \subseteq 1..n
        OBVIOUS
    <2> HIDE DEF old
    <2> QED BY <2>1, <2>2, FS_Subset, FS_CardinalityType
<1>3. IsFiniteSet(new) /\ Cardinality(new) = m - n
    <2>1. n + 1 \in Int /\ m \in Int
        OBVIOUS
    <2>2. IsFiniteSet(new) /\ Cardinality(new) = IF n + 1 > m THEN 0 ELSE m - (n + 1) + 1
        BY <2>1, FS_Interval
    <2> HIDE DEF new
    <2> QED BY <2>2
<1>4. Conns(seen, n) = Cardinality(old) /\ Conns(seen, m) = Cardinality(all)
    BY DEF Conns
<1>5. Cardinality(all) = Cardinality(old) + (IF log = "conn" THEN m - n ELSE 0)
    <2>1. CASE log = "conn"
        <3>1. all = old \cup new /\ old \cap new = {}
            BY <2>1
        <3> HIDE DEF old, new, all
        <3>2. Cardinality(all) = Cardinality(old) + Cardinality(new) - Cardinality(old \cap new)
            BY <1>2, <1>3, <3>1, FS_Union
        <3>3. Cardinality(old \cap new) = 0
            BY <3>1, FS_EmptySet
        <3>4. Cardinality(all) = Cardinality(old) + Cardinality(new)
            BY <1>1, <1>2, <1>3, <3>2, <3>3
        <3> QED BY <1>3, <2>1, <3>4
    <2>2. CASE log # "conn"
        <3>1. all = old
            BY <2>2
        <3> HIDE DEF old, all
        <3> QED BY <1>2, <2>2, <3>1
    <2> QED BY <2>1, <2>2
<1> HIDE DEF old, new, all
<1>6. Tally(seen, m) = [flows |-> Conns(seen, m), published |-> m]
    BY DEF Tally
<1> QED BY <1>1, <1>4, <1>5, <1>6
----------------------------------------------------------------------------
(* Each kind of step keeps what is true of its thread.                     *)

Moved(v, f, p, g, alone) ==
    [file |-> f, pc |-> p, logs |-> g, exported |-> alone, cache |-> v.cache, step |-> v.step,
     pos |-> v.pos, records |-> v.records, handled |-> v.handled, counted |-> v.counted]

ReadOn(v, p, memory, s, q, seen, n, total) ==
    [file |-> v.file, pc |-> p, logs |-> v.logs, exported |-> v.exported, cache |-> memory, step |-> s,
     pos |-> q, records |-> seen, handled |-> n, counted |-> total]

Over(v) ==
    [file |-> v.file, pc |-> "idle", logs |-> Empty, exported |-> v.exported, cache |-> NoCache, step |-> 0,
     pos |-> Top, records |-> v.records, handled |-> v.handled, counted |-> Zero]

LEMMA EmptyLogs ==
    ASSUME NEW f \in Files
    PROVE  /\ GoodLogs(f, FALSE, Empty)
           /\ \A log \in Logs : Len(EngineLogs[f][log]) \in Nat /\ IsSeq(EngineLogs[f][log])
<1>1. ASSUME NEW log \in Logs PROVE IsSeq(EngineLogs[f][log]) /\ Len(EngineLogs[f][log]) \in Nat
    <2>1. SourceOK(CHOOSE t : TRUE, f, log, "engine")
        BY Sources DEF Engines
    <2>2. IsSeq(EngineLogs[f][log])
        BY <2>1 DEF SourceOK, Source
    <2> QED BY <2>2 DEF IsSeq
<1>2. \A log \in Logs : Empty[log] \in [engine : Nat, zeek : BOOLEAN] /\ Empty[log].engine = 0
    BY DEF Empty
<1> QED BY <1>1, <1>2 DEF GoodLogs

\* A replay is asked for.
LEMMA AskedSound ==
    ASSUME NEW t \in Threads, NEW v, Sound(t, v), v.pc = "idle", v.file = NoFile, NEW f \in Files,
           NEW w, w = Moved(v, f, "begin", v.logs, v.exported)
    PROVE  Sound(t, w)
<1>1. Fresh(v) /\ Reset(v) /\ v.logs = Empty /\ v.exported = FALSE
    BY DEF Sound
<1>2. /\ w.file = f /\ w.pc = "begin" /\ w.logs = Empty /\ w.exported = FALSE
      /\ w.step = v.step /\ w.pos = v.pos /\ w.cache = v.cache /\ w.counted = v.counted
      /\ w.records = v.records /\ w.handled = v.handled
    BY <1>1 DEF Moved
<1>3. Fresh(w) /\ Reset(w)
    BY <1>1, <1>2 DEF Fresh, Reset
<1>4. Records(t, w)
    BY <1>3, NothingRead DEF Fresh
<1>5. f # NoFile /\ GoodLogs(w.file, w.exported, w.logs)
    BY <1>2, EmptyLogs, ReplayAssumption
<1> QED BY <1>2, <1>3, <1>4, <1>5 DEF Sound, Setup

\* The container and the engine: up to the reading of the logs.
LEMMA MovedSound ==
    ASSUME NEW t \in Threads, NEW v, Sound(t, v), v.pc \in Setup, NEW p \in Setup, NEW alone \in BOOLEAN,
           p = "ship" \/ ~alone, NEW g, GoodLogs(v.file, alone, g), NEW w, w = Moved(v, v.file, p, g, alone)
    PROVE  Sound(t, w)
<1>1. Fresh(v) /\ Reset(v) /\ v.file \in Files /\ v.pc # "idle" /\ v.file # NoFile
    BY DEF Sound, Setup
<1>2. /\ w.file = v.file /\ w.pc = p /\ w.logs = g /\ w.exported = alone
      /\ w.step = v.step /\ w.pos = v.pos /\ w.cache = v.cache /\ w.counted = v.counted
      /\ w.records = v.records /\ w.handled = v.handled
    BY DEF Moved
<1>3. Fresh(w) /\ Reset(w)
    BY <1>1, <1>2 DEF Fresh, Reset
<1>4. Records(t, w)
    BY <1>3, NothingRead DEF Fresh
<1>5. w.pc # "idle" /\ w.pc \notin {"read", "evaluate"} /\ w.pc # "done" /\ w.pc \in Setup
    BY <1>2 DEF Setup
<1> QED BY <1>1, <1>2, <1>3, <1>4, <1>5 DEF Sound

\* The shipper begins.
LEMMA ShipSound ==
    ASSUME NEW t \in Threads, NEW v, Sound(t, v), v.pc = "ship",
           NEW w, w = Moved(v, v.file, "read", v.logs, v.exported)
    PROVE  Sound(t, w)
<1>1. /\ Fresh(v) /\ Reset(v) /\ v.file \in Files /\ v.file # NoFile
      /\ v.exported \in BOOLEAN /\ GoodLogs(v.file, v.exported, v.logs)
    BY DEF Sound, Setup
<1>2. /\ w.file = v.file /\ w.pc = "read" /\ w.logs = v.logs /\ w.exported = v.exported
      /\ w.step = 0 /\ w.pos = Top /\ w.cache = NoCache /\ w.counted = Zero
      /\ w.records = <<>> /\ w.handled = 0
    BY <1>1 DEF Moved, Fresh, Reset
<1>3. Records(t, w)
    BY <1>2, NothingRead
<1>4. Order(t)[0 + 1] \in Logs
    BY OrderProperties
<1>5. Reading(t, w)
    <2>0. Len(<<>>) = 0 /\ 1..0 = {}
        OBVIOUS
    <2>1. 0 \in 0..2 /\ Top \in [engine : Nat, zeek : Nat] /\ Top.engine = 0
        BY DEF Top
    <2>2. 0 <= Len(EngineLogs[v.file][Order(t)[0 + 1]])
        BY <1>1, <1>4, EmptyLogs
    <2>3. \A i \in 1..Len(w.records) : Placed(t, w, Order(t)[0 + 1], i)
        BY <1>2, <2>0
    <2>4. /\ \A a \in 1..0 : Covered(v.file, Order(t)[a], Len(EngineLogs[v.file][Order(t)[a]]), <<>>)
          /\ Covered(v.file, Order(t)[0 + 1], 0, <<>>)
        BY <2>0 DEF Covered
    <2> QED BY <1>2, <2>1, <2>2, <2>3, <2>4, NothingRead DEF Reading
<1> QED BY <1>1, <1>2, <1>3, <1>5 DEF Sound, Setup

\* The next line: nothing has been made of it before.
LEMMA NewLine ==
    ASSUME NEW t \in Threads, NEW v, Sound(t, v), v.pc = "read", NEW log, log = Order(t)[v.step + 1],
           NEW by \in Engines, NEW n \in (v.pos[by] + 1)..Len(Source(t, v.file, log, by)),
           NEW r, r.log = log, r.uid = Source(t, v.file, log, by)[n].uid,
           log = "conn" \/ r.uid \in EngineUids(v.file),
           NEW i \in 1..Len(v.records), OfLog(v.records[i], log, r.uid)
    PROVE  FALSE
<1>1. /\ v.file \in Files /\ v.step \in 0..2 /\ v.pos \in [engine : Nat, zeek : Nat] /\ v.pc # "idle"
      /\ v.records[i].log = log /\ v.records[i].uid = r.uid
      /\ Placed(t, v, log, i)
    BY DEF Sound, Reading, OfLog
<1>2. log \in Logs
    BY <1>1, OrderProperties
<1>3. PICK by2 \in Engines : \E m \in 1..v.pos[by2] : From(t, v.file, v.records[i], by2, m)
    BY <1>1 DEF Placed
<1>4. PICK m \in 1..v.pos[by2] : From(t, v.file, v.records[i], by2, m)
    BY <1>3
<1>5. v.pos[by] \in Nat /\ v.pos[by2] \in Nat
    BY <1>1 DEF Engines
<1>6. m \in 1..Len(Source(t, v.file, log, by2)) /\ Source(t, v.file, log, by2)[m].uid = r.uid
    BY <1>1, <1>4 DEF From
<1>7. SourceOK(t, v.file, log, by) /\ SourceOK(t, v.file, log, by2)
    BY <1>1, <1>2, Sources
<1>8. Len(Source(t, v.file, log, by)) \in Nat
    BY <1>7 DEF SourceOK, IsSeq
<1>9. n \in 1..Len(Source(t, v.file, log, by))
    BY <1>5, <1>8
<1>10. (r.uid \in EngineUids(v.file) <=> by = "engine") /\ (r.uid \in EngineUids(v.file) <=> by2 = "engine")
    BY <1>6, <1>7, <1>9 DEF SourceOK
<1>11. by = by2
    BY <1>10 DEF Engines
<1>12. Distinct(Source(t, v.file, log, by))
    BY <1>7, <1>10 DEF SourceOK
<1>13. n = m
    BY <1>6, <1>9, <1>11, <1>12 DEF Distinct
<1> QED BY <1>4, <1>5, <1>11, <1>13

\* Whose record it is.
LEMMA NewRecord ==
    ASSUME NEW t \in Threads, NEW f \in Files, NEW log \in Logs, NEW by \in Engines,
           NEW n \in 1..Len(Source(t, f, log, by)), NEW memory, NEW alone \in BOOLEAN, alone => by = "engine"
    PROVE  LET r == Process(log, Source(t, f, log, by)[n], memory).record
           IN /\ RecordOf(t, f, alone, r) /\ From(t, f, r, by, n)
              /\ r.log = log /\ r.uid = Source(t, f, log, by)[n].uid
<1> DEFINE e == Source(t, f, log, by)[n]  r == Process(log, e, memory).record
<1>1. OneLine(log, e, memory, Process(log, e, memory))
    BY ProcessProperties
<1>2. r.log = log /\ r.uid = e.uid
    BY <1>1 DEF OneLine
<1>3. SourceOK(t, f, log, by)
    BY Sources
<1>4. n \in Nat
    <2>1. Len(Source(t, f, log, by)) \in Nat
        BY <1>3 DEF SourceOK, IsSeq
    <2> QED BY <2>1
<1>5. ASSUME log = "conn" PROVE Adds(t, f, r)
    <2>1. /\ Or(e.out, e.outIp) \in Nat /\ Or(e.in, e.inIp) \in Nat
          /\ e.uid \in EngineUids(f) <=> by = "engine"
          /\ by = "engine" => Or(e.out, e.outIp) + Or(e.in, e.inIp) = Bytes(Capture[f], Both(e.uid))
          /\ by = "zeek" => e \in ToSet(Zeek[GivenFor(t, f)].conn)
        BY <1>3, <1>5 DEF SourceOK
    <2>2. r.out + r.in = Or(e.out, e.outIp) + Or(e.in, e.inIp)
        BY <1>1, <1>5, <2>1 DEF OneLine
    <2> HIDE DEF e, r
    <2> QED BY <1>2, <2>1, <2>2 DEF Adds, Engines
<1> HIDE DEF r
<1>6. Adds(t, f, r)
    BY <1>2, <1>5 DEF Adds
<1>7. From(t, f, r, by, n)
    BY <1>2 DEF From, e
<1> QED BY <1>2, <1>4, <1>6, <1>7 DEF RecordOf, r, e

\* The cache after one more line.
LEMMA RememberedOn ==
    ASSUME NEW t \in Legacies, NEW v, Reading(t, v), NEW e, NEW log, log = Order(t)[v.step + 1],
           IsSeq(v.records),
           NEW p, OneLine(log, e, v.cache, p), NEW new, Longer(v.records, p.record, new),
           \A i \in 1..Len(v.records) : log = "conn" => ~OfLog(v.records[i], log, e.uid)
    PROVE  /\ Remembered(p.cache, new)
           /\ log = "conn" =>
                 \A x \in Others : Tells(new, Len(v.records), e.uid, x, Field(x, p.record))
<1> DEFINE seen == v.records  r == p.record
<1>1. /\ Remembered(v.cache, seen) /\ v.step \in 0..2
      /\ \A i \in 1..Len(seen) : Placed(t, v, log, i)
    BY DEF Reading
<1>2. /\ r.log = log /\ r.uid = e.uid
      /\ Order(t)[1] = "dns" /\ Order(t)[2] = "ssl" /\ Order(t)[3] = "conn"
    <2>1. t \notin Jobs
        BY ReplayAssumption
    <2> QED BY <2>1, OrderProperties DEF OneLine
<1>3. /\ Len(seen) \in Nat /\ Len(new) = Len(seen) + 1
      /\ \A i \in 1..Len(seen) : new[i] = seen[i] /\ i \in 1..Len(new)
      /\ new[Len(seen) + 1] = r
      /\ Len(seen) \in 0..Len(seen)
    BY DEF Longer
<1>4. ASSUME NEW u, \A i \in 1..Len(seen) : ~OfLog(seen[i], "conn", u), NEW x \in Others
      PROVE  Tells(seen, Len(seen), u, x, Field(x, Known(v.cache, u)))
    BY <1>1, <1>4 DEF Remembered
<1> HIDE DEF seen, r
<1>5. ASSUME log = "conn", NEW x \in Others
      PROVE  Tells(new, Len(seen), e.uid, x, Field(x, r))
    <2>1. Field(x, r) = Field(x, Known(v.cache, e.uid))
        BY <1>5 DEF OneLine, Field, Others, r
    <2>2. Tells(seen, Len(seen), e.uid, x, Field(x, r))
        BY <1>4, <1>5, <2>1 DEF seen
    <2> QED BY <1>3, <2>2, TellsOn DEF r, seen
<1>6. ASSUME NEW u, \A i \in 1..Len(new) : ~OfLog(new[i], "conn", u), NEW x \in Others
      PROVE  Tells(new, Len(new), u, x, Field(x, Known(p.cache, u)))
    <2>1. \A i \in 1..Len(seen) : ~OfLog(seen[i], "conn", u)
        BY <1>3, <1>6
    <2>2. Tells(seen, Len(seen), u, x, Field(x, Known(v.cache, u)))
        BY <1>4, <1>6, <2>1
    <2>3. Longer(seen, r, new)
        BY DEF r, seen
    <2>4. CASE u # e.uid
        <3>1. Known(p.cache, u) = Known(v.cache, u)
            BY <2>4 DEF OneLine
        <3>2. ~OfLog(r, x, u)
            BY <1>2, <2>4 DEF OfLog
        <3> QED BY <2>2, <2>3, <3>1, <3>2, TellsOn
    <2>5. CASE u = e.uid
        <3>1. log # "conn"
            <4>1. ~OfLog(r, "conn", u)
                <5>1. Len(seen) + 1 \in 1..Len(new)
                    BY <1>3
                <5> QED BY <1>3, <1>6, <5>1
            <4> QED BY <1>2, <2>5, <4>1 DEF OfLog
        <3>2. CASE x = log
            <4>1. Field(x, Known(p.cache, u)) = Field(x, r) /\ OfLog(r, x, u)
                BY <1>2, <2>5, <3>2, <3>1, <1>6 DEF OneLine, Field, OfLog, Others, r
            <4> QED BY <2>3, <4>1, TellsOn
        <3>3. CASE log = "ssl" /\ x = "dns"
            <4>1. Field(x, Known(p.cache, u)) = Field(x, Known(v.cache, u)) /\ ~OfLog(r, x, u)
                BY <1>2, <2>5, <3>3 DEF OneLine, Field, OfLog
            <4> QED BY <2>2, <2>3, <4>1, TellsOn
        <3>4. CASE log = "dns" /\ x = "ssl"
            <4>1. Field(x, Known(p.cache, u)) = None
                BY <2>5, <3>4 DEF OneLine, Field
            <4>2. v.step = 0
                <5>1. CASE v.step = 1
                    <6>1. v.step + 1 = 2
                        BY <5>1
                    <6> QED BY <1>2, <3>4, <6>1
                <5>2. CASE v.step = 2
                    <6>1. v.step + 1 = 3
                        BY <5>2
                    <6> QED BY <1>2, <3>4, <6>1
                <5> QED BY <1>1, <5>1, <5>2
            <4>3. \A i \in 1..Len(seen) : seen[i].log = "dns"
                <5>1. 1..0 = {}
                    OBVIOUS
                <5> QED BY <1>1, <3>4, <4>2, <5>1 DEF Placed, seen
            <4>4. \A i \in 1..Len(new) : ~OfLog(new[i], x, u)
                <5>1. \A i \in 1..Len(new) : i \in 1..Len(seen) \/ i = Len(seen) + 1
                    BY <1>3
                <5> QED BY <1>2, <1>3, <3>4, <4>3, <5>1 DEF OfLog
            <4> QED BY <2>3, <4>1, <4>4, TellsOn
        <3> QED BY <3>1, <3>2, <3>3, <3>4, <1>1, <1>2, <1>6 DEF Others
    <2> QED BY <2>4, <2>5
<1> QED BY <1>5, <1>6 DEF Remembered, r, seen

\* What a thread has of a record, it still has when it has read on.
LEMMA PlacedOn ==
    ASSUME NEW t, NEW v, NEW w, NEW log, NEW i, Placed(t, v, log, i), w.records[i] = v.records[i],
           w.file = v.file, w.step = v.step, i <= v.handled => i <= w.handled,
           \A b \in Engines : w.pos[b] \in Nat /\ v.pos[b] \in Nat /\ v.pos[b] <= w.pos[b]
    PROVE  Placed(t, w, log, i)
<1>1. \A b \in Engines : \A m \in 1..v.pos[b] : m \in 1..w.pos[b]
    OBVIOUS
<1> QED BY <1>1 DEF Placed

\* The n-th line of one engine has been read.
LineRead(t, v, log, by, n, w) ==
    LET e == Source(t, v.file, log, by)[n]  p == Process(log, e, v.cache)
    IN /\ log = Order(t)[v.step + 1]
       /\ n \in (v.pos[by] + 1)..Len(Source(t, v.file, log, by))
       /\ v.exported => by = "engine" /\ n = v.pos.engine + 1
       /\ Longer(v.records, p.record, w.records) /\ w.cache = p.cache
       /\ w.pos \in [engine : Nat, zeek : Nat] /\ w.pos[by] = n
       /\ \A b \in Engines : b = by \/ w.pos[b] = v.pos[b]
       /\ w.file = v.file /\ w.pc = "read" /\ w.logs = v.logs /\ w.exported = v.exported
       /\ w.step = v.step /\ w.handled = v.handled /\ w.counted = v.counted

LEMMA ReadLineSound ==
    ASSUME NEW t \in Threads, NEW v, Sound(t, v), v.pc = "read", NEW log, NEW by \in Engines, NEW n,
           NEW w, LineRead(t, v, log, by, n, w)
    PROVE  Sound(t, w)
<1> DEFINE e == Source(t, v.file, log, by)[n]  r == Process(log, e, v.cache).record
           seen == v.records  new == w.records
<1>1. /\ v.file \in Files /\ v.file # NoFile /\ v.exported \in BOOLEAN /\ Records(t, v) /\ Reading(t, v)
      /\ GoodLogs(v.file, v.exported, v.logs) /\ IsSeq(seen)
    BY DEF Sound, Records
<1>2. /\ v.step \in 0..2 /\ log \in Logs /\ log = Order(t)[v.step + 1]
      /\ v.pos \in [engine : Nat, zeek : Nat]
      /\ v.pos.engine <= Len(EngineLogs[v.file][log])
      /\ \A i \in 1..Len(seen) : Placed(t, v, log, i)
    BY <1>1, OrderProperties DEF Reading, LineRead
<1>3. /\ w.file = v.file /\ w.pc = "read" /\ w.logs = v.logs /\ w.exported = v.exported
      /\ w.step = v.step /\ w.handled = v.handled /\ w.counted = v.counted
    BY DEF LineRead
<1>4. Longer(seen, r, new)
    BY DEF LineRead
<1>5. OneLine(log, e, v.cache, Process(log, e, v.cache)) /\ w.cache = Process(log, e, v.cache).cache
    BY <1>2, ProcessProperties DEF LineRead
<1>6. /\ v.pos[by] \in Nat /\ n \in Nat /\ v.pos[by] <= n /\ n > v.pos[by]
      /\ n \in (v.pos[by] + 1)..Len(Source(t, v.file, log, by))
      /\ n \in 1..Len(Source(t, v.file, log, by))
      /\ v.exported => by = "engine" /\ n = v.pos.engine + 1
    <2>1. v.pos[by] \in Nat
        BY <1>2 DEF Engines
    <2>2. Len(Source(t, v.file, log, by)) \in Nat
        <3>1. SourceOK(t, v.file, log, by)
            BY <1>1, <1>2, Sources
        <3> QED BY <3>1 DEF SourceOK, IsSeq
    <2>3. /\ n \in (v.pos[by] + 1)..Len(Source(t, v.file, log, by))
          /\ v.exported => by = "engine" /\ n = v.pos.engine + 1
        BY DEF LineRead
    <2> QED BY <2>1, <2>2, <2>3
<1>7. /\ RecordOf(t, v.file, v.exported, r) /\ From(t, v.file, r, by, n)
      /\ r.log = log /\ r.uid = e.uid
    <2> DEFINE f == v.file  alone == v.exported  memory == v.cache
    <2>1. /\ f \in Files /\ alone \in BOOLEAN /\ (alone => by = "engine")
          /\ log \in Logs /\ n \in 1..Len(Source(t, f, log, by))
        BY <1>1, <1>2, <1>6
    <2>2. e = Source(t, f, log, by)[n] /\ r = Process(log, e, memory).record
        OBVIOUS
    <2> HIDE DEF f, alone, memory, e, r
    <2>3. RecordOf(t, f, alone, r) /\ From(t, f, r, by, n) /\ r.log = log /\ r.uid = e.uid
        BY <2>1, <2>2, NewRecord
    <2> QED BY <2>3 DEF f, alone
<1>8. ASSUME log = "conn" \/ r.uid \in EngineUids(v.file), NEW i \in 1..Len(seen), OfLog(seen[i], log, r.uid)
      PROVE  FALSE
    <2> HIDE DEF r
    <2> QED BY <1>2, <1>6, <1>7, <1>8, NewLine
<1> HIDE DEF e, r, seen, new
<1>9. /\ Len(seen) \in Nat /\ Len(new) = Len(seen) + 1 /\ IsSeq(new) /\ new[Len(seen) + 1] = r
      /\ \A i \in 1..Len(seen) : new[i] = seen[i] /\ i \in 1..Len(new)
      /\ \A i \in 1..Len(new) : i \in 1..Len(seen) \/ i = Len(seen) + 1
    BY <1>4 DEF Longer
<1>10. Once(v.file, new)
    <2>1. Once(v.file, seen)
        BY <1>1 DEF Records, seen
    <2>2. SUFFICES ASSUME NEW i \in 1..Len(new), NEW k \in 1..Len(new),
                          new[i].log = new[k].log, new[i].uid = new[k].uid,
                          new[i].log = "conn" \/ new[i].uid \in EngineUids(v.file)
                   PROVE  i = k
        BY DEF Once
    <2>3. CASE i \in 1..Len(seen) /\ k \in 1..Len(seen)
        BY <2>1, <2>2, <2>3, <1>9 DEF Once
    <2>4. CASE i \in 1..Len(seen) /\ k = Len(seen) + 1
        <3>1. seen[i].log = log /\ seen[i].uid = r.uid /\ (log = "conn" \/ r.uid \in EngineUids(v.file))
            BY <2>2, <2>4, <1>7, <1>9
        <3> QED BY <2>4, <3>1, <1>8 DEF OfLog
    <2>5. CASE k \in 1..Len(seen) /\ i = Len(seen) + 1
        <3>1. seen[k].log = log /\ seen[k].uid = r.uid /\ (log = "conn" \/ r.uid \in EngineUids(v.file))
            BY <2>2, <2>5, <1>7, <1>9
        <3> QED BY <2>5, <3>1, <1>8 DEF OfLog
    <2> QED BY <2>3, <2>4, <2>5, <1>9
<1>11. ASSUME t \in Legacies
       PROVE  /\ Remembered(w.cache, new)
              /\ log = "conn" => \A x \in Others : Tells(new, Len(seen), e.uid, x, Field(x, r))
    <2>1. \A i \in 1..Len(seen) : log = "conn" => ~OfLog(seen[i], log, e.uid)
        BY <1>7, <1>8
    <2> DEFINE p == Process(log, e, v.cache)
    <2>3. p.record = r /\ p.cache = w.cache /\ OneLine(log, e, v.cache, p)
        BY <1>5 DEF r
    <2> HIDE DEF p
    <2>4. Longer(v.records, p.record, new) /\ IsSeq(v.records)
        BY <1>1, <1>4, <2>3 DEF seen
    <2> QED BY <1>1, <1>2, <1>11, <2>1, <2>3, <2>4, RememberedOn DEF seen
<1>12. t \in Legacies => Enriched(new)
    <2>1. ASSUME t \in Legacies, NEW i \in 1..Len(new), new[i].log = "conn", NEW x \in Others
          PROVE  Tells(new, i - 1, new[i].uid, x, Field(x, new[i]))
        <3>1. CASE i \in 1..Len(seen)
            <4>1. Tells(seen, i - 1, seen[i].uid, x, Field(x, seen[i]))
                BY <1>1, <1>9, <2>1, <3>1 DEF Records, Enriched, seen
            <4>2. i - 1 \in 0..Len(seen)
                BY <3>1, <1>9
            <4>3. Tells(new, i - 1, seen[i].uid, x, Field(x, seen[i]))
                BY <1>4, <4>1, <4>2, TellsOn
            <4> QED BY <1>9, <3>1, <4>3
        <3>2. CASE i = Len(seen) + 1
            <4>1. i - 1 = Len(seen) /\ new[i] = r
                BY <3>2, <1>9
            <4>2. log = "conn" /\ new[i].uid = e.uid
                BY <1>7, <2>1, <4>1
            <4>3. Tells(new, Len(seen), e.uid, x, Field(x, r))
                BY <1>11, <2>1, <4>2
            <4> QED BY <4>1, <4>2, <4>3
        <3> QED BY <1>9, <3>1, <3>2
    <2> QED BY <2>1 DEF Enriched
<1>13. Records(t, w)
    <2>1. \A i \in 1..Len(new) : RecordOf(t, v.file, v.exported, new[i])
        <3>1. \A i \in 1..Len(seen) : RecordOf(t, v.file, v.exported, seen[i])
            BY <1>1 DEF Records, seen
        <3> QED BY <1>7, <1>9, <3>1
    <2>2. v.handled \in 0..Len(new)
        <3>1. v.handled \in 0..Len(seen)
            BY <1>1 DEF Records, seen
        <3> QED BY <1>9, <3>1
    <2> QED BY <1>3, <1>9, <1>10, <1>12, <2>1, <2>2 DEF Records, new
<1>14. /\ w.pos \in [engine : Nat, zeek : Nat] /\ w.pos[by] = n
       /\ \A b \in Engines : w.pos[b] \in Nat /\ v.pos[b] \in Nat /\ v.pos[b] <= w.pos[b]
    <2>1. w.pos \in [engine : Nat, zeek : Nat] /\ w.pos[by] = n /\ \A b \in Engines : b = by \/ w.pos[b] = v.pos[b]
        BY DEF LineRead
    <2> QED BY <1>2, <1>6, <2>1 DEF Engines
<1>15. ASSUME NEW i \in 1..Len(new) PROVE Placed(t, w, log, i)
    <2>1. CASE i \in 1..Len(seen)
        <3>1. Placed(t, v, log, i) /\ w.records[i] = v.records[i]
            BY <1>2, <1>9, <2>1 DEF seen, new
        <3>2. w.file = v.file /\ w.step = v.step /\ (i <= v.handled => i <= w.handled)
            BY <1>3
        <3> QED BY <1>14, <3>1, <3>2, PlacedOn
    <2>2. CASE i = Len(seen) + 1
        <3>1. w.records[i] = r /\ w.file = v.file
            BY <1>3, <1>9, <2>2 DEF new
        <3>2. n \in 1..w.pos[by]
            <4>1. n \in 1..n
                BY <1>6
            <4> QED BY <1>14, <4>1
        <3>3. r.log = log /\ From(t, w.file, r, by, n)
            BY <1>3, <1>7
        <3> QED BY <3>1, <3>2, <3>3 DEF Placed
    <2> QED BY <1>9, <2>1, <2>2
<1>16. w.pos.engine <= Len(EngineLogs[v.file][log])
    <2>1. CASE by = "engine"
        <3>1. w.pos.engine = n
            BY <1>14, <2>1
        <3>2. n <= Len(Source(t, v.file, log, by))
            BY <1>6
        <3> QED BY <2>1, <3>1, <3>2 DEF Source
    <2>2. CASE by # "engine"
        <3>1. w.pos.engine = v.pos.engine
            BY <2>2 DEF LineRead, Engines
        <3> QED BY <1>2, <3>1
    <2> QED BY <2>1, <2>2
<1>17. ASSUME v.exported
       PROVE  /\ \A a \in 1..v.step : Covered(v.file, Order(t)[a], Len(EngineLogs[v.file][Order(t)[a]]), new)
              /\ Covered(v.file, log, w.pos.engine, new)
    <2>1. /\ \A a \in 1..v.step : Covered(v.file, Order(t)[a], Len(EngineLogs[v.file][Order(t)[a]]), seen)
          /\ Covered(v.file, log, v.pos.engine, seen)
        BY <1>1, <1>2, <1>17 DEF Reading, seen
    <2>2. Covered(v.file, log, v.pos.engine, new)
        BY <1>4, <2>1, CoveredOn
    <2>3. by = "engine" /\ n = v.pos.engine + 1 /\ w.pos.engine = n /\ v.pos.engine \in Nat
        <3>1. by = "engine" /\ n = v.pos.engine + 1
            BY <1>6, <1>17
        <3> QED BY <1>2, <1>14, <3>1
    <2>4. EngineLogs[v.file][log][n].uid = r.uid
        BY <1>7, <2>3 DEF e, Source
    <2>5. OfLog(new[Len(new)], log, r.uid) /\ Len(new) \in 1..Len(new)
        <3>1. Len(new) \in 1..Len(new) /\ new[Len(new)] = r
            BY <1>9
        <3> QED BY <1>7, <3>1 DEF OfLog
    <2>6. \A k \in 1..w.pos.engine : k \in 1..v.pos.engine \/ k = n
        BY <2>3
    <2>7. Covered(v.file, log, w.pos.engine, new)
        BY <2>2, <2>4, <2>5, <2>6 DEF Covered
    <2>8. \A a \in 1..v.step : Covered(v.file, Order(t)[a], Len(EngineLogs[v.file][Order(t)[a]]), new)
        BY <1>4, <2>1, CoveredOn
    <2> QED BY <2>7, <2>8
<1>18. t \in Jobs => v.counted = Tally(new, v.handled)
    <2>1. v.handled \in 0..Len(seen)
        BY <1>1 DEF Records, seen
    <2>2. t \in Jobs => v.counted = Tally(seen, v.handled)
        BY <1>1 DEF Reading, seen
    <2> QED BY <1>4, <2>1, <2>2, TallyOn
<1>19. Reading(t, w)
    <2>1. \A i \in 1..Len(w.records) : Placed(t, w, Order(t)[w.step + 1], i)
        BY <1>2, <1>3, <1>15 DEF new
    <2>2. w.step \in 0..2
        BY <1>2, <1>3
    <2>3. w.pos.engine <= Len(EngineLogs[w.file][Order(t)[w.step + 1]])
        BY <1>2, <1>3, <1>16
    <2>4. w.exported =>
              /\ \A a \in 1..w.step : Covered(w.file, Order(t)[a], Len(EngineLogs[w.file][Order(t)[a]]), w.records)
              /\ Covered(w.file, Order(t)[w.step + 1], w.pos.engine, w.records)
        BY <1>2, <1>3, <1>17 DEF new
    <2>5. /\ t \in Jobs => w.counted = Tally(w.records, w.handled)
          /\ t \in Legacies => Remembered(w.cache, w.records)
        BY <1>3, <1>11, <1>18 DEF new
    <2> QED BY <1>3, <1>14, <2>1, <2>2, <2>3, <2>4, <2>5 DEF Reading
<1> QED BY <1>1, <1>3, <1>13, <1>19 DEF Sound, Setup

\* The end of a file.
LEMMA EndOfFileSound ==
    ASSUME NEW t \in Threads, NEW v, Sound(t, v), v.pc = "read", NEW log, log = Order(t)[v.step + 1],
           v.exported => v.pos.engine = Len(EngineLogs[v.file][log]),
           NEW n, n = Len(v.records) - v.handled, NEW total,
           t \in Jobs => total = [flows |-> v.counted.flows + (IF log = "conn" THEN n ELSE 0),
                                  published |-> v.counted.published + n],
           NEW w, w = ReadOn(v, "evaluate", v.cache, v.step, v.pos, v.records, v.handled, total)
    PROVE  Sound(t, w)
<1>1. /\ v.file \in Files /\ v.file # NoFile /\ v.exported \in BOOLEAN /\ Records(t, v) /\ Reading(t, v)
      /\ GoodLogs(v.file, v.exported, v.logs)
    BY DEF Sound
<1>2. /\ w.file = v.file /\ w.pc = "evaluate" /\ w.logs = v.logs /\ w.exported = v.exported
      /\ w.cache = v.cache /\ w.step = v.step /\ w.pos = v.pos /\ w.records = v.records
      /\ w.handled = v.handled /\ w.counted = total
    BY DEF ReadOn
<1>3. Records(t, w)
    BY <1>1, <1>2 DEF Records
<1>4. ASSUME t \in Jobs PROVE total = Tally(v.records, Len(v.records))
    <2>1. /\ Len(v.records) \in Nat /\ v.handled \in 0..Len(v.records)
          /\ \A i \in 1..Len(v.records) : i <= v.handled \/ v.records[i].log = log
        BY <1>1 DEF Records, IsSeq, Reading, Placed
    <2>2. Tally(v.records, Len(v.records)) =
              [flows |-> Conns(v.records, v.handled) + (IF log = "conn" THEN n ELSE 0),
               published |-> v.handled + n]
        BY <2>1, TallyOfFile
    <2>3. v.counted = [flows |-> Conns(v.records, v.handled), published |-> v.handled]
        BY <1>1, <1>4 DEF Reading, Tally
    <2> QED BY <1>4, <2>2, <2>3
<1>5. ASSUME NEW i \in 1..Len(w.records) PROVE Placed(t, w, log, i)
    <2>1. Placed(t, v, log, i)
        BY <1>1, <1>2, <1>5 DEF Reading
    <2> QED BY <1>2, <2>1 DEF Placed
<1>6. Reading(t, w)
    BY <1>1, <1>2, <1>4, <1>5 DEF Reading
<1> QED BY <1>1, <1>2, <1>3, <1>6 DEF Sound, Setup

\* A record is evaluated.
LEMMA EvaluateSound ==
    ASSUME NEW t \in Threads, NEW v, Sound(t, v), v.pc = "evaluate", v.handled < Len(v.records),
           NEW w, w = ReadOn(v, "evaluate", v.cache, v.step, v.pos, v.records, v.handled + 1, v.counted)
    PROVE  Sound(t, w)
<1>1. /\ v.file \in Files /\ v.file # NoFile /\ v.exported \in BOOLEAN /\ Records(t, v) /\ Reading(t, v)
      /\ GoodLogs(v.file, v.exported, v.logs)
    BY DEF Sound
<1>2. /\ w.file = v.file /\ w.pc = "evaluate" /\ w.logs = v.logs /\ w.exported = v.exported
      /\ w.cache = v.cache /\ w.step = v.step /\ w.pos = v.pos /\ w.records = v.records
      /\ w.handled = v.handled + 1 /\ w.counted = v.counted
    BY DEF ReadOn
<1>3. Len(v.records) \in Nat /\ v.handled \in 0..Len(v.records)
    BY <1>1 DEF Records, IsSeq
<1>4. v.handled + 1 \in 0..Len(v.records)
    BY <1>3
<1>5. Records(t, w)
    BY <1>1, <1>2, <1>4 DEF Records
<1>6. ASSUME NEW i \in 1..Len(w.records) PROVE Placed(t, w, Order(t)[v.step + 1], i)
    <2>1. Placed(t, v, Order(t)[v.step + 1], i)
        BY <1>1, <1>2, <1>6 DEF Reading
    <2>2. i <= v.handled => i <= w.handled
        BY <1>2, <1>3
    <2> QED BY <1>2, <2>1, <2>2 DEF Placed
<1>7. Reading(t, w)
    BY <1>1, <1>2, <1>6 DEF Reading
<1> QED BY <1>1, <1>2, <1>5, <1>7 DEF Sound, Setup

\* The next file, or the end.
LEMMA NextFileSound ==
    ASSUME NEW t \in Threads, NEW v, Sound(t, v), v.pc = "evaluate", v.handled = Len(v.records),
           NEW w, w = ReadOn(v, IF v.step < 2 THEN "read" ELSE "done", v.cache, v.step + 1, Top,
                             v.records, v.handled, v.counted)
    PROVE  Sound(t, w)
<1> DEFINE log == Order(t)[v.step + 1]  seen == v.records
<1>1. /\ v.file \in Files /\ v.file # NoFile /\ v.exported \in BOOLEAN /\ Records(t, v) /\ Reading(t, v)
      /\ GoodLogs(v.file, v.exported, v.logs) /\ Len(seen) \in Nat
    BY DEF Sound, Records, IsSeq
<1>2. /\ w.file = v.file /\ w.pc = (IF v.step < 2 THEN "read" ELSE "done") /\ w.logs = v.logs
      /\ w.exported = v.exported /\ w.cache = v.cache /\ w.step = v.step + 1 /\ w.pos = Top
      /\ w.records = seen /\ w.handled = v.handled /\ w.counted = v.counted
    BY DEF ReadOn
<1>3. Records(t, w)
    BY <1>1, <1>2 DEF Records
<1>4. v.step \in 0..2 /\ log \in Logs
    BY <1>1, OrderProperties DEF Reading
<1>5. \A i \in 1..Len(seen) : \E a \in 1..(v.step + 1) : seen[i].log = Order(t)[a]
    <2>1. ASSUME NEW i \in 1..Len(seen) PROVE \E a \in 1..(v.step + 1) : seen[i].log = Order(t)[a]
        <3>1. seen[i].log = log \/ \E a \in 1..v.step : seen[i].log = Order(t)[a]
            BY <1>1, <2>1 DEF Reading, Placed
        <3>2. v.step + 1 \in 1..(v.step + 1) /\ \A a \in 1..v.step : a \in 1..(v.step + 1)
            BY <1>4
        <3> QED BY <3>1, <3>2
    <2> QED BY <2>1
<1>6. v.exported =>
          \A a \in 1..(v.step + 1) : Covered(v.file, Order(t)[a], Len(EngineLogs[v.file][Order(t)[a]]), seen)
    <2>1. v.exported => /\ \A a \in 1..v.step : Covered(v.file, Order(t)[a], Len(EngineLogs[v.file][Order(t)[a]]), seen)
                        /\ Covered(v.file, log, Len(EngineLogs[v.file][log]), seen)
        BY <1>1 DEF Reading
    <2>2. \A a \in 1..(v.step + 1) : a \in 1..v.step \/ a = v.step + 1
        BY <1>4
    <2> QED BY <2>1, <2>2
<1>7. t \in Jobs => v.counted = Tally(seen, v.handled)
    BY <1>1 DEF Reading
<1>8. t \in Legacies => Remembered(v.cache, seen)
    BY <1>1 DEF Reading
<1>9. ASSUME v.step < 2 PROVE Reading(t, w)
    <2> DEFINE next2 == Order(t)[(v.step + 1) + 1]
    <2>1. v.step + 1 \in 0..2 /\ \A a \in 1..(v.step + 1) : Order(t)[a] # next2
        <3>1. v.step + 1 \in 0..2 /\ (v.step + 1) + 1 \in 1..3
              /\ \A a \in 1..(v.step + 1) : a \in 1..3 /\ a # (v.step + 1) + 1
            BY <1>4, <1>9
        <3> QED BY <3>1, OrderProperties
    <2>2. ASSUME NEW i \in 1..Len(w.records) PROVE Placed(t, w, next2, i)
        <3>1. i \in 1..Len(seen) /\ w.records[i] = seen[i] /\ i <= w.handled
            BY <1>1, <1>2, <2>2
        <3>2. PICK a \in 1..(v.step + 1) : seen[i].log = Order(t)[a]
            BY <1>5, <3>1
        <3>3. seen[i].log # next2 /\ \E b \in 1..w.step : seen[i].log = Order(t)[b]
            BY <1>2, <2>1, <3>2
        <3> HIDE DEF seen, next2
        <3> QED BY <3>1, <3>3 DEF Placed
    <2>3. Top \in [engine : Nat, zeek : Nat] /\ Top.engine = 0
        BY DEF Top
    <2>4. Len(EngineLogs[v.file][next2]) \in Nat
        <3>1. next2 \in Logs
            BY <2>1, OrderProperties
        <3> QED BY <1>1, <3>1, EmptyLogs
    <2>5. Covered(v.file, next2, 0, seen)
        <3>1. 1..0 = {}
            OBVIOUS
        <3> QED BY <3>1 DEF Covered
    <2>6. w.pc = "read"
        BY <1>2, <1>9
    <2>7. \A i \in 1..Len(w.records) : Placed(t, w, Order(t)[w.step + 1], i)
        BY <1>2, <2>2
    <2>8. /\ w.step \in 0..2 /\ w.pos \in [engine : Nat, zeek : Nat]
          /\ w.pos.engine <= Len(EngineLogs[w.file][Order(t)[w.step + 1]])
        BY <1>2, <2>1, <2>3, <2>4
    <2>9. w.exported =>
              /\ \A a \in 1..w.step : Covered(w.file, Order(t)[a], Len(EngineLogs[w.file][Order(t)[a]]), w.records)
              /\ Covered(w.file, Order(t)[w.step + 1], w.pos.engine, w.records)
        BY <1>2, <1>6, <2>3, <2>5
    <2>10. /\ t \in Jobs => w.counted = Tally(w.records, w.handled)
           /\ t \in Legacies => Remembered(w.cache, w.records)
        BY <1>2, <1>7, <1>8
    <2> QED BY <2>6, <2>7, <2>8, <2>9, <2>10 DEF Reading
<1>10. ASSUME ~(v.step < 2) PROVE Through(t, w)
    <2>1. v.step + 1 = 3
        BY <1>4, <1>10
    <2>2. v.exported => All(v.file, seen)
        <3>1. ASSUME v.exported, NEW l \in Logs PROVE Covered(v.file, l, Len(EngineLogs[v.file][l]), seen)
            <4>1. PICK a \in 1..3 : Order(t)[a] = l
                BY OrderProperties
            <4>2. a \in 1..(v.step + 1)
                BY <2>1
            <4> QED BY <1>6, <3>1, <4>1, <4>2
        <3> QED BY <3>1 DEF All
    <2> HIDE DEF seen, log
    <2> QED BY <1>2, <1>7, <2>2 DEF Through, seen
<1>11. CASE v.step < 2
    BY <1>1, <1>2, <1>3, <1>9, <1>11 DEF Sound, Setup
<1>12. CASE ~(v.step < 2)
    BY <1>1, <1>2, <1>3, <1>10, <1>12 DEF Sound, Setup
<1> QED BY <1>11, <1>12

\* The replay ends.
LEMMA OverSound ==
    ASSUME NEW t \in Threads, NEW v, Sound(t, v), v.pc # "idle", NEW w, w = Over(v)
    PROVE  Sound(t, w)
<1>1. v.file \in Files \cup {NoFile} /\ v.file # NoFile /\ v.exported \in BOOLEAN /\ Records(t, v)
    BY DEF Sound
<1>2. /\ w.file = v.file /\ w.pc = "idle" /\ w.logs = Empty /\ w.exported = v.exported
      /\ w.cache = NoCache /\ w.step = 0 /\ w.pos = Top /\ w.records = v.records
      /\ w.handled = v.handled /\ w.counted = Zero
    BY DEF Over
<1>3. Records(t, w) /\ Reset(w)
    BY <1>1, <1>2 DEF Records, Reset
<1> QED BY <1>1, <1>2, <1>3 DEF Sound, Setup
----------------------------------------------------------------------------
(* The steps of the replays.  Each changes the part of the state that is   *)
(* of one thread, and no other's.                                          *)

Owned ==
    /\ DOMAIN file = Threads /\ DOMAIN pc = Threads /\ DOMAIN logs = Threads /\ DOMAIN exported = Threads
    /\ DOMAIN cache = Threads /\ DOMAIN step = Threads /\ DOMAIN pos = Threads
    /\ DOMAIN records = Threads /\ DOMAIN handled = Threads /\ DOMAIN counted = Jobs

DataInv == StoreInv /\ Owned /\ ReplayInv

Becomes(t, w) == /\ Owned' /\ View(t)' = w
                 /\ \A u \in Threads : u # t => View(u)' = View(u)

\* No other job's report changes, and that of the thread is of no end, or true.
Told(t) ==
    \A j \in Jobs :
        IF j # t THEN status'[j] = status[j] /\ totals'[j] = totals[j]
        ELSE \/ status'[j] \in {"queued", "processing", "failed"}
             \/ Reported(file'[j], records'[j], handled'[j], totals'[j], exported'[j]) /\ status'[j] = "completed"

LEMMA ViewIs ==
    ASSUME NEW t
    PROVE  /\ View(t).file = file[t] /\ View(t).pc = pc[t] /\ View(t).logs = logs[t]
           /\ View(t).exported = exported[t] /\ View(t).cache = cache[t] /\ View(t).step = step[t]
           /\ View(t).pos = pos[t] /\ View(t).records = records[t] /\ View(t).handled = handled[t]
           /\ View(t).counted = IF t \in Jobs THEN counted[t] ELSE Zero
BY DEF View

LEMMA Kept ==
    ASSUME ReplayInv, NEW t \in Threads, NEW w, Becomes(t, w), Sound(t, w), Told(t)
    PROVE  Owned' /\ ReplayInv'
<1>1. ASSUME NEW u \in Threads PROVE Sound(u, View(u))'
    <2>1. CASE u = t
        <3>1. View(u)' = w
            BY <2>1 DEF Becomes
        <3>2. Sound(u, w)
            BY <2>1
        <3> QED BY <3>1, <3>2
    <2>2. CASE u # t
        <3>1. View(u)' = View(u)
            BY <2>2 DEF Becomes
        <3>2. Sound(u, View(u))
            BY DEF ReplayInv
        <3> QED BY <3>1, <3>2
    <2> QED BY <2>1, <2>2
<1>2. ASSUME NEW j \in Jobs
      PROVE  /\ status'[j] = "none" => file'[j] = NoFile
             /\ status'[j] = "completed" => Reported(file'[j], records'[j], handled'[j], totals'[j], exported'[j])
    <2>1. CASE j = t
        BY <2>1 DEF Told
    <2>2. CASE j # t
        <3>1. View(j)' = View(j)
            BY <2>2 DEF Becomes, Threads
        <3>2. file'[j] = file[j] /\ records'[j] = records[j] /\ handled'[j] = handled[j] /\ exported'[j] = exported[j]
            BY <3>1 DEF View
        <3> QED BY <2>2, <3>2 DEF Told, ReplayInv
    <2> QED BY <2>1, <2>2
<1>3. ReplayInv'
    BY <1>1, <1>2 DEF ReplayInv
<1> QED BY <1>3 DEF Becomes

\* A thread at its work.
LEMMA AtWork ==
    ASSUME DataInv, NEW t \in Threads, pc[t] # "idle"
    PROVE  /\ Owned /\ ReplayInv /\ StoreInv /\ Sound(t, View(t)) /\ file[t] \in Files
           /\ exported[t] \in BOOLEAN /\ GoodLogs(file[t], exported[t], logs[t])
<1>1. Owned /\ ReplayInv /\ StoreInv /\ Sound(t, View(t))
    BY DEF DataInv, ReplayInv
<1>2. View(t).file \in Files /\ View(t).exported \in BOOLEAN /\ GoodLogs(View(t).file, View(t).exported, View(t).logs)
    <2>1. View(t).pc # "idle"
        BY ViewIs
    <2> QED BY <1>1, <2>1 DEF Sound
<1> QED BY <1>1, <1>2, ViewIs

LEMMA ToldAtWork ==
    ASSUME StoreInv, NEW t \in Threads, Continues(t), totals' = totals
    PROVE  Told(t)
<1>1. \A j \in Jobs : j = t => status'[j] = "processing"
    <2>1. ASSUME NEW j \in Jobs, j = t PROVE status'[j] = "processing"
        <3>1. InStep(j) /\ pc[j] \in Working /\ status' = status
            BY <2>1 DEF StoreInv, Continues
        <3> QED BY <3>1 DEF InStep, Working
    <2> QED BY <2>1
<1> QED BY <1>1 DEF Told, Continues

LEMMA AskKeeps ==
    ASSUME DataInv, NEW t \in Threads, NEW f \in Files, file[t] = NoFile,
           file' = [file EXCEPT ![t] = f], pc' = [pc EXCEPT ![t] = "begin"],
           UNCHANGED <<totals, data>>, Told(t)
    PROVE  Owned' /\ ReplayInv'
<1>1. Owned /\ ReplayInv /\ Sound(t, View(t))
    BY DEF DataInv, ReplayInv
<1>2. pc[t] = "idle"
    BY <1>1, ViewIs DEF Sound
<1> DEFINE w == Moved(View(t), f, "begin", logs[t], exported[t])
<1>3. Becomes(t, w)
    BY <1>1 DEF Becomes, Owned, View, Moved, data
<1>4. Sound(t, w)
    <2>1. w = Moved(View(t), f, "begin", View(t).logs, View(t).exported)
        BY ViewIs
    <2> HIDE DEF w
    <2> QED BY <1>1, <1>2, <2>1, ViewIs, AskedSound
<1> HIDE DEF w
<1> QED BY <1>1, <1>3, <1>4, Kept

LEMMA TriggerKeeps ==
    ASSUME DataInv, NEW j \in Jobs, Trigger(j)
    PROVE  Owned' /\ ReplayInv'
<1>1. PICK f \in Files : file' = [file EXCEPT ![j] = f]
    BY DEF Trigger
<1>2. /\ status[j] = "none" /\ status' = [status EXCEPT ![j] = "queued"]
      /\ pc' = [pc EXCEPT ![j] = "begin"] /\ UNCHANGED <<totals, data>>
    BY DEF Trigger, Goto
<1>3. j \in Threads /\ file[j] = NoFile
    BY <1>2 DEF Threads, DataInv, ReplayInv
<1>4. Told(j)
    BY <1>2 DEF Told, DataInv, StoreInv
<1> QED BY <1>1, <1>2, <1>3, <1>4, AskKeeps

LEMMA RequestKeeps ==
    ASSUME DataInv, NEW l \in Legacies, Request(l)
    PROVE  Owned' /\ ReplayInv'
<1>1. PICK f \in Files : file' = [file EXCEPT ![l] = f]
    BY DEF Request
<1>2. /\ file[l] = NoFile /\ pc' = [pc EXCEPT ![l] = "begin"]
      /\ UNCHANGED <<status, totals, data>>
    BY DEF Request, Goto
<1>3. l \in Threads /\ l \notin Jobs
    BY ReplayAssumption DEF Threads
<1>4. Told(l)
    BY <1>2, <1>3 DEF Told
<1> QED BY <1>1, <1>2, <1>3, <1>4, AskKeeps

\* A step on the way to the logs.
Moves(t) ==
    /\ pc[t] \in Setup
    /\ \E p \in Setup, alone \in BOOLEAN : \E g :
          /\ p = "ship" \/ ~alone
          /\ GoodLogs(file[t], alone, g)
          /\ Becomes(t, Moved(View(t), file[t], p, g, alone))
    /\ Told(t)

LEMMA MovesKeep ==
    ASSUME DataInv, NEW t \in Threads, Moves(t)
    PROVE  Owned' /\ ReplayInv'
<1>1. PICK p \in Setup, alone \in BOOLEAN : \E g :
          /\ p = "ship" \/ ~alone
          /\ GoodLogs(file[t], alone, g)
          /\ Becomes(t, Moved(View(t), file[t], p, g, alone))
    BY DEF Moves
<1>2. PICK g : /\ p = "ship" \/ ~alone
               /\ GoodLogs(file[t], alone, g)
               /\ Becomes(t, Moved(View(t), file[t], p, g, alone))
    BY <1>1
<1>3. ReplayInv /\ Sound(t, View(t)) /\ View(t).pc \in Setup
    BY ViewIs DEF DataInv, ReplayInv, Moves
<1>4. Sound(t, Moved(View(t), file[t], p, g, alone))
    <2>1. View(t).file = file[t]
        BY ViewIs
    <2> DEFINE v == View(t)  w == Moved(View(t), file[t], p, g, alone)
    <2>2. Sound(t, v) /\ v.pc \in Setup /\ GoodLogs(v.file, alone, g) /\ w = Moved(v, v.file, p, g, alone)
        BY <1>2, <1>3, <2>1
    <2> HIDE DEF v, w
    <2>3. Sound(t, w)
        BY <1>2, <2>2, MovedSound
    <2> QED BY <2>3 DEF w
<1>5. Told(t)
    BY DEF Moves
<1> QED BY <1>2, <1>3, <1>4, <1>5, Kept

\* What the step writes, and what follows from it.
Sets(new, old, t, x) == /\ DOMAIN new = Threads /\ new[t] = x
                        /\ \A u \in Threads : u # t => new[u] = old[u]

MovedTo(t, p, g, alone) ==
    /\ pc' = [pc EXCEPT ![t] = p]
    /\ Sets(logs', logs, t, g) /\ Sets(exported', exported, t, alone)
    /\ UNCHANGED <<totals, file, cache, step, pos, records, handled, counted>>

LEMMA MovedToKeeps ==
    ASSUME DataInv, NEW t \in Threads, pc[t] \in Setup, NEW p \in Setup, NEW alone \in BOOLEAN, NEW g,
           p = "ship" \/ ~alone, GoodLogs(file[t], alone, g), MovedTo(t, p, g, alone), Told(t)
    PROVE  Owned' /\ ReplayInv'
<1>1. Owned
    BY DEF DataInv
<1>2. Becomes(t, Moved(View(t), file[t], p, g, alone))
    BY <1>1 DEF Becomes, Owned, View, Moved, MovedTo, Sets
<1>3. Moves(t)
    BY <1>2 DEF Moves
<1> QED BY <1>3, MovesKeep

\* Where the logs stay what they are.
LEMMA StaysKeeps ==
    ASSUME DataInv, NEW t \in Threads, pc[t] \in Setup \ {"ship"}, NEW p \in Setup,
           pc' = [pc EXCEPT ![t] = p], UNCHANGED <<totals, file, data>>, Told(t)
    PROVE  Owned' /\ ReplayInv'
<1>1. /\ pc[t] # "idle" /\ pc[t] \in Setup
      /\ Owned /\ Sound(t, View(t)) /\ exported[t] = FALSE
      /\ GoodLogs(file[t], exported[t], logs[t])
    <2>1. pc[t] # "idle"
        BY DEF Setup
    <2> QED BY <2>1, AtWork, ViewIs DEF Sound
<1>2. Sets(logs', logs, t, logs[t]) /\ Sets(exported', exported, t, FALSE)
    BY <1>1 DEF data, Owned, Sets
<1>3. MovedTo(t, p, logs[t], FALSE)
    BY <1>2 DEF MovedTo, data
<1> QED BY <1>1, <1>3, MovedToKeeps

LEMMA BeginKeeps ==
    ASSUME DataInv, NEW t \in Threads, Begin(t)
    PROVE  Owned' /\ ReplayInv'
<1>1. /\ pc[t] \in Setup \ {"ship"} /\ UNCHANGED <<totals, file, data>>
      /\ \E p \in Setup : pc' = [pc EXCEPT ![t] = p]
      /\ status' = [j \in Jobs |-> IF j = t THEN "processing" ELSE status[j]]
    BY DEF Begin, Goto, Setup
<1>2. Told(t)
    BY <1>1 DEF Told
<1> QED BY <1>1, <1>2, StaysKeeps

LEMMA WaitsKeep ==
    ASSUME DataInv, NEW t \in Threads, RemoveContainer(t) \/ GiveUp(t) \/ Finished(t)
    PROVE  Owned' /\ ReplayInv'
<1>1. pc[t] \in Setup \ {"ship"} /\ UNCHANGED <<totals, file, data>>
      /\ \E p \in Setup : pc' = [pc EXCEPT ![t] = p]
    <2>1. CASE RemoveContainer(t)
        BY <2>1 DEF RemoveContainer, Goto, Setup
    <2>2. CASE GiveUp(t)
        BY <2>2 DEF GiveUp, Goto, Setup, setup
    <2>3. CASE Finished(t)
        <3>1. pc' = [pc EXCEPT ![t] = IF t \in Jobs THEN "native" ELSE "ship"]
            BY <2>3 DEF Finished, Goto
        <3>2. \E p \in Setup : pc' = [pc EXCEPT ![t] = p]
            BY <3>1 DEF Setup
        <3> QED BY <2>3, <3>2 DEF Finished, Setup
    <2> QED BY <2>1, <2>2, <2>3
<1>2. Told(t)
    BY <1>1, Works, ToldAtWork DEF DataInv
<1> QED BY <1>1, <1>2, StaysKeeps

LEMMA RunKeeps ==
    ASSUME DataInv, NEW t \in Threads, Run(t)
    PROVE  Owned' /\ ReplayInv'
<1>1. pc[t] = "run" /\ Told(t)
    BY Works, ToldAtWork DEF Run, DataInv
<1>2. CASE UNCHANGED logs
    <2>1. UNCHANGED <<totals, file, data>> /\ \E p \in Setup : pc' = [pc EXCEPT ![t] = p]
        BY <1>2 DEF Run, Goto, Setup, data
    <2> QED BY <1>1, <2>1, StaysKeeps DEF Setup
<1>3. CASE ~ UNCHANGED logs
    <2> DEFINE g == [l \in Logs |-> [logs[t][l] EXCEPT !.zeek = TRUE]]
    <2>1. /\ Owned /\ Sound(t, View(t)) /\ exported[t] = FALSE /\ file[t] \in Files
          /\ GoodLogs(file[t], exported[t], logs[t])
        BY <1>1, AtWork, ViewIs DEF Sound, Setup
    <2>2. logs' = [logs EXCEPT ![t] = g] /\ pc' = [pc EXCEPT ![t] = "wait"]
          /\ UNCHANGED <<totals, file, cache, step, pos, records, handled, counted, exported>>
        BY <1>3 DEF Run, Goto
    <2>3. GoodLogs(file[t], FALSE, g)
        <3>1. ASSUME NEW l \in Logs PROVE g[l] \in [engine : Nat, zeek : BOOLEAN] /\ g[l].engine = logs[t][l].engine
            <4>1. logs[t][l] \in [engine : Nat, zeek : BOOLEAN]
                BY <2>1 DEF GoodLogs
            <4> QED BY <4>1
        <3> HIDE DEF g
        <3> QED BY <2>1, <3>1 DEF GoodLogs
    <2>4. Sets(logs', logs, t, g) /\ Sets(exported', exported, t, FALSE)
        <3> HIDE DEF g
        <3> QED BY <2>1, <2>2 DEF Owned, Sets
    <2> HIDE DEF g
    <2>5. MovedTo(t, "wait", g, FALSE)
        BY <2>2, <2>4 DEF MovedTo
    <2>6. pc[t] \in Setup /\ "wait" \in Setup
        BY <1>1 DEF Setup
    <2> QED BY <1>1, <2>3, <2>5, <2>6, MovedToKeeps
<1> QED BY <1>2, <1>3

\* What the PCAP engine leaves, done or not.
LEMMA NativeLogs ==
    ASSUME NEW t, file[t] \in Files, GoodLogs(file[t], FALSE, logs[t])
    PROVE  /\ GoodLogs(file[t], container # t, Written(t, Logs, Whole(t)))
           /\ \A g \in Begun(t) : GoodLogs(file[t], FALSE, g)
<1>1. \A l \in Logs : Len(EngineLogs[file[t]][l]) \in Nat /\ Whole(t)[l] = Len(EngineLogs[file[t]][l])
    BY EmptyLogs DEF Whole
<1>2. ASSUME NEW opened, NEW n, NEW l \in Logs
      PROVE  /\ l \in opened => Written(t, opened, n)[l] = [engine |-> n[l], zeek |-> container = t]
             /\ l \notin opened => Written(t, opened, n)[l] = logs[t][l]
    BY DEF Written
<1>3. GoodLogs(file[t], container # t, Written(t, Logs, Whole(t)))
    <2>1. ASSUME NEW l \in Logs
          PROVE  /\ Written(t, Logs, Whole(t))[l] \in [engine : Nat, zeek : BOOLEAN]
                 /\ Written(t, Logs, Whole(t))[l].engine = Len(EngineLogs[file[t]][l])
                 /\ container # t => ~Written(t, Logs, Whole(t))[l].zeek
        <3>1. Written(t, Logs, Whole(t))[l] = [engine |-> Whole(t)[l], zeek |-> (container = t)]
            BY <1>2
        <3>2. Whole(t)[l] \in Nat /\ Whole(t)[l] = Len(EngineLogs[file[t]][l]) /\ (container = t) \in BOOLEAN
            BY <1>1
        <3> DEFINE m == Whole(t)[l]  z == (container = t)  r == Written(t, Logs, Whole(t))[l]
        <3>3. m \in Nat /\ z \in BOOLEAN /\ r = [engine |-> m, zeek |-> z]
            BY <3>1, <3>2
        <3> HIDE DEF m, z, r
        <3>4. r \in [engine : Nat, zeek : BOOLEAN] /\ r.engine = m /\ (r.zeek <=> z)
            BY <3>3
        <3> QED BY <3>2, <3>4 DEF m, z, r
    <2> QED BY <1>1, <2>1 DEF GoodLogs
<1>4. ASSUME NEW opened, NEW n, \A l \in Logs : n[l] \in 0..Whole(t)[l]
      PROVE  GoodLogs(file[t], FALSE, Written(t, opened, n))
    <2>1. ASSUME NEW l \in Logs
          PROVE  /\ Written(t, opened, n)[l] \in [engine : Nat, zeek : BOOLEAN]
                 /\ Written(t, opened, n)[l].engine <= Len(EngineLogs[file[t]][l])
        <3>1. CASE l \in opened
            <4>1. Written(t, opened, n)[l] = [engine |-> n[l], zeek |-> (container = t)]
                BY <1>2, <3>1
            <4>2. (container = t) \in BOOLEAN
                OBVIOUS
            <4>3. n[l] \in Nat /\ n[l] <= Len(EngineLogs[file[t]][l])
                BY <1>1, <1>4
            <4> QED BY <4>1, <4>2, <4>3
        <3>2. CASE l \notin opened
            <4>1. Written(t, opened, n)[l] = logs[t][l]
                BY <1>2, <3>2
            <4> QED BY <4>1 DEF GoodLogs
        <3> QED BY <3>1, <3>2
    <2> QED BY <2>1 DEF GoodLogs
<1>5. ASSUME NEW g \in Begun(t) PROVE GoodLogs(file[t], FALSE, g)
    <2>1. CASE g = logs[t]
        BY <2>1
    <2>2. ASSUME NEW opened \in {{"conn"}, {"conn", "dns"}}, g = Written(t, opened, [l \in Logs |-> 0])
          PROVE  GoodLogs(file[t], FALSE, g)
        <3>1. \A l \in Logs : [x \in Logs |-> 0][l] \in 0..Whole(t)[l]
            BY <1>1
        <3> QED BY <1>4, <2>2, <3>1
    <2>3. ASSUME NEW n \in [Logs -> 0..Whole(t)["conn"]], \A l \in Logs : n[l] <= Whole(t)[l],
                 g = Written(t, Logs, n)
          PROVE  GoodLogs(file[t], FALSE, g)
        <3>1. \A l \in Logs : n[l] \in 0..Whole(t)[l]
            <4>1. "conn" \in Logs
                BY DEF Logs
            <4> QED BY <1>1, <2>3, <4>1
        <3> QED BY <1>4, <2>3, <3>1
    <2> QED BY <2>1, <2>2, <2>3, <1>5 DEF Begun
<1> QED BY <1>3, <1>5

LEMMA NativeKeeps ==
    ASSUME DataInv, NEW t \in Threads, Native(t)
    PROVE  Owned' /\ ReplayInv'
<1>1. pc[t] = "native" /\ Told(t)
    BY Works, ToldAtWork DEF Native, DataInv, setup
<1>2. /\ Owned /\ Sound(t, View(t)) /\ exported[t] = FALSE /\ file[t] \in Files
      /\ GoodLogs(file[t], FALSE, logs[t])
    BY <1>1, AtWork, ViewIs DEF Sound, Setup
<1>3. /\ pc' = [pc EXCEPT ![t] = "ship"]
      /\ UNCHANGED <<totals, file, cache, step, pos, records, handled, counted>>
    BY DEF Native, Goto, setup
<1>4. pc[t] \in Setup /\ "ship" \in Setup
    BY <1>1 DEF Setup
<1>5. CASE /\ logs' = [logs EXCEPT ![t] = Written(t, Logs, Whole(t))]
           /\ exported' = [exported EXCEPT ![t] = container # t]
    <2>1. MovedTo(t, "ship", Written(t, Logs, Whole(t)), container # t)
        BY <1>2, <1>3, <1>5 DEF MovedTo, Sets, Owned
    <2>2. (container # t) \in BOOLEAN /\ GoodLogs(file[t], container # t, Written(t, Logs, Whole(t)))
        BY <1>2, NativeLogs
    <2> QED BY <1>1, <1>4, <2>1, <2>2, MovedToKeeps
<1>6. CASE (\E g \in Begun(t) : logs' = [logs EXCEPT ![t] = g]) /\ UNCHANGED exported
    <2>1. PICK g \in Begun(t) : logs' = [logs EXCEPT ![t] = g]
        BY <1>6
    <2>2. Sets(logs', logs, t, g) /\ Sets(exported', exported, t, FALSE)
        BY <1>2, <1>6, <2>1 DEF Owned, Sets
    <2>3. MovedTo(t, "ship", g, FALSE)
        BY <1>3, <2>1, <2>2 DEF MovedTo
    <2>4. GoodLogs(file[t], FALSE, g)
        BY <1>2, NativeLogs
    <2> QED BY <1>1, <1>4, <2>3, <2>4, MovedToKeeps
<1> QED BY <1>5, <1>6 DEF Native

\* A step of the shipper.
LEMMA WorkDone ==
    ASSUME DataInv, NEW t \in Threads, pc[t] \in {"ship", "read", "evaluate"}, Continues(t), totals' = totals,
           NEW w, Becomes(t, w), Sound(t, w)
    PROVE  Owned' /\ ReplayInv'
<1>1. Told(t) /\ ReplayInv
    BY ToldAtWork DEF DataInv
<1> QED BY <1>1, Kept

LEMMA ShipKeeps ==
    ASSUME DataInv, NEW t \in Threads, Ship(t)
    PROVE  Owned' /\ ReplayInv'
<1> DEFINE v == View(t)  w == Moved(v, v.file, "read", v.logs, v.exported)
<1>1. pc[t] = "ship" /\ Continues(t) /\ totals' = totals
    BY Works DEF Ship, DataInv, setup
<1>2. Owned /\ Sound(t, v) /\ v.pc = "ship"
    BY <1>1, AtWork, ViewIs
<1>3. Becomes(t, w)
    <2>1. /\ pc' = [pc EXCEPT ![t] = "read"]
          /\ UNCHANGED <<file, logs, exported, cache, step, pos, records, handled, counted>>
        BY DEF Ship, Goto, setup
    <2> QED BY <1>2, <2>1 DEF Becomes, Owned, View, Moved
<1> HIDE DEF v
<1>4. Sound(t, w)
    BY <1>2, ShipSound
<1> HIDE DEF w
<1> QED BY <1>1, <1>3, <1>4, WorkDone

\* What the lines that may come next are.
LEMMA NextLines ==
    ASSUME DataInv, NEW t \in Threads, pc[t] = "read"
    PROVE  /\ \A by \in Engines : Lines(t)[by] = Source(t, file[t], Log(t), by)
           /\ \A by \in Engines : \A n \in Ahead(t, by) :
                 /\ n \in (pos[t][by] + 1)..Len(Source(t, file[t], Log(t), by))
                 /\ exported[t] => by = "engine" /\ n = pos[t].engine + 1
           /\ (Ahead(t, "engine") = {} \/ logs[t][Log(t)].zeek) /\ exported[t] =>
                 pos[t].engine = Len(EngineLogs[file[t]][Log(t)])
<1> DEFINE log == Log(t)  f == file[t]
<1>1. /\ Owned /\ Sound(t, View(t)) /\ f \in Files /\ GoodLogs(f, exported[t], logs[t])
      /\ log \in Logs /\ step[t] \in 0..2
      /\ pos[t] \in [engine : Nat, zeek : Nat] /\ pos[t].engine <= Len(EngineLogs[f][log])
    <2>1. /\ Owned /\ Sound(t, View(t)) /\ f \in Files /\ GoodLogs(f, exported[t], logs[t])
          /\ View(t).pc = "read"
        BY AtWork, ViewIs
    <2>2. Reading(t, View(t))
        BY <2>1 DEF Sound
    <2>3. step[t] \in 0..2 /\ pos[t] \in [engine : Nat, zeek : Nat]
          /\ pos[t].engine <= Len(EngineLogs[f][Order(t)[step[t] + 1]])
        BY <2>2, ViewIs DEF Reading
    <2> QED BY <2>1, <2>3, OrderProperties DEF Log
<1>2. /\ logs[t][log].engine \in Nat /\ logs[t][log].engine <= Len(EngineLogs[f][log])
      /\ exported[t] => logs[t][log].engine = Len(EngineLogs[f][log]) /\ ~logs[t][log].zeek
    BY <1>1 DEF GoodLogs
<1>3. /\ Lines(t)["engine"] = EngineLogs[f][log] /\ Lines(t)["zeek"] = Zeek[Given(t)][log]
      /\ Given(t) = GivenFor(t, f)
    BY DEF Lines, Given, GivenFor
<1>4. \A by \in Engines : Lines(t)[by] = Source(t, f, log, by)
    BY <1>3 DEF Source, Engines
<1>5. \A by \in Engines : /\ pos[t][by] \in Nat
                          /\ Len(Source(t, f, log, by)) \in Nat
    <2>1. \A by \in Engines : Len(Source(t, f, log, by)) \in Nat
        BY <1>1, Sources DEF SourceOK, IsSeq
    <2> QED BY <1>1, <2>1 DEF Engines
<1> HIDE DEF log, f
<1>6. ASSUME NEW by \in Engines, NEW n \in Ahead(t, by)
      PROVE  /\ n \in (pos[t][by] + 1)..Len(Source(t, f, log, by))
             /\ exported[t] => by = "engine" /\ n = pos[t].engine + 1
    <2> DEFINE end == IF by = "engine" THEN logs[t][log].engine ELSE Len(Lines(t).zeek)
    <2>1. n \in (pos[t][by] + 1)..end /\ (logs[t][log].zeek \/ (by = "engine" /\ n = pos[t][by] + 1))
        BY <1>6 DEF Ahead, log
    <2>2. end \in Nat /\ end <= Len(Source(t, f, log, by))
        <3>1. CASE by = "engine"
            BY <1>2, <1>5, <3>1 DEF Source
        <3>2. CASE by = "zeek"
            BY <1>4, <1>5, <3>2 DEF Engines
        <3> QED BY <3>1, <3>2 DEF Engines
    <2> HIDE DEF end
    <2>3. n \in (pos[t][by] + 1)..Len(Source(t, f, log, by))
        BY <1>5, <2>1, <2>2
    <2> QED BY <1>2, <2>1, <2>3
<1>7. ASSUME Ahead(t, "engine") = {} \/ logs[t][log].zeek, exported[t]
      PROVE  pos[t].engine = Len(EngineLogs[f][log])
    <2>1. Ahead(t, "engine") = {} /\ logs[t][log].engine = Len(EngineLogs[f][log])
        BY <1>2, <1>7
    <2>2. pos[t].engine \in Nat /\ pos[t].engine <= Len(EngineLogs[f][log]) /\ Len(EngineLogs[f][log]) \in Nat
        BY <1>1, EmptyLogs
    <2>3. ASSUME pos[t].engine # Len(EngineLogs[f][log])
          PROVE  pos[t].engine + 1 \in Ahead(t, "engine")
        <3>1. pos[t].engine + 1 \in (pos[t].engine + 1)..logs[t][log].engine
            BY <2>1, <2>2, <2>3
        <3> QED BY <3>1 DEF Ahead, log
    <2> QED BY <2>1, <2>3
<1> QED BY <1>4, <1>6, <1>7 DEF log, f

LEMMA ReadLineKeeps ==
    ASSUME DataInv, NEW t \in Threads, ReadLine(t)
    PROVE  Owned' /\ ReplayInv'
<1>1. /\ pc[t] = "read" /\ Continues(t) /\ totals' = totals
      /\ UNCHANGED <<file, pc, logs, exported, step, handled, counted>>
    BY Works DEF ReadLine, DataInv, setup
<1>2. /\ Owned /\ Sound(t, View(t)) /\ View(t).pc = "read" /\ Reading(t, View(t)) /\ IsSeq(records[t])
      /\ pos[t] \in [engine : Nat, zeek : Nat]
    <2>1. Owned /\ Sound(t, View(t)) /\ View(t).pc = "read"
        BY <1>1, AtWork, ViewIs
    <2>2. Reading(t, View(t)) /\ Records(t, View(t))
        BY <2>1 DEF Sound
    <2> QED BY <2>1, <2>2, ViewIs DEF Reading, Records
<1>3. PICK by \in Engines : \E n \in Ahead(t, by) :
          LET line == Process(Log(t), Lines(t)[by][n], cache[t])
          IN /\ records' = [records EXCEPT ![t] = Append(@, line.record)]
             /\ cache' = [cache EXCEPT ![t] = line.cache]
             /\ pos' = [pos EXCEPT ![t][by] = n]
    BY DEF ReadLine, Engines
<1>4. PICK n \in Ahead(t, by) :
          LET line == Process(Log(t), Lines(t)[by][n], cache[t])
          IN /\ records' = [records EXCEPT ![t] = Append(@, line.record)]
             /\ cache' = [cache EXCEPT ![t] = line.cache]
             /\ pos' = [pos EXCEPT ![t][by] = n]
    BY <1>3
<1> DEFINE line == Process(Log(t), Source(t, file[t], Log(t), by)[n], cache[t])
           q == [pos[t] EXCEPT ![by] = n]
           w == ReadOn(View(t), "read", line.cache, step[t], q, Append(records[t], line.record),
                       handled[t], View(t).counted)
<1>5. /\ records' = [records EXCEPT ![t] = Append(records[t], line.record)]
      /\ cache' = [cache EXCEPT ![t] = line.cache]
      /\ pos' = [pos EXCEPT ![t] = q]
    <2>1. Lines(t)[by] = Source(t, file[t], Log(t), by)
        BY <1>1, NextLines
    <2> QED BY <1>4, <2>1
<1>6. /\ n \in (pos[t][by] + 1)..Len(Source(t, file[t], Log(t), by))
      /\ exported[t] => by = "engine" /\ n = pos[t].engine + 1
    BY <1>1, NextLines
<1>7. n \in Nat
    <2>1. pos[t][by] \in Nat
        BY <1>2 DEF Engines
    <2> QED BY <1>6, <2>1
<1>8. q \in [engine : Nat, zeek : Nat] /\ q[by] = n /\ \A b \in Engines : b = by \/ q[b] = pos[t][b]
    BY <1>2, <1>7 DEF Engines
<1>9. Longer(records[t], line.record, Append(records[t], line.record))
    BY <1>2, Appended
<1> HIDE DEF line, q
<1>10. Becomes(t, w)
    BY <1>1, <1>2, <1>5 DEF Becomes, Owned, View, ReadOn
<1>11. Sound(t, w)
    <2> DEFINE v == View(t)
    <2>1. /\ v.file = file[t] /\ v.cache = cache[t] /\ v.records = records[t] /\ v.pos = pos[t]
          /\ v.step = step[t] /\ v.exported = exported[t] /\ v.handled = handled[t]
        BY ViewIs
    <2>2. /\ w.file = v.file /\ w.pc = "read" /\ w.logs = v.logs /\ w.exported = v.exported
          /\ w.cache = line.cache /\ w.step = v.step /\ w.pos = q
          /\ w.records = Append(records[t], line.record) /\ w.handled = v.handled /\ w.counted = v.counted
        BY <2>1 DEF ReadOn
    <2>3. line = Process(Log(t), Source(t, v.file, Log(t), by)[n], v.cache) /\ Log(t) = Order(t)[v.step + 1]
        BY <2>1 DEF line, Log
    <2>4. /\ n \in (v.pos[by] + 1)..Len(Source(t, v.file, Log(t), by))
          /\ v.exported => by = "engine" /\ n = v.pos.engine + 1
        BY <1>6, <2>1
    <2>5. Longer(v.records, line.record, w.records)
        BY <1>9, <2>1, <2>2
    <2>6. w.pos \in [engine : Nat, zeek : Nat] /\ w.pos[by] = n /\ \A b \in Engines : b = by \/ w.pos[b] = v.pos[b]
        BY <1>8, <2>1, <2>2
    <2> HIDE DEF v, w
    <2>7. LineRead(t, v, Log(t), by, n, w)
        BY <2>2, <2>3, <2>4, <2>5, <2>6 DEF LineRead
    <2>8. Sound(t, v) /\ v.pc = "read"
        BY <1>2 DEF v
    <2> QED BY <2>7, <2>8, ReadLineSound
<1> HIDE DEF w
<1> QED BY <1>1, <1>10, <1>11, WorkDone

LEMMA EndOfFileKeeps ==
    ASSUME DataInv, NEW t \in Threads, EndOfFile(t)
    PROVE  Owned' /\ ReplayInv'
<1> DEFINE v == View(t)  log == Log(t)  n == Len(v.records) - v.handled
           more == [flows |-> v.counted.flows + (IF log = "conn" THEN n ELSE 0), published |-> v.counted.published + n]
           total == IF t \in Jobs THEN more ELSE v.counted
           w == ReadOn(v, "evaluate", v.cache, v.step, v.pos, v.records, v.handled, total)
<1>1. /\ pc[t] = "read" /\ Continues(t) /\ totals' = totals
      /\ Ahead(t, "engine") = {} \/ logs[t][Log(t)].zeek
      /\ pc' = [pc EXCEPT ![t] = "evaluate"]
      /\ UNCHANGED <<file, logs, exported, cache, step, pos, records, handled>>
    BY Works DEF EndOfFile, DataInv, setup, Goto
<1>2. Owned /\ Sound(t, v) /\ v.pc = "read"
    BY <1>1, AtWork, ViewIs
<1>3. v.exported => v.pos.engine = Len(EngineLogs[v.file][log])
    BY <1>1, NextLines, ViewIs
<1>4. counted' = [j \in Jobs |-> IF j # t THEN counted[j] ELSE more]
    <2>1. t \in Jobs => v.counted = counted[t]
        BY ViewIs
    <2>2. v.records = records[t] /\ v.handled = handled[t]
        BY ViewIs
    <2> HIDE DEF v
    <2>3. counted' = [j \in Jobs |-> IF j # t THEN counted[j] ELSE
                         [flows |-> counted[j].flows + (IF log = "conn" THEN n ELSE 0),
                          published |-> counted[j].published + n]]
        BY <2>2 DEF EndOfFile
    <2>4. \A j \in Jobs : j = t => [flows |-> counted[j].flows + (IF log = "conn" THEN n ELSE 0),
                                    published |-> counted[j].published + n] = more
        BY <2>1
    <2> HIDE DEF more
    <2> QED BY <2>3, <2>4
<1>5. log = Order(t)[v.step + 1]
    BY ViewIs DEF Log
<1>6. Becomes(t, w)
    <2>1. t \in Jobs => counted'[t] = total
        BY <1>4
    <2>2. DOMAIN counted' = Jobs /\ \A j \in Jobs : j # t => counted'[j] = counted[j]
        BY <1>4
    <2>3. t \notin Jobs => total = Zero
        BY ViewIs
    <2>4. w = [file |-> file[t], pc |-> "evaluate", logs |-> logs[t], exported |-> exported[t],
               cache |-> cache[t], step |-> step[t], pos |-> pos[t], records |-> records[t],
               handled |-> handled[t], counted |-> total]
        BY ViewIs DEF ReadOn
    <2> HIDE DEF total, w, more, log, n, v
    <2> QED BY <1>1, <1>2, <2>1, <2>2, <2>3, <2>4 DEF Becomes, Owned, View
<1> HIDE DEF v, log
<1>7. Sound(t, w)
    <2>1. t \in Jobs => total = [flows |-> v.counted.flows + (IF log = "conn" THEN n ELSE 0),
                                 published |-> v.counted.published + n]
        OBVIOUS
    <2> HIDE DEF total, n, w
    <2>2. n = Len(v.records) - v.handled
        BY DEF n
    <2>3. w = ReadOn(v, "evaluate", v.cache, v.step, v.pos, v.records, v.handled, total)
        BY DEF w
    <2> QED BY <1>2, <1>3, <1>5, <2>1, <2>2, <2>3, EndOfFileSound
<1> HIDE DEF w
<1> QED BY <1>1, <1>6, <1>7, WorkDone

LEMMA EvaluateKeeps ==
    ASSUME DataInv, NEW t \in Threads, Evaluate(t)
    PROVE  Owned' /\ ReplayInv'
<1> DEFINE v == View(t)
           w == ReadOn(v, "evaluate", v.cache, v.step, v.pos, v.records, v.handled + 1, v.counted)
<1>1. /\ pc[t] = "evaluate" /\ Continues(t) /\ totals' = totals /\ handled[t] < Len(records[t])
      /\ handled' = [handled EXCEPT ![t] = handled[t] + 1]
      /\ UNCHANGED <<file, pc, logs, exported, cache, step, pos, records, counted>>
    BY Works DEF Evaluate, DataInv, setup
<1>2. Owned /\ Sound(t, v) /\ v.pc = "evaluate" /\ v.handled < Len(v.records)
    BY <1>1, AtWork, ViewIs
<1>3. Becomes(t, w)
    BY <1>1, <1>2 DEF Becomes, Owned, View, ReadOn
<1> HIDE DEF v
<1>4. Sound(t, w)
    BY <1>2, EvaluateSound
<1> HIDE DEF w
<1> QED BY <1>1, <1>3, <1>4, WorkDone

LEMMA NextFileKeeps ==
    ASSUME DataInv, NEW t \in Threads, NextFile(t)
    PROVE  Owned' /\ ReplayInv'
<1> DEFINE v == View(t)
           w == ReadOn(v, IF v.step < 2 THEN "read" ELSE "done", v.cache, v.step + 1, Top,
                       v.records, v.handled, v.counted)
<1>1. /\ pc[t] = "evaluate" /\ Continues(t) /\ totals' = totals /\ handled[t] = Len(records[t])
      /\ step' = [step EXCEPT ![t] = step[t] + 1] /\ pos' = [pos EXCEPT ![t] = Top]
      /\ pc' = [pc EXCEPT ![t] = IF step[t] < 2 THEN "read" ELSE "done"]
      /\ UNCHANGED <<file, logs, exported, cache, records, handled, counted>>
    BY Works DEF NextFile, DataInv, setup, Goto
<1>2. Owned /\ Sound(t, v) /\ v.pc = "evaluate" /\ v.handled = Len(v.records)
    BY <1>1, AtWork, ViewIs
<1>3. Becomes(t, w)
    BY <1>1, <1>2 DEF Becomes, Owned, View, ReadOn
<1> HIDE DEF v
<1>4. Sound(t, w)
    BY <1>2, NextFileSound
<1> HIDE DEF w
<1> QED BY <1>1, <1>3, <1>4, WorkDone

LEMMA EndKeeps ==
    ASSUME DataInv, NEW t \in Threads, NEW outcome, End(t, outcome), pc[t] # "idle",
           \A j \in Jobs : j # t => totals'[j] = totals[j],
           t \in Jobs => \/ outcome = "failed"
                         \/ outcome = "completed" /\ Reported(file[t], records[t], handled[t], totals'[t], exported[t])
    PROVE  Owned' /\ ReplayInv'
<1> DEFINE v == View(t)  w == Over(v)
<1>1. Owned /\ ReplayInv /\ Sound(t, v) /\ v.pc # "idle"
    BY AtWork, ViewIs
<1>2. /\ status' = [j \in Jobs |-> IF j = t THEN outcome ELSE status[j]]
      /\ pc' = [pc EXCEPT ![t] = "idle"] /\ logs' = [logs EXCEPT ![t] = Empty]
      /\ cache' = [cache EXCEPT ![t] = NoCache]
      /\ counted' = [j \in Jobs |-> IF j = t THEN Zero ELSE counted[j]]
      /\ step' = [step EXCEPT ![t] = 0] /\ pos' = [pos EXCEPT ![t] = Top]
      /\ UNCHANGED <<file, records, handled, exported>>
    BY DEF End, Goto
<1>3. Becomes(t, w)
    BY <1>1, <1>2 DEF Becomes, Owned, View, Over
<1>4. Told(t)
    BY <1>2 DEF Told
<1> HIDE DEF v
<1>5. Sound(t, w)
    BY <1>1, OverSound
<1> HIDE DEF w
<1> QED BY <1>1, <1>3, <1>4, <1>5, Kept

LEMMA CompleteKeeps ==
    ASSUME DataInv, NEW t \in Threads, Complete(t)
    PROVE  Owned' /\ ReplayInv'
<1>1. /\ pc[t] = "done" /\ End(t, "completed")
      /\ totals' = [j \in Jobs |-> IF j = t THEN counted[t] ELSE totals[j]]
    BY DEF Complete
<1>2. Through(t, View(t))
    BY <1>1, AtWork, ViewIs DEF Sound
<1>3. t \in Jobs => Reported(file[t], records[t], handled[t], totals'[t], exported[t])
    BY <1>1, <1>2, ViewIs DEF Through, Reported
<1> QED BY <1>1, <1>3, EndKeeps

LEMMA FailKeeps ==
    ASSUME DataInv, NEW t \in Threads, Fail(t)
    PROVE  Owned' /\ ReplayInv'
<1>1. pc[t] # "idle" /\ End(t, "failed") /\ totals' = totals
    BY DEF Fail
<1> QED BY <1>1, EndKeeps

\* Where the state of no thread changes.
LEMMA NothingChanged ==
    ASSUME DataInv, UNCHANGED <<status, totals, pc, file, data>>
    PROVE  Owned' /\ ReplayInv'
<1>1. Owned'
    BY DEF DataInv, Owned, data
<1>2. \A t \in Threads : View(t)' = View(t)
    BY DEF View, data
<1>3. \A j \in Jobs : /\ status'[j] = status[j] /\ file'[j] = file[j] /\ records'[j] = records[j]
                      /\ handled'[j] = handled[j] /\ totals'[j] = totals[j] /\ exported'[j] = exported[j]
    BY DEF data
<1>4. ReplayInv'
    BY <1>2, <1>3 DEF DataInv, ReplayInv
<1> QED BY <1>1, <1>4

LEMMA InitData == Init => DataInv
<1>1. SUFFICES ASSUME Init PROVE DataInv
    OBVIOUS
<1>2. StoreInv
    BY <1>1, InitStore
<1>3. Owned
    BY <1>1 DEF Init, Owned
<1>4. ASSUME NEW t \in Threads PROVE Sound(t, View(t))
    <2> DEFINE v == View(t)
    <2>1. /\ v.file = NoFile /\ v.pc = "idle" /\ v.logs = Empty /\ v.exported = FALSE /\ v.cache = NoCache
          /\ v.step = 0 /\ v.pos = Top /\ v.records = <<>> /\ v.handled = 0 /\ v.counted = Zero
        BY <1>1, ViewIs DEF Init
    <2> HIDE DEF v
    <2>2. Fresh(v) /\ Reset(v) /\ Records(t, v)
        BY <2>1, NothingRead DEF Fresh, Reset
    <2>3. Sound(t, v)
        BY <2>1, <2>2 DEF Sound, Setup
    <2> QED BY <2>3 DEF v
<1>5. \A j \in Jobs : file[j] = NoFile /\ status[j] = "none"
    BY <1>1 DEF Init, Threads
<1> QED BY <1>2, <1>3, <1>4, <1>5 DEF DataInv, ReplayInv

LEMMA StepKeepsData == DataInv /\ [Next]_vars => DataInv'
<1>1. SUFFICES ASSUME DataInv, [Next]_vars PROVE DataInv'
    OBVIOUS
<1>2. StoreInv'
    BY <1>1, StepMaps DEF DataInv
<1>3. ASSUME NEW j \in Jobs, Trigger(j) PROVE Owned' /\ ReplayInv'
    BY <1>1, <1>3, TriggerKeeps
<1>4. ASSUME NEW l \in Legacies, Request(l) PROVE Owned' /\ ReplayInv'
    BY <1>1, <1>4, RequestKeeps
<1>5. ASSUME NEW t \in Threads, Proceed(t) \/ Fail(t) \/ Finished(t) \/ Linger(t)
      PROVE  Owned' /\ ReplayInv'
    <2>1. CASE Begin(t)
        BY <1>1, <2>1, BeginKeeps
    <2>2. CASE RemoveContainer(t) \/ GiveUp(t) \/ Finished(t)
        BY <1>1, <2>2, WaitsKeep
    <2>3. CASE Run(t)
        BY <1>1, <2>3, RunKeeps
    <2>4. CASE Native(t)
        BY <1>1, <2>4, NativeKeeps
    <2>5. CASE Ship(t)
        BY <1>1, <2>5, ShipKeeps
    <2>6. CASE ReadLine(t)
        BY <1>1, <2>6, ReadLineKeeps
    <2>7. CASE EndOfFile(t)
        BY <1>1, <2>7, EndOfFileKeeps
    <2>8. CASE Evaluate(t)
        BY <1>1, <2>8, EvaluateKeeps
    <2>9. CASE NextFile(t)
        BY <1>1, <2>9, NextFileKeeps
    <2>10. CASE Complete(t)
        BY <1>1, <2>10, CompleteKeeps
    <2>11. CASE Fail(t)
        BY <1>1, <2>11, FailKeeps
    <2>12. CASE Linger(t)
        BY <1>1, <2>12, NothingChanged DEF Linger
    <2> QED BY <1>5, <2>1, <2>2, <2>3, <2>4, <2>5, <2>6, <2>7, <2>8, <2>9, <2>10, <2>11, <2>12 DEF Proceed
<1>6. ASSUME UNCHANGED replay PROVE Owned' /\ ReplayInv'
    <2>1. UNCHANGED <<status, totals, pc, file, data>>
        BY <1>6 DEF replay, setup
    <2> QED BY <1>1, <2>1, NothingChanged
<1>7. Owned' /\ ReplayInv'
    BY <1>1, <1>3, <1>4, <1>5, <1>6 DEF Next, vars
<1> QED BY <1>2, <1>7 DEF DataInv

\* What is known of the records of a thread.
LEMMA WhatIsRead ==
    ASSUME DataInv, NEW t \in Threads
    PROVE  /\ IsSeq(records[t]) /\ handled[t] \in 0..Len(records[t])
           /\ \A i \in 1..Len(records[t]) : RecordOf(t, file[t], exported[t], records[t][i])
           /\ Once(file[t], records[t])
           /\ t \in Legacies => Enriched(records[t])
           /\ file[t] \in Files \/ (Len(records[t]) = 0 /\ ~exported[t])
<1> DEFINE v == View(t)
<1>1. Sound(t, v)
    BY DEF DataInv, ReplayInv
<1>2. /\ v.records = records[t] /\ v.handled = handled[t] /\ v.file = file[t] /\ v.exported = exported[t]
    BY ViewIs
<1> HIDE DEF v
<1>3. Records(t, v) /\ v.file \in Files \cup {NoFile}
      /\ (v.file = NoFile => Fresh(v) /\ ~v.exported)
    BY <1>1 DEF Sound
<1>4. file[t] \in Files \/ (Len(records[t]) = 0 /\ ~exported[t])
    BY <1>2, <1>3, NothingRead DEF Fresh
<1>5. /\ IsSeq(records[t]) /\ handled[t] \in 0..Len(records[t]) /\ Once(file[t], records[t])
      /\ \A i \in 1..Len(records[t]) : RecordOf(t, file[t], exported[t], records[t][i])
      /\ t \in Legacies => Enriched(records[t])
    BY <1>2, <1>3 DEF Records
<1> QED BY <1>4, <1>5

(* JobHandlesItsCapture for every number of replays and captures, and      *)
(* whatever Zeek makes of them: a record is always a line that one of the  *)
(* engines wrote of the thread's own capture, and no position of a file is *)
(* read twice, so that only the uids of the two engines tell a connection  *)
(* apart; and a log the PCAP engine wrote alone is read to its end.        *)
THEOREM CaptureHandled == Spec => []JobHandlesItsCapture
<1>1. DataInv => JobHandlesItsCapture
    <2> SUFFICES ASSUME DataInv, NEW j \in Jobs, status[j] = "completed"
                 PROVE  LET done == 1..handled[j]
                            r(i) == records[j][i]
                            made(i, engine) == \E e \in ToSet(engine[file[j]][r(i).log]) : e.uid = r(i).uid
                        IN /\ \A i \in done : made(i, EngineLogs) \/ made(i, Zeek)
                           /\ \A i, k \in done :
                                 /\ r(i).log = r(k).log /\ r(i).uid = r(k).uid
                                 /\ r(i).log = "conn" \/ made(i, EngineLogs)
                                 => i = k
                           /\ totals[j].published = handled[j]
                           /\ totals[j].flows = Cardinality({i \in done : r(i).log = "conn"})
                           /\ exported[j] =>
                                 /\ \A i \in done : made(i, EngineLogs)
                                 /\ \A l \in Logs : \A e \in ToSet(EngineLogs[file[j]][l]) :
                                       \E i \in done : r(i).log = l /\ r(i).uid = e.uid
        BY DEF JobHandlesItsCapture
    <2> DEFINE seen == records[j]  n == handled[j]  f == file[j]
               made(i, engine) == \E e \in ToSet(engine[f][seen[i].log]) : e.uid = seen[i].uid
    <2>1. /\ n = Len(seen) /\ totals[j] = Tally(seen, n) /\ (exported[j] => All(f, seen))
          /\ IsSeq(seen) /\ Once(f, seen)
          /\ \A i \in 1..n : RecordOf(j, f, exported[j], seen[i])
          /\ f \in Files \/ (n = 0 /\ ~exported[j])
        <3>1. Reported(f, seen, n, totals[j], exported[j])
            BY DEF DataInv, ReplayInv
        <3> QED BY <3>1, WhatIsRead DEF Reported, Threads
    <2>2. n \in Nat
        BY <2>1 DEF IsSeq
    <2> HIDE DEF seen, n, f
    <2>3. ASSUME NEW i \in 1..n
          PROVE  /\ f \in Files /\ seen[i].log \in Logs
                 /\ made(i, EngineLogs) \/ made(i, Zeek)
                 /\ exported[j] => made(i, EngineLogs)
                 /\ made(i, EngineLogs) => seen[i].uid \in EngineUids(f)
        <3>1. f \in Files
            BY <2>1, <2>2
        <3>2. PICK by \in Engines, m \in Nat :
                 From(j, f, seen[i], by, m) /\ (exported[j] => by = "engine")
            BY <2>1 DEF RecordOf
        <3>3. seen[i].log \in Logs
            BY <2>1 DEF RecordOf
        <3> DEFINE lines == Source(j, f, seen[i].log, by)
        <3>4. IsSeq(lines) /\ m \in 1..Len(lines) /\ lines[m].uid = seen[i].uid
            BY <3>1, <3>2, <3>3, Sources DEF From, SourceOK
        <3>5. lines[m] \in ToSet(lines)
            BY <3>4 DEF IsSeq, ToSet
        <3>6. /\ by = "engine" => lines = EngineLogs[f][seen[i].log]
              /\ by = "zeek" => lines = Zeek[f][seen[i].log]
            BY DEF Source, GivenFor
        <3>7. by = "engine" \/ by = "zeek"
            BY DEF Engines
        <3> HIDE DEF lines
        <3>8. /\ made(i, EngineLogs) \/ made(i, Zeek)
              /\ exported[j] => made(i, EngineLogs)
            BY <3>2, <3>4, <3>5, <3>6, <3>7
        <3>9. ASSUME made(i, EngineLogs) PROVE seen[i].uid \in EngineUids(f)
            <4> DEFINE own == EngineLogs[f][seen[i].log]
            <4>1. PICK e \in ToSet(own) : e.uid = seen[i].uid
                BY <3>9
            <4>2. SourceOK(j, f, seen[i].log, "engine") /\ Source(j, f, seen[i].log, "engine") = own
                BY <3>1, <3>3, Sources DEF Source, Engines
            <4> HIDE DEF own
            <4>3. IsSeq(own) /\ \A k \in 1..Len(own) : own[k].uid \in EngineUids(f)
                BY <4>2 DEF SourceOK
            <4>4. PICK k \in 1..Len(own) : own[k] = e
                BY <4>1, <4>3 DEF ToSet, IsSeq
            <4> QED BY <4>1, <4>3, <4>4
        <3> HIDE DEF made
        <3> QED BY <3>1, <3>3, <3>8, <3>9
    <2>4. ASSUME NEW i \in 1..n, NEW k \in 1..n, seen[i].log = seen[k].log, seen[i].uid = seen[k].uid,
                 seen[i].log = "conn" \/ made(i, EngineLogs)
          PROVE  i = k
        <3>1. seen[i].log = "conn" \/ seen[i].uid \in EngineUids(f)
            BY <2>3, <2>4
        <3> QED BY <2>1, <2>4, <3>1 DEF Once
    <2>5. totals[j].published = n /\ totals[j].flows = Cardinality({i \in 1..n : seen[i].log = "conn"})
        BY <2>1 DEF Tally, Conns
    <2>6. ASSUME exported[j], NEW l \in Logs, NEW e \in ToSet(EngineLogs[f][l])
          PROVE  \E i \in 1..n : seen[i].log = l /\ seen[i].uid = e.uid
        <3> DEFINE own == EngineLogs[f][l]
        <3>1. f \in Files /\ Covered(f, l, Len(own), seen)
            BY <2>1, <2>6 DEF All
        <3>2. IsSeq(own)
            BY <3>1, Sources DEF Source, SourceOK, Engines
        <3>3. PICK k \in 1..Len(own) : own[k] = e
            BY <2>6, <3>2 DEF ToSet, IsSeq
        <3> QED BY <2>1, <3>1, <3>3 DEF Covered, OfLog
    <2>7. /\ \A i \in 1..n : made(i, EngineLogs) \/ made(i, Zeek)
          /\ \A i, k \in 1..n : /\ seen[i].log = seen[k].log /\ seen[i].uid = seen[k].uid
                                /\ seen[i].log = "conn" \/ made(i, EngineLogs)
                                => i = k
          /\ exported[j] => \A i \in 1..n : made(i, EngineLogs)
        <3> HIDE DEF made
        <3> QED BY <2>3, <2>4
    <2> QED BY <2>5, <2>6, <2>7 DEF seen, n, f
<1> QED BY InitData, StepKeepsData, <1>1, PTL DEF Spec

(* BytesConserved for every capture and whatever Zeek writes of it: the    *)
(* flow of a connection grows by each of its packets, keeps them through   *)
(* the export, and a record is normalised from one line.                   *)
THEOREM NoByteLost == Spec => []BytesConserved
<1>1. DataInv => BytesConserved
    <2> SUFFICES ASSUME DataInv, NEW t \in Threads, NEW i \in 1..handled[t]
                   PROVE  LET r == records[t][i] IN
                          r.log = "conn" =>
                             IF r.uid \in EngineUids(file[t])
                             THEN r.out + r.in = Bytes(Capture[file[t]], {r.uid, Mirror(r.uid)})
                             ELSE \E e \in ToSet(Zeek[Given(t)].conn) :
                                     e.uid = r.uid /\ r.out + r.in = Or(e.out, e.outIp) + Or(e.in, e.inIp)
        BY DEF BytesConserved
    <2>1. i \in 1..Len(records[t])
        <3>1. handled[t] \in 0..Len(records[t]) /\ Len(records[t]) \in Nat
            BY WhatIsRead DEF IsSeq
        <3> QED BY <3>1
    <2>2. Adds(t, file[t], records[t][i])
        BY <2>1, WhatIsRead DEF RecordOf
    <2>3. Given(t) = GivenFor(t, file[t])
        BY DEF Given, GivenFor
    <2> QED BY <2>2, <2>3 DEF Adds, Both
<1> QED BY InitData, StepKeepsData, <1>1, PTL DEF Spec

(* LegacyEnriched for every number of replays, however their logs are cut  *)
(* and mixed: the cache of a shipper tells of a connection it has not read *)
(* yet what the last records of the other logs said of it.                 *)
THEOREM OlderReplayEnriched == Spec => []LegacyEnriched
<1>1. DataInv => LegacyEnriched
    <2> SUFFICES ASSUME DataInv, NEW l \in Legacies, NEW i \in 1..handled[l],
                        records[l][i].log = "conn"
                 PROVE  LET seen == records[l] IN
                        /\ \A k \in Latest(seen, i, "dns") : seen[i].dns = seen[k].dns
                        /\ \A k \in Latest(seen, i, "ssl") : seen[i].ja3 = seen[k].ja3
                        /\ Latest(seen, i, "dns") = {} => seen[i].dns = None
                        /\ Latest(seen, i, "ssl") = {} => seen[i].ja3 = None
        BY DEF LegacyEnriched
    <2> DEFINE seen == records[l]  u == seen[i].uid
    <2>1. i \in 1..Len(seen) /\ Enriched(seen)
        BY WhatIsRead DEF IsSeq, Threads
    <2>2. /\ Tells(seen, i - 1, u, "dns", seen[i].dns)
          /\ Tells(seen, i - 1, u, "ssl", seen[i].ja3)
        <3>1. \A log \in Others : Tells(seen, i - 1, u, log, Field(log, seen[i]))
            BY <2>1 DEF Enriched
        <3> QED BY <3>1 DEF Others, Field
    <2> HIDE DEF seen
    <2>3. ASSUME NEW log, NEW what, Tells(seen, i - 1, u, log, what)
          PROVE  /\ \A k \in Latest(seen, i, log) : what = Field(log, seen[k])
                 /\ Latest(seen, i, log) = {} => what = None
        <3>1. Latest(seen, i, log) = {k \in 1..(i - 1) : /\ OfLog(seen[k], log, u)
                                                         /\ \A m \in (k + 1)..(i - 1) : ~OfLog(seen[m], log, u)}
            BY DEF Latest, OfLog
        <3>2. i - 1 \in Nat
            BY <2>1
        <3> QED BY <2>3, <3>1, <3>2 DEF Tells
    <2>4. \A k : Field("dns", seen[k]) = seen[k].dns /\ Field("ssl", seen[k]) = seen[k].ja3
        BY DEF Field
    <2> QED BY <2>2, <2>3, <2>4 DEF seen
<1> QED BY InitData, StepKeepsData, <1>1, PTL DEF Spec
----------------------------------------------------------------------------
(* What the replay panel shows as ended has ended, whatever is in flight   *)
(* and in any order, under restarts.  The argument: an end is final in the *)
(* job store, so that an answer that tells of one is true whenever it      *)
(* comes, and nothing else tells of one.                                   *)

Answers == {"asked", "failed request", "forgotten"} \cup NotYet \cup Ended

\* Job j ended as s, and the store has not changed that since.
EndedAs(j, s) == s \in Ended => jobs[j] \in {s, "forgotten"}

PanelInv ==
    /\ PanelTypeOK
    /\ polls \subseteq [job : JobIds, got : Answers]
    /\ toast = NoToast \/ (toast.job \in JobIds /\ toast.kind \in Ended)
    /\ \A p \in posts : p \notin {Asked, Failed} => jobs[p.job] # "none"
    /\ \A p \in polls : EndedAs(p.job, p.got)
    /\ EndedAs(activeJob.id, activeJob.status)
    /\ EndedAs(toast.job, toast.kind)

\* The store goes forward: jobs are not unmade, and ends are final.
Onward ==
    /\ jobs' \in [JobIds -> {"none", "forgotten"} \cup NotYet \cup Ended]
    /\ \A j \in JobIds : jobs[j] # "none" => jobs'[j] # "none"
    /\ \A j \in JobIds : \A s \in Ended : jobs[j] \in {s, "forgotten"} => jobs'[j] \in {s, "forgotten"}

LEMMA StoreOnward == PanelTypeOK /\ [StoreNext]_jobs => Onward
<1>1. SUFFICES ASSUME PanelTypeOK, [StoreNext]_jobs PROVE Onward
    OBVIOUS
<1>2. jobs \in [JobIds -> {"none", "forgotten"} \cup NotYet \cup Ended]
    BY <1>1 DEF PanelTypeOK
<1>3. CASE Forget
    BY <1>2, <1>3 DEF Forget, Onward
<1>4. ASSUME NEW j \in JobIds, Queue(j) PROVE Onward
    BY <1>2, <1>4 DEF Queue, Onward, NotYet, Ended
<1>5. ASSUME NEW j \in JobIds, Start(j) PROVE Onward
    BY <1>2, <1>5 DEF Start, Onward, NotYet, Ended
<1>6. ASSUME NEW j \in JobIds, Finish(j) PROVE Onward
    BY <1>2, <1>6 DEF Finish, Onward, Ended
<1>7. CASE UNCHANGED jobs
    BY <1>2, <1>7 DEF Onward
<1> QED BY <1>1, <1>3, <1>4, <1>5, <1>6, <1>7 DEF StoreNext

LEMMA InitPanel == PanelInit => PanelInv
<1>1. SUFFICES ASSUME PanelInit PROVE PanelInv
    OBVIOUS
<1>2. net \in BOOLEAN /\ open \in BOOLEAN
    BY <1>1, Zenon DEF PanelInit
<1>3. jobs \in [JobIds -> {"none", "forgotten"} \cup NotYet \cup Ended]
    BY <1>1 DEF PanelInit, StoreInit
<1>4. /\ activeJob = NoReplay /\ toast = NoToast /\ uploads = 0 /\ posts = {} /\ polls = {}
    BY <1>1 DEF PanelInit
<1>5. PanelTypeOK
    BY <1>2, <1>3, <1>4, PanelAssumption DEF PanelTypeOK, NoToast
<1> QED BY <1>4, <1>5 DEF PanelInv, EndedAs, NoReplay, NoToast, Ended

\* The server changes the job store, or the network comes or goes.
LEMMA ServerKeeps ==
    ASSUME PanelInv, Onward, net' \in BOOLEAN, UNCHANGED <<panel, posts, polls>>
    PROVE  PanelInv'
<1>1. UNCHANGED <<open, activeJob, toast, uploads, posts, polls>>
    BY DEF panel
<1>2. PanelTypeOK'
    BY <1>1 DEF PanelInv, PanelTypeOK, Onward
<1>3. \A p \in posts' : p \notin {Asked, Failed} => jobs'[p.job] # "none"
    <2>1. ASSUME NEW p \in posts, p \notin {Asked, Failed} PROVE p.job \in JobIds /\ jobs[p.job] # "none"
        BY <2>1 DEF PanelInv, PanelTypeOK
    <2> QED BY <1>1, <2>1 DEF Onward
<1>4. \A p \in polls' : EndedAs(p.job, p.got)'
    <2>1. ASSUME NEW p \in polls PROVE p.job \in JobIds /\ EndedAs(p.job, p.got)
        BY DEF PanelInv
    <2> QED BY <1>1, <2>1 DEF Onward, EndedAs
<1>5. EndedAs(activeJob.id, activeJob.status)'
    <2>1. activeJob.id \in JobIds \/ activeJob.status \notin Ended
        BY DEF PanelInv, PanelTypeOK, NoReplay, Ended
    <2> QED BY <1>1, <2>1 DEF PanelInv, Onward, EndedAs
<1>6. EndedAs(toast.job, toast.kind)'
    <2>1. toast.kind \in Ended => jobs[toast.job] \in {toast.kind, "forgotten"}
        BY DEF PanelInv, EndedAs
    <2>2. toast.job \in JobIds \/ toast.kind \notin Ended
        BY DEF PanelInv, NoToast, Ended
    <2> QED BY <1>1, <2>1, <2>2 DEF Onward, EndedAs
<1> QED BY <1>1, <1>2, <1>3, <1>4, <1>5, <1>6 DEF PanelInv

\* What is not about the jobs of a panel: the panel opens, a message goes.
LEMMA HandlerKeeps ==
    ASSUME PanelInv, UNCHANGED <<jobs, net, activeJob, polls>>,
           open' \in BOOLEAN, uploads' \in 0..MaxUploads,
           toast' \in {toast, NoToast}, posts' \subseteq posts \cup {Asked, Failed}
    PROVE  PanelInv'
<1>1. PanelTypeOK'
    BY DEF PanelInv, PanelTypeOK, NoToast
<1>2. (toast = NoToast \/ (toast.job \in JobIds /\ toast.kind \in Ended))' /\ EndedAs(toast.job, toast.kind)'
    BY DEF PanelInv, EndedAs, NoToast, Ended
<1>3. \A p \in posts' : p \notin {Asked, Failed} => jobs'[p.job] # "none"
    BY DEF PanelInv
<1> QED BY <1>1, <1>2, <1>3 DEF PanelInv, EndedAs

\* A trigger is taken up: the job is queued, or the request fails.
LEMMA ServeRunKeeps == ASSUME PanelInv, ServeRun PROVE PanelInv'
<1>1. CASE posts' = (posts \ {Asked}) \cup {Failed} /\ UNCHANGED jobs
    <2>1. open' = open /\ uploads' = uploads /\ toast' = toast /\ UNCHANGED <<jobs, net, activeJob, polls>>
        BY <1>1 DEF ServeRun, panel
    <2> QED BY <1>1, <2>1, HandlerKeeps DEF PanelInv, PanelTypeOK
<1>2. ASSUME NEW j \in JobIds, Queue(j),
             posts' = (posts \ {Asked}) \cup {[stage |-> "ok", job |-> j]}
      PROVE  PanelInv'
    <2>1. UNCHANGED <<net, open, activeJob, toast, uploads, polls>>
        BY DEF ServeRun, panel
    <2>2. Onward /\ jobs'[j] = "queued"
        BY <1>2, StoreOnward DEF PanelInv, StoreNext, Queue, PanelTypeOK
    <2>3. PanelTypeOK'
        BY <1>2, <2>1, <2>2 DEF PanelInv, PanelTypeOK, Onward
    <2>4. \A p \in posts' : p \notin {Asked, Failed} => jobs'[p.job] # "none"
        <3>1. ASSUME NEW p \in posts, p \notin {Asked, Failed} PROVE p.job \in JobIds /\ jobs[p.job] # "none"
            BY <3>1 DEF PanelInv, PanelTypeOK
        <3> QED BY <1>2, <2>2, <3>1 DEF Onward
    <2>5. \A p \in polls' : EndedAs(p.job, p.got)'
        <3>1. ASSUME NEW p \in polls PROVE p.job \in JobIds /\ EndedAs(p.job, p.got)
            BY DEF PanelInv
        <3> QED BY <2>1, <2>2, <3>1 DEF Onward, EndedAs
    <2>6. EndedAs(activeJob.id, activeJob.status)'
        <3>1. activeJob.id \in JobIds \/ activeJob.status \notin Ended
            BY DEF PanelInv, PanelTypeOK, NoReplay, Ended
        <3> QED BY <2>1, <2>2, <3>1 DEF PanelInv, Onward, EndedAs
    <2>7. EndedAs(toast.job, toast.kind)'
        <3>1. toast.job \in JobIds \/ toast.kind \notin Ended
            BY DEF PanelInv, NoToast, Ended
        <3> QED BY <2>1, <2>2, <3>1 DEF PanelInv, Onward, EndedAs
    <2> QED BY <2>1, <2>3, <2>4, <2>5, <2>6, <2>7 DEF PanelInv
<1> QED BY <1>1, <1>2 DEF ServeRun

\* The answer to a trigger: the job is shown, as processing.
LEMMA TriggeredKeeps == ASSUME PanelInv, NEW p \in posts, Triggered(p) PROVE PanelInv'
<1>1. posts' = posts \ {p} /\ UNCHANGED <<jobs, net, open, uploads, polls>>
    BY DEF Triggered
<1>2. CASE p = Failed /\ toast' = NoToast /\ UNCHANGED activeJob
    <2>1. /\ open' \in BOOLEAN /\ uploads' \in 0..MaxUploads
          /\ posts' \subseteq posts \cup {Asked, Failed} /\ toast' \in {toast, NoToast}
        BY <1>1, <1>2 DEF PanelInv, PanelTypeOK
    <2> QED BY <1>1, <1>2, <2>1, HandlerKeeps
<1>3. CASE p # Failed /\ activeJob' = [id |-> p.job, status |-> "processing"] /\ UNCHANGED toast
    <2>1. p.job \in JobIds /\ jobs[p.job] # "none"
        BY <1>3 DEF PanelInv, PanelTypeOK, Triggered
    <2>2. activeJob'.id = p.job /\ activeJob'.status = "processing"
        BY <1>3
    <2>3. PanelTypeOK'
        BY <1>1, <1>3, <2>1, <2>2 DEF PanelInv, PanelTypeOK, NotYet
    <2>4. EndedAs(activeJob.id, activeJob.status)'
        BY <2>2 DEF EndedAs, Ended
    <2> QED BY <1>1, <1>3, <2>3, <2>4 DEF PanelInv, EndedAs
<1> QED BY <1>2, <1>3 DEF Triggered

\* A tick of the interval.
LEMMA PollKeeps == ASSUME PanelInv, Poll PROVE PanelInv'
<1>1. /\ activeJob.status \in NotYet /\ UNCHANGED <<jobs, net, open, activeJob, toast, uploads, posts>>
      /\ polls' = polls \cup {[job |-> activeJob.id, got |-> "asked"]}
    BY DEF Poll, panel
<1>2. activeJob.id \in JobIds /\ jobs[activeJob.id] # "none"
    BY <1>1 DEF PanelInv, PanelTypeOK, NoReplay, NotYet
<1>3. polls' \subseteq [job : JobIds, got : Answers]
    <2>1. [job |-> activeJob.id, got |-> "asked"] \in [job : JobIds, got : Answers]
        BY <1>2 DEF Answers
    <2> QED BY <1>1, <2>1 DEF PanelInv
<1>4. \A p \in polls' : EndedAs(p.job, p.got)'
    <2>1. ASSUME NEW p \in polls PROVE EndedAs(p.job, p.got)'
        BY <1>1 DEF PanelInv, EndedAs
    <2> QED BY <1>1, <2>1 DEF EndedAs, Ended
<1>5. PanelTypeOK'
    BY <1>1, <1>2 DEF PanelInv, PanelTypeOK
<1> QED BY <1>1, <1>3, <1>4, <1>5 DEF PanelInv, EndedAs

\* The server answers a poll with what the store says now.
LEMMA ServePollKeeps == ASSUME PanelInv, NEW p \in polls, ServePoll(p) PROVE PanelInv'
<1>1. PICK a \in {jobs[p.job], "failed request"} :
          polls' = (polls \ {p}) \cup {[p EXCEPT !.got = a]}
    BY DEF ServePoll
<1>2. UNCHANGED <<jobs, net, open, activeJob, toast, uploads, posts>>
    BY DEF ServePoll, panel
<1>3. p \in [job : JobIds, got : Answers] /\ jobs[p.job] # "none" /\ p.job \in JobIds
    BY DEF PanelInv, PanelTypeOK
<1>4. a \in Answers
    <2>1. jobs[p.job] \in {"none", "forgotten"} \cup NotYet \cup Ended
        BY <1>3 DEF PanelInv, PanelTypeOK
    <2> QED BY <1>1, <1>3, <2>1 DEF Answers
<1> DEFINE r == [p EXCEPT !.got = a]
<1>5. r \in [job : JobIds, got : Answers] /\ r.job = p.job /\ r.got = a
    BY <1>3, <1>4
<1>6. EndedAs(p.job, a)
    BY <1>1, <1>3 DEF EndedAs, Ended
<1>7. polls' \subseteq [job : JobIds, got : Answers] /\ \A q \in polls' : EndedAs(q.job, q.got)'
    BY <1>1, <1>2, <1>3, <1>4, <1>5, <1>6 DEF PanelInv, EndedAs
<1>8. PanelTypeOK'
    BY <1>1, <1>2, <1>3, <1>5 DEF PanelInv, PanelTypeOK
<1> QED BY <1>2, <1>7, <1>8 DEF PanelInv, EndedAs

\* An answer arrives, late or not: what it says of an end is true.
LEMMA PolledKeeps == ASSUME PanelInv, NEW p \in polls, Polled(p) PROVE PanelInv'
<1>1. /\ polls' = polls \ {p} /\ UNCHANGED <<jobs, net, open, uploads, posts>>
      /\ activeJob' = IF p.got \in NotYet \cup Ended THEN [id |-> p.job, status |-> p.got] ELSE activeJob
      /\ toast' = IF p.got \in Ended THEN [kind |-> p.got, job |-> p.job] ELSE toast
    BY DEF Polled
<1>2. p.job \in JobIds /\ jobs[p.job] # "none" /\ EndedAs(p.job, p.got)
    BY DEF PanelInv, PanelTypeOK
<1>3. /\ activeJob' = NoReplay \/ /\ activeJob'.id \in JobIds /\ jobs[activeJob'.id] # "none"
                                  /\ activeJob'.status \in NotYet \cup Ended
      /\ EndedAs(activeJob.id, activeJob.status)'
    BY <1>1, <1>2 DEF PanelInv, PanelTypeOK, EndedAs
<1>4. /\ toast'.kind \in {"none"} \cup Ended /\ toast'.job \in JobIds \cup {NoJob}
      /\ (toast = NoToast \/ (toast.job \in JobIds /\ toast.kind \in Ended))'
      /\ EndedAs(toast.job, toast.kind)'
    BY <1>1, <1>2 DEF PanelInv, PanelTypeOK, EndedAs
<1>5. PanelTypeOK'
    BY <1>1, <1>3, <1>4 DEF PanelInv, PanelTypeOK
<1> QED BY <1>1, <1>3, <1>4, <1>5 DEF PanelInv, EndedAs

LEMMA StepKeeps == PanelInv /\ [PanelNext]_panelVars => PanelInv'
<1>1. SUFFICES ASSUME PanelInv, [PanelNext]_panelVars PROVE PanelInv'
    OBVIOUS
<1>2. /\ open \in BOOLEAN /\ uploads \in 0..MaxUploads /\ net \in BOOLEAN /\ MaxUploads \in Nat
    BY <1>1, PanelAssumption DEF PanelInv, PanelTypeOK
<1>3. CASE SetOpen
    <2>1. open' \in BOOLEAN
        BY <1>3 DEF SetOpen
    <2> QED BY <1>1, <1>2, <1>3, <2>1, HandlerKeeps DEF SetOpen
<1>4. CASE Upload \/ Uploaded
    BY <1>1, <1>2, <1>4, HandlerKeeps DEF Upload, Uploaded
<1>5. CASE Dismiss
    BY <1>1, <1>2, <1>5, HandlerKeeps DEF Dismiss
<1>6. CASE RunReplay
    BY <1>1, <1>2, <1>6, HandlerKeeps DEF RunReplay
<1>7. CASE ServeRun
    BY <1>1, <1>7, ServeRunKeeps
<1>8. CASE Poll
    BY <1>1, <1>8, PollKeeps
<1>9. CASE JobStep \/ Restart
    <2>1. StoreNext /\ UNCHANGED <<net, panel, posts, polls>>
        BY <1>9 DEF JobStep, Restart, StoreNext
    <2> QED BY <1>1, <1>2, <2>1, StoreOnward, ServerKeeps DEF PanelInv
<1>10. CASE NetSwitch
    <2>1. net' \in BOOLEAN /\ UNCHANGED jobs /\ UNCHANGED <<panel, posts, polls>>
        BY <1>10 DEF NetSwitch
    <2> QED BY <1>1, <2>1, StoreOnward, ServerKeeps DEF PanelInv
<1>11. ASSUME NEW p \in posts, Triggered(p) PROVE PanelInv'
    BY <1>1, <1>11, TriggeredKeeps
<1>12. ASSUME NEW p \in polls, ServePoll(p) \/ Polled(p) PROVE PanelInv'
    BY <1>1, <1>12, ServePollKeeps, PolledKeeps
<1>13. CASE UNCHANGED panelVars
    <2>1. UNCHANGED jobs /\ UNCHANGED net /\ UNCHANGED <<panel, posts, polls>>
        BY <1>13 DEF panelVars
    <2> QED BY <1>1, <1>2, <2>1, StoreOnward, ServerKeeps DEF PanelInv
<1> QED BY <1>1, <1>3, <1>4, <1>5, <1>6, <1>7, <1>8, <1>9, <1>10, <1>11, <1>12, <1>13 DEF PanelNext

(* The look of the card and the message tell the truth of the end of a     *)
(* job: polls, which nothing cancels, may be answered late, and those of   *)
(* one job after another has been triggered (ReplayModal's interval).      *)
THEOREM EndsAreTrue == PanelSpec => []EndIsTrue
<1>1. ASSUME PanelInv PROVE EndIsTrue
    <2>1. activeJob = NoReplay \/ activeJob.status \in NotYet \cup Ended
        BY <1>1 DEF PanelInv, PanelTypeOK
    <2>2. Card = "check" => activeJob.status = "completed"
        BY DEF Card
    <2>3. Card = "alert" => activeJob # NoReplay /\ activeJob.status \notin {"processing", "completed"}
        BY DEF Card
    <2>4. Card = "alert" => activeJob.status \in {"queued", "failed"}
        BY <2>1, <2>3 DEF NotYet, Ended
    <2> QED BY <1>1, <2>2, <2>4 DEF PanelInv, EndedAs, EndIsTrue, Ended
<1> QED BY InitPanel, StepKeeps, <1>1, PTL DEF PanelSpec
===============================================================================
