------------------------- MODULE SlidingWindowProofs -------------------------
(***************************************************************************)
(* The window store throws no event away while it is in the window, for    *)
(* any number of workers, events and failures.  The argument: workers      *)
(* prune as of the timestamp of an event, which is never ahead of the      *)
(* clock, so that they prune less than the clock would; and the deque is   *)
(* popped from its left up to an event that is kept, never over one.       *)
(***************************************************************************)
EXTENDS SlidingWindow, SequenceTheorems, WellFoundedInduction, TLAPS

\* The events, and what stands for none.
Item == [id : Nat, ts : Nat]

LossInv ==
    /\ clock \in Nat /\ started \in Nat
    /\ deque \in Seq(Item) /\ zset \subseteq Item /\ added \subseteq Item
    /\ job \in [Workers -> Item]
    /\ \A w \in Workers : job[w].ts <= clock
    /\ NothingLost

\* Every set of natural numbers that is not empty has a least one.
LEMMA LeastNatural ==
    ASSUME NEW T, T \subseteq Nat, T # {}
    PROVE  Min(T) \in T /\ \A y \in T : Min(T) <= y
<1> DEFINE R == OpToRel(<, Nat)
<1>1. IsWellFoundedOn(R, Nat)
    BY NatLessThanWellFounded
<1>2. \A x, y \in Nat : <<y, x>> \in R <=> y < x
    BY DEF OpToRel
<1> HIDE DEF R
<1>3. PICK x \in T : \A y \in T : <<y, x>> \notin R
    BY <1>1, WFMin
<1>4. x \in Nat /\ \A y \in T : y \in Nat /\ ~(y < x)
    BY <1>2, <1>3
<1>5. \A y \in T : x <= y
    BY <1>4
<1> QED BY <1>3, <1>5 DEF Min

\* What is at most a window old is not popped, wherever it is.
LEMMA PopKeeps ==
    ASSUME NEW d \in Seq(Item), NEW t \in Nat
    PROVE  /\ PopExpired(d, t) \in Seq(Item)
           /\ \A i \in 1..Len(d) : Age(d[i], t) <= Window => d[i] \in ToSet(PopExpired(d, t))
<1> DEFINE kept == {i \in DOMAIN d : Age(d[i], t) <= Window}
<1>1. DOMAIN d = 1..Len(d) /\ Len(d) \in Nat /\ \A i \in 1..Len(d) : d[i] \in Item
    BY LenProperties, ElementOfSeq
<1>2. CASE kept = {}
    <2>1. PopExpired(d, t) = <<>>
        BY <1>2 DEF PopExpired
    <2> QED BY <1>1, <1>2, <2>1
<1>3. CASE kept # {}
    <2> DEFINE m == Min(kept)  p == SubSeq(d, m, Len(d))
    <2>1. PopExpired(d, t) = p
        BY <1>3 DEF PopExpired
    <2>2. kept \subseteq Nat /\ kept \subseteq 1..Len(d)
        BY <1>1
    <2>3. m \in kept /\ \A i \in kept : m <= i
        BY <1>3, <2>2, LeastNatural
    <2> HIDE DEF m
    <2>4. m \in 1..Len(d)
        BY <2>2, <2>3
    <2>5. /\ p \in Seq(Item) /\ Len(p) = Len(d) - m + 1
          /\ \A i \in 1..(Len(d) - m + 1) : p[i] = d[m + i - 1]
        BY <1>1, <2>4, SubSeqProperties
    <2> HIDE DEF p
    <2>6. ASSUME NEW i \in 1..Len(d), Age(d[i], t) <= Window
          PROVE  d[i] \in ToSet(p)
        <3>1. i \in kept /\ m <= i
            BY <1>1, <2>3, <2>6
        <3> DEFINE k == i - m + 1
        <3>2. k \in 1..(Len(d) - m + 1) /\ m + k - 1 = i
            BY <1>1, <2>4, <3>1
        <3>3. p[k] = d[i] /\ k \in 1..Len(p)
            BY <2>5, <3>2
        <3>4. DOMAIN p = 1..Len(p)
            BY <2>5, LenProperties
        <3> QED BY <3>3, <3>4 DEF ToSet
    <2> QED BY <2>1, <2>5, <2>6
<1> QED BY <1>2, <1>3

\* Pruning as of a time that is not ahead of the clock keeps what the clock has
\* not expired.
LEMMA PruneKeeps ==
    ASSUME NEW t \in Nat, clock \in Nat, t <= clock, NEW e \in Item, ~Expired(e, clock)
    PROVE  ~Expired(e, t) /\ Age(e, t) <= Window
BY ConstantsAssumption DEF Expired, Age, Item

LEMMA InitLoss == Init => LossInv
BY DEF Init, LossInv, Item, NoJob, NothingLost

\* A step that adds no event, prunes the sorted set as of a worker's event or
\* not at all, pops the deque likewise, and does not wait.
LEMMA ShrinkKeeps ==
    ASSUME LossInv, NEW w \in Workers,
           UNCHANGED <<clock, started, added, evicted>>,
           zset' = zset \/ zset' = Pruned(job[w].ts),
           deque' = deque \/ deque' = PopExpired(deque, job[w].ts),
           job' = job \/ job' = [job EXCEPT ![w] = NoJob]
    PROVE  LossInv'
<1>1. job[w] \in Item /\ job[w].ts \in Nat /\ job[w].ts <= clock /\ clock \in Nat
    BY DEF LossInv, Item
<1>2. job' \in [Workers -> Item] /\ \A v \in Workers : job'[v].ts <= clock
    <2>1. NoJob \in Item /\ NoJob.ts <= clock
        BY <1>1 DEF NoJob, Item
    <2>2. CASE job' = job
        BY <2>2 DEF LossInv
    <2>3. CASE job' = [job EXCEPT ![w] = NoJob]
        BY <2>1, <2>3 DEF LossInv
    <2> QED BY <2>2, <2>3
<1>3. deque' \in Seq(Item) /\ zset' \subseteq Item
    BY <1>1, PopKeeps DEF LossInv, Pruned
<1>4. ASSUME NEW e \in added \ evicted, ~Expired(e, clock)
      PROVE  e \in zset' \cup ToSet(deque')
    <2>1. e \in Item /\ e \in zset \cup ToSet(deque)
        BY <1>4 DEF LossInv, NothingLost
    <2>2. ~Expired(e, job[w].ts) /\ Age(e, job[w].ts) <= Window
        BY <1>1, <1>4, <2>1, PruneKeeps
    <2>3. CASE e \in zset
        BY <2>2, <2>3 DEF Pruned
    <2>4. CASE e \in ToSet(deque)
        <3>1. PICK i \in 1..Len(deque) : deque[i] = e
            BY <2>4, LenProperties DEF ToSet, LossInv
        <3>2. e \in ToSet(PopExpired(deque, job[w].ts))
            BY <1>1, <2>2, <3>1, PopKeeps DEF LossInv
        <3> QED BY <2>4, <3>2
    <2> QED BY <2>1, <2>3, <2>4
<1>5. NothingLost'
    <2>1. clock' = clock /\ added' = added /\ evicted' = evicted
        OBVIOUS
    <2> QED BY <1>4, <2>1 DEF NothingLost, Expired
<1> QED BY <1>2, <1>3, <1>5 DEF LossInv

\* An event is given to a worker.
LEMMA BeginKeeps == ASSUME LossInv, NEW w \in Workers, Begin(w) PROVE LossInv'
<1>1. PICK lag \in Lags : /\ lag <= clock
                          /\ job' = [job EXCEPT ![w] = [id |-> started + 1, ts |-> clock - lag]]
    BY DEF Begin
<1>2. /\ started' = started + 1 /\ UNCHANGED <<clock, deque, zset, added, evicted>>
      /\ lag \in Nat /\ clock \in Nat /\ started \in Nat
    BY <1>1, ConstantsAssumption DEF Begin, LossInv
<1>3. [id |-> started + 1, ts |-> clock - lag] \in Item /\ clock - lag <= clock
    BY <1>1, <1>2 DEF Item
<1>4. job' \in [Workers -> Item] /\ \A v \in Workers : job'[v].ts <= clock'
    BY <1>1, <1>2, <1>3 DEF LossInv
<1> QED BY <1>2, <1>4 DEF LossInv, NothingLost, Expired

\* ZADD.
LEMMA ZaddKeeps == ASSUME LossInv, NEW w \in Workers, Zadd(w) PROVE LossInv'
<1>1. /\ UNCHANGED <<clock, started, deque, job, evicted>> /\ job[w] \in Item
      /\ \/ zset' = zset \cup {job[w]} /\ added' = added \cup {job[w]}
         \/ UNCHANGED <<zset, added>>
    BY DEF Zadd, LossInv
<1>2. NothingLost'
    BY <1>1 DEF LossInv, NothingLost, Expired
<1> QED BY <1>1, <1>2 DEF LossInv

\* The deque: the event is at its end when it is popped from the left.
LEMMA PushKeeps == ASSUME LossInv, NEW w \in Workers, Push(w) PROVE LossInv'
<1> DEFINE d == Append(deque, job[w])
<1>1. /\ deque' = PopExpired(d, job[w].ts) /\ added' = added \cup {job[w]}
      /\ UNCHANGED <<clock, started, zset, job, evicted>>
    BY DEF Push
<1>2. job[w] \in Item /\ job[w].ts \in Nat /\ job[w].ts <= clock /\ clock \in Nat
    BY DEF LossInv, Item
<1>3. /\ d \in Seq(Item) /\ Len(d) = Len(deque) + 1 /\ Len(deque) \in Nat
      /\ \A i \in 1..Len(deque) : d[i] = deque[i]
      /\ d[Len(deque) + 1] = job[w]
    BY <1>2, AppendProperties, LenProperties DEF LossInv
<1> HIDE DEF d
<1>4. deque' \in Seq(Item)
    BY <1>1, <1>2, <1>3, PopKeeps
<1>5. ASSUME NEW e \in added' \ evicted, ~Expired(e, clock)
      PROVE  e \in zset \cup ToSet(deque')
    <2>1. e \in Item
        BY <1>1, <1>2 DEF LossInv
    <2>2. Age(e, job[w].ts) <= Window
        BY <1>2, <1>5, <2>1, PruneKeeps
    <2>3. e \in zset \/ \E i \in 1..Len(d) : d[i] = e
        <3>1. CASE e = job[w]
            BY <1>3, <3>1
        <3>2. CASE e # job[w]
            <4>1. e \in zset \/ e \in ToSet(deque)
                BY <1>1, <1>5, <3>2 DEF LossInv, NothingLost
            <4>2. CASE e \in ToSet(deque)
                <5>1. PICK i \in 1..Len(deque) : deque[i] = e
                    BY <4>2, LenProperties DEF ToSet, LossInv
                <5> QED BY <1>3, <5>1
            <4> QED BY <4>1, <4>2
        <3> QED BY <3>1, <3>2
    <2> QED BY <1>1, <1>2, <1>3, <2>2, <2>3, PopKeeps
<1>6. NothingLost'
    BY <1>1, <1>5 DEF NothingLost, Expired
<1> QED BY <1>1, <1>2, <1>4, <1>6 DEF LossInv

\* The clock: what it has expired stays so.
LEMMA TickKeeps == LossInv /\ Tick => LossInv'
<1>1. SUFFICES ASSUME LossInv, Tick PROVE LossInv'
    OBVIOUS
<1>2. clock' = clock + 1 /\ clock \in Nat /\ UNCHANGED <<started, deque, zset, job, added, evicted>>
    BY <1>1 DEF Tick, LossInv
<1>3. \A w \in Workers : job[w].ts \in Nat /\ job[w].ts <= clock
    BY <1>1 DEF LossInv, Item
<1>4. ASSUME NEW e \in Item, ~Expired(e, clock') PROVE ~Expired(e, clock)
    BY <1>2, <1>4, ConstantsAssumption DEF Expired, Item
<1>5. NothingLost'
    BY <1>1, <1>2, <1>4 DEF LossInv, NothingLost
<1>6. \A w \in Workers : job'[w].ts <= clock'
    BY <1>2, <1>3
<1> QED BY <1>1, <1>2, <1>5, <1>6 DEF LossInv

\* The key expires: what it held inside of the window is evicted.
LEMMA ExpireKeeps == LossInv /\ Expire => LossInv'
BY DEF Expire, Keep, LossInv, NothingLost, Expired

LEMMA ClearKeeps == LossInv /\ Clear => LossInv'
BY DEF Clear, Keep, LossInv, NothingLost

LEMMA StepKeeps == LossInv /\ [Next]_vars => LossInv'
<1>1. SUFFICES ASSUME LossInv, [Next]_vars PROVE LossInv'
    OBVIOUS
<1>2. ASSUME NEW w \in Workers, Process(w) PROVE LossInv'
    <2>1. CASE Begin(w)
        BY <1>1, <2>1, BeginKeeps
    <2>2. CASE Zadd(w)
        BY <1>1, <2>2, ZaddKeeps
    <2>3. CASE Push(w)
        BY <1>1, <2>3, PushKeeps
    <2>4. CASE Zrem(w)
        BY <1>1, <2>4, ShrinkKeeps DEF Zrem, Keep
    <2>5. CASE ReadPrune(w)
        BY <1>1, <2>5, ShrinkKeeps DEF ReadPrune, Keep
    <2>6. CASE ReadRange(w)
        BY <1>1, <2>6, ShrinkKeeps DEF ReadRange, Answer
    <2>7. CASE ReadDeque(w)
        BY <1>1, <2>7, ShrinkKeeps DEF ReadDeque, Answer
    <2> QED BY <1>2, <2>1, <2>2, <2>3, <2>4, <2>5, <2>6, <2>7 DEF Process
<1>3. CASE UNCHANGED vars
    BY <1>1, <1>3 DEF vars, LossInv, NothingLost, Expired
<1> QED BY <1>1, <1>2, <1>3, TickKeeps, ExpireKeeps, ClearKeeps DEF Next

(* Whatever fails, no event is lost that the wall clock has not expired:   *)
(* neither add_event and get_events, which prune, nor the changes between  *)
(* Redis and the deques throw one away.                                    *)
THEOREM NoneLost == Spec => []NothingLost
<1>1. LossInv => NothingLost
    BY DEF LossInv
<1> QED BY InitLoss, StepKeeps, <1>1, PTL DEF Spec

\* A worker's answer replaces its last one and no other's.
LEMMA AnswerComplete ==
    ASSUME ReadsComplete, NEW w \in Workers, NEW got, NEW elsewhere, Answer(w, got, elsewhere),
           \A e \in added \ (evicted \cup elsewhere) :
               e.ts <= job[w].ts /\ ~Expired(e, clock) => e \in got
    PROVE  ReadsComplete'
<1> DEFINE due == added \ (evicted \cup elsewhere)
           new == [at |-> job[w].ts, now |-> clock, got |-> got, due |-> due]
<1>1. reads' = [reads EXCEPT ![w] = new]
    BY DEF Answer
<1>2. new.at = job[w].ts /\ new.now = clock /\ new.got = got /\ new.due = due
    OBVIOUS
<1>3. \A e \in due : e.ts <= job[w].ts /\ ~Expired(e, clock) => e \in got
    OBVIOUS
<1> HIDE DEF new, due
<1>4. ASSUME NEW v \in Workers, NEW e \in reads'[v].due,
             e.ts <= reads'[v].at, ~Expired(e, reads'[v].now)
      PROVE  e \in reads'[v].got
    <2>1. CASE v = w /\ w \in DOMAIN reads
        <3>1. reads'[v] = new
            BY <1>1, <2>1
        <3> QED BY <1>2, <1>3, <1>4, <3>1
    <2>2. CASE ~(v = w /\ w \in DOMAIN reads)
        <3>1. reads'[v] = reads[v]
            BY <1>1, <2>2
        <3> QED BY <1>4, <3>1 DEF ReadsComplete
    <2> QED BY <2>1, <2>2
<1> QED BY <1>4 DEF ReadsComplete, Expired

\* An answer from the sorted set: what the deque does not have is there.
LEMMA RangeComplete == ASSUME LossInv, ReadsComplete, NEW w \in Workers, ReadRange(w) PROVE ReadsComplete'
<1>1. CASE reads' = reads
    BY <1>1 DEF ReadsComplete, Expired
<1>2. CASE reads' # reads
    <2> DEFINE got == {e \in zset : Age(e, job[w].ts) <= Window}
    <2>1. Answer(w, got, ToSet(deque))
        BY <1>2 DEF ReadRange
    <2>2. ASSUME NEW e \in added \ (evicted \cup ToSet(deque)), ~Expired(e, clock) PROVE e \in got
        <3>1. e \in zset /\ e \in Item
            BY <2>2 DEF LossInv, NothingLost
        <3>2. job[w].ts \in Nat /\ job[w].ts <= clock /\ clock \in Nat
            BY DEF LossInv, Item
        <3> QED BY <2>2, <3>1, <3>2, PruneKeeps
    <2> HIDE DEF got
    <2> QED BY <2>1, <2>2, AnswerComplete
<1> QED BY <1>1, <1>2

\* An answer from the deque, which is popped first.
LEMMA DequeComplete == ASSUME LossInv, ReadsComplete, NEW w \in Workers, ReadDeque(w) PROVE ReadsComplete'
<1> DEFINE got == {e \in ToSet(deque') : e.ts <= job[w].ts}
<1>1. Answer(w, got, zset) /\ deque' = PopExpired(deque, job[w].ts)
    BY DEF ReadDeque
<1>2. ASSUME NEW e \in added \ (evicted \cup zset), e.ts <= job[w].ts, ~Expired(e, clock) PROVE e \in got
    <2>1. e \in ToSet(deque) /\ e \in Item
        BY <1>2 DEF LossInv, NothingLost
    <2>2. job[w].ts \in Nat /\ job[w].ts <= clock /\ clock \in Nat
        BY DEF LossInv, Item
    <2>3. Age(e, job[w].ts) <= Window
        BY <1>2, <2>1, <2>2, PruneKeeps
    <2>4. PICK i \in 1..Len(deque) : deque[i] = e
        BY <2>1, LenProperties DEF ToSet, LossInv
    <2> QED BY <1>1, <1>2, <2>2, <2>3, <2>4, PopKeeps DEF LossInv
<1> HIDE DEF got
<1> QED BY <1>1, <1>2, AnswerComplete

(* A read finds what is in the window unless it is in the other store: the *)
(* events that get_events prunes as of its reference time, under other     *)
(* workers that prune as of theirs, are not among those it owes.           *)
THEOREM CompleteReads == Spec => []ReadsComplete
<1>1. Init => ReadsComplete
    BY DEF Init, ReadsComplete, NoRead
<1>2. LossInv /\ ReadsComplete /\ [Next]_vars => ReadsComplete'
    <2>1. SUFFICES ASSUME LossInv, ReadsComplete, [Next]_vars PROVE ReadsComplete'
        OBVIOUS
    <2>2. CASE reads' = reads
        BY <2>1, <2>2 DEF ReadsComplete, Expired
    <2>3. ASSUME NEW w \in Workers, Process(w) PROVE ReadsComplete'
        <3>1. CASE ReadRange(w) \/ ReadDeque(w)
            BY <2>1, <3>1, RangeComplete, DequeComplete
        <3>2. CASE Begin(w) \/ Zadd(w) \/ Zrem(w) \/ Push(w) \/ ReadPrune(w)
            BY <2>2, <3>2 DEF Begin, Zadd, Zrem, Push, ReadPrune
        <3> QED BY <2>3, <3>1, <3>2 DEF Process
    <2>4. CASE Tick \/ Expire \/ Clear \/ UNCHANGED vars
        BY <2>2, <2>4 DEF Tick, Expire, Clear, vars
    <2> QED BY <2>1, <2>3, <2>4 DEF Next
<1> QED BY InitLoss, StepKeeps, <1>1, <1>2, PTL DEF Spec
=============================================================================
