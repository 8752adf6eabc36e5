-------------------------- MODULE AlertArchiveProofs --------------------------
(***************************************************************************)
(* A status sticks, for any number of threads, flows, alerts and pending   *)
(* mutations, under failures, clears and restarts.  ClickHouse is no part  *)
(* of the argument: what it holds may be old, but as long as there is a    *)
(* mark the override of the flow agrees with it, and every alert of one id *)
(* is of one flow, wherever it is.                                         *)
(***************************************************************************)
EXTENDS AlertArchive, SequenceTheorems, TLAPS

Labels   == {"idle", "connect", "insert", "query", "failed", "mutate", "truncate"}
Change   == [id : {0}, flow : Flows, status : Status]   \* what an analyst asks for
Works    == Alert \cup Change \cup [id : 0..MaxAlerts]
Mutation == [status : Status, ids : SUBSET Ids]

\* The threads: a writer at work carries an alert, an analyst a change.
ThreadTypes ==
    /\ pc \in [Threads -> Labels] /\ job \in [Threads -> Works]
    /\ \A w \in Writers : pc[w] # "idle" => job[w] \in Alert
    /\ \A t \in Analysts : pc[t] = "mutate" => job[t] \in Change

StoreTypes ==
    /\ ring \in Seq(Alert) /\ table \subseteq Alert /\ mutations \in Seq(Mutation)
    /\ overrides \in [Flows -> Status \cup {None}]
    /\ marked \in [Ids -> Status \cup {None}]
    /\ recorded \in 0..MaxAlerts

\* An id is of one flow, and was given out; a mark agrees with the override of
\* the flow of each alert that may be listed, and with the ring.
Marks ==
    /\ \A a, b \in Held : a.id = b.id => a.flow = b.flow
    /\ \A a \in Held : a.id <= recorded
    /\ \A i \in Ids : marked[i] # None => i <= recorded
    /\ \A a \in Held : marked[a.id] # None => overrides[a.flow] = marked[a.id]
    /\ \A a \in ToSet(ring) : marked[a.id] # None => a.status = marked[a.id]

ArchiveInv == ThreadTypes /\ StoreTypes /\ Marks

LEMMA HeldIsTyped == ArchiveInv => Held \subseteq Alert
<1>1. SUFFICES ASSUME ArchiveInv PROVE Held \subseteq Alert
    OBVIOUS
<1>2. ToSet(ring) \subseteq Alert
    BY <1>1, LenProperties, ElementOfSeq DEF ArchiveInv, StoreTypes, ToSet
<1> QED BY <1>1, <1>2 DEF ArchiveInv, ThreadTypes, StoreTypes, Held

LEMMA InitArchive == Init => ArchiveInv
<1>1. SUFFICES ASSUME Init PROVE ArchiveInv
    OBVIOUS
<1>2. ThreadTypes
    BY <1>1, ConstantsAssumption DEF Init, ThreadTypes, Labels, Works, NoJob, Threads
<1>3. StoreTypes
    BY <1>1, ConstantsAssumption DEF Init, StoreTypes, Ids
<1>4. Held = {}
    BY <1>1 DEF Init, Held, ToSet, Threads
<1>5. Marks
    BY <1>1, <1>4 DEF Init, Marks, ToSet, Held
<1> QED BY <1>2, <1>3, <1>5 DEF ArchiveInv

\* A thread goes on: a writer with the alert it carries, or it is done.
LEMMA ThreadsGoOn ==
    ASSUME ThreadTypes, NEW t \in Threads, NEW l \in Labels, NEW j \in Works,
           pc' = [pc EXCEPT ![t] = l], job' = job \/ job' = [job EXCEPT ![t] = j],
           t \in Writers => l = "idle" \/ (pc[t] # "idle" /\ job' = job),
           l = "mutate" => job' = [job EXCEPT ![t] = j] /\ j \in Change
    PROVE  /\ ThreadTypes'
           /\ \A w \in Writers : pc'[w] # "idle" => pc[w] # "idle" /\ job'[w] = job[w]
<1>1. pc' \in [Threads -> Labels] /\ job' \in [Threads -> Works]
    BY DEF ThreadTypes
<1>2. \A v \in Threads : v # t => pc'[v] = pc[v] /\ job'[v] = job[v]
    BY DEF ThreadTypes
<1>3. pc'[t] = l /\ (job' = [job EXCEPT ![t] = j] => job'[t] = j)
    BY DEF ThreadTypes
<1>4. \A w \in Writers : pc'[w] # "idle" => pc[w] # "idle" /\ job'[w] = job[w]
    BY <1>2, <1>3 DEF Threads
<1>5. \A v \in Analysts : pc'[v] = "mutate" => job'[v] \in Change
    BY <1>2, <1>3 DEF Threads, ThreadTypes
<1> QED BY <1>1, <1>4, <1>5 DEF ThreadTypes

\* A step after which whatever is held was held before, but for its status in
\* the table, and neither marks nor overrides nor the ring change.
LEMMA HeldBefore ==
    ASSUME ArchiveInv, ThreadTypes', StoreTypes',
           UNCHANGED <<ring, overrides, recorded, marked>>,
           \A r \in table' : \E q \in Held : q.id = r.id /\ q.flow = r.flow,
           \A w \in Writers : pc'[w] # "idle" => pc[w] # "idle" /\ job'[w] = job[w]
    PROVE  ArchiveInv'
<1>1. \A a \in Held' : \E q \in Held : q.id = a.id /\ q.flow = a.flow
    BY DEF Held
<1>2. Marks'
    BY <1>1 DEF ArchiveInv, Marks
<1> QED BY <1>2 DEF ArchiveInv

\* Threads and connection: nothing that is kept changes.
LEMMA NothingKept ==
    ASSUME ArchiveInv, ThreadTypes', UNCHANGED <<ring, overrides, table, mutations, recorded, marked>>,
           \A w \in Writers : pc'[w] # "idle" => pc[w] # "idle" /\ job'[w] = job[w]
    PROVE  ArchiveInv'
<1>1. StoreTypes'
    BY DEF ArchiveInv, StoreTypes
<1>2. \A r \in table' : r \in Held
    BY DEF Held
<1> QED BY <1>1, <1>2, HeldBefore
----------------------------------------------------------------------------
(* The ring.                                                               *)

LEMMA FirstKeeps ==
    ASSUME NEW S, NEW s \in Seq(S), NEW n \in Nat
    PROVE  First(n, s) \in Seq(S) /\ ToSet(First(n, s)) \subseteq ToSet(s)
<1> DEFINE m == IF n < Len(s) THEN n ELSE Len(s)
<1>1. Len(s) \in Nat /\ DOMAIN s = 1..Len(s) /\ \A i \in 1..Len(s) : s[i] \in S
    BY LenProperties, ElementOfSeq
<1>2. m \in Nat /\ m <= Len(s)
    BY <1>1
<1>3. First(n, s) = SubSeq(s, 1, m)
    BY DEF First
<1> HIDE DEF m
<1>4. /\ SubSeq(s, 1, m) \in Seq(S) /\ Len(SubSeq(s, 1, m)) = m
      /\ \A i \in 1..m : SubSeq(s, 1, m)[i] = s[i]
    BY <1>1, <1>2, SubSeqProperties
<1>5. DOMAIN SubSeq(s, 1, m) = 1..m
    BY <1>4, LenProperties
<1> QED BY <1>1, <1>2, <1>3, <1>4, <1>5 DEF ToSet

LEMMA AppendLeftKeeps ==
    ASSUME NEW r \in Seq(Alert), NEW a \in Alert
    PROVE  AppendLeft(r, a) \in Seq(Alert) /\ ToSet(AppendLeft(r, a)) \subseteq {a} \cup ToSet(r)
<1> DEFINE c == <<a>> \o r
<1>1. <<a>> \in Seq(Alert) /\ Len(<<a>>) = 1 /\ <<a>>[1] = a
    OBVIOUS
<1>2. /\ c \in Seq(Alert) /\ Len(c) = 1 + Len(r)
      /\ \A i \in 1..Len(c) : c[i] = IF i <= 1 THEN a ELSE r[i - 1]
    BY <1>1, ConcatProperties
<1>3. Len(r) \in Nat /\ DOMAIN r = 1..Len(r) /\ DOMAIN c = 1..Len(c)
    BY <1>2, LenProperties
<1>4. ToSet(c) \subseteq {a} \cup ToSet(r)
    <2>1. ASSUME NEW i \in 1..Len(c) PROVE c[i] = a \/ \E k \in 1..Len(r) : c[i] = r[k]
        <3>1. i = 1 \/ i - 1 \in 1..Len(r)
            BY <1>2, <1>3
        <3> QED BY <1>2, <1>3, <3>1
    <2> QED BY <1>3, <2>1 DEF ToSet
<1> HIDE DEF c
<1>5. AppendLeft(r, a) = First(RingSize, c)
    BY DEF AppendLeft, c
<1> QED BY <1>2, <1>4, <1>5, FirstKeeps, ConstantsAssumption

LEMMA RestatusKeeps ==
    ASSUME NEW r \in Seq(Alert), NEW f \in Flows, NEW s \in Status
    PROVE  /\ Restatus(r, f, s) \in Seq(Alert)
           /\ \A a \in ToSet(Restatus(r, f, s)) :
                 \E b \in ToSet(r) : /\ a.id = b.id /\ a.flow = b.flow
                                    /\ a.status = IF b.flow = f THEN s ELSE b.status
<1> DEFINE q == Restatus(r, f, s)
<1>1. Len(r) \in Nat /\ DOMAIN r = 1..Len(r) /\ \A i \in 1..Len(r) : r[i] \in Alert
    BY LenProperties, ElementOfSeq
<1>2. /\ DOMAIN q = 1..Len(r)
      /\ \A i \in 1..Len(r) : q[i] = IF r[i].flow = f THEN [r[i] EXCEPT !.status = s] ELSE r[i]
    BY <1>1 DEF Restatus
<1>3. ASSUME NEW b \in Alert
      PROVE  LET c == [b EXCEPT !.status = s] IN c \in Alert /\ c.id = b.id /\ c.flow = b.flow /\ c.status = s
    BY DEF Alert
<1>4. \A i \in 1..Len(r) : q[i] \in Alert
    BY <1>1, <1>2, <1>3
<1>5. q = [i \in 1..Len(r) |-> q[i]]
    BY <1>1 DEF Restatus
<1>6. q \in Seq(Alert)
    BY <1>1, <1>4, <1>5, SeqDef
<1>7. ASSUME NEW i \in 1..Len(r)
      PROVE  /\ q[i].id = r[i].id /\ q[i].flow = r[i].flow
             /\ q[i].status = IF r[i].flow = f THEN s ELSE r[i].status
    <2>1. r[i] \in Alert
        BY <1>1
    <2>2. CASE r[i].flow = f
        <3>1. q[i] = [r[i] EXCEPT !.status = s]
            BY <1>2, <2>2
        <3> QED BY <1>3, <2>1, <2>2, <3>1
    <2>3. CASE r[i].flow # f
        BY <1>2, <2>3
    <2> QED BY <2>2, <2>3
<1> HIDE DEF q
<1>8. \A a \in ToSet(q) : \E b \in ToSet(r) : /\ a.id = b.id /\ a.flow = b.flow
                                               /\ a.status = IF b.flow = f THEN s ELSE b.status
    BY <1>1, <1>2, <1>7 DEF ToSet
<1> QED BY <1>6, <1>8 DEF q
----------------------------------------------------------------------------
(* The steps.                                                              *)

\* An alert that is recorded has an id of its own, which has no mark.
LEMMA RecordKeeps == ASSUME ArchiveInv, NEW t \in Writers, Record(t) PROVE ArchiveInv'
<1>1. PICK f \in Flows :
          LET a == [id |-> recorded + 1, flow |-> f, status |-> New]
          IN ring' = AppendLeft(ring, a) /\ job' = [job EXCEPT ![t] = a]
    BY DEF Record
<1> DEFINE a == [id |-> recorded + 1, flow |-> f, status |-> New]
<1>2. /\ recorded < MaxAlerts /\ recorded' = recorded + 1 /\ pc' = [pc EXCEPT ![t] = "connect"]
      /\ UNCHANGED <<overrides, table, mutations, marked>>
    BY DEF Record, Goto, server
<1>3. recorded \in Nat /\ MaxAlerts \in Nat /\ t \in Threads
    BY ConstantsAssumption DEF ArchiveInv, StoreTypes, Threads
<1>4. a \in Alert /\ a.id = recorded + 1
    BY <1>2, <1>3 DEF Alert, Ids, Status
<1>5. job' = [job EXCEPT ![t] = a] /\ ring' = AppendLeft(ring, a)
    BY <1>1
<1> HIDE DEF a
<1>6. ring' \in Seq(Alert) /\ ToSet(ring') \subseteq {a} \cup ToSet(ring)
    BY <1>4, <1>5, AppendLeftKeeps DEF ArchiveInv, StoreTypes
<1>7. ThreadTypes'
    <2>1. pc' \in [Threads -> Labels] /\ job' \in [Threads -> Works]
        BY <1>2, <1>4, <1>5 DEF ArchiveInv, ThreadTypes, Labels, Works
    <2>2. \A w \in Writers : pc'[w] # "idle" => job'[w] \in Alert
        BY <1>3, <1>4, <1>5, <1>2 DEF ArchiveInv, ThreadTypes, Threads
    <2>3. \A v \in Analysts : v # t /\ v \in Threads
        BY ConstantsAssumption DEF Threads
    <2>4. \A v \in Analysts : pc'[v] = "mutate" => job'[v] \in Change
        BY <1>2, <1>5, <2>3 DEF ArchiveInv, ThreadTypes
    <2> QED BY <2>1, <2>2, <2>4 DEF ThreadTypes
<1>8. StoreTypes'
    BY <1>2, <1>3, <1>6 DEF ArchiveInv, StoreTypes
<1>9. Held' \subseteq {a} \cup Held
    <2>1. \A w \in Writers : pc'[w] # "idle" => job'[w] = a \/ (pc[w] # "idle" /\ job'[w] = job[w])
        BY <1>2, <1>5 DEF ArchiveInv, ThreadTypes, Threads
    <2> QED BY <1>2, <1>6, <2>1 DEF Held
<1>10. \A b \in Held : b.id \in Nat /\ b.id <= recorded
    BY HeldIsTyped DEF ArchiveInv, Marks, Alert, Ids
<1>11. a.id \in Ids /\ marked[a.id] = None
    BY <1>3, <1>4 DEF ArchiveInv, Marks, Alert
<1>12. Marks'
    <2>1. \A b, c \in Held' : b.id = c.id => b.flow = c.flow
        BY <1>3, <1>4, <1>9, <1>10 DEF ArchiveInv, Marks
    <2>2. \A b \in Held' : b.id <= recorded'
        BY <1>2, <1>3, <1>4, <1>9, <1>10
    <2>3. \A i \in Ids : marked'[i] # None => i <= recorded'
        BY <1>2, <1>3 DEF ArchiveInv, Marks, Ids
    <2>4. \A b \in Held' : marked'[b.id] # None => overrides'[b.flow] = marked'[b.id]
        BY <1>2, <1>9, <1>11 DEF ArchiveInv, Marks
    <2>5. \A b \in ToSet(ring') : marked'[b.id] # None => b.status = marked'[b.id]
        BY <1>2, <1>6, <1>11 DEF ArchiveInv, Marks
    <2> QED BY <2>1, <2>2, <2>3, <2>4, <2>5 DEF Marks
<1> QED BY <1>7, <1>8, <1>12 DEF ArchiveInv

\* An analyst's change: the override is that of all alerts that are marked by
\* it, and no other alert of a flow that keeps its override is marked.
LEMMA UpdateKeeps ==
    ASSUME ArchiveInv, NEW t \in Analysts, NEW f \in Flows, NEW s \in Status, Update(t, f, s)
    PROVE  ArchiveInv'
<1> DEFINE j == [id |-> 0, flow |-> f, status |-> s]
<1>1. /\ overrides' = [overrides EXCEPT ![f] = s] /\ ring' = Restatus(ring, f, s)
      /\ marked' = [i \in Ids |-> IF \E a \in Held : a.id = i /\ a.flow = f THEN s ELSE marked[i]]
      /\ pc' = [pc EXCEPT ![t] = "mutate"] /\ job' = [job EXCEPT ![t] = j]
      /\ UNCHANGED <<table, mutations, recorded>>
    BY DEF Update, Goto, server
<1>2. t \in Threads /\ t \notin Writers /\ j \in Change /\ j \in Works
    BY ConstantsAssumption DEF Threads, Change, Works
<1> HIDE DEF j
<1>3. ThreadTypes' /\ \A w \in Writers : pc'[w] # "idle" => pc[w] # "idle" /\ job'[w] = job[w]
    BY <1>1, <1>2, ThreadsGoOn DEF ArchiveInv, Labels
<1>4. /\ ring' \in Seq(Alert)
      /\ \A a \in ToSet(ring') : \E b \in ToSet(ring) : /\ a.id = b.id /\ a.flow = b.flow
                                                      /\ a.status = IF b.flow = f THEN s ELSE b.status
    BY <1>1, RestatusKeeps DEF ArchiveInv, StoreTypes
<1>5. StoreTypes'
    BY <1>1, <1>4 DEF ArchiveInv, StoreTypes
<1>6. \A a \in Held' : \E b \in Held : a.id = b.id /\ a.flow = b.flow
    BY <1>1, <1>3, <1>4 DEF Held
<1>7. \A a \in Held : a.id \in Ids /\ a.flow \in Flows
    BY HeldIsTyped DEF Alert
<1>8. \A b \in Held : marked'[b.id] = IF b.flow = f THEN s ELSE marked[b.id]
    <2>1. ASSUME NEW b \in Held
          PROVE  (\E a \in Held : a.id = b.id /\ a.flow = f) <=> b.flow = f
        BY DEF ArchiveInv, Marks
    <2> QED BY <1>1, <1>7, <2>1
<1>9. Marks'
    <2>1. \A a, b \in Held' : a.id = b.id => a.flow = b.flow
        BY <1>6 DEF ArchiveInv, Marks
    <2>2. \A a \in Held' : a.id <= recorded'
        BY <1>1, <1>6 DEF ArchiveInv, Marks
    <2>3. \A i \in Ids : marked'[i] # None => i <= recorded'
        BY <1>1 DEF ArchiveInv, Marks
    <2>4. ASSUME NEW b \in Held, marked'[b.id] # None PROVE overrides'[b.flow] = marked'[b.id]
        BY <1>1, <1>7, <1>8, <2>4 DEF ArchiveInv, Marks, StoreTypes
    <2>5. \A a \in Held' : marked'[a.id] # None => overrides'[a.flow] = marked'[a.id]
        BY <1>6, <2>4
    <2>6. ASSUME NEW a \in ToSet(ring'), marked'[a.id] # None PROVE a.status = marked'[a.id]
        <3>1. PICK b \in ToSet(ring) : /\ a.id = b.id /\ a.flow = b.flow
                                       /\ a.status = IF b.flow = f THEN s ELSE b.status
            BY <1>4
        <3>2. b \in Held
            BY DEF Held
        <3> QED BY <1>8, <2>6, <3>1, <3>2 DEF ArchiveInv, Marks
    <2> QED BY <2>1, <2>2, <2>3, <2>5, <2>6 DEF Marks
<1> QED BY <1>3, <1>5, <1>9 DEF ArchiveInv

\* Without marks there is nothing to keep but the flows of the ids.
LEMMA UnmarkedKeeps ==
    ASSUME ArchiveInv, ThreadTypes', ring' = <<>>, table' \subseteq table,
           overrides' = [f \in Flows |-> None], marked' = [i \in Ids |-> None],
           UNCHANGED <<mutations, recorded>>,
           \A w \in Writers : pc'[w] # "idle" => pc[w] # "idle" /\ job'[w] = job[w]
    PROVE  ArchiveInv'
<1>1. StoreTypes'
    BY DEF ArchiveInv, StoreTypes
<1>2. ToSet(ring') = {}
    BY DEF ToSet
<1>3. Held' \subseteq Held
    BY <1>2 DEF Held
<1>4. \A a \in Held' : a.id \in Ids /\ marked'[a.id] = None
    BY <1>3, HeldIsTyped DEF Alert
<1>5. Marks'
    BY <1>2, <1>3, <1>4 DEF ArchiveInv, Marks
<1> QED BY <1>1, <1>5 DEF ArchiveInv

LEMMA ClearKeeps == ASSUME ArchiveInv, NEW t \in Analysts, ClearMemory(t) PROVE ArchiveInv'
<1> DEFINE j == [id |-> recorded]
<1>1. /\ ring' = <<>> /\ overrides' = [f \in Flows |-> None] /\ marked' = [i \in Ids |-> None]
      /\ pc' = [pc EXCEPT ![t] = "truncate"] /\ job' = [job EXCEPT ![t] = j]
      /\ UNCHANGED <<table, mutations, recorded>>
    BY DEF ClearMemory, Goto, server
<1>2. t \in Threads /\ t \notin Writers /\ j \in Works
    BY ConstantsAssumption DEF Threads, Works, ArchiveInv, StoreTypes
<1> HIDE DEF j
<1>3. ThreadTypes' /\ \A w \in Writers : pc'[w] # "idle" => pc[w] # "idle" /\ job'[w] = job[w]
    BY <1>1, <1>2, ThreadsGoOn DEF ArchiveInv, Labels
<1> QED BY <1>1, <1>3, UnmarkedKeeps

LEMMA RestartKeeps == ArchiveInv /\ Restart => ArchiveInv'
<1>1. SUFFICES ASSUME ArchiveInv, Restart PROVE ArchiveInv'
    OBVIOUS
<1>2. /\ pc' = [t \in Threads |-> "idle"] /\ job' = [t \in Threads |-> NoJob]
      /\ ring' = <<>> /\ overrides' = [f \in Flows |-> None] /\ marked' = [i \in Ids |-> None]
      /\ table' \subseteq table /\ UNCHANGED <<mutations, recorded>>
    BY <1>1 DEF Restart
<1>3. ThreadTypes'
    BY <1>2, ConstantsAssumption DEF ThreadTypes, Labels, Works, NoJob, Threads
<1>4. \A w \in Writers : pc'[w] = "idle"
    BY <1>2 DEF Threads
<1> QED BY <1>1, <1>2, <1>3, <1>4, UnmarkedKeeps

\* The steps of writers and readers about the connection.
LEMMA ConnectionKeeps ==
    ASSUME ArchiveInv, NEW t \in Writers \cup Readers, Open(t) \/ Disconnect(t) \/ Query(t)
    PROVE  ArchiveInv'
<1>1. t \in Threads /\ NoJob \in Works /\ (t \in Writers => t \notin Readers)
    BY ConstantsAssumption DEF Threads, Works, NoJob
<1>2. UNCHANGED <<ring, overrides, table, mutations, recorded, marked>>
    BY DEF Open, Disconnect, Query, memory, server, history
<1>3. PICK l \in Labels \ {"mutate"} :
          /\ pc' = [pc EXCEPT ![t] = l] /\ (job' = job \/ job' = [job EXCEPT ![t] = NoJob])
          /\ t \in Writers => l = "idle" \/ (pc[t] # "idle" /\ job' = job)
    <2>1. CASE Open(t)
        <3>1. CASE connected'
            <4> DEFINE m == IF t \in Writers THEN "insert" ELSE "query"
            <4>1. pc' = [pc EXCEPT ![t] = m] /\ job' = job /\ (t \in Writers => pc[t] = "connect")
                BY <2>1, <3>1 DEF Open, Goto
            <4>2. m \in Labels \ {"mutate"}
                BY DEF Labels
            <4> QED BY <4>1, <4>2
        <3>2. CASE ~connected'
            BY <2>1, <3>2 DEF Open, Finish, Goto, Labels
        <3> QED BY <3>1, <3>2
    <2>2. CASE Disconnect(t)
        BY <2>2 DEF Disconnect, Finish, Goto, Labels
    <2>3. CASE Query(t)
        <3>1. CASE Answers
            BY <2>3, <3>1 DEF Query, Finish, Goto, Labels
        <3>2. CASE ~Answers
            BY <2>3, <3>2 DEF Query, Goto, Labels
        <3> QED BY <3>1, <3>2
    <2> QED BY <2>1, <2>2, <2>3
<1>4. ThreadTypes' /\ \A w \in Writers : pc'[w] # "idle" => pc[w] # "idle" /\ job'[w] = job[w]
    BY <1>1, <1>3, ThreadsGoOn DEF ArchiveInv
<1> QED BY <1>2, <1>4, NothingKept

\* The row that is inserted is the alert that the writer carries.
LEMMA InsertKeeps == ASSUME ArchiveInv, NEW t \in Writers, Insert(t) PROVE ArchiveInv'
<1>1. t \in Threads /\ NoJob \in Works /\ pc[t] = "insert" /\ job[t] \in Alert /\ job[t] \in Held
    BY ConstantsAssumption DEF Insert, ArchiveInv, ThreadTypes, Threads, Works, NoJob, Held
<1>2. /\ UNCHANGED <<ring, overrides, mutations, recorded, marked>>
      /\ table' = table \/ table' = table \cup {job[t]}
    BY DEF Insert, memory, history
<1>3. PICK l \in {"idle", "failed"} :
          /\ pc' = [pc EXCEPT ![t] = l] /\ (job' = job \/ job' = [job EXCEPT ![t] = NoJob])
          /\ l = "failed" => job' = job
    BY DEF Insert, Finish, Goto
<1>4. ThreadTypes' /\ \A w \in Writers : pc'[w] # "idle" => pc[w] # "idle" /\ job'[w] = job[w]
    BY <1>1, <1>3, ThreadsGoOn DEF ArchiveInv, Labels
<1>5. StoreTypes'
    BY <1>1, <1>2 DEF ArchiveInv, StoreTypes
<1>6. \A r \in table' : r \in Held
    BY <1>1, <1>2 DEF Held
<1> QED BY <1>2, <1>4, <1>5, <1>6, HeldBefore

\* What the analyst's thread does in ClickHouse.
LEMMA MutateKeeps == ASSUME ArchiveInv, NEW t \in Analysts, Mutate(t) PROVE ArchiveInv'
<1> DEFINE m == [status |-> job[t].status, ids |-> {r.id : r \in {q \in table : q.flow = job[t].flow}}]
<1>1. /\ pc[t] = "mutate" /\ pc' = [pc EXCEPT ![t] = "idle"] /\ job' = [job EXCEPT ![t] = NoJob]
      /\ UNCHANGED <<ring, overrides, table, recorded, marked>>
      /\ mutations' = mutations \/ mutations' = Append(mutations, m)
    BY DEF Mutate, Finish, Goto, memory, history
<1>2. t \in Threads /\ t \notin Writers /\ NoJob \in Works /\ job[t] \in Change
    BY <1>1, ConstantsAssumption DEF Threads, Works, NoJob, ArchiveInv, ThreadTypes
<1>3. m \in Mutation
    BY <1>2 DEF Change, Mutation, ArchiveInv, StoreTypes, Alert
<1> HIDE DEF m
<1>4. ThreadTypes' /\ \A w \in Writers : pc'[w] # "idle" => pc[w] # "idle" /\ job'[w] = job[w]
    BY <1>1, <1>2, ThreadsGoOn DEF ArchiveInv, Labels
<1>5. StoreTypes'
    <2>1. mutations \in Seq(Mutation)
        BY DEF ArchiveInv, StoreTypes
    <2>2. mutations' \in Seq(Mutation)
        BY <1>1, <1>3, <2>1, AppendProperties
    <2> QED BY <1>1, <2>2 DEF ArchiveInv, StoreTypes
<1>6. \A r \in table' : r \in Held
    BY <1>1 DEF Held
<1> QED BY <1>1, <1>4, <1>5, <1>6, HeldBefore

LEMMA TruncateKeeps == ASSUME ArchiveInv, NEW t \in Analysts, Truncate(t) PROVE ArchiveInv'
<1>1. /\ pc' = [pc EXCEPT ![t] = "idle"] /\ job' = [job EXCEPT ![t] = NoJob]
      /\ UNCHANGED <<ring, overrides, mutations, recorded, marked>> /\ table' \subseteq table
    BY DEF Truncate, Finish, Goto, memory
<1>2. t \in Threads /\ t \notin Writers /\ NoJob \in Works
    BY ConstantsAssumption DEF Threads, Works, NoJob
<1>3. ThreadTypes' /\ \A w \in Writers : pc'[w] # "idle" => pc[w] # "idle" /\ job'[w] = job[w]
    BY <1>1, <1>2, ThreadsGoOn DEF ArchiveInv, Labels
<1>4. StoreTypes'
    BY <1>1 DEF ArchiveInv, StoreTypes
<1>5. \A r \in table' : r \in Held
    BY <1>1 DEF Held
<1> QED BY <1>1, <1>3, <1>4, <1>5, HeldBefore

\* A mutation changes statuses only, whatever rows it was meant for.
LEMMA ApplyKeeps == ArchiveInv /\ ApplyMutation => ArchiveInv'
<1>1. SUFFICES ASSUME ArchiveInv, ApplyMutation PROVE ArchiveInv'
    OBVIOUS
<1> DEFINE s == Head(mutations).status
           Applied(r) == IF r.id \in Head(mutations).ids THEN [r EXCEPT !.status = s] ELSE r
<1>2. /\ UNCHANGED <<ring, overrides, pc, job, recorded, marked>> /\ mutations # <<>>
      /\ mutations' = Tail(mutations) /\ table' = {Applied(r) : r \in table}
    BY <1>1 DEF ApplyMutation, memory, threads, history
<1>3. mutations' \in Seq(Mutation) /\ Head(mutations) \in Mutation
    BY <1>1, <1>2, HeadTailProperties DEF ArchiveInv, StoreTypes
<1>4. s \in Status
    BY <1>3 DEF Mutation
<1>5. ASSUME NEW r \in Alert PROVE Applied(r) \in Alert /\ Applied(r).id = r.id /\ Applied(r).flow = r.flow
    BY <1>4 DEF Alert
<1> HIDE DEF Applied
<1>6. \A q \in table' : q \in Alert /\ \E r \in Held : r.id = q.id /\ r.flow = q.flow
    BY <1>1, <1>2, <1>5 DEF ArchiveInv, StoreTypes, Held
<1>7. ThreadTypes' /\ StoreTypes'
    BY <1>1, <1>2, <1>3, <1>6 DEF ArchiveInv, ThreadTypes, StoreTypes
<1> QED BY <1>1, <1>2, <1>6, <1>7, HeldBefore

LEMMA StepKeeps == ArchiveInv /\ [Next]_vars => ArchiveInv'
<1>1. SUFFICES ASSUME ArchiveInv, [Next]_vars PROVE ArchiveInv'
    OBVIOUS
<1>2. ASSUME NEW t \in Writers, Write(t) PROVE ArchiveInv'
    BY <1>1, <1>2, RecordKeeps, InsertKeeps, ConnectionKeeps DEF Write
<1>3. ASSUME NEW t \in Readers, Read(t) PROVE ArchiveInv'
    BY <1>1, <1>3, ConnectionKeeps DEF Read
<1>4. ASSUME NEW t \in Analysts, Analyse(t) PROVE ArchiveInv'
    BY <1>1, <1>4, UpdateKeeps, MutateKeeps, ClearKeeps, TruncateKeeps DEF Analyse
<1>5. CASE RetryTick \/ ClickHouseSwitch \/ UNCHANGED vars
    <2>1. UNCHANGED <<ring, overrides, pc, job, table, mutations, recorded, marked>>
        BY <1>5 DEF RetryTick, ClickHouseSwitch, vars, memory, threads, server, history
    <2>2. ThreadTypes'
        BY <1>1, <2>1 DEF ArchiveInv, ThreadTypes
    <2> QED BY <1>1, <2>1, <2>2, NothingKept
<1> QED BY <1>1, <1>2, <1>3, <1>4, <1>5, RestartKeeps, ApplyKeeps DEF Next

(* The status an analyst gives a flow (update_alert_status) stays on every *)
(* listing of the alerts the flow had until it is changed or cleared, from *)
(* the ring and from the table: old inserts, mutations that come late, and *)
(* ClickHouse going and coming show no earlier one.                        *)
THEOREM StatusesStick == Spec => []StatusSticks
<1>1. ASSUME ArchiveInv PROVE StatusSticks
    <2>1. ASSUME NEW i \in Ids, marked[i] # None, NEW k \in DOMAIN ring, ring[k].id = i
          PROVE  ring[k].status = marked[i]
        <3>1. ring[k] \in ToSet(ring)
            BY DEF ToSet
        <3> QED BY <1>1, <2>1, <3>1 DEF ArchiveInv, Marks
    <2>2. ASSUME NEW i \in Ids, marked[i] # None, NEW r \in table, r.id = i
          PROVE  Listed(r).status = marked[i]
        <3>1. r \in Alert /\ r \in Held
            BY <1>1 DEF ArchiveInv, StoreTypes, Held
        <3>2. overrides[r.flow] = marked[i]
            BY <1>1, <2>2, <3>1 DEF ArchiveInv, Marks
        <3> QED BY <2>2, <3>1, <3>2 DEF Listed, Alert
    <2> QED BY <2>1, <2>2 DEF StatusSticks
<1> QED BY InitArchive, StepKeeps, <1>1, PTL DEF Spec
=============================================================================
