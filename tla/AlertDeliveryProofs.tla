------------------------- MODULE AlertDeliveryProofs -------------------------
(***************************************************************************)
(* Live delivery, for any dashboards and sockets, any buffer, page and     *)
(* archive, and any number of alerts whose broadcasts overlap: no          *)
(* dashboard lists an alert twice, none has two sockets, and no broadcast  *)
(* skips one that is connected.                                            *)
(*                                                                         *)
(* The argument for the last.  A socket that is connected and served is    *)
(* registered (Registered), because what a broadcast unregisters had no    *)
(* connection any more, and a WebSocket object is not used again           *)
(* (Addressed).  So the copy of the list that a broadcast takes has it, at *)
(* a place the broadcast has yet to come to, or has come to and has sent;  *)
(* and what was sent stays on the wire or in the buffer (Owed).            *)
(***************************************************************************)
EXTENDS AlertDelivery, SequenceTheorems, WellFoundedInduction, TLAPS

\* Alerts are numbered in the order they are recorded, and broadcast once.
Numbered ==
    /\ IsInjective(archive) /\ \A i \in 1..Len(archive) : archive[i] <= recorded
    /\ \A a \in Ids : task[a].stage # "none" => a <= recorded

\* The pages on their way to a buffer.
Paged ==
    \A d \in Dashboards : \A k \in 1..Len(pages[d]) :
        IsInjective(pages[d][k]) /\ Len(pages[d][k]) <= PageSize

Registered ==
    /\ ToSet(active) \subseteq serving /\ serving \cap asked = {}
    /\ serving \cap up \subseteq ToSet(active)

\* A broadcast finds dead only what it has sent to, and what has no connection.
Addressed ==
    \A a \in Ids :
        /\ task[a].dead \subseteq ToSet(task[a].to) \ up
        /\ task[a].stage # "sending" => task[a].to = <<>> /\ task[a].next = 1

\* A dashboard's socket is one of its own.
OwnSocket == \A d \in Dashboards : socketRef[d] # NoSocket => Owner(socketRef[d]) = d

Reached(a, s) ==
    \/ a <= dropped[Owner(s)] \/ Contains(wire[s], a) \/ Contains(buffer[Owner(s)], a)
    \/ Len(buffer[Owner(s)]) >= BufferSize

\* What the broadcast of a owes to the socket s.
OwedTo(a, s) ==
    /\ task[a].stage = "done" => Reached(a, s)
    /\ task[a].stage = "sending" =>
           \E p \in 1..Len(task[a].to) :
               task[a].to[p] = s /\ (p < task[a].next => Reached(a, s))

Owed == \A s \in serving \cap up, a \in Ids : a > since[s] => OwedTo(a, s)

DeliveryInv ==
    /\ TypeOK /\ Numbered /\ Paged /\ Registered /\ Addressed
    /\ OwnSocket /\ OneSocket /\ Owed /\ NoDuplicates
----------------------------------------------------------------------------
(* The operators on lists.                                                 *)

\* Every set of natural numbers that is not empty has a least one.
LEMMA LeastNatural ==
    ASSUME NEW T, T \subseteq Nat, T # {}
    PROVE  \E m \in T : \A y \in T : m <= y
<1> DEFINE R == OpToRel(<, Nat)
<1>1. IsWellFoundedOn(R, Nat)
    BY NatLessThanWellFounded
<1>2. \A x, y \in Nat : <<y, x>> \in R <=> y < x
    BY DEF OpToRel
<1> HIDE DEF R
<1>3. PICK x \in T : \A y \in T : <<y, x>> \notin R
    BY <1>1, WFMin
<1>4. x \in Nat /\ \A y \in T : y \in Nat /\ ~(y < x)
    BY <1>2, <1>3
<1>5. \A y \in T : x <= y
    BY <1>4
<1> QED BY <1>3, <1>5

\* ... and one that is bounded a greatest one.
LEMMA GreatestNatural ==
    ASSUME NEW n \in Nat, NEW T, T \subseteq 0..n, T # {}
    PROVE  Max(T) \in T /\ \A y \in T : y <= Max(T)
<1> DEFINE U == {n - y : y \in T}
<1>1. U \subseteq Nat /\ U # {}
    <2>1. \A y \in T : y \in Nat /\ n - y \in Nat
        OBVIOUS
    <2> QED BY <2>1
<1>2. PICK u \in U : \A y \in U : u <= y
    BY <1>1, LeastNatural
<1>3. PICK m \in T : u = n - m
    BY <1>2
<1>4. \A y \in T : m >= y
    <2> SUFFICES ASSUME NEW y \in T PROVE m >= y
        OBVIOUS
    <2>1. n - y \in U /\ y \in 0..n /\ m \in 0..n
        OBVIOUS
    <2> QED BY <1>2, <1>3, <2>1
<1> HIDE DEF U
<1>5. Max(T) \in T /\ \A y \in T : Max(T) >= y
    BY <1>4 DEF Max
<1>6. \A y \in T : y \in Nat
    OBVIOUS
<1> QED BY <1>5, <1>6

\* The recursion of Without has a solution: if a prefix had none, neither had a
\* shorter one.
LEMMA WithoutSolved ==
    ASSUME NEW S, NEW seq \in Seq(S), NEW gone
    PROVE  \E f : /\ f = [i \in 0..Len(seq) |->
                             IF i = 0 THEN <<>>
                             ELSE IF seq[i] \in gone THEN f[i - 1] ELSE Append(f[i - 1], seq[i])]
                  /\ Without(gone, seq) = f[Len(seq)]
<1> DEFINE Step(f, i) == IF i = 0 THEN <<>>
                         ELSE IF seq[i] \in gone THEN f[i - 1] ELSE Append(f[i - 1], seq[i])
           Solves(f, n) == f = [i \in 0..n |-> Step(f, i)]
           Solved(n)    == \E f : Solves(f, n)
           unsolved     == {n \in Nat : ~Solved(n)}
<1>1. Solved(0)
    <2> DEFINE f == [i \in 0..0 |-> <<>>]
    <2>1. Solves(f, 0)
        OBVIOUS
    <2> QED BY <2>1
<1>2. ASSUME NEW n \in Nat, Solved(n) PROVE Solved(n + 1)
    <2>1. PICK g : Solves(g, n)
        BY <1>2
    <2>2. \A i \in 0..n : g[i] = Step(g, i)
        BY <2>1
    <2> DEFINE h == [i \in 0..(n + 1) |-> IF i = n + 1 THEN Step(g, n + 1) ELSE g[i]]
    <2>3. /\ h = [i \in 0..(n + 1) |-> h[i]]
          /\ \A i \in 0..n : h[i] = g[i]
          /\ h[n + 1] = Step(g, n + 1)
        OBVIOUS
    <2> HIDE DEF h
    <2>4. h[n + 1] = Step(h, n + 1)
        <3>1. n + 1 # 0 /\ (n + 1) - 1 = n /\ n \in 0..n
            OBVIOUS
        <3>2. h[(n + 1) - 1] = g[(n + 1) - 1]
            BY <2>3, <3>1
        <3> QED BY <2>3, <3>1, <3>2
    <2>5. ASSUME NEW i \in 0..n PROVE h[i] = Step(h, i)
        <3>1. CASE i = 0
            BY <2>2, <2>3, <3>1
        <3>2. CASE i # 0
            <4>1. i - 1 \in 0..n
                BY <3>2
            <4>2. h[i] = g[i] /\ h[i - 1] = g[i - 1]
                BY <2>3, <4>1
            <4>3. g[i] = Step(g, i)
                BY <2>2
            <4> QED BY <4>2, <4>3, <3>2
        <3> QED BY <3>1, <3>2
    <2>6. \A i \in 0..(n + 1) : h[i] = Step(h, i)
        <3> HIDE DEF Step
        <3>1. SUFFICES ASSUME NEW i \in 0..(n + 1) PROVE h[i] = Step(h, i)
            OBVIOUS
        <3>2. i \in 0..n \/ i = n + 1
            OBVIOUS
        <3> QED BY <2>4, <2>5, <3>2
    <2> HIDE DEF Step
    <2>7. Solves(h, n + 1)
        BY <2>3, <2>6
    <2> QED BY <2>7
<1>3. ASSUME NEW n \in Nat PROVE Solved(n)
    <2> HIDE DEF Solved
    <2>1. SUFFICES ASSUME unsolved # {} PROVE FALSE
        OBVIOUS
    <2>2. PICK m \in unsolved : \A y \in unsolved : m <= y
        BY <2>1, LeastNatural
    <2>3. m \in Nat /\ ~Solved(m) /\ m # 0
        BY <1>1, <2>2
    <2>4. m - 1 \in Nat /\ ~(m <= m - 1)
        BY <2>3
    <2>5. Solved(m - 1)
        BY <2>2, <2>4
    <2>6. Solved((m - 1) + 1)
        BY <1>2, <2>4, <2>5
    <2>7. (m - 1) + 1 = m
        BY <2>3
    <2> QED BY <2>3, <2>6, <2>7
<1>4. Solved(Len(seq))
    BY <1>3, LenProperties
<1> DEFINE kept == CHOOSE f : Solves(f, Len(seq))
<1>5. Solves(kept, Len(seq))
    BY <1>4
<1>6. Without(gone, seq) = kept[Len(seq)]
    BY DEF Without
<1> QED BY <1>5, <1>6

\* The elements of a list, by its places.
LEMMA Places ==
    ASSUME NEW S, NEW seq \in Seq(S)
    PROVE  /\ Len(seq) \in Nat
           /\ \A e : e \in ToSet(seq) <=> \E i \in 1..Len(seq) : seq[i] = e
           /\ \A e : Contains(seq, e) <=> e \in ToSet(seq)
           /\ IsInjective(seq) <=> \A i, j \in 1..Len(seq) : seq[i] = seq[j] => i = j
           /\ ToSet(seq) \subseteq S
<1>1. DOMAIN seq = 1..Len(seq) /\ Len(seq) \in Nat /\ \A i \in 1..Len(seq) : seq[i] \in S
    BY LenProperties, ElementOfSeq
<1> QED BY <1>1 DEF ToSet, Contains, IsInjective

LEMMA WithoutProperties ==
    ASSUME NEW S, NEW seq \in Seq(S), NEW gone
    PROVE  /\ Without(gone, seq) \in Seq(S) /\ Len(Without(gone, seq)) <= Len(seq)
           /\ ToSet(Without(gone, seq)) = ToSet(seq) \ gone
           /\ IsInjective(seq) => IsInjective(Without(gone, seq))
<1>1. Len(seq) \in Nat /\ \A i \in 1..Len(seq) : seq[i] \in S
    BY LenProperties, ElementOfSeq
<1>2. PICK f : /\ f = [i \in 0..Len(seq) |->
                          IF i = 0 THEN <<>>
                          ELSE IF seq[i] \in gone THEN f[i - 1] ELSE Append(f[i - 1], seq[i])]
               /\ Without(gone, seq) = f[Len(seq)]
    BY WithoutSolved
<1>3. /\ f[0] = <<>>
      /\ \A i \in 0..(Len(seq) - 1) :
            f[i + 1] = IF seq[i + 1] \in gone THEN f[i] ELSE Append(f[i], seq[i + 1])
    <2>1. 0 \in 0..Len(seq)
        BY <1>1
    <2>2. f[0] = <<>>
        BY <1>2, <2>1
    <2>3. ASSUME NEW i \in 0..(Len(seq) - 1)
          PROVE  f[i + 1] = IF seq[i + 1] \in gone THEN f[i] ELSE Append(f[i], seq[i + 1])
        <3>1. i + 1 \in 0..Len(seq) /\ i + 1 # 0 /\ (i + 1) - 1 = i
            BY <1>1
        <3>2. f[i + 1] = IF i + 1 = 0 THEN <<>>
                         ELSE IF seq[i + 1] \in gone THEN f[(i + 1) - 1]
                         ELSE Append(f[(i + 1) - 1], seq[i + 1])
            BY <1>2, <3>1
        <3> QED BY <3>1, <3>2
    <2> QED BY <2>2, <2>3
<1> DEFINE Right(i) ==
        /\ f[i] \in Seq(S) /\ Len(f[i]) <= i
        /\ \A k \in 1..Len(f[i]) : \E j \in 1..i : f[i][k] = seq[j] /\ seq[j] \notin gone
        /\ \A j \in 1..i : seq[j] \notin gone => \E k \in 1..Len(f[i]) : f[i][k] = seq[j]
        /\ IsInjective(seq) => \A k, l \in 1..Len(f[i]) : f[i][k] = f[i][l] => k = l
<1>4. Right(0)
    BY <1>3, EmptySeq
<1>5. ASSUME NEW i \in 0..(Len(seq) - 1), Right(i) PROVE Right(i + 1)
    <2>1. i \in Nat /\ i + 1 \in 1..Len(seq) /\ seq[i + 1] \in S
        BY <1>1
    <2>2. CASE seq[i + 1] \in gone
        <3>1. f[i + 1] = f[i]
            BY <1>3, <2>2
        <3>2. \A j \in 1..(i + 1) : seq[j] \notin gone => j \in 1..i
            BY <2>1, <2>2
        <3> QED BY <1>5, <2>1, <3>1, <3>2
    <2>3. CASE seq[i + 1] \notin gone
        <3> DEFINE g == f[i]  h == f[i + 1]
        <3>1. h = Append(g, seq[i + 1])
            BY <1>3, <2>3
        <3>2. /\ h \in Seq(S) /\ Len(h) = Len(g) + 1 /\ Len(g) \in Nat /\ Len(g) <= i
              /\ \A k \in 1..Len(g) : h[k] = g[k]
              /\ h[Len(g) + 1] = seq[i + 1]
            BY <1>5, <2>1, <3>1, AppendProperties, LenProperties
        <3>3. /\ \A k \in 1..Len(g) : \E j \in 1..i : g[k] = seq[j] /\ seq[j] \notin gone
              /\ \A j \in 1..i : seq[j] \notin gone => \E k \in 1..Len(g) : g[k] = seq[j]
              /\ IsInjective(seq) => \A k, l \in 1..Len(g) : g[k] = g[l] => k = l
            BY <1>5
        <3> HIDE DEF g, h
        <3>4. ASSUME NEW k \in 1..Len(h)
              PROVE  \E j \in 1..(i + 1) : h[k] = seq[j] /\ seq[j] \notin gone
            <4>1. CASE k \in 1..Len(g)
                BY <2>1, <3>2, <3>3, <4>1
            <4>2. CASE k = Len(g) + 1
                BY <2>1, <2>3, <3>2, <4>2
            <4> QED BY <3>2, <4>1, <4>2
        <3>5. ASSUME NEW j \in 1..(i + 1), seq[j] \notin gone
              PROVE  \E k \in 1..Len(h) : h[k] = seq[j]
            <4>1. CASE j \in 1..i
                <5>1. PICK k \in 1..Len(g) : g[k] = seq[j]
                    BY <3>3, <3>5, <4>1
                <5> QED BY <3>2, <5>1
            <4>2. CASE j = i + 1
                BY <3>2, <4>2
            <4> QED BY <2>1, <4>1, <4>2
        <3>6. ASSUME IsInjective(seq), NEW k \in 1..Len(h), NEW l \in 1..Len(h), h[k] = h[l]
              PROVE  k = l
            <4>1. \A m, n \in 1..Len(seq) : seq[m] = seq[n] => m = n
                BY <3>6, Places
            <4>2. \A m \in 1..Len(g) : h[m] # h[Len(g) + 1]
                BY <1>1, <2>1, <3>2, <3>3, <4>1
            <4> QED BY <3>2, <3>3, <3>6, <4>2
        <3>7. Len(h) <= i + 1
            BY <2>1, <3>2
        <3> QED BY <3>2, <3>4, <3>5, <3>6, <3>7 DEF h
    <2> QED BY <2>2, <2>3
<1> HIDE DEF Right
<1>6. Right(Len(seq))
    <2> DEFINE wrong == {i \in 0..Len(seq) : ~Right(i)}
    <2>1. SUFFICES ASSUME wrong # {} PROVE FALSE
        BY <1>1
    <2>2. wrong \subseteq Nat
        BY <1>1
    <2>3. PICK m \in wrong : \A y \in wrong : m <= y
        BY <2>1, <2>2, LeastNatural
    <2>4. m \in 0..Len(seq) /\ ~Right(m) /\ m # 0
        BY <1>4, <2>3
    <2>5. m - 1 \in 0..(Len(seq) - 1) /\ m - 1 \in 0..Len(seq) /\ ~(m <= m - 1)
        BY <1>1, <2>4
    <2>6. Right(m - 1)
        BY <2>3, <2>5
    <2>7. Right((m - 1) + 1)
        BY <1>5, <2>5, <2>6
    <2>8. (m - 1) + 1 = m
        BY <2>4
    <2> QED BY <2>4, <2>7, <2>8
<1> DEFINE w == Without(gone, seq)
<1>7. /\ w \in Seq(S) /\ Len(w) <= Len(seq)
      /\ \A k \in 1..Len(w) : \E j \in 1..Len(seq) : w[k] = seq[j] /\ seq[j] \notin gone
      /\ \A j \in 1..Len(seq) : seq[j] \notin gone => \E k \in 1..Len(w) : w[k] = seq[j]
      /\ IsInjective(seq) => \A k, l \in 1..Len(w) : w[k] = w[l] => k = l
    BY <1>2, <1>6 DEF Right
<1> HIDE DEF w
<1>8. \A e : e \in ToSet(w) <=> e \in ToSet(seq) /\ e \notin gone
    <2>1. \A e : e \in ToSet(w) <=> \E k \in 1..Len(w) : w[k] = e
        BY <1>7, Places
    <2>2. \A e : e \in ToSet(seq) <=> \E j \in 1..Len(seq) : seq[j] = e
        BY Places
    <2>3. ASSUME NEW e, e \in ToSet(w) PROVE e \in ToSet(seq) /\ e \notin gone
        <3>1. PICK k \in 1..Len(w) : w[k] = e
            BY <2>1, <2>3
        <3>2. PICK j \in 1..Len(seq) : w[k] = seq[j] /\ seq[j] \notin gone
            BY <1>7
        <3> QED BY <2>2, <3>1, <3>2
    <2>4. ASSUME NEW e, e \in ToSet(seq), e \notin gone PROVE e \in ToSet(w)
        <3>1. PICK j \in 1..Len(seq) : seq[j] = e
            BY <2>2, <2>4
        <3>2. PICK k \in 1..Len(w) : w[k] = seq[j]
            BY <1>7, <2>4, <3>1
        <3> QED BY <2>1, <3>1, <3>2
    <2> QED BY <2>3, <2>4
<1>9. IsInjective(seq) => IsInjective(w)
    BY <1>7, Places
<1>10. ToSet(w) = ToSet(seq) \ gone
    BY <1>8
<1> QED BY <1>7, <1>9, <1>10 DEF w

LEMMA FirstProperties ==
    ASSUME NEW S, NEW seq \in Seq(S), NEW n \in Nat
    PROVE  /\ First(n, seq) \in Seq(S)
           /\ Len(First(n, seq)) <= n /\ Len(First(n, seq)) <= Len(seq)
           /\ ToSet(First(n, seq)) \subseteq ToSet(seq)
           /\ IsInjective(seq) => IsInjective(First(n, seq))
           /\ Len(First(n, seq)) >= n \/ First(n, seq) = seq
<1> DEFINE m == IF n < Len(seq) THEN n ELSE Len(seq)  p == First(n, seq)
<1>1. Len(seq) \in Nat /\ \A i \in 1..Len(seq) : seq[i] \in S
    BY LenProperties, ElementOfSeq
<1>2. m \in 0..Len(seq) /\ m <= n /\ (m = n \/ m = Len(seq))
    BY <1>1
<1>3. p = SubSeq(seq, 1, m)
    BY DEF First
<1> HIDE DEF m, p
<1>4. p \in Seq(S) /\ Len(p) = m /\ \A i \in 1..m : p[i] = seq[i]
    BY <1>1, <1>2, <1>3, SubSeqProperties
<1>5. m = n \/ p = seq
    BY <1>1, <1>2, <1>4, SeqEqual
<1>6. ToSet(p) \subseteq ToSet(seq)
    BY <1>1, <1>2, <1>4, Places
<1>7. IsInjective(seq) => IsInjective(p)
    BY <1>1, <1>2, <1>4, Places
<1> QED BY <1>1, <1>2, <1>4, <1>5, <1>6, <1>7 DEF p

\* Two lists that share nothing, one behind the other.
LEMMA ConcatInjective ==
    ASSUME NEW S, NEW s \in Seq(S), NEW t \in Seq(S)
    PROVE  /\ s \o t \in Seq(S) /\ Len(s \o t) = Len(s) + Len(t)
           /\ ToSet(s \o t) = ToSet(s) \cup ToSet(t)
           /\ IsInjective(s) /\ IsInjective(t) /\ ToSet(s) \cap ToSet(t) = {}
                  => IsInjective(s \o t)
<1> DEFINE u == s \o t
<1>1. /\ u \in Seq(S) /\ Len(u) = Len(s) + Len(t) /\ Len(s) \in Nat /\ Len(t) \in Nat
      /\ \A i \in 1..(Len(s) + Len(t)) : u[i] = IF i <= Len(s) THEN s[i] ELSE t[i - Len(s)]
    BY ConcatProperties, LenProperties
<1> HIDE DEF u
<1>2. /\ \A i \in 1..Len(s) : u[i] = s[i]
      /\ \A i \in 1..Len(t) : i + Len(s) \in 1..Len(u) /\ u[i + Len(s)] = t[i]
      /\ \A i \in 1..Len(u) : i \in 1..Len(s) \/ (i - Len(s) \in 1..Len(t) /\ u[i] = t[i - Len(s)])
    BY <1>1
<1>3. ASSUME NEW e, e \in ToSet(u) PROVE e \in ToSet(s) \cup ToSet(t)
    <2>1. PICK i \in 1..Len(u) : u[i] = e
        BY <1>1, <1>3, Places
    <2> QED BY <1>2, <2>1, Places
<1>4. ASSUME NEW e, e \in ToSet(s) \cup ToSet(t) PROVE e \in ToSet(u)
    <2>1. CASE e \in ToSet(s)
        <3>1. PICK i \in 1..Len(s) : s[i] = e
            BY <2>1, Places
        <3>2. i \in 1..Len(u)
            BY <1>1
        <3> QED BY <1>1, <1>2, <3>1, <3>2, Places
    <2>2. CASE e \in ToSet(t)
        <3>1. PICK i \in 1..Len(t) : t[i] = e
            BY <2>2, Places
        <3> QED BY <1>1, <1>2, <3>1, Places
    <2> QED BY <1>4, <2>1, <2>2
<1>5. ToSet(u) = ToSet(s) \cup ToSet(t)
    BY <1>3, <1>4
<1>6. ASSUME IsInjective(s), IsInjective(t), ToSet(s) \cap ToSet(t) = {} PROVE IsInjective(u)
    <2>1. /\ \A i, j \in 1..Len(s) : s[i] = s[j] => i = j
          /\ \A i, j \in 1..Len(t) : t[i] = t[j] => i = j
        BY <1>6, Places
    <2>2. \A i \in 1..Len(s), j \in 1..Len(t) : s[i] # t[j]
        BY <1>6, Places
    <2>3. SUFFICES ASSUME NEW i \in 1..Len(u), NEW j \in 1..Len(u), u[i] = u[j] PROVE i = j
        BY <1>1, Places
    <2>4. CASE i \in 1..Len(s) /\ j \in 1..Len(s)
        BY <1>2, <2>1, <2>3, <2>4
    <2>5. CASE i \in 1..Len(s) /\ j \notin 1..Len(s)
        BY <1>2, <2>2, <2>3, <2>5
    <2>6. CASE i \notin 1..Len(s) /\ j \in 1..Len(s)
        BY <1>2, <2>2, <2>3, <2>6
    <2>7. CASE i \notin 1..Len(s) /\ j \notin 1..Len(s)
        <3> DEFINE k == i - Len(s)  l == j - Len(s)
        <3>1. /\ k \in 1..Len(t) /\ u[i] = t[k] /\ l \in 1..Len(t) /\ u[j] = t[l]
            BY <1>2, <2>7
        <3>2. k = l
            BY <2>1, <2>3, <3>1
        <3> QED BY <1>1, <3>2
    <2> QED BY <2>4, <2>5, <2>6, <2>7
<1> QED BY <1>1, <1>5, <1>6 DEF u

\* What remains of a list of lists is of the list.
LEMMA RemoveAtProperties ==
    ASSUME NEW S, NEW seq \in Seq(S), NEW k \in 1..Len(seq)
    PROVE  /\ RemoveAt(seq, k) \in Seq(S)
           /\ \A i \in 1..Len(RemoveAt(seq, k)) : \E j \in 1..Len(seq) : RemoveAt(seq, k)[i] = seq[j]
<1> DEFINE s == SubSeq(seq, 1, k - 1)  t == SubSeq(seq, k + 1, Len(seq))  r == RemoveAt(seq, k)
<1>1. Len(seq) \in Nat /\ \A i \in 1..Len(seq) : seq[i] \in S
    BY LenProperties, ElementOfSeq
<1>2. s \in Seq(S) /\ t \in Seq(S) /\ r = s \o t
    BY <1>1, SubSeqProperties DEF RemoveAt
<1>3. ToSet(s) \subseteq ToSet(seq) /\ ToSet(t) \subseteq ToSet(seq)
    <2>1. /\ Len(s) = k - 1 /\ \A i \in 1..(k - 1) : s[i] = seq[i]
          /\ Len(t) = Len(seq) - k
          /\ \A i \in 1..(Len(seq) - k) : t[i] = seq[k + 1 + i - 1]
        BY <1>1, SubSeqProperties
    <2> HIDE DEF s, t
    <2>2. \A i \in 1..Len(s) : i \in 1..Len(seq) /\ s[i] = seq[i]
        BY <1>1, <2>1
    <2>3. \A i \in 1..Len(t) : i + k \in 1..Len(seq) /\ t[i] = seq[i + k]
        BY <1>1, <2>1
    <2>4. ASSUME NEW e \in ToSet(s) PROVE e \in ToSet(seq)
        <3>1. PICK i \in 1..Len(s) : s[i] = e
            BY <1>2, Places
        <3>2. i \in 1..Len(seq) /\ seq[i] = e
            BY <2>2, <3>1
        <3> QED BY <3>2, Places
    <2>5. ASSUME NEW e \in ToSet(t) PROVE e \in ToSet(seq)
        <3>1. PICK i \in 1..Len(t) : t[i] = e
            BY <1>2, Places
        <3>2. i + k \in 1..Len(seq) /\ seq[i + k] = e
            BY <2>3, <3>1
        <3> QED BY <3>2, Places
    <2> QED BY <2>4, <2>5
<1> HIDE DEF s, t, r
<1>4. r \in Seq(S) /\ ToSet(r) \subseteq ToSet(seq)
    BY <1>2, <1>3, ConcatInjective
<1>5. ASSUME NEW i \in 1..Len(r) PROVE \E j \in 1..Len(seq) : r[i] = seq[j]
    <2>1. r[i] \in ToSet(r)
        BY <1>4, Places
    <2>2. r[i] \in ToSet(seq)
        BY <1>4, <2>1
    <2>3. \E j \in 1..Len(seq) : seq[j] = r[i]
        BY <2>2, Places
    <2> QED BY <2>3
<1> QED BY <1>4, <1>5 DEF r

LEMMA Single == ASSUME NEW e PROVE ToSet(<<e>>) = {e} /\ IsInjective(<<e>>)
<1> DEFINE one == <<e>>
<1>1. DOMAIN one = {1} /\ one[1] = e
    OBVIOUS
<1> HIDE DEF one
<1>2. ToSet(one) = {e} /\ IsInjective(one)
    BY <1>1 DEF ToSet, IsInjective
<1> QED BY <1>2 DEF one

\* An alert in front of a list that is cut off.
LEMMA InFront ==
    ASSUME NEW S, NEW seq \in Seq(S), NEW e \in S, NEW n \in Nat
    PROVE  LET p == First(n, <<e>> \o seq)
           IN /\ p \in Seq(S) /\ Len(p) <= n
              /\ ToSet(p) \subseteq {e} \cup ToSet(seq)
              /\ IsInjective(seq) /\ e \notin ToSet(seq) => IsInjective(p)
              /\ Len(p) >= n \/ (ToSet(p) = {e} \cup ToSet(seq) /\ Len(seq) < n)
<1> DEFINE one == <<e>>
<1>1. one \in Seq(S) /\ Len(one) = 1 /\ one[1] = e
    OBVIOUS
<1>2. ToSet(one) = {e} /\ IsInjective(one)
    BY Single
<1> HIDE DEF one
<1>3. /\ one \o seq \in Seq(S) /\ ToSet(one \o seq) = {e} \cup ToSet(seq)
      /\ Len(one \o seq) = 1 + Len(seq) /\ Len(seq) \in Nat
      /\ IsInjective(seq) /\ e \notin ToSet(seq) => IsInjective(one \o seq)
    <2>1. Len(one \o seq) = 1 + Len(seq) /\ Len(seq) \in Nat
        BY <1>1, ConcatProperties, LenProperties
    <2> QED BY <1>1, <1>2, <2>1, ConcatInjective
<1> DEFINE u == one \o seq
<1> HIDE DEF u
<1>4. /\ First(n, u) \in Seq(S) /\ Len(First(n, u)) <= n
      /\ ToSet(First(n, u)) \subseteq ToSet(u)
      /\ IsInjective(u) => IsInjective(First(n, u))
      /\ Len(First(n, u)) >= n \/ First(n, u) = u
    BY <1>3, FirstProperties DEF u
<1>5. First(n, <<e>> \o seq) = First(n, u)
    BY DEF u, one
<1>6. Len(First(n, u)) >= n \/ (ToSet(First(n, u)) = {e} \cup ToSet(seq) /\ Len(seq) < n)
    <2>1. /\ Len(u) = 1 + Len(seq) /\ Len(seq) \in Nat /\ ToSet(u) = {e} \cup ToSet(seq)
          /\ Len(First(n, u)) \in Nat
        BY <1>3, <1>4, LenProperties DEF u
    <2>2. CASE First(n, u) = u
        <3>1. Len(u) >= n \/ Len(seq) < n
            BY <2>1
        <3> QED BY <2>1, <2>2, <3>1
    <2> QED BY <1>4, <2>2
<1>7. IsInjective(seq) /\ e \notin ToSet(seq) => IsInjective(First(n, u))
    BY <1>3, <1>4 DEF u
<1>8. ToSet(First(n, u)) \subseteq {e} \cup ToSet(seq)
    BY <1>3, <1>4 DEF u
<1> QED BY <1>4, <1>5, <1>6, <1>7, <1>8

\* An element behind a list.
LEMMA Behind ==
    ASSUME NEW S, NEW seq \in Seq(S), NEW e \in S
    PROVE  /\ Append(seq, e) \in Seq(S) /\ ToSet(Append(seq, e)) = ToSet(seq) \cup {e}
           /\ IsInjective(seq) /\ e \notin ToSet(seq) => IsInjective(Append(seq, e))
<1> DEFINE one == <<e>>
<1>1. one \in Seq(S) /\ Len(one) = 1 /\ one[1] = e
    OBVIOUS
<1>2. Append(seq, e) = seq \o one
    BY AppendIsConcat
<1>3. ToSet(one) = {e} /\ IsInjective(one)
    BY Single
<1> HIDE DEF one
<1> QED BY <1>1, <1>2, <1>3, ConcatInjective
----------------------------------------------------------------------------
(* What keeps the parts of the invariant, whichever action does.           *)

\* A step after which no other socket is served and connected, no task has
\* changed, and what was reached still is.
LEMMA OwedStays ==
    ASSUME Owed, serving' \cap up' \subseteq serving \cap up, since' = since, task' = task,
           \A s \in serving' \cap up', a \in Ids : Reached(a, s) => Reached(a, s)'
    PROVE  Owed'
BY DEF Owed, OwedTo

LEMMA PartsStay ==
    /\ Numbered /\ UNCHANGED <<archive, recorded, task>> => Numbered'
    /\ Paged /\ UNCHANGED pages => Paged'
    /\ Registered /\ UNCHANGED <<active, serving, asked, up>> => Registered'
    /\ Addressed /\ UNCHANGED <<task, up>> => Addressed'
    /\ OwnSocket /\ UNCHANGED socketRef => OwnSocket'
    /\ OneSocket /\ UNCHANGED <<client, socketRef>> => OneSocket'
    /\ NoDuplicates /\ UNCHANGED buffer => NoDuplicates'
BY DEF Numbered, Paged, Registered, Addressed, OwnSocket, OneSocket, Live, NoDuplicates

LEMMA InitDelivers == Init => DeliveryInv
<1>1. SUFFICES ASSUME Init PROVE DeliveryInv
    OBVIOUS
<1>2. TypeOK
    <2>1. NoTask \in [stage : {"none", "suppressed", "created", "sending", "done"},
                      to : Seq(Sockets), next : Nat \ {0}, dead : SUBSET Sockets]
        BY EmptySeq DEF NoTask
    <2>2. IsInjective(active) /\ Len(archive) <= ArchiveSize
        BY <1>1, ConstantsAssumption DEF Init, IsInjective
    <2>3. \A d \in Dashboards : Len(buffer[d]) <= Max({BufferSize, PageSize})
        <3>1. Max({BufferSize, PageSize}) \in Nat
            <4> DEFINE n == IF BufferSize < PageSize THEN PageSize ELSE BufferSize
            <4>1. n \in Nat /\ {BufferSize, PageSize} \subseteq 0..n
                BY ConstantsAssumption
            <4>2. Max({BufferSize, PageSize}) \in {BufferSize, PageSize}
                BY <4>1, GreatestNatural
            <4> QED BY <4>2, ConstantsAssumption
        <3> QED BY <1>1, <3>1 DEF Init
    <2>4. net \in BOOLEAN
        BY <1>1, Zenon DEF Init
    <2>5. /\ archive \in Seq(Ids) /\ recorded \in 0..MaxAlerts /\ active \in Seq(Sockets)
          /\ serving \subseteq Sockets /\ asked \subseteq Sockets /\ up \subseteq Sockets
          /\ wire \in [Sockets -> Seq(Ids)]
        BY <1>1, EmptySeq, ConstantsAssumption DEF Init
    <2>6. task \in [Ids -> [stage : {"none", "suppressed", "created", "sending", "done"},
                           to : Seq(Sockets), next : Nat \ {0}, dead : SUBSET Sockets]]
        BY <1>1, <2>1 DEF Init
    <2>7. /\ client \in [Sockets -> {"closed", "connecting", "open"}]
          /\ socketRef \in [Dashboards -> Sockets \cup {NoSocket}]
          /\ status \in [Dashboards -> {"CONNECTING", "CONNECTED", "DISCONNECTED"}]
          /\ timer \in [Dashboards -> BOOLEAN] /\ clearing \in [Dashboards -> BOOLEAN]
          /\ fetching \in [Dashboards -> BOOLEAN]
        BY <1>1 DEF Init
    <2>8. /\ pages \in [Dashboards -> Seq(Seq(Ids))] /\ buffer \in [Dashboards -> Seq(Ids)]
          /\ effects \in [Dashboards -> 0..MaxEffects]
          /\ since \in [Sockets -> 0..MaxAlerts] /\ dropped \in [Dashboards -> 0..MaxAlerts]
        BY <1>1, EmptySeq, ConstantsAssumption DEF Init
    <2> QED BY <2>2, <2>3, <2>4, <2>5, <2>6, <2>7, <2>8 DEF TypeOK
<1>3. Numbered /\ Addressed
    BY <1>1 DEF Init, NoTask, Numbered, Addressed, IsInjective
<1>4. Paged /\ OwnSocket /\ OneSocket
    BY <1>1 DEF Init, Paged, OwnSocket, OneSocket, Live
<1>5. Registered /\ Owed /\ NoDuplicates
    BY <1>1 DEF Init, Registered, Owed, ToSet, NoDuplicates, IsInjective
<1> QED BY <1>2, <1>3, <1>4, <1>5 DEF DeliveryInv
----------------------------------------------------------------------------
(* The server.                                                             *)

LEMMA RecordKeeps == ASSUME DeliveryInv, Record PROVE DeliveryInv'
<1> DEFINE r == recorded + 1
<1>1. /\ r \in Ids /\ recorded' = r /\ archive' = First(ArchiveSize, <<r>> \o archive)
      /\ UNCHANGED <<active, serving, since, network, socket, alerts>>
      /\ recorded \in Nat /\ archive \in Seq(Ids)
    BY ConstantsAssumption DEF Record, DeliveryInv, TypeOK, Ids
<1>2. PICK st \in {"suppressed", "created"} : task' = [task EXCEPT ![r].stage = st]
    BY <1>1 DEF Record
<1>3. /\ archive' \in Seq(Ids) /\ Len(archive') <= ArchiveSize /\ IsInjective(archive')
      /\ \A i \in 1..Len(archive') : archive'[i] <= r
    <2>1. /\ \A e : e \in ToSet(archive) <=> \E i \in 1..Len(archive) : archive[i] = e
          /\ ToSet(archive) \subseteq Ids
        BY <1>1, Places
    <2>2. r \notin ToSet(archive) /\ \A e \in ToSet(archive) : e <= r
        BY <1>1, <2>1 DEF DeliveryInv, Numbered, Ids
    <2>3. /\ archive' \in Seq(Ids) /\ Len(archive') <= ArchiveSize
          /\ ToSet(archive') \subseteq {r} \cup ToSet(archive) /\ IsInjective(archive')
        BY <1>1, <2>2, InFront, ConstantsAssumption DEF DeliveryInv, Numbered
    <2>4. \A i \in 1..Len(archive') : archive'[i] \in ToSet(archive')
        BY <2>3, Places
    <2>5. \A e \in ToSet(archive') : e <= r
        BY <1>1, <2>2, <2>3
    <2> QED BY <2>3, <2>4, <2>5
<1>4. task[r].stage = "none" /\ task[r].to = <<>> /\ task[r].next = 1
    BY <1>1 DEF DeliveryInv, Numbered, Addressed
<1>5. /\ task' \in [Ids -> [stage : {"none", "suppressed", "created", "sending", "done"},
                            to : Seq(Sockets), next : Nat \ {0}, dead : SUBSET Sockets]]
      /\ \A a \in Ids \ {r} : task'[a] = task[a]
      /\ task'[r].stage = st /\ task'[r].to = task[r].to
      /\ task'[r].next = task[r].next /\ task'[r].dead = task[r].dead
    BY <1>1, <1>2 DEF DeliveryInv, TypeOK
<1>6. TypeOK'
    <2>1. recorded' \in 0..MaxAlerts
        BY <1>1 DEF Ids
    <2>2. UNCHANGED <<active, serving, asked, up, wire, net, client, socketRef, status, timer, effects,
                      fetching, pages, buffer, clearing, since, dropped>>
        BY <1>1 DEF network, socket, alerts
    <2> QED BY <1>3, <1>5, <2>1, <2>2 DEF DeliveryInv, TypeOK
<1>7. Numbered'
    <2>1. \A b \in Ids \ {r} : task'[b].stage # "none" => b <= r
        BY <1>1, <1>5 DEF DeliveryInv, Numbered, Ids
    <2> QED BY <1>1, <1>3, <2>1 DEF Numbered, Ids
<1>8. Addressed'
    BY <1>1, <1>4, <1>5 DEF DeliveryInv, Addressed, network
<1>9. Owed'
    <2>1. ASSUME NEW s \in serving \cap up, NEW a \in Ids, a > since[s] PROVE OwedTo(a, s)'
        <3>1. Reached(a, s)' <=> Reached(a, s)
            BY <1>1 DEF Reached, network, alerts
        <3>2. CASE a = r
            BY <1>5, <3>2 DEF OwedTo
        <3>3. CASE a # r
            BY <1>5, <2>1, <3>1, <3>3 DEF DeliveryInv, Owed, OwedTo
        <3> QED BY <3>2, <3>3
    <2> QED BY <1>1, <2>1 DEF Owed, network
<1> QED BY <1>1, <1>6, <1>7, <1>8, <1>9, PartsStay DEF DeliveryInv, network, socket, alerts

LEMMA StartKeeps == ASSUME DeliveryInv, NEW a \in Ids, Start(a) PROVE DeliveryInv'
<1>1. /\ task[a].stage = "created" /\ task[a].to = <<>> /\ task[a].next = 1
      /\ UNCHANGED <<archive, recorded, active, serving, since, network, socket, alerts>>
    BY DEF Start, DeliveryInv, Addressed
<1>2. task[a].dead = {}
    BY <1>1 DEF DeliveryInv, Addressed, ToSet
<1>3. /\ task' \in [Ids -> [stage : {"none", "suppressed", "created", "sending", "done"},
                            to : Seq(Sockets), next : Nat \ {0}, dead : SUBSET Sockets]]
      /\ \A b \in Ids \ {a} : task'[b] = task[b]
      /\ task'[a].stage = IF active = <<>> THEN "done" ELSE "sending"
      /\ task'[a].to = active /\ task'[a].next = 1 /\ task'[a].dead = {}
    BY <1>1, <1>2 DEF Start, DeliveryInv, TypeOK
<1>4. TypeOK'
    BY <1>1, <1>3 DEF DeliveryInv, TypeOK, network, socket, alerts
<1>5. Numbered'
    BY <1>1, <1>3 DEF DeliveryInv, Numbered
<1>6. Addressed'
    BY <1>1, <1>3 DEF DeliveryInv, Addressed, network
<1>7. Owed'
    <2>1. ASSUME NEW s \in serving \cap up, NEW b \in Ids, b > since[s] PROVE OwedTo(b, s)'
        <3>1. Reached(b, s)' <=> Reached(b, s)
            BY <1>1 DEF Reached, network, alerts
        <3>2. CASE b = a
            <4>1. PICK p \in 1..Len(active) : active[p] = s
                BY Places DEF DeliveryInv, Registered, TypeOK
            <4>2. active # <<>> /\ ~(p < 1)
                BY <4>1
            <4> QED BY <1>3, <3>2, <4>1, <4>2 DEF OwedTo
        <3>3. CASE b # a
            <4>1. OwedTo(b, s) /\ task'[b] = task[b]
                BY <1>3, <2>1, <3>3 DEF DeliveryInv, Owed
            <4> QED BY <3>1, <4>1 DEF OwedTo
        <3> QED BY <3>2, <3>3
    <2> QED BY <1>1, <2>1 DEF Owed, network
<1> QED BY <1>1, <1>4, <1>5, <1>6, <1>7, PartsStay DEF DeliveryInv, network, socket, alerts

\* What is sent on one socket changes nothing for the others.
LEMMA WirePuts ==
    ASSUME TypeOK, NEW q \in Sockets, NEW a \in Ids, wire' = [wire EXCEPT ![q] = Append(@, a)],
           UNCHANGED <<buffer, dropped>>
    PROVE  /\ wire' \in [Sockets -> Seq(Ids)] /\ Reached(a, q)'
           /\ \A s \in Sockets, b \in Ids : Reached(b, s) => Reached(b, s)'
<1>1. /\ wire' \in [Sockets -> Seq(Ids)] /\ wire[q] \in Seq(Ids)
      /\ wire'[q] = Append(wire[q], a) /\ \A s \in Sockets \ {q} : wire'[s] = wire[s]
    BY DEF TypeOK
<1>2. ToSet(wire'[q]) = ToSet(wire[q]) \cup {a}
    BY <1>1, Behind
<1>3. \A s \in Sockets, b \in Ids : Contains(wire[s], b) => Contains(wire'[s], b)
    <2>1. \A b : Contains(wire[q], b) => Contains(wire'[q], b)
        BY <1>1, <1>2, Places
    <2> QED BY <1>1, <2>1
<1>4. Contains(wire'[q], a)
    BY <1>1, <1>2, Places
<1> QED BY <1>1, <1>3, <1>4 DEF Reached

LEMMA SendKeeps == ASSUME DeliveryInv, NEW a \in Ids, Send(a) PROVE DeliveryInv'
<1>1. /\ task[a].stage = "sending" /\ task[a].next \in 1..Len(task[a].to) /\ task[a].to \in Seq(Sockets)
      /\ UNCHANGED <<archive, recorded, active, serving, since, asked, up, net, socket, alerts>>
      /\ task[a].next \in Nat \ {0} /\ Len(task[a].to) \in Nat
    BY LenProperties DEF Send, Sending, DeliveryInv, TypeOK
<1>2. PICK n \in Nat \ {0}, q \in Sockets :
          /\ n = task[a].next /\ q = task[a].to[n] /\ q \in ToSet(task[a].to)
    <2>1. /\ task[a].to[task[a].next] \in Sockets
          /\ task[a].to[task[a].next] \in ToSet(task[a].to)
        BY <1>1, ElementOfSeq, Places
    <2> QED BY <1>1, <2>1
<1>3. /\ task[a] \in [stage : {"none", "suppressed", "created", "sending", "done"},
                      to : Seq(Sockets), next : Nat \ {0}, dead : SUBSET Sockets]
      /\ task[a].dead \subseteq ToSet(task[a].to) \ up
      /\ \/ /\ wire' = IF q \in up THEN [wire EXCEPT ![q] = Append(@, a)] ELSE wire
            /\ task' = [task EXCEPT ![a].next = @ + 1]
         \/ /\ q \notin up /\ wire' = wire
            /\ task' = [task EXCEPT ![a] = [task[a] EXCEPT !.next = @ + 1, !.dead = @ \cup {q}]]
    BY <1>2 DEF Send, DeliveryInv, Addressed, TypeOK
<1>4. /\ wire' \in [Sockets -> Seq(Ids)] /\ (q \in up => Reached(a, q)')
      /\ \A s \in Sockets, b \in Ids : Reached(b, s) => Reached(b, s)'
    <2>1. UNCHANGED <<buffer, dropped>>
        BY <1>1 DEF alerts
    <2>2. CASE wire' = [wire EXCEPT ![q] = Append(@, a)]
        BY <1>2, <2>1, <2>2, WirePuts DEF DeliveryInv
    <2>3. CASE q \notin up /\ wire' = wire
        BY <2>1, <2>3 DEF DeliveryInv, TypeOK, Reached
    <2> QED BY <1>3, <2>2, <2>3
<1>5. /\ task' \in [Ids -> [stage : {"none", "suppressed", "created", "sending", "done"},
                            to : Seq(Sockets), next : Nat \ {0}, dead : SUBSET Sockets]]
      /\ \A b \in Ids \ {a} : task'[b] = task[b]
      /\ task'[a].stage = "sending" /\ task'[a].to = task[a].to /\ task'[a].next = n + 1
      /\ task'[a].dead \subseteq ToSet(task[a].to) \ up
    <2>1. /\ task \in [Ids -> [stage : {"none", "suppressed", "created", "sending", "done"},
                               to : Seq(Sockets), next : Nat \ {0}, dead : SUBSET Sockets]]
          /\ n + 1 \in Nat \ {0}
        BY <1>1 DEF DeliveryInv, TypeOK
    <2>2. CASE task' = [task EXCEPT ![a].next = @ + 1]
        BY <1>1, <1>2, <1>3, <2>1, <2>2
    <2>3. CASE /\ q \notin up
               /\ task' = [task EXCEPT ![a] = [task[a] EXCEPT !.next = @ + 1, !.dead = @ \cup {q}]]
        <3> DEFINE r == [task[a] EXCEPT !.next = @ + 1, !.dead = @ \cup {q}]
        <3>1. /\ r \in [stage : {"none", "suppressed", "created", "sending", "done"},
                        to : Seq(Sockets), next : Nat \ {0}, dead : SUBSET Sockets]
              /\ r.stage = task[a].stage /\ r.to = task[a].to /\ r.next = task[a].next + 1
              /\ r.dead = task[a].dead \cup {q}
            <4>1. /\ task[a] \in [stage : {"none", "suppressed", "created", "sending", "done"},
                                  to : Seq(Sockets), next : Nat \ {0}, dead : SUBSET Sockets]
                  /\ task[a].next + 1 \in Nat \ {0} /\ task[a].dead \cup {q} \in SUBSET Sockets
                BY <1>2, <2>1
            <4> QED BY <4>1
        <3> HIDE DEF r
        <3>2. task' = [task EXCEPT ![a] = r]
            BY <2>3 DEF r
        <3>3. /\ task' \in [Ids -> [stage : {"none", "suppressed", "created", "sending", "done"},
                                   to : Seq(Sockets), next : Nat \ {0}, dead : SUBSET Sockets]]
              /\ task'[a] = r /\ \A b \in Ids \ {a} : task'[b] = task[b]
            BY <2>1, <3>1, <3>2
        <3> QED BY <1>1, <1>2, <1>3, <2>3, <3>1, <3>3
    <2> QED BY <1>3, <2>2, <2>3
<1>6. TypeOK'
    BY <1>1, <1>4, <1>5 DEF DeliveryInv, TypeOK, socket, alerts
<1>7. Numbered'
    BY <1>1, <1>5 DEF DeliveryInv, Numbered
<1>8. Addressed'
    BY <1>1, <1>3, <1>5 DEF DeliveryInv, Addressed
<1>9. Owed'
    <2>1. ASSUME NEW s \in serving \cap up, NEW b \in Ids, b > since[s] PROVE OwedTo(b, s)'
        <3>1. OwedTo(b, s) /\ s \in Sockets
            BY <2>1 DEF DeliveryInv, Owed, TypeOK
        <3>2. Reached(b, s) => Reached(b, s)'
            BY <1>4, <3>1
        <3>3. CASE b = a
            <4>1. PICK p \in 1..Len(task[a].to) :
                      task[a].to[p] = s /\ (p < task[a].next => Reached(a, s))
                BY <1>1, <3>1, <3>3 DEF OwedTo
            <4>2. CASE p < n
                <5>1. Reached(a, s)'
                    BY <1>2, <3>2, <3>3, <4>1, <4>2
                <5> QED BY <1>5, <3>3, <4>1, <5>1 DEF OwedTo
            <4>3. CASE p = n
                <5>1. Reached(a, s)'
                    BY <1>2, <1>4, <4>1, <4>3
                <5> QED BY <1>5, <3>3, <4>1, <5>1 DEF OwedTo
            <4>4. CASE p > n
                <5>1. ~(p < n + 1)
                    BY <1>1, <1>2, <4>4
                <5> QED BY <1>5, <3>3, <4>1, <5>1 DEF OwedTo
            <4> QED BY <1>1, <1>2, <4>2, <4>3, <4>4
        <3>4. CASE b # a
            BY <1>5, <3>1, <3>2, <3>4 DEF OwedTo
        <3> QED BY <3>3, <3>4
    <2> QED BY <1>1, <2>1 DEF Owed
<1> QED BY <1>1, <1>6, <1>7, <1>8, <1>9, PartsStay DEF DeliveryInv, socket, alerts

LEMMA FinishBroadcastKeeps ==
    ASSUME DeliveryInv, NEW a \in Ids, FinishBroadcast(a) PROVE DeliveryInv'
<1>1. /\ task[a].stage = "sending" /\ ~(task[a].next <= Len(task[a].to))
      /\ active' = Without(task[a].dead, active)
      /\ UNCHANGED <<archive, recorded, serving, since, network, socket, alerts>>
      /\ task[a].to \in Seq(Sockets) /\ task[a].next \in Nat
      /\ active \in Seq(Sockets) /\ IsInjective(active)
    BY DEF FinishBroadcast, Sending, DeliveryInv, TypeOK
<1>2. /\ active' \in Seq(Sockets) /\ IsInjective(active')
      /\ ToSet(active') = ToSet(active) \ task[a].dead
    BY <1>1, WithoutProperties
<1>3. /\ task' \in [Ids -> [stage : {"none", "suppressed", "created", "sending", "done"},
                            to : Seq(Sockets), next : Nat \ {0}, dead : SUBSET Sockets]]
      /\ \A b \in Ids \ {a} : task'[b] = task[b]
      /\ task'[a].stage = "done" /\ task'[a].to = <<>> /\ task'[a].next = 1 /\ task'[a].dead = {}
    <2>1. [NoTask EXCEPT !.stage = "done"] = [stage |-> "done", to |-> <<>>, next |-> 1, dead |-> {}]
        BY DEF NoTask
    <2>2. [stage |-> "done", to |-> <<>>, next |-> 1, dead |-> {}] \in
              [stage : {"none", "suppressed", "created", "sending", "done"},
               to : Seq(Sockets), next : Nat \ {0}, dead : SUBSET Sockets]
        BY EmptySeq
    <2> QED BY <2>1, <2>2 DEF FinishBroadcast, DeliveryInv, TypeOK
<1>4. TypeOK'
    BY <1>1, <1>2, <1>3 DEF DeliveryInv, TypeOK, network, socket, alerts
<1>5. Numbered'
    BY <1>1, <1>3 DEF DeliveryInv, Numbered
<1>6. Addressed'
    BY <1>1, <1>3 DEF DeliveryInv, Addressed, network
<1>7. Registered'
    BY <1>1, <1>2 DEF DeliveryInv, Registered, Addressed, network
<1>8. Owed'
    <2>1. ASSUME NEW s \in serving \cap up, NEW b \in Ids, b > since[s] PROVE OwedTo(b, s)'
        <3>1. OwedTo(b, s) /\ (Reached(b, s)' <=> Reached(b, s))
            BY <1>1, <2>1 DEF DeliveryInv, Owed, Reached, network, alerts
        <3>2. CASE b = a
            <4>1. Reached(a, s)
                BY <1>1, <3>1, <3>2, LenProperties DEF OwedTo
            <4> QED BY <1>3, <3>1, <3>2, <4>1 DEF OwedTo
        <3>3. CASE b # a
            BY <1>3, <3>1, <3>3 DEF OwedTo
        <3> QED BY <3>2, <3>3
    <2> QED BY <1>1, <2>1 DEF Owed, network
<1> QED BY <1>1, <1>4, <1>5, <1>6, <1>7, <1>8, PartsStay DEF DeliveryInv, network, socket, alerts

LEMMA AcceptKeeps == ASSUME DeliveryInv, NEW s \in Sockets, Accept(s) PROVE DeliveryInv'
<1> DEFINE begun == {a \in Ids : task[a].stage \in {"sending", "done"}}
<1>1. /\ s \in asked /\ asked' = asked \ {s} /\ serving' = serving \cup {s}
      /\ active' = Append(active, s) /\ since' = [since EXCEPT ![s] = Max({0} \cup begun)]
      /\ UNCHANGED <<archive, recorded, task, up, wire, net, socket, alerts>>
      /\ active \in Seq(Sockets) /\ IsInjective(active)
    BY DEF Accept, DeliveryInv, TypeOK
<1>2. /\ active' \in Seq(Sockets) /\ IsInjective(active')
      /\ ToSet(active') = ToSet(active) \cup {s}
    BY <1>1, Behind DEF DeliveryInv, Registered
<1>3. /\ since' \in [Sockets -> 0..MaxAlerts] /\ \A q \in Sockets \ {s} : since'[q] = since[q]
      /\ \A a \in begun : a <= since'[s]
    <2>1. {0} \cup begun \subseteq 0..MaxAlerts /\ MaxAlerts \in Nat
        BY ConstantsAssumption DEF Ids
    <2>2. /\ Max({0} \cup begun) \in {0} \cup begun
          /\ \A y \in {0} \cup begun : y <= Max({0} \cup begun)
        BY <2>1, GreatestNatural
    <2> HIDE DEF begun
    <2> QED BY <1>1, <2>1, <2>2 DEF DeliveryInv, TypeOK
<1>4. TypeOK'
    BY <1>1, <1>2, <1>3 DEF DeliveryInv, TypeOK, socket, alerts
<1>5. Registered'
    BY <1>1, <1>2 DEF DeliveryInv, Registered
<1>6. Owed'
    <2>1. ASSUME NEW q \in serving' \cap up', NEW a \in Ids, a > since'[q] PROVE OwedTo(a, q)'
        <3>1. CASE q = s
            <4>1. a \notin begun
                BY <1>3, <2>1, <3>1 DEF Ids
            <4> QED BY <1>1, <4>1 DEF OwedTo
        <3>2. CASE q # s
            <4>1. q \in serving \cap up /\ a > since[q]
                BY <1>1, <1>3, <2>1, <3>2 DEF DeliveryInv, TypeOK
            <4>2. Reached(a, q)' <=> Reached(a, q)
                BY <1>1 DEF Reached, alerts
            <4> QED BY <1>1, <4>1, <4>2 DEF DeliveryInv, Owed, OwedTo
        <3> QED BY <3>1, <3>2
    <2> QED BY <2>1 DEF Owed
<1> QED BY <1>1, <1>4, <1>5, <1>6, PartsStay DEF DeliveryInv, socket, alerts

LEMMA LeaveKeeps == ASSUME DeliveryInv, NEW s \in Sockets, Leave(s) PROVE DeliveryInv'
<1>1. /\ s \in serving /\ s \notin up /\ serving' = serving \ {s}
      /\ active' = Without({s}, active) /\ since' = [since EXCEPT ![s] = 0]
      /\ UNCHANGED <<archive, recorded, task, network, socket, alerts>>
      /\ active \in Seq(Sockets) /\ IsInjective(active)
    BY DEF Leave, DeliveryInv, TypeOK
<1>2. /\ active' \in Seq(Sockets) /\ IsInjective(active')
      /\ ToSet(active') = ToSet(active) \ {s}
    BY <1>1, WithoutProperties
<1>3. since' \in [Sockets -> 0..MaxAlerts] /\ \A q \in Sockets \ {s} : since'[q] = since[q]
    BY <1>1, ConstantsAssumption DEF DeliveryInv, TypeOK
<1>4. TypeOK'
    BY <1>1, <1>2, <1>3 DEF DeliveryInv, TypeOK, network, socket, alerts
<1>5. Registered'
    BY <1>1, <1>2 DEF DeliveryInv, Registered, network
<1>6. Owed'
    <2>1. ASSUME NEW q \in serving' \cap up', NEW a \in Ids, a > since'[q] PROVE OwedTo(a, q)'
        <3>1. q \in serving \cap up /\ a > since[q]
            BY <1>1, <1>3, <2>1 DEF DeliveryInv, TypeOK, network
        <3>2. Reached(a, q)' <=> Reached(a, q)
            BY <1>1 DEF Reached, network, alerts
        <3> QED BY <1>1, <3>1, <3>2 DEF DeliveryInv, Owed, OwedTo
    <2> QED BY <2>1 DEF Owed
<1> QED BY <1>1, <1>4, <1>5, <1>6, PartsStay DEF DeliveryInv, network, socket, alerts
----------------------------------------------------------------------------
(* The dashboard's socket.                                                 *)

LEMMA OwnerIsDashboard == \A s \in Sockets : Owner(s) \in Dashboards /\ s # NoSocket
BY ConstantsAssumption DEF Owner, NoSocket

\* A dashboard opens a socket; those in old are closed for it.
LEMMA NewSocket ==
    ASSUME DeliveryInv, NEW d \in Dashboards, NEW s \in Sockets, Owner(s) = d, Unused(s),
           NEW old \in SUBSET Sockets, \A q \in Sockets : Owner(q) = d /\ Live(q) => q \in old,
           socketRef' = [socketRef EXCEPT ![d] = s],
           client' = [q \in Sockets |-> IF q = s THEN "connecting"
                                        ELSE IF q \in old THEN "closed" ELSE client[q]],
           wire' = [q \in Sockets |-> IF q \in old \cup {s} THEN <<>> ELSE wire[q]],
           asked' = asked \cup {s}, up' = (up \ old) \cup {s},
           status' \in [Dashboards -> {"CONNECTING", "CONNECTED", "DISCONNECTED"}],
           timer' \in [Dashboards -> BOOLEAN], fetching' \in [Dashboards -> BOOLEAN],
           effects' \in [Dashboards -> 0..MaxEffects],
           UNCHANGED <<server, net, pages, buffer, clearing, dropped>>
    PROVE  DeliveryInv'
<1>1. UNCHANGED <<archive, recorded, active, serving, task, since>>
    BY DEF server
<1>2. /\ s \notin serving /\ s \notin asked /\ \A a \in Ids : s \notin ToSet(task[a].to)
    BY DEF Unused
<1>3. TypeOK'
    <2>1. wire' \in [Sockets -> Seq(Ids)]
        BY EmptySeq DEF DeliveryInv, TypeOK
    <2>2. /\ client' \in [Sockets -> {"closed", "connecting", "open"}]
          /\ socketRef' \in [Dashboards -> Sockets \cup {NoSocket}]
          /\ asked' \subseteq Sockets /\ up' \subseteq Sockets
        BY DEF DeliveryInv, TypeOK
    <2> QED BY <1>1, <2>1, <2>2 DEF DeliveryInv, TypeOK
<1>4. Registered'
    BY <1>1, <1>2 DEF DeliveryInv, Registered
<1>5. Addressed'
    BY <1>1, <1>2 DEF DeliveryInv, Addressed
<1>6. /\ socketRef'[d] = s /\ \A e \in Dashboards \ {d} : socketRef'[e] = socketRef[e]
      /\ \A q \in Sockets : q # s /\ Live(q)' => Live(q) /\ q \notin old
    BY DEF DeliveryInv, TypeOK, Live
<1>7. OwnSocket'
    BY <1>6 DEF DeliveryInv, OwnSocket
<1>8. OneSocket'
    <2>1. SUFFICES ASSUME NEW e \in Dashboards, NEW q \in Sockets, Owner(q) = e, Live(q)'
                   PROVE  socketRef'[e] = q
        BY DEF OneSocket
    <2>2. CASE q = s
        BY <1>6, <2>1, <2>2
    <2>3. CASE q # s
        BY <1>6, <2>1, <2>3 DEF DeliveryInv, OneSocket
    <2> QED BY <2>2, <2>3
<1>9. Owed'
    <2>1. serving' \cap up' \subseteq serving \cap up
        BY <1>1, <1>2
    <2>2. ASSUME NEW q \in serving' \cap up', NEW a \in Ids, Reached(a, q) PROVE Reached(a, q)'
        <3>1. q \in Sockets /\ q # s /\ q \notin old
            BY <1>1, <1>2 DEF DeliveryInv, TypeOK
        <3> QED BY <2>2, <3>1 DEF Reached
    <2> QED BY <1>1, <2>1, <2>2, OwedStays DEF DeliveryInv
<1> QED BY <1>1, <1>3, <1>4, <1>5, <1>7, <1>8, <1>9, PartsStay DEF DeliveryInv

LEMMA EffectKeeps == ASSUME DeliveryInv, NEW d \in Dashboards, Effect(d) PROVE DeliveryInv'
<1>1. PICK s \in Sockets :
          LET old == {q \in Sockets : q = socketRef[d]}
          IN /\ Owner(s) = d /\ Unused(s)
             /\ socketRef' = [socketRef EXCEPT ![d] = s]
             /\ client' = [q \in Sockets |-> IF q = s THEN "connecting"
                                             ELSE IF q \in old THEN "closed" ELSE client[q]]
             /\ wire' = [q \in Sockets |-> IF q \in old \cup {s} THEN <<>> ELSE wire[q]]
             /\ asked' = asked \cup {s}
             /\ up' = (up \ old) \cup {s}
    BY DEF Effect
<1>2. PICK old \in SUBSET Sockets : old = {q \in Sockets : q = socketRef[d]}
    OBVIOUS
<1>3. \A q \in Sockets : Owner(q) = d /\ Live(q) => q \in old
    BY <1>2 DEF DeliveryInv, OneSocket
<1>4. /\ status' \in [Dashboards -> {"CONNECTING", "CONNECTED", "DISCONNECTED"}]
      /\ timer' \in [Dashboards -> BOOLEAN] /\ fetching' \in [Dashboards -> BOOLEAN]
      /\ effects' \in [Dashboards -> 0..MaxEffects]
      /\ UNCHANGED <<server, net, pages, buffer, clearing, dropped>>
    <2>1. effects[d] + 1 \in 0..MaxEffects
        <3>1. effects[d] \in 0..MaxEffects /\ effects[d] < MaxEffects
            BY DEF Effect, DeliveryInv, TypeOK
        <3> QED BY <3>1, ConstantsAssumption
    <2> QED BY <2>1 DEF Effect, DeliveryInv, TypeOK
<1> QED BY <1>1, <1>2, <1>3, <1>4, NewSocket

LEMMA ReconnectKeeps == ASSUME DeliveryInv, NEW d \in Dashboards, Reconnect(d) PROVE DeliveryInv'
<1>1. /\ timer' \in [Dashboards -> BOOLEAN] /\ UNCHANGED <<server, net, effects, alerts>>
    BY DEF Reconnect, DeliveryInv, TypeOK
<1>2. CASE UNCHANGED <<client, socketRef, status, asked, up, wire>>
    <2>1. TypeOK'
        BY <1>1, <1>2 DEF DeliveryInv, TypeOK, server, alerts
    <2>2. Owed'
        BY <1>1, <1>2, OwedStays DEF DeliveryInv, Reached, server, alerts
    <2> QED BY <1>1, <1>2, <2>1, <2>2, PartsStay DEF DeliveryInv, server, alerts
<1>3. CASE /\ ~Live(socketRef[d])
           /\ status' = [status EXCEPT ![d] = "CONNECTING"]
           /\ \E s \in {q \in Sockets : Owner(q) = d /\ Unused(q)} :
                 /\ socketRef' = [socketRef EXCEPT ![d] = s]
                 /\ client' = [client EXCEPT ![s] = "connecting"]
                 /\ wire' = [wire EXCEPT ![s] = <<>>]
                 /\ asked' = asked \cup {s} /\ up' = up \cup {s}
    <2>1. PICK s \in Sockets : /\ Owner(s) = d /\ Unused(s)
                               /\ socketRef' = [socketRef EXCEPT ![d] = s]
                               /\ client' = [client EXCEPT ![s] = "connecting"]
                               /\ wire' = [wire EXCEPT ![s] = <<>>]
                               /\ asked' = asked \cup {s} /\ up' = up \cup {s}
        BY <1>3
    <2>2. PICK old \in SUBSET Sockets : old = {}
        OBVIOUS
    <2>3. \A q \in Sockets : Owner(q) = d /\ Live(q) => q \in old
        BY <1>3 DEF DeliveryInv, OneSocket
    <2>4. client' = [q \in Sockets |-> IF q = s THEN "connecting"
                                       ELSE IF q \in old THEN "closed" ELSE client[q]]
        BY <2>1, <2>2 DEF DeliveryInv, TypeOK
    <2>5. wire' = [q \in Sockets |-> IF q \in old \cup {s} THEN <<>> ELSE wire[q]]
        BY <2>1, <2>2 DEF DeliveryInv, TypeOK
    <2>6. up' = (up \ old) \cup {s}
        BY <2>1, <2>2
    <2>7. /\ status' \in [Dashboards -> {"CONNECTING", "CONNECTED", "DISCONNECTED"}]
          /\ fetching' \in [Dashboards -> BOOLEAN] /\ effects' \in [Dashboards -> 0..MaxEffects]
          /\ UNCHANGED <<server, net, pages, buffer, clearing, dropped>>
        BY <1>1, <1>3 DEF DeliveryInv, TypeOK, alerts
    <2>8. /\ Owner(s) = d /\ Unused(s) /\ socketRef' = [socketRef EXCEPT ![d] = s]
          /\ asked' = asked \cup {s} /\ timer' \in [Dashboards -> BOOLEAN]
        BY <1>1, <2>1
    <2> QED BY <2>3, <2>4, <2>5, <2>6, <2>7, <2>8, NewSocket
<1> QED BY <1>2, <1>3 DEF Reconnect

LEMMA OpenedKeeps == ASSUME DeliveryInv, NEW s \in Sockets, Opened(s) PROVE DeliveryInv'
<1>1. /\ client[s] = "connecting" /\ client' = [client EXCEPT ![s] = "open"]
      /\ UNCHANGED <<server, network, socketRef, timer, effects, alerts>>
      /\ status' \in [Dashboards -> {"CONNECTING", "CONNECTED", "DISCONNECTED"}]
    BY DEF Opened, DeliveryInv, TypeOK
<1>2. TypeOK'
    BY <1>1 DEF DeliveryInv, TypeOK, server, network, alerts
<1>3. \A q \in Sockets : Live(q)' => Live(q)
    BY <1>1 DEF DeliveryInv, TypeOK, Live
<1>4. OneSocket'
    BY <1>1, <1>3 DEF DeliveryInv, OneSocket
<1>5. Owed'
    BY <1>1, OwedStays DEF DeliveryInv, Reached, server, network, alerts
<1> QED BY <1>1, <1>2, <1>4, <1>5, PartsStay DEF DeliveryInv, server, network, alerts

LEMMA ClosedKeeps == ASSUME DeliveryInv, NEW s \in Sockets, Closed(s) PROVE DeliveryInv'
<1> DEFINE d == Owner(s)
<1>1. /\ d \in Dashboards /\ client' = [client EXCEPT ![s] = "closed"]
      /\ UNCHANGED <<server, network, effects, alerts>>
      /\ \/ /\ socketRef[d] = s /\ socketRef' = [socketRef EXCEPT ![d] = NoSocket]
            /\ status' = [status EXCEPT ![d] = "DISCONNECTED"] /\ timer' = [timer EXCEPT ![d] = TRUE]
         \/ socketRef[d] # s /\ UNCHANGED <<socketRef, status, timer>>
    BY OwnerIsDashboard DEF Closed
<1> HIDE DEF d
<1>2. TypeOK'
    BY <1>1 DEF DeliveryInv, TypeOK, server, network, alerts
<1>3. \A q \in Sockets : Live(q)' => Live(q) /\ q # s
    BY <1>1 DEF DeliveryInv, TypeOK, Live
<1>4. OneSocket'
    BY <1>1, <1>3 DEF DeliveryInv, OneSocket, TypeOK
<1>5. OwnSocket'
    BY <1>1 DEF DeliveryInv, OwnSocket, TypeOK
<1>6. Owed'
    BY <1>1, OwedStays DEF DeliveryInv, Reached, server, network, alerts
<1> QED BY <1>1, <1>2, <1>4, <1>5, <1>6, PartsStay DEF DeliveryInv, server, network, alerts

\* A connection breaks: its socket is owed nothing any more.
LEMMA BreakKeeps == ASSUME DeliveryInv, NEW s \in Sockets, Break(s) PROVE DeliveryInv'
<1>1. PICK n \in 0..Len(wire[s]) : wire' = [wire EXCEPT ![s] = First(n, @)]
    BY DEF Break
<1>2. /\ up' = up \ {s} /\ asked' = asked \ {s} /\ UNCHANGED <<server, net, socket, alerts>>
      /\ wire[s] \in Seq(Ids)
    BY DEF Break, DeliveryInv, TypeOK
<1>3. /\ wire' \in [Sockets -> Seq(Ids)] /\ \A q \in Sockets \ {s} : wire'[q] = wire[q]
    <2>1. First(n, wire[s]) \in Seq(Ids)
        BY <1>1, <1>2, FirstProperties, LenProperties
    <2> QED BY <1>1, <2>1 DEF DeliveryInv, TypeOK
<1>4. TypeOK'
    BY <1>2, <1>3 DEF DeliveryInv, TypeOK, server, socket, alerts
<1>5. Registered' /\ Addressed'
    BY <1>2 DEF DeliveryInv, Registered, Addressed, server
<1>6. Owed'
    <2>1. ASSUME NEW q \in serving' \cap up', NEW a \in Ids, Reached(a, q) PROVE Reached(a, q)'
        <3>1. q \in Sockets \ {s}
            BY <1>2 DEF DeliveryInv, TypeOK, server
        <3> QED BY <1>2, <1>3, <2>1, <3>1 DEF Reached, alerts
    <2> QED BY <1>2, <2>1, OwedStays DEF DeliveryInv, server
<1> QED BY <1>2, <1>4, <1>5, <1>6, PartsStay DEF DeliveryInv, server, socket, alerts

LEMMA NetSwitchKeeps == ASSUME DeliveryInv, NetSwitch PROVE DeliveryInv'
<1>1. net' \in BOOLEAN
    BY Zenon DEF NetSwitch
<1>2. UNCHANGED <<server, asked, up, wire, socket, alerts>>
    BY DEF NetSwitch
<1>3. TypeOK'
    BY <1>1, <1>2 DEF DeliveryInv, TypeOK, server, socket, alerts
<1>4. Owed'
    BY <1>2, OwedStays DEF DeliveryInv, Reached, server, alerts
<1> QED BY <1>2, <1>3, <1>4, PartsStay DEF DeliveryInv, server, socket, alerts
----------------------------------------------------------------------------
(* The dashboard's alerts.                                                 *)

LEMMA Larger ==
    /\ Max({BufferSize, PageSize}) \in Nat
    /\ BufferSize <= Max({BufferSize, PageSize}) /\ PageSize <= Max({BufferSize, PageSize})
<1> DEFINE n == IF BufferSize < PageSize THEN PageSize ELSE BufferSize
<1>1. n \in Nat /\ {BufferSize, PageSize} \subseteq 0..n
    BY ConstantsAssumption
<1> HIDE DEF n
<1>2. /\ Max({BufferSize, PageSize}) \in {BufferSize, PageSize}
      /\ \A y \in {BufferSize, PageSize} : y <= Max({BufferSize, PageSize})
    BY <1>1, GreatestNatural
<1> QED BY <1>2, ConstantsAssumption

\* A step that changes one dashboard's buffer, and keeps what is in it unless it
\* gets full.
LEMMA BufferGrows ==
    ASSUME DeliveryInv, NEW d \in Dashboards, NEW b \in Seq(Ids), buffer' = [buffer EXCEPT ![d] = b],
           Len(b) <= Max({BufferSize, PageSize}), IsInjective(b),
           Len(b) >= BufferSize \/ (ToSet(buffer[d]) \subseteq ToSet(b) /\ Len(buffer[d]) < BufferSize)
    PROVE  /\ buffer' \in [Dashboards -> Seq(Ids)] /\ NoDuplicates'
           /\ \A e \in Dashboards : Len(buffer'[e]) <= Max({BufferSize, PageSize})
           /\ \A e \in Dashboards, a \in Ids :
                 Contains(buffer[e], a) \/ Len(buffer[e]) >= BufferSize
                     => Contains(buffer'[e], a) \/ Len(buffer'[e]) >= BufferSize
<1>1. /\ buffer' \in [Dashboards -> Seq(Ids)] /\ buffer'[d] = b /\ buffer[d] \in Seq(Ids)
      /\ \A e \in Dashboards \ {d} : buffer'[e] = buffer[e]
      /\ Len(b) \in Nat /\ Len(buffer[d]) \in Nat
    BY LenProperties DEF DeliveryInv, TypeOK
<1>2. \A a \in Ids : Contains(buffer[d], a) => Contains(b, a) \/ Len(b) >= BufferSize
    BY <1>1, Places
<1>3. NoDuplicates'
    BY <1>1 DEF DeliveryInv, NoDuplicates
<1>4. \A e \in Dashboards : Len(buffer'[e]) <= Max({BufferSize, PageSize})
    BY <1>1 DEF DeliveryInv, TypeOK
<1>5. ASSUME NEW e \in Dashboards, NEW a \in Ids, Contains(buffer[e], a) \/ Len(buffer[e]) >= BufferSize
      PROVE  Contains(buffer'[e], a) \/ Len(buffer'[e]) >= BufferSize
    <2>1. CASE e = d
        BY <1>1, <1>2, <1>5, <2>1, ConstantsAssumption
    <2>2. CASE e # d
        BY <1>1, <1>5, <2>2
    <2> QED BY <2>1, <2>2
<1> QED BY <1>1, <1>3, <1>4, <1>5

LEMMA ReceiveKeeps == ASSUME DeliveryInv, NEW s \in Sockets, Receive(s) PROVE DeliveryInv'
<1>1. PICK a \in Ids, d \in Dashboards :
          /\ a = Head(wire[s]) /\ d = Owner(s)
          /\ wire' = [wire EXCEPT ![s] = Tail(@)] /\ Tail(wire[s]) \in Seq(Ids)
          /\ \A e \in Ids : Contains(wire[s], e) => e = a \/ Contains(Tail(wire[s]), e)
          /\ buffer' = [buffer EXCEPT ![d] =
                           IF Contains(@, a) THEN @ ELSE First(BufferSize, <<a>> \o @)]
    <2>1. wire[s] \in Seq(Ids) /\ wire[s] # <<>> /\ Owner(s) \in Dashboards
        BY OwnerIsDashboard DEF Receive, DeliveryInv, TypeOK
    <2>2. /\ Head(wire[s]) \in Ids /\ Tail(wire[s]) \in Seq(Ids)
          /\ Len(Tail(wire[s])) = Len(wire[s]) - 1 /\ Head(wire[s]) = wire[s][1]
          /\ \A i \in 1..Len(Tail(wire[s])) : Tail(wire[s])[i] = wire[s][i + 1]
        BY <2>1, HeadTailProperties
    <2>3. ASSUME NEW e \in Ids, Contains(wire[s], e) PROVE e = Head(wire[s]) \/ Contains(Tail(wire[s]), e)
        <3>1. PICK i \in 1..Len(wire[s]) : wire[s][i] = e
            BY <2>3 DEF Contains
        <3>2. CASE i = 1
            BY <2>2, <3>1, <3>2
        <3>3. CASE i # 1
            <4>1. i - 1 \in 1..Len(Tail(wire[s])) /\ (i - 1) + 1 = i
                BY <2>1, <2>2, <3>3, LenProperties
            <4> QED BY <2>2, <3>1, <4>1 DEF Contains
        <3> QED BY <3>2, <3>3
    <2> QED BY <2>1, <2>2, <2>3 DEF Receive
<1>2. /\ UNCHANGED <<server, asked, up, net, socket, fetching, pages, clearing, dropped>>
      /\ buffer[d] \in Seq(Ids) /\ IsInjective(buffer[d]) /\ Len(buffer[d]) \in Nat
      /\ Len(buffer[d]) <= Max({BufferSize, PageSize})
    BY LenProperties DEF Receive, DeliveryInv, TypeOK, NoDuplicates
<1>3. PICK b \in Seq(Ids) :
          /\ buffer' = [buffer EXCEPT ![d] = b] /\ IsInjective(b)
          /\ Len(b) <= Max({BufferSize, PageSize})
          /\ Contains(b, a) \/ Len(b) >= BufferSize
          /\ Len(b) >= BufferSize \/ (ToSet(buffer[d]) \subseteq ToSet(b) /\ Len(buffer[d]) < BufferSize)
    <2> DEFINE p == First(BufferSize, <<a>> \o buffer[d])
    <2>1. /\ p \in Seq(Ids) /\ Len(p) <= BufferSize
          /\ a \notin ToSet(buffer[d]) => IsInjective(p)
          /\ Len(p) >= BufferSize \/ (ToSet(p) = {a} \cup ToSet(buffer[d]) /\ Len(buffer[d]) < BufferSize)
        BY <1>2, InFront, ConstantsAssumption
    <2>2. Contains(buffer[d], a) <=> a \in ToSet(buffer[d])
        BY <1>2, Places
    <2> HIDE DEF p
    <2>3. buffer' = [buffer EXCEPT ![d] = IF Contains(buffer[d], a) THEN buffer[d] ELSE p]
        BY <1>1 DEF p
    <2>4. CASE Contains(buffer[d], a)
        <3>1. buffer' = [buffer EXCEPT ![d] = buffer[d]]
            BY <2>3, <2>4
        <3>2. Len(buffer[d]) >= BufferSize \/ Len(buffer[d]) < BufferSize
            BY <1>2, ConstantsAssumption
        <3> QED BY <1>2, <2>4, <3>1, <3>2
    <2>5. CASE ~Contains(buffer[d], a)
        <3>1. Len(p) <= Max({BufferSize, PageSize})
            BY <2>1, Larger, LenProperties, ConstantsAssumption
        <3>2. Contains(p, a) <=> a \in ToSet(p)
            BY <2>1, Places
        <3>3. Contains(p, a) \/ Len(p) >= BufferSize
            BY <2>1, <3>2
        <3>4. buffer' = [buffer EXCEPT ![d] = p]
            BY <2>3, <2>5
        <3> QED BY <2>1, <2>2, <2>5, <3>1, <3>3, <3>4
    <2> QED BY <2>4, <2>5
<1>4. /\ buffer' \in [Dashboards -> Seq(Ids)] /\ NoDuplicates'
      /\ \A e \in Dashboards : Len(buffer'[e]) <= Max({BufferSize, PageSize})
      /\ \A e \in Dashboards, c \in Ids :
            Contains(buffer[e], c) \/ Len(buffer[e]) >= BufferSize
                => Contains(buffer'[e], c) \/ Len(buffer'[e]) >= BufferSize
    BY <1>3, BufferGrows
<1>5. /\ wire' \in [Sockets -> Seq(Ids)] /\ \A q \in Sockets \ {s} : wire'[q] = wire[q]
      /\ wire'[s] = Tail(wire[s])
    BY <1>1 DEF DeliveryInv, TypeOK
<1>6. TypeOK'
    BY <1>2, <1>4, <1>5 DEF DeliveryInv, TypeOK, server, socket
<1>7. Owed'
    <2>1. ASSUME NEW q \in serving' \cap up', NEW c \in Ids, Reached(c, q) PROVE Reached(c, q)'
        <3>1. q \in Sockets /\ Owner(q) \in Dashboards
            BY <1>2, OwnerIsDashboard DEF DeliveryInv, TypeOK, server
        <3>2. CASE c <= dropped[Owner(q)]
            BY <1>2, <3>2 DEF Reached
        <3>3. CASE Contains(buffer[Owner(q)], c) \/ Len(buffer[Owner(q)]) >= BufferSize
            BY <1>4, <3>1, <3>3 DEF Reached
        <3>4. CASE Contains(wire[q], c)
            <4>1. CASE Contains(wire'[q], c)
                BY <4>1 DEF Reached
            <4>2. CASE ~Contains(wire'[q], c)
                <5>1. q = s /\ c = a
                    BY <1>1, <1>5, <3>1, <3>4, <4>2
                <5>2. Contains(buffer'[d], a) \/ Len(buffer'[d]) >= BufferSize
                    BY <1>3 DEF DeliveryInv, TypeOK
                <5> QED BY <1>1, <5>1, <5>2 DEF Reached
            <4> QED BY <4>1, <4>2
        <3> QED BY <2>1, <3>2, <3>3, <3>4 DEF Reached
    <2> QED BY <1>2, <2>1, OwedStays DEF DeliveryInv, server
<1> QED BY <1>2, <1>4, <1>6, <1>7, PartsStay DEF DeliveryInv, server, socket

LEMMA ServePageKeeps == ASSUME DeliveryInv, NEW d \in Dashboards, ServePage(d) PROVE DeliveryInv'
<1>1. /\ UNCHANGED <<server, network, socket, buffer, clearing, dropped>>
      /\ fetching' \in [Dashboards -> BOOLEAN]
      /\ pages' = pages \/ pages' = [pages EXCEPT ![d] = Append(@, First(PageSize, archive))]
      /\ archive \in Seq(Ids) /\ IsInjective(archive)
    BY DEF ServePage, DeliveryInv, TypeOK, Numbered
<1>2. PICK p \in Seq(Ids) : /\ p = First(PageSize, archive) /\ IsInjective(p)
                            /\ Len(p) <= PageSize
    BY <1>1, FirstProperties, ConstantsAssumption
<1>3. pages' \in [Dashboards -> Seq(Seq(Ids))] /\ Paged'
    <2>1. CASE pages' = pages
        BY <2>1 DEF DeliveryInv, TypeOK, Paged
    <2>2. CASE pages' = [pages EXCEPT ![d] = Append(@, p)]
        <3>1. pages[d] \in Seq(Seq(Ids)) /\ Len(pages[d]) \in Nat
            BY LenProperties DEF DeliveryInv, TypeOK
        <3>2. /\ Append(pages[d], p) \in Seq(Seq(Ids)) /\ Len(Append(pages[d], p)) = Len(pages[d]) + 1
              /\ \A k \in 1..Len(pages[d]) : Append(pages[d], p)[k] = pages[d][k]
              /\ Append(pages[d], p)[Len(pages[d]) + 1] = p
            BY <3>1, AppendProperties
        <3>3. /\ pages' \in [Dashboards -> Seq(Seq(Ids))] /\ pages'[d] = Append(pages[d], p)
              /\ \A e \in Dashboards \ {d} : pages'[e] = pages[e]
            BY <2>2, <3>2 DEF DeliveryInv, TypeOK
        <3>4. ASSUME NEW e \in Dashboards, NEW k \in 1..Len(pages'[e])
              PROVE  IsInjective(pages'[e][k]) /\ Len(pages'[e][k]) <= PageSize
            <4>1. CASE e = d /\ k = Len(pages[d]) + 1
                BY <1>2, <3>2, <3>3, <4>1
            <4>2. CASE e = d /\ k # Len(pages[d]) + 1
                <5>1. k \in 1..Len(pages[d])
                    BY <3>1, <3>2, <3>3, <4>2
                <5>2. pages'[e][k] = pages[d][k]
                    BY <3>2, <3>3, <4>2, <5>1
                <5> QED BY <5>1, <5>2 DEF DeliveryInv, Paged
            <4>3. CASE e # d
                BY <3>3, <4>3 DEF DeliveryInv, Paged
            <4> QED BY <4>1, <4>2, <4>3
        <3> QED BY <3>3, <3>4 DEF Paged
    <2> QED BY <1>1, <1>2, <2>1, <2>2
<1>4. TypeOK'
    BY <1>1, <1>3 DEF DeliveryInv, TypeOK, server, network, socket
<1>5. Owed'
    BY <1>1, OwedStays DEF DeliveryInv, Reached, server, network
<1> QED BY <1>1, <1>3, <1>4, <1>5, PartsStay DEF DeliveryInv, server, network, socket

\* The page without what the buffer has shares nothing with the buffer.
LEMMA HydrateKeeps == ASSUME DeliveryInv, NEW d \in Dashboards, Hydrate(d) PROVE DeliveryInv'
<1>1. PICK k \in DOMAIN pages[d] :
          LET new == Without(ToSet(buffer[d]), pages[d][k])
          IN /\ pages' = [pages EXCEPT ![d] = RemoveAt(@, k)]
             /\ buffer' = [buffer EXCEPT ![d] = IF @ = <<>> THEN new ELSE First(BufferSize, @ \o new)]
    BY DEF Hydrate
<1>2. UNCHANGED <<server, network, socket, fetching, clearing, dropped>>
    BY DEF Hydrate
<1>3. /\ pages[d] \in Seq(Seq(Ids)) /\ k \in 1..Len(pages[d]) /\ pages[d][k] \in Seq(Ids)
      /\ IsInjective(pages[d][k]) /\ Len(pages[d][k]) <= PageSize
      /\ buffer[d] \in Seq(Ids) /\ IsInjective(buffer[d]) /\ Len(buffer[d]) \in Nat
      /\ Len(buffer[d]) <= Max({BufferSize, PageSize})
    <2>1. pages[d] \in Seq(Seq(Ids)) /\ buffer[d] \in Seq(Ids)
        BY DEF DeliveryInv, TypeOK
    <2>2. k \in 1..Len(pages[d])
        BY <2>1, LenProperties
    <2>3. pages[d][k] \in Seq(Ids)
        BY <2>1, <2>2, ElementOfSeq
    <2>4. IsInjective(pages[d][k]) /\ Len(pages[d][k]) <= PageSize
        BY <2>2 DEF DeliveryInv, Paged
    <2>5. Len(buffer[d]) \in Nat
        BY <2>1, LenProperties
    <2>6. IsInjective(buffer[d]) /\ Len(buffer[d]) <= Max({BufferSize, PageSize})
        BY DEF DeliveryInv, TypeOK, NoDuplicates
    <2> QED BY <2>1, <2>2, <2>3, <2>4, <2>5, <2>6
<1>4. PICK new \in Seq(Ids) :
          /\ new = Without(ToSet(buffer[d]), pages[d][k]) /\ IsInjective(new)
          /\ Len(new) <= PageSize /\ ToSet(buffer[d]) \cap ToSet(new) = {}
    <2> DEFINE w == Without(ToSet(buffer[d]), pages[d][k])
    <2>1. /\ w \in Seq(Ids) /\ Len(w) <= Len(pages[d][k]) /\ IsInjective(w)
          /\ ToSet(w) = ToSet(pages[d][k]) \ ToSet(buffer[d])
        BY <1>3, WithoutProperties
    <2> HIDE DEF w
    <2>2. Len(w) <= PageSize
        BY <1>3, <2>1, LenProperties, ConstantsAssumption
    <2>3. ToSet(buffer[d]) \cap ToSet(w) = {}
        BY <2>1
    <2> QED BY <2>1, <2>2, <2>3 DEF w
<1>5. PICK b \in Seq(Ids) :
          /\ buffer' = [buffer EXCEPT ![d] = b] /\ IsInjective(b)
          /\ Len(b) <= Max({BufferSize, PageSize})
          /\ Len(b) >= BufferSize \/ (ToSet(buffer[d]) \subseteq ToSet(b) /\ Len(buffer[d]) < BufferSize)
    <2>1. CASE buffer[d] = <<>>
        <3>1. buffer' = [buffer EXCEPT ![d] = new]
            BY <1>1, <1>4, <2>1
        <3>2. Len(new) <= Max({BufferSize, PageSize})
            BY <1>4, Larger, LenProperties, ConstantsAssumption
        <3>3. ToSet(buffer[d]) = {} /\ Len(buffer[d]) < BufferSize
            <4>1. DOMAIN buffer[d] = {} /\ Len(buffer[d]) = 0
                BY <2>1
            <4> QED BY <4>1, ConstantsAssumption DEF ToSet
        <3> QED BY <1>4, <3>1, <3>2, <3>3
    <2>2. CASE buffer[d] # <<>>
        <3> DEFINE u == buffer[d] \o new  p == First(BufferSize, u)
        <3>1. /\ u \in Seq(Ids) /\ Len(u) = Len(buffer[d]) + Len(new)
              /\ ToSet(u) = ToSet(buffer[d]) \cup ToSet(new) /\ IsInjective(u)
            BY <1>3, <1>4, ConcatInjective
        <3>2. buffer' = [buffer EXCEPT ![d] = p]
            BY <1>1, <1>4, <2>2
        <3> HIDE DEF u
        <3>3. /\ p \in Seq(Ids) /\ Len(p) <= BufferSize /\ IsInjective(p)
              /\ Len(p) >= BufferSize \/ p = u
            BY <3>1, FirstProperties, ConstantsAssumption
        <3> HIDE DEF p
        <3>4. Len(p) \in Nat /\ Len(new) \in Nat /\ Len(p) <= Max({BufferSize, PageSize})
            BY <1>4, <3>3, Larger, LenProperties, ConstantsAssumption
        <3>5. Len(p) >= BufferSize \/ (ToSet(buffer[d]) \subseteq ToSet(p) /\ Len(buffer[d]) < BufferSize)
            BY <1>3, <3>1, <3>3, <3>4, ConstantsAssumption
        <3> QED BY <3>2, <3>3, <3>4, <3>5
    <2> QED BY <2>1, <2>2
<1>6. /\ buffer' \in [Dashboards -> Seq(Ids)] /\ NoDuplicates'
      /\ \A e \in Dashboards : Len(buffer'[e]) <= Max({BufferSize, PageSize})
      /\ \A e \in Dashboards, c \in Ids :
            Contains(buffer[e], c) \/ Len(buffer[e]) >= BufferSize
                => Contains(buffer'[e], c) \/ Len(buffer'[e]) >= BufferSize
    BY <1>5, BufferGrows
<1>7. pages' \in [Dashboards -> Seq(Seq(Ids))] /\ Paged'
    <2>1. /\ RemoveAt(pages[d], k) \in Seq(Seq(Ids))
          /\ \A i \in 1..Len(RemoveAt(pages[d], k)) :
                \E j \in 1..Len(pages[d]) : RemoveAt(pages[d], k)[i] = pages[d][j]
        BY <1>3, RemoveAtProperties
    <2>2. /\ pages' \in [Dashboards -> Seq(Seq(Ids))] /\ pages'[d] = RemoveAt(pages[d], k)
          /\ \A e \in Dashboards \ {d} : pages'[e] = pages[e]
        BY <1>1, <2>1 DEF DeliveryInv, TypeOK
    <2>3. ASSUME NEW e \in Dashboards, NEW i \in 1..Len(pages'[e])
          PROVE  IsInjective(pages'[e][i]) /\ Len(pages'[e][i]) <= PageSize
        <3>1. PICK j \in 1..Len(pages[e]) : pages'[e][i] = pages[e][j]
            BY <2>1, <2>2
        <3> QED BY <3>1 DEF DeliveryInv, Paged
    <2> QED BY <2>2, <2>3 DEF Paged
<1>8. TypeOK'
    BY <1>2, <1>6, <1>7 DEF DeliveryInv, TypeOK, server, network, socket
<1>9. Owed'
    <2>1. ASSUME NEW q \in serving' \cap up', NEW c \in Ids, Reached(c, q) PROVE Reached(c, q)'
        <3>1. Owner(q) \in Dashboards
            BY <1>2, OwnerIsDashboard DEF DeliveryInv, TypeOK, server
        <3> QED BY <1>2, <1>6, <2>1, <3>1 DEF Reached, network
    <2> QED BY <1>2, <2>1, OwedStays DEF DeliveryInv, server, network
<1> QED BY <1>2, <1>6, <1>7, <1>8, <1>9, PartsStay DEF DeliveryInv, server, network, socket

LEMMA ServeClearKeeps == ASSUME DeliveryInv, NEW d \in Dashboards, ServeClear(d) PROVE DeliveryInv'
<1>1. /\ clearing' = [clearing EXCEPT ![d] = TRUE] /\ archive' \in {archive, <<>>}
      /\ UNCHANGED <<recorded, active, serving, task, since, network, socket, fetching, pages, buffer, dropped>>
    BY DEF ServeClear
<1>2. archive' \in Seq(Ids) /\ Len(archive') <= ArchiveSize /\ Numbered'
    <2>1. CASE archive' = archive
        BY <1>1, <2>1 DEF DeliveryInv, TypeOK, Numbered
    <2>2. CASE archive' = <<>>
        <3>1. archive' \in Seq(Ids) /\ Len(archive') = 0 /\ DOMAIN archive' = {}
            BY <2>2
        <3>2. IsInjective(archive')
            BY <3>1 DEF IsInjective
        <3> QED BY <1>1, <3>1, <3>2, ConstantsAssumption DEF DeliveryInv, Numbered
    <2> QED BY <1>1, <2>1, <2>2
<1>3. TypeOK'
    BY <1>1, <1>2 DEF DeliveryInv, TypeOK, network, socket
<1>4. Owed'
    BY <1>1, OwedStays DEF DeliveryInv, Reached, network
<1> QED BY <1>1, <1>2, <1>3, <1>4, PartsStay DEF DeliveryInv, network, socket

\* What has been recorded by now is no longer asked for.
LEMMA ClearBufferKeeps == ASSUME DeliveryInv, NEW d \in Dashboards, ClearBuffer(d) PROVE DeliveryInv'
<1>1. /\ clearing' = [clearing EXCEPT ![d] = FALSE] /\ buffer' = [buffer EXCEPT ![d] = <<>>]
      /\ dropped' = [dropped EXCEPT ![d] = recorded]
      /\ UNCHANGED <<server, network, socket, fetching, pages>>
    BY DEF ClearBuffer
<1>2. /\ buffer' \in [Dashboards -> Seq(Ids)] /\ buffer'[d] = <<>>
      /\ dropped' \in [Dashboards -> 0..MaxAlerts] /\ dropped'[d] = recorded
      /\ \A e \in Dashboards \ {d} : buffer'[e] = buffer[e] /\ dropped'[e] = dropped[e]
    BY <1>1, EmptySeq DEF DeliveryInv, TypeOK
<1>3. TypeOK'
    <2>1. Len(buffer'[d]) = 0
        BY <1>2
    <2>2. \A e \in Dashboards : Len(buffer'[e]) <= Max({BufferSize, PageSize})
        <3> SUFFICES ASSUME NEW e \in Dashboards
                     PROVE  Len(buffer'[e]) <= Max({BufferSize, PageSize})
            OBVIOUS
        <3>1. CASE e = d
            BY <2>1, <3>1, Larger
        <3>2. CASE e # d
            BY <1>2, <3>2 DEF DeliveryInv, TypeOK
        <3> QED BY <3>1, <3>2
    <2> QED BY <1>1, <1>2, <2>2 DEF DeliveryInv, TypeOK, server, network, socket
<1>4. NoDuplicates'
    <2>1. DOMAIN buffer'[d] = {}
        BY <1>2
    <2>2. IsInjective(buffer'[d])
        BY <2>1 DEF IsInjective
    <2> QED BY <1>2, <2>2 DEF DeliveryInv, NoDuplicates
<1>5. Owed'
    <2>1. ASSUME NEW q \in serving' \cap up', NEW a \in Ids, a > since'[q] PROVE OwedTo(a, q)'
        <3>1. OwedTo(a, q) /\ q \in Sockets /\ Owner(q) \in Dashboards
            BY <1>1, <2>1, OwnerIsDashboard DEF DeliveryInv, Owed, TypeOK, server, network
        <3>2. task[a].stage # "none" /\ Reached(a, q) => Reached(a, q)'
            <4>1. CASE Owner(q) = d
                BY <1>2, <4>1 DEF DeliveryInv, Numbered, Reached
            <4>2. CASE Owner(q) # d
                BY <1>1, <1>2, <3>1, <4>2 DEF Reached, network
            <4> QED BY <4>1, <4>2
        <3> QED BY <1>1, <3>1, <3>2 DEF OwedTo, server
    <2> QED BY <2>1 DEF Owed
<1> QED BY <1>1, <1>3, <1>4, <1>5, PartsStay DEF DeliveryInv, server, network, socket
----------------------------------------------------------------------------
LEMMA StepDelivers == DeliveryInv /\ [Next]_vars => DeliveryInv'
<1>1. SUFFICES ASSUME DeliveryInv, [Next]_vars PROVE DeliveryInv'
    OBVIOUS
<1>2. CASE Record
    BY <1>1, <1>2, RecordKeeps
<1>3. CASE NetSwitch
    BY <1>1, <1>3, NetSwitchKeeps
<1>4. ASSUME NEW a \in Ids, Broadcast(a) PROVE DeliveryInv'
    BY <1>1, <1>4, StartKeeps, SendKeeps, FinishBroadcastKeeps DEF Broadcast
<1>5. ASSUME NEW s \in Sockets, Serve(s) PROVE DeliveryInv'
    BY <1>1, <1>5, AcceptKeeps, LeaveKeeps DEF Serve
<1>6. ASSUME NEW s \in Sockets, Browse(s) PROVE DeliveryInv'
    BY <1>1, <1>6, OpenedKeeps, ClosedKeeps, ReceiveKeeps DEF Browse
<1>7. ASSUME NEW s \in Sockets, Break(s) PROVE DeliveryInv'
    BY <1>1, <1>7, BreakKeeps
<1>8. ASSUME NEW d \in Dashboards, Effect(d) \/ Reconnect(d) PROVE DeliveryInv'
    BY <1>1, <1>8, EffectKeeps, ReconnectKeeps
<1>9. ASSUME NEW d \in Dashboards, Fetch(d) PROVE DeliveryInv'
    BY <1>1, <1>9, ServePageKeeps, HydrateKeeps DEF Fetch
<1>10. ASSUME NEW d \in Dashboards, Clear(d) PROVE DeliveryInv'
    BY <1>1, <1>10, ServeClearKeeps, ClearBufferKeeps DEF Clear
<1>11. CASE UNCHANGED vars
    <2>1. UNCHANGED <<server, network, socket, alerts>>
        BY <1>11 DEF vars
    <2>2. TypeOK'
        BY <1>1, <2>1 DEF DeliveryInv, TypeOK, server, network, socket, alerts
    <2>3. Owed'
        BY <1>1, <2>1, OwedStays DEF DeliveryInv, Reached, server, network, alerts
    <2> QED BY <1>1, <2>1, <2>2, <2>3, PartsStay DEF DeliveryInv, server, network, socket, alerts
<1> QED BY <1>1, <1>2, <1>3, <1>4, <1>5, <1>6, <1>7, <1>8, <1>9, <1>10, <1>11 DEF Next

LEMMA Delivering == Spec => []DeliveryInv
BY InitDelivers, StepDelivers, PTL DEF Spec

\* What the invariant says of the socket that a dashboard refers to.
LEMMA OwedIsDelivered == DeliveryInv => Delivered
<1> SUFFICES ASSUME DeliveryInv, NEW d \in Dashboards, socketRef[d] \in serving \cap up,
                    NEW a \in (Max({since[socketRef[d]], dropped[d]}) + 1)..recorded,
                    task[a].stage = "done"
             PROVE  \/ Contains(wire[socketRef[d]], a) \/ Contains(buffer[d], a)
                    \/ Len(buffer[d]) >= BufferSize
    BY DEF Delivered
<1> DEFINE s == socketRef[d]  m == Max({since[s], dropped[d]})
<1>1. /\ s \in Sockets /\ s # NoSocket /\ Owner(s) = d
      /\ since[s] \in 0..MaxAlerts /\ dropped[d] \in 0..MaxAlerts /\ recorded \in 0..MaxAlerts
    BY OwnerIsDashboard DEF DeliveryInv, TypeOK, OwnSocket
<1>2. m \in 0..MaxAlerts /\ since[s] <= m /\ dropped[d] <= m
    <2>1. {since[s], dropped[d]} \subseteq 0..MaxAlerts
        BY <1>1
    <2>2. m \in {since[s], dropped[d]} /\ \A y \in {since[s], dropped[d]} : y <= m
        BY <2>1, GreatestNatural, ConstantsAssumption
    <2> QED BY <2>1, <2>2
<1> HIDE DEF m
<1>3. a \in Ids /\ a > since[s] /\ ~(a <= dropped[d])
    <2>1. a \in (m + 1)..recorded
        BY DEF m
    <2> QED BY <1>1, <1>2, <2>1, ConstantsAssumption DEF Ids
<1>4. OwedTo(a, s)
    BY <1>3 DEF DeliveryInv, Owed
<1> QED BY <1>1, <1>3, <1>4 DEF OwedTo, Reached

(* Every value has its type: no list of alerts grows beyond its bound, and *)
(* no socket is registered twice (ConnectionManager, useThreatSocket).     *)
THEOREM TypeCorrect == Spec => []TypeOK
<1>1. DeliveryInv => TypeOK
    BY DEF DeliveryInv
<1> QED BY Delivering, <1>1, PTL

(* A dashboard lists no alert twice, whether its initial fetch or a socket *)
(* brings it first, and however often (the deduplication of the hook).     *)
THEOREM ListedOnce == Spec => []NoDuplicates
<1>1. DeliveryInv => NoDuplicates
    BY DEF DeliveryInv
<1> QED BY Delivering, <1>1, PTL

(* A dashboard never has two sockets that are open or opening (connect()   *)
(* and the cleanup of the effect).                                         *)
THEOREM SocketIsOne == Spec => []OneSocket
<1>1. DeliveryInv => OneSocket
    BY DEF DeliveryInv
<1> QED BY Delivering, <1>1, PTL

(* No broadcast skips a socket that is connected, whoever comes and goes   *)
(* while it awaits its sends, and nothing in the dashboard throws the      *)
(* alert away (ConnectionManager.broadcast, hydrateInitialState).          *)
THEOREM NoneSkipped == Spec => []Delivered
BY Delivering, OwedIsDelivered, PTL
=============================================================================
