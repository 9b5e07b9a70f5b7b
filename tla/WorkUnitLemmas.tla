--------------------------- MODULE WorkUnitLemmas ---------------------------
(***************************************************************************)
(* Facts about the FIFO operators of WorkUnits, cited by the proofs about  *)
(* the queue modules.                                                      *)
(***************************************************************************)
EXTENDS WorkUnits, FunctionTheorems, FiniteSetTheorems, SequenceTheorems, TLAPS

\* Dropping a prefix of n elements, as Ack and Fail do, shifts the rest up.
LEMMA SuffixProperties ==
  ASSUME NEW S, NEW s \in Seq(S), NEW n \in 0 .. Len(s)
  PROVE  /\ Suffix(s, n) \in Seq(S)
         /\ Len(Suffix(s, n)) = Len(s) - n
         /\ \A i \in 1 .. Len(s) - n : Suffix(s, n)[i] = s[n + i]
<1>1. \A i \in n + 1 .. Len(s) : s[i] \in S
  BY ElementOfSeq
<1> QED
  BY <1>1, SubSeqProperties, LenProperties DEF Suffix

\* The first n elements, the ones an Ack drops.
LEMMA PrefixProperties ==
  ASSUME NEW S, NEW s \in Seq(S), NEW n \in 0 .. Len(s)
  PROVE  /\ Prefix(s, n) \in Seq(S)
         /\ Len(Prefix(s, n)) = n
         /\ \A i \in 1 .. n : Prefix(s, n)[i] = s[i]
<1>1. \A i \in 1 .. n : s[i] \in S
  BY ElementOfSeq
<1> QED
  BY <1>1, SubSeqProperties, LenProperties DEF Prefix

\* What the tail of the FIFO looks like after an Enqueue.
LEMMA AppendElements ==
  ASSUME NEW S, NEW s \in Seq(S), NEW e \in S
  PROVE  /\ Append(s, e) \in Seq(S)
         /\ Len(Append(s, e)) = Len(s) + 1
         /\ \A i \in 1 .. Len(s) : Append(s, e)[i] = s[i]
         /\ Append(s, e)[Len(s) + 1] = e
  OBVIOUS

\* 1 .. n has n elements.
LEMMA CountTo ==
  ASSUME NEW n \in Nat
  PROVE  IsFiniteSet(1 .. n) /\ Cardinality(1 .. n) = n
<1>1. IsFiniteSet(1 .. n) /\ Cardinality(1 .. n) = IF 1 > n THEN 0 ELSE n - 1 + 1
  BY FS_Interval
<1> QED
  BY <1>1

\* Ack's loop over the head passes over no more tasks than there are.
LEMMA LeadingRunType ==
  ASSUME NEW ts \in Seq(Task), NEW through \in Int
  PROVE  LeadingRun(ts, through) \in 0 .. Len(ts)
<1> DEFINE R == {i \in DOMAIN ts : \A j \in 1 .. i : ts[j].seq <= through}
<1>1. Len(ts) \in Nat /\ DOMAIN ts = 1 .. Len(ts)
  BY LenProperties
<1>2. IsFiniteSet(1 .. Len(ts)) /\ Cardinality(1 .. Len(ts)) = Len(ts)
  BY <1>1, CountTo
<1>3. R \in SUBSET (1 .. Len(ts))
  BY <1>1
<1>4. IsFiniteSet(R) /\ Cardinality(R) <= Len(ts)
  BY <1>2, <1>3, FS_Subset
<1>5. Cardinality(R) \in Nat
  BY <1>4, FS_CardinalityType
<1> QED
  BY <1>1, <1>4, <1>5 DEF LeadingRun

\* Under growing seqs, an Ack through the m-th task passes over m tasks.
LEMMA LeadingRunThrough ==
  ASSUME NEW ts \in Seq(Task), NEW m \in 1 .. Len(ts),
         \A i, j \in 1 .. Len(ts) : i < j => ts[i].seq < ts[j].seq
  PROVE  LeadingRun(ts, ts[m].seq) = m
<1> DEFINE R == {i \in DOMAIN ts : \A j \in 1 .. i : ts[j].seq <= ts[m].seq}
<1>1. Len(ts) \in Nat /\ DOMAIN ts = 1 .. Len(ts)
  BY LenProperties
<1>2. \A i \in 1 .. Len(ts) : ts[i].seq \in Nat
  <2> SUFFICES ASSUME NEW i \in 1 .. Len(ts) PROVE ts[i].seq \in Nat
    OBVIOUS
  <2>1. ts[i] \in Task
    BY ElementOfSeq
  <2> QED
    BY <2>1 DEF Task
<1>3. R = 1 .. m
  <2>1. ASSUME NEW i \in 1 .. m PROVE i \in R
    BY <1>1, <1>2
  <2>2. ASSUME NEW i \in R PROVE i \in 1 .. m
    <3>1. i \in 1 .. Len(ts) /\ ts[i].seq <= ts[m].seq
      BY <1>1, <2>2
    <3> QED
      BY <1>1, <1>2, <3>1
  <2> QED
    BY <2>1, <2>2
<1>4. LeadingRun(ts, ts[m].seq) = Cardinality(R)
  BY DEF LeadingRun
<1>5. Cardinality(1 .. m) = m
  BY <1>1, CountTo
<1> QED
  BY <1>3, <1>4, <1>5

\* Tasks, or rows or stream entries that carry one, with costs that add up.
Priced(S) == \A t \in S : t.cost \in Nat

\* Tasks have a seq and a cost.
LEMMA TaskPriced == Priced(Task)
  BY DEF Priced, Task

\* The pairs counted by Cost form a finite set, so Cost is a number.
LEMMA CostFiniteIn ==
  ASSUME NEW S, Priced(S), NEW ts \in Seq(S)
  PROVE  IsFiniteSet(CostUnits(ts)) /\ Cost(ts) \in Nat
<1> DEFINE U(i) == {ts[i].seq} \X (1 .. ts[i].cost)
           F == [i \in DOMAIN ts |-> U(i)]
           T == {U(i) : i \in DOMAIN ts}
<1>1. DOMAIN ts = 1 .. Len(ts) /\ Len(ts) \in Nat
  BY LenProperties
<1>2. IsFiniteSet(DOMAIN ts)
  BY <1>1, FS_Interval
<1>3. F \in Surjection(DOMAIN ts, T)
  BY DEF Surjection
<1>4. IsFiniteSet(T)
  BY <1>2, <1>3, FS_Surjection
<1>5. \A i \in DOMAIN ts : IsFiniteSet(U(i))
  <2> SUFFICES ASSUME NEW i \in DOMAIN ts PROVE IsFiniteSet(U(i))
    OBVIOUS
  <2>1. ts[i] \in S
    BY <1>1, ElementOfSeq
  <2>2. ts[i].cost \in Nat
    BY <2>1 DEF Priced
  <2>3. IsFiniteSet(1 .. ts[i].cost)
    BY <2>2, CountTo
  <2> QED
    BY <2>3, FS_Singleton, FS_Product
<1>6. IsFiniteSet(UNION T)
  <2>1. \A X \in T : IsFiniteSet(X)
    BY <1>5
  <2> HIDE DEF T
  <2> QED
    BY <1>4, <2>1, FS_UNION
<1>7. CostUnits(ts) = UNION T
  BY DEF CostUnits
<1> QED
  BY <1>6, <1>7, FS_CardinalityType DEF Cost

\* The cost of tasks is a number.
LEMMA CostFinite ==
  ASSUME NEW ts \in Seq(Task)
  PROVE  IsFiniteSet(CostUnits(ts)) /\ Cost(ts) \in Nat
  BY TaskPriced, CostFiniteIn

\* A FIFO with nothing pending costs nothing.
LEMMA CostEmpty == Cost(<<>>) = 0
<1>1. CostUnits(<<>>) = {}
  BY DEF CostUnits
<1> QED
  BY <1>1, FS_EmptySet DEF Cost

(***************************************************************************)
(* Splitting a FIFO with distinct seqs at any point splits its cost: what  *)
(* makes Ack's task-by-task decrement of pendingCost exact.                *)
(***************************************************************************)
LEMMA CostSplitIn ==
  ASSUME NEW S, Priced(S), NEW ts \in Seq(S), NEW n \in 0 .. Len(ts),
         \A i, j \in 1 .. Len(ts) : i # j => ts[i].seq # ts[j].seq
  PROVE  Cost(ts) = Cost(Prefix(ts, n)) + Cost(Suffix(ts, n))
<1> DEFINE P == Prefix(ts, n)
           Q == Suffix(ts, n)
<1>1. /\ P \in Seq(S) /\ Len(P) = n
      /\ \A i \in 1 .. n : P[i] = ts[i]
  BY PrefixProperties
<1>2. /\ Q \in Seq(S) /\ Len(Q) = Len(ts) - n
      /\ \A i \in 1 .. Len(ts) - n : Q[i] = ts[n + i]
  BY SuffixProperties
<1>3. /\ Len(ts) \in Nat /\ DOMAIN ts = 1 .. Len(ts)
      /\ DOMAIN P = 1 .. n /\ DOMAIN Q = 1 .. (Len(ts) - n)
  BY <1>1, <1>2, LenProperties
<1> HIDE DEF P, Q
<1>4. CostUnits(ts) = CostUnits(P) \cup CostUnits(Q)
  <2>1. CostUnits(ts) \subseteq CostUnits(P) \cup CostUnits(Q)
    <3> SUFFICES ASSUME NEW i \in 1 .. Len(ts), NEW x \in {ts[i].seq} \X (1 .. ts[i].cost)
                 PROVE  x \in CostUnits(P) \cup CostUnits(Q)
      BY <1>3 DEF CostUnits
    <3>1. CASE i <= n
      <4>1. i \in DOMAIN P /\ P[i] = ts[i]
        BY <3>1, <1>1, <1>3
      <4> QED
        BY <4>1 DEF CostUnits
    <3>2. CASE i > n
      <4>1. i - n \in DOMAIN Q /\ Q[i - n] = ts[i]
        BY <3>2, <1>2, <1>3
      <4> QED
        BY <4>1 DEF CostUnits
    <3> QED
      BY <3>1, <3>2, <1>3
  <2>2. CostUnits(P) \subseteq CostUnits(ts)
    BY <1>1, <1>3 DEF CostUnits
  <2>3. CostUnits(Q) \subseteq CostUnits(ts)
    <3> SUFFICES ASSUME NEW i \in 1 .. (Len(ts) - n), NEW x \in {Q[i].seq} \X (1 .. Q[i].cost)
                 PROVE  x \in CostUnits(ts)
      BY <1>3 DEF CostUnits
    <3>1. n + i \in DOMAIN ts /\ Q[i] = ts[n + i]
      BY <1>2, <1>3
    <3> QED
      BY <3>1 DEF CostUnits
  <2> QED
    BY <2>1, <2>2, <2>3
<1>5. CostUnits(P) \cap CostUnits(Q) = {}
  <2> SUFFICES ASSUME NEW i \in 1 .. n, NEW j \in 1 .. (Len(ts) - n),
                      NEW x \in {P[i].seq} \X (1 .. P[i].cost),
                      x \in {Q[j].seq} \X (1 .. Q[j].cost)
               PROVE  FALSE
    BY <1>3 DEF CostUnits
  <2>1. P[i].seq = Q[j].seq
    OBVIOUS
  <2>2. P[i] = ts[i] /\ Q[j] = ts[n + j]
    BY <1>1, <1>2
  <2>3. i \in 1 .. Len(ts) /\ n + j \in 1 .. Len(ts) /\ i # n + j
    BY <1>3
  <2> QED
    BY <2>1, <2>2, <2>3
<1>6. /\ IsFiniteSet(CostUnits(P)) /\ Cost(P) \in Nat
      /\ IsFiniteSet(CostUnits(Q)) /\ Cost(Q) \in Nat
  BY <1>1, <1>2, CostFiniteIn
<1>7. Cardinality(CostUnits(ts)) =
        Cardinality(CostUnits(P)) + Cardinality(CostUnits(Q)) - Cardinality({})
  BY <1>4, <1>5, <1>6, FS_Union
<1> QED
  BY <1>6, <1>7, FS_EmptySet DEF Cost, P, Q

\* The cost is that of a prefix and of what follows it.
LEMMA CostSplit ==
  ASSUME NEW ts \in Seq(Task), NEW n \in 0 .. Len(ts),
         \A i, j \in 1 .. Len(ts) : i # j => ts[i].seq # ts[j].seq
  PROVE  Cost(ts) = Cost(Prefix(ts, n)) + Cost(Suffix(ts, n))
  BY ZenonT(60), TaskPriced, CostSplitIn

\* A task under a fresh seq adds exactly its own cost.
LEMMA CostAppendIn ==
  ASSUME NEW S, Priced(S), NEW ts \in Seq(S), NEW t \in S,
         \A i \in 1 .. Len(ts) : ts[i].seq # t.seq
  PROVE  Cost(Append(ts, t)) = Cost(ts) + t.cost
<1> DEFINE N == {t.seq} \X (1 .. t.cost)
           A == Append(ts, t)
<1>1. /\ A \in Seq(S) /\ Len(A) = Len(ts) + 1
      /\ \A i \in 1 .. Len(ts) : A[i] = ts[i]
      /\ A[Len(ts) + 1] = t
  BY AppendElements
<1>2. /\ Len(ts) \in Nat /\ DOMAIN ts = 1 .. Len(ts)
      /\ DOMAIN A = 1 .. (Len(ts) + 1)
  BY <1>1, LenProperties
<1> HIDE DEF A
<1>3. CostUnits(A) = CostUnits(ts) \cup N
  <2>1. CostUnits(A) \subseteq CostUnits(ts) \cup N
    <3> SUFFICES ASSUME NEW i \in 1 .. (Len(ts) + 1), NEW x \in {A[i].seq} \X (1 .. A[i].cost)
                 PROVE  x \in CostUnits(ts) \cup N
      BY <1>2 DEF CostUnits
    <3>1. CASE i = Len(ts) + 1
      BY <3>1, <1>1
    <3>2. CASE i # Len(ts) + 1
      <4>1. i \in DOMAIN ts /\ A[i] = ts[i]
        BY <3>2, <1>1, <1>2
      <4> QED
        BY <4>1 DEF CostUnits
    <3> QED
      BY <3>1, <3>2
  <2>2. CostUnits(ts) \subseteq CostUnits(A)
    BY <1>1, <1>2 DEF CostUnits
  <2>3. N \subseteq CostUnits(A)
    <3>1. Len(ts) + 1 \in DOMAIN A
      BY <1>2
    <3> QED
      BY <3>1, <1>1 DEF CostUnits
  <2> QED
    BY <2>1, <2>2, <2>3
<1>4. CostUnits(ts) \cap N = {}
  BY <1>2 DEF CostUnits
<1>5. t.cost \in Nat
  BY DEF Priced
<1>6. IsFiniteSet(N) /\ Cardinality(N) = t.cost
  <2>1. IsFiniteSet(1 .. t.cost) /\ Cardinality(1 .. t.cost) = t.cost
    BY <1>5, CountTo
  <2>2. IsFiniteSet({t.seq}) /\ Cardinality({t.seq}) = 1
    BY FS_Singleton
  <2>3. IsFiniteSet(N) /\ Cardinality(N) = Cardinality({t.seq}) * Cardinality(1 .. t.cost)
    BY <2>1, <2>2, FS_Product
  <2> QED
    BY <2>1, <2>2, <2>3, <1>5
<1>7. IsFiniteSet(CostUnits(ts)) /\ Cost(ts) \in Nat
  BY CostFiniteIn
<1> HIDE DEF N
<1>8. Cardinality(CostUnits(A)) = Cardinality(CostUnits(ts)) + Cardinality(N) - Cardinality({})
  BY <1>3, <1>4, <1>6, <1>7, FS_Union
<1> QED
  BY <1>5, <1>6, <1>7, <1>8, FS_EmptySet DEF Cost, A

\* An append adds the cost of its task.
LEMMA CostAppend ==
  ASSUME NEW ts \in Seq(Task), NEW t \in Task,
         \A i \in 1 .. Len(ts) : ts[i].seq # t.seq
  PROVE  Cost(Append(ts, t)) = Cost(ts) + t.cost
  BY ZenonT(60), TaskPriced, CostAppendIn
=============================================================================
