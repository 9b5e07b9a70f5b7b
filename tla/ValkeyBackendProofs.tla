------------------------ MODULE ValkeyBackendProofs ------------------------
(***************************************************************************)
(* What is proved of the Valkey driver, for every number of units, workers,*)
(* processes and tasks: the invariants of the server's state in every      *)
(* execution, and, while no producer tops up a promoted unit, fairness of  *)
(* Claim and the contract.                                                 *)
(***************************************************************************)
EXTENDS ValkeyBackend, WorkUnitLemmas

(* ZSETs. *)

\* ZADD lists its member under its score and leaves the others alone.
LEMMA ZAddFacts ==
  ASSUME NEW z, NEW k, NEW score
  PROVE  /\ DOMAIN ZAdd(z, k, score) = DOMAIN z \cup {k}
         /\ ZAdd(z, k, score)[k] = score
         /\ \A j \in DOMAIN z \ {k} : ZAdd(z, k, score)[j] = z[j]
  BY DEF ZAdd, ZAddAll

\* ZREM only removes its member.
LEMMA ZRemFacts ==
  ASSUME NEW z, NEW k
  PROVE  /\ DOMAIN ZRem(z, k) = DOMAIN z \ {k}
         /\ \A j \in DOMAIN z \ {k} : ZRem(z, k)[j] = z[j]
  BY DEF ZRem, ZRemAll, Restrict

\* ZADD of a unit under a time keeps a ZSET one of units and times.
LEMMA ZAddZSet ==
  ASSUME NEW z, ZSet(z), NEW k \in Keys, NEW score \in Nat
  PROVE  ZSet(ZAdd(z, k, score))
  BY DEF ZSet, ZAdd, ZAddAll

\* ZREM keeps a ZSET one of units and times.
LEMMA ZRemZSet ==
  ASSUME NEW z, ZSet(z), NEW k
  PROVE  ZSet(ZRem(z, k))
<1>1. PICK y : y = ZRem(z, k)
  OBVIOUS
<1>2. DOMAIN y = DOMAIN z \ {k} /\ \A j \in DOMAIN z \ {k} : y[j] = z[j]
  BY <1>1, ZRemFacts
<1>3. ZSet(y)
  BY <1>2 DEF ZSet
<1> QED
  BY <1>1, <1>3

-----------------------------------------------------------------------------
(* Picking entries by position. *)

\* The i-th position of an interval.
LEMMA NthOfInterval ==
  ASSUME NEW a \in Nat, NEW b \in Nat, a <= b, NEW i \in 1 .. (b - a)
  PROVE  Nth((a + 1) .. b, i) = a + i
<1> DEFINE S == (a + 1) .. b
           UpTo(p) == {q \in S : q <= p}
<1>1. ASSUME NEW p \in S PROVE Cardinality(UpTo(p)) = p - a
  <2>1. UpTo(p) = (a + 1) .. p
    BY <1>1
  <2>2. Cardinality((a + 1) .. p) = IF a + 1 > p THEN 0 ELSE p - (a + 1) + 1
    BY <1>1, FS_Interval
  <2> HIDE DEF UpTo
  <2> QED
    BY <1>1, <2>1, <2>2
<1>2. a + i \in S
  OBVIOUS
<1> HIDE DEF UpTo
<1>3. \A p \in S : Cardinality(UpTo(p)) = i <=> p = a + i
  BY <1>1
<1>4. Nth(S, i) = CHOOSE p \in S : Cardinality(UpTo(p)) = i
  BY DEF Nth, UpTo
<1> HIDE DEF S
<1> QED
  BY <1>2, <1>3, <1>4 DEF S

\* Entries at an interval of positions are a stretch of the stream.
LEMMA AtInterval ==
  ASSUME NEW T, NEW s \in Seq(T), NEW a \in Nat, NEW b \in Nat, a <= b, b <= Len(s)
  PROVE  /\ At(s, (a + 1) .. b) \in Seq(T)
         /\ Len(At(s, (a + 1) .. b)) = b - a
         /\ \A i \in 1 .. (b - a) : At(s, (a + 1) .. b)[i] = s[a + i]
<1> DEFINE S == (a + 1) .. b
           r == At(s, S)
<1>1. Cardinality(S) = b - a
  <2>1. Cardinality(S) = IF a + 1 > b THEN 0 ELSE b - (a + 1) + 1
    BY FS_Interval
  <2> QED
    BY <2>1
<1>2. \A i \in 1 .. (b - a) : Nth(S, i) = a + i
  BY NthOfInterval
<1>3. r = [i \in 1 .. (b - a) |-> s[Nth(S, i)]]
  BY <1>1 DEF At
<1>4. \A i \in 1 .. (b - a) : r[i] = s[a + i]
  BY <1>2, <1>3
<1>5. ASSUME NEW i \in 1 .. (b - a) PROVE r[i] \in T
  <2>1. a + i \in 1 .. Len(s)
    BY LenProperties
  <2> QED
    BY <1>4, <2>1, ElementOfSeq
<1>6. DOMAIN r = 1 .. (b - a)
  BY <1>3
<1> HIDE DEF r, S
<1>7. r = [i \in 1 .. (b - a) |-> r[i]]
  BY <1>3
<1>8. r \in Seq(T)
  BY <1>5, <1>6, <1>7
<1>9. Len(r) = b - a
  BY <1>6, <1>8, LenProperties
<1> QED
  BY <1>4, <1>8, <1>9 DEF r, S

\* Deleting the first m entries leaves the suffix; they were the prefix.
LEMMA AtPrefix ==
  ASSUME NEW T, NEW s \in Seq(T), NEW m \in 0 .. Len(s)
  PROVE  /\ At(s, 1 .. m) = Prefix(s, m)
         /\ At(s, DOMAIN s \ (1 .. m)) = Suffix(s, m)
<1>0. 0 \in Nat /\ Len(s) <= Len(s)
  BY LenProperties
<1>1. Len(s) \in Nat /\ DOMAIN s = 1 .. Len(s) /\ m \in Nat /\ m <= Len(s) /\ 0 <= m
  BY LenProperties
<1>2. At(s, 1 .. m) = Prefix(s, m)
  <2>1. /\ At(s, (0 + 1) .. m) \in Seq(T)
        /\ Len(At(s, (0 + 1) .. m)) = m - 0
        /\ \A i \in 1 .. (m - 0) : At(s, (0 + 1) .. m)[i] = s[0 + i]
    BY ZenonT(60), <1>0, <1>1, AtInterval
  <2>2. (0 + 1) .. m = 1 .. m
    OBVIOUS
  <2>3. PICK r \in Seq(T) : r = At(s, 1 .. m)
    BY <2>1, <2>2
  <2>4. Len(r) = m /\ \A i \in 1 .. m : r[i] = s[i]
    BY <1>1, <2>1, <2>2, <2>3
  <2>5. PICK q \in Seq(T) : q = Prefix(s, m) /\ Len(q) = m /\ \A i \in 1 .. m : q[i] = s[i]
    BY PrefixProperties
  <2>6. r = q
    BY <1>1, <2>4, <2>5, SeqEqual
  <2> QED
    BY <2>3, <2>5, <2>6
<1>3. At(s, DOMAIN s \ (1 .. m)) = Suffix(s, m)
  <2>1. /\ At(s, (m + 1) .. Len(s)) \in Seq(T)
        /\ Len(At(s, (m + 1) .. Len(s))) = Len(s) - m
        /\ \A i \in 1 .. (Len(s) - m) : At(s, (m + 1) .. Len(s))[i] = s[m + i]
    BY ZenonT(60), <1>0, <1>1, AtInterval
  <2>2. (m + 1) .. Len(s) = DOMAIN s \ (1 .. m)
    BY <1>1
  <2>3. PICK r \in Seq(T) : r = At(s, DOMAIN s \ (1 .. m))
    BY <2>1, <2>2
  <2>4. Len(r) = Len(s) - m /\ \A i \in 1 .. (Len(s) - m) : r[i] = s[m + i]
    BY <2>1, <2>2, <2>3
  <2>5. PICK q \in Seq(T) : /\ q = Suffix(s, m) /\ Len(q) = Len(s) - m
                            /\ \A i \in 1 .. (Len(s) - m) : q[i] = s[m + i]
    BY SuffixProperties
  <2>6. r = q
    BY <1>1, <2>4, <2>5, SeqEqual
  <2> QED
    BY <2>3, <2>5, <2>6
<1> QED
  BY <1>2, <1>3

\* Drain's sort permutes what was read: in particular it makes nothing up.
LEMMA BySeqType ==
  ASSUME NEW s \in Seq(Entry)
  PROVE  BySeq(s) \in Seq(Entry)
<1> DEFINE L == Len(s)
           U(i) == {j \in DOMAIN s : s[j].seq < s[i].seq \/ (s[j].seq = s[i].seq /\ j <= i)}
           f == [i \in 1 .. L |-> Cardinality(U(i))]
<1>1. L \in Nat /\ DOMAIN s = 1 .. L /\ \A i \in 1 .. L : s[i] \in Entry /\ s[i].seq \in Nat
  <2>1. L \in Nat /\ DOMAIN s = 1 .. L
    BY LenProperties
  <2>2. \A i \in 1 .. L : s[i] \in Entry
    BY ElementOfSeq
  <2> QED
    BY <2>1, <2>2 DEF Entry
<1>2. IsFiniteSet(1 .. L) /\ Cardinality(1 .. L) = L
  BY <1>1, CountTo
<1>3. ASSUME NEW i \in 1 .. L
      PROVE  IsFiniteSet(U(i)) /\ Cardinality(U(i)) \in 1 .. L
  <2>1. U(i) \in SUBSET (1 .. L) /\ i \in U(i)
    BY <1>1
  <2> HIDE DEF U
  <2>2. IsFiniteSet(U(i)) /\ Cardinality(U(i)) <= L
    BY <1>2, <2>1, FS_Subset
  <2>3. Cardinality(U(i)) \in Nat /\ Cardinality(U(i)) # 0
    BY <2>1, <2>2, FS_CardinalityType, FS_EmptySet
  <2> QED
    BY <1>1, <2>2, <2>3
<1>4. ASSUME NEW i \in 1 .. L, NEW j \in 1 .. L,
             s[i].seq < s[j].seq \/ (s[i].seq = s[j].seq /\ i < j)
      PROVE  Cardinality(U(i)) # Cardinality(U(j))
  <2>1. U(i) \in SUBSET U(j) /\ j \in U(j) /\ j \notin U(i)
    <3>1. ASSUME NEW x \in U(i) PROVE x \in U(j)
      <4>1. x \in 1 .. L /\ s[x].seq \in Nat /\ s[i].seq \in Nat /\ s[j].seq \in Nat
        BY <1>1
      <4> QED
        BY <1>1, <1>4, <3>1, <4>1
    <3>2. j \in U(j) /\ j \notin U(i)
      BY <1>1, <1>4
    <3> QED
      BY <3>1, <3>2
  <2>2. IsFiniteSet(U(j))
    BY <1>3
  <2> HIDE DEF U
  <2> QED
    BY <2>1, <2>2, FS_Subset
<1> HIDE DEF U
<1>5. f \in Injection(1 .. L, 1 .. L)
  <2>1. ASSUME NEW i \in 1 .. L, NEW j \in 1 .. L, i # j
        PROVE  Cardinality(U(i)) # Cardinality(U(j))
    <3>1. s[i].seq \in Nat /\ s[j].seq \in Nat /\ i \in Int /\ j \in Int
      BY <1>1
    <3>2. \/ s[i].seq < s[j].seq \/ (s[i].seq = s[j].seq /\ i < j)
          \/ s[j].seq < s[i].seq \/ (s[j].seq = s[i].seq /\ j < i)
      BY <2>1, <3>1
    <3> QED
      BY <1>4, <3>2
  <2> QED
    BY <1>3, <2>1 DEF Injection, IsInjective
<1>6. f \in Surjection(1 .. L, 1 .. L)
  BY <1>2, <1>5, FS_Injection
<1>7. \A n \in 1 .. L : \E i \in 1 .. L : Cardinality(U(i)) = n
  BY <1>6 DEF Surjection
<1>8. BySeq(s) = [n \in 1 .. L |-> s[CHOOSE i \in 1 .. L : Cardinality(U(i)) = n]]
  BY <1>1 DEF BySeq, U
<1>9. ASSUME NEW n \in 1 .. L PROVE s[CHOOSE i \in 1 .. L : Cardinality(U(i)) = n] \in Entry
  <2>1. (CHOOSE i \in 1 .. L : Cardinality(U(i)) = n) \in 1 .. L
    BY <1>7
  <2> QED
    BY <1>1, <2>1
<1> DEFINE g == [n \in 1 .. L |-> s[CHOOSE i \in 1 .. L : Cardinality(U(i)) = n]]
<1>10. g \in [1 .. L -> Entry]
  BY <1>9
<1> HIDE DEF g
<1>11. g \in Seq(Entry)
  BY <1>1, <1>10
<1> QED
  BY <1>8, <1>11 DEF g

-----------------------------------------------------------------------------
(***************************************************************************)
(* One unit, of which a tasks ever arrived: its stream holds the last of   *)
(* them under consecutive seqs, what is pending is what was delivered of   *)
(* it, and pending_cost is what it costs.                                  *)
(***************************************************************************)
UnitFifo(u, a) ==
  /\ Len(u.tasks) <= u.nextSeq /\ u.nextSeq <= a /\ u.last <= a
  /\ \A i \in 1 .. Len(u.tasks) : /\ u.tasks[i].payload = a - Len(u.tasks) + i
                                  /\ u.tasks[i].seq = u.nextSeq - Len(u.tasks) + i - 1

UnitPel(u) == u.pel = {p \in Payloads(u.tasks) : p <= u.last}

WorkInv(u, a) ==
  u \in Unit /\ UnitFifo(u, a) /\ UnitPel(u) /\ u.pendingCost = Cost(u.tasks)

UnitInv(u, a) == WorkInv(u, a) /\ (u.tasks = <<>> => u = NoUnit)

\* The fields of a unit.
LEMMA UnitFields ==
  ASSUME NEW u \in Unit
  PROVE  /\ u.tasks \in Seq(Entry) /\ Len(u.tasks) \in Nat
         /\ DOMAIN u.tasks = 1 .. Len(u.tasks)
         /\ u.pel \in SUBSET (1 .. MaxTasks) /\ u.last \in 0 .. MaxTasks
         /\ u.pendingCost \in Int /\ u.nextSeq \in Nat /\ u.flush \in Nat
         /\ u.lease \in LeaseTokens \cup {None} /\ u.leaseMs \in Nat /\ u.attempts \in Nat
         /\ \A i \in 1 .. Len(u.tasks) :
              /\ u.tasks[i] \in Entry /\ u.tasks[i].seq \in Nat /\ u.tasks[i].payload \in Nat
              /\ u.tasks[i].cost \in Nat /\ u.tasks[i].ts \in Nat
         /\ u.tasks = <<>> <=> Len(u.tasks) = 0
<1>1. /\ u.tasks \in Seq(Entry)
      /\ u.pel \in SUBSET (1 .. MaxTasks) /\ u.last \in 0 .. MaxTasks
      /\ u.pendingCost \in Int /\ u.nextSeq \in Nat /\ u.flush \in Nat
      /\ u.lease \in LeaseTokens \cup {None} /\ u.leaseMs \in Nat /\ u.attempts \in Nat
  BY DEF Unit
<1>2. Len(u.tasks) \in Nat /\ DOMAIN u.tasks = 1 .. Len(u.tasks)
  BY <1>1, LenProperties
<1>3. ASSUME NEW i \in 1 .. Len(u.tasks)
      PROVE  /\ u.tasks[i] \in Entry /\ u.tasks[i].seq \in Nat /\ u.tasks[i].payload \in Nat
             /\ u.tasks[i].cost \in Nat /\ u.tasks[i].ts \in Nat
  <2>1. u.tasks[i] \in Entry
    BY <1>1, ElementOfSeq
  <2> QED
    BY <2>1 DEF Entry
<1>4. u.tasks = <<>> <=> Len(u.tasks) = 0
  BY <1>1, EmptySeq
<1> QED
  BY <1>1, <1>2, <1>3, <1>4

\* Stream entries have a seq and a cost.
LEMMA EntryPriced == Priced(Entry)
  BY DEF Priced, Entry

\* What is in the stream is numbered without a gap.
LEMMA StreamPayloads ==
  ASSUME NEW a \in Nat, NEW u \in Unit, UnitFifo(u, a)
  PROVE  Payloads(u.tasks) = (a - Len(u.tasks) + 1) .. a
<1> DEFINE n == Len(u.tasks)
<1>1. n \in Nat /\ DOMAIN u.tasks = 1 .. n
  BY UnitFields
<1>2. \A i \in 1 .. n : u.tasks[i].payload = a - n + i
  BY DEF UnitFifo
<1>3. Payloads(u.tasks) = {a - n + i : i \in 1 .. n}
  BY <1>1, <1>2 DEF Payloads
<1> HIDE DEF n
<1>4. {a - n + i : i \in 1 .. n} = (a - n + 1) .. a
  <2>1. ASSUME NEW p \in (a - n + 1) .. a PROVE p \in {a - n + i : i \in 1 .. n}
    <3>1. p - a + n \in 1 .. n /\ p = a - n + (p - a + n)
      BY <1>1
    <3> QED
      BY <3>1
  <2>2. ASSUME NEW i \in 1 .. n PROVE a - n + i \in (a - n + 1) .. a
    BY <1>1
  <2> QED
    BY <2>1, <2>2
<1> QED
  BY <1>3, <1>4 DEF n

\* Seqs in a stream are distinct, and next_seq is not among them.
LEMMA StreamSeqs ==
  ASSUME NEW a \in Nat, NEW u \in Unit, UnitFifo(u, a)
  PROVE  /\ \A i, j \in 1 .. Len(u.tasks) : i # j => u.tasks[i].seq # u.tasks[j].seq
         /\ \A i \in 1 .. Len(u.tasks) : u.tasks[i].seq < u.nextSeq
<1> DEFINE n == Len(u.tasks)
           x == u.nextSeq
<1>1. n \in Nat /\ x \in Nat
  BY UnitFields
<1>2. \A i \in 1 .. n : u.tasks[i].seq = x - n + i - 1
  BY DEF UnitFifo
<1>3. ASSUME NEW i \in 1 .. n PROVE u.tasks[i].seq < x
  <2>1. u.tasks[i].seq = x - n + i - 1
    BY <1>2
  <2> HIDE DEF n, x
  <2> QED
    BY <1>1, <2>1
<1>4. ASSUME NEW i \in 1 .. n, NEW j \in 1 .. n, i # j PROVE u.tasks[i].seq # u.tasks[j].seq
  <2>1. u.tasks[i].seq = x - n + i - 1 /\ u.tasks[j].seq = x - n + j - 1
    BY <1>2
  <2> HIDE DEF n, x
  <2> QED
    BY <1>1, <1>4, <2>1
<1> QED
  BY <1>3, <1>4

\* A deleted unit, and one never written to.
LEMMA NoUnitInv ==
  ASSUME NEW a \in Nat
  PROVE  UnitInv(NoUnit, a)
<1>1. NoUnit \in Unit
  <2>1. <<>> \in Seq(Entry) /\ {} \in SUBSET (1 .. MaxTasks) /\ 0 \in 0 .. MaxTasks
    BY ValkeyBounds
  <2> QED
    BY <2>1 DEF NoUnit, Unit
<1>2. NoUnit.tasks = <<>> /\ NoUnit.pel = {} /\ NoUnit.last = 0 /\ NoUnit.nextSeq = 0
      /\ NoUnit.pendingCost = 0
  BY DEF NoUnit
<1>3. Len(NoUnit.tasks) = 0
  BY <1>2
<1>4. UnitFifo(NoUnit, a)
  BY <1>2, <1>3 DEF UnitFifo
<1>5. UnitPel(NoUnit)
  BY <1>2 DEF UnitPel, Payloads
<1> QED
  BY <1>1, <1>2, <1>4, <1>5, CostEmpty DEF UnitInv, WorkInv

\* Fields that say nothing about the work may change.
LEMMA SameWork ==
  ASSUME NEW a, NEW u, WorkInv(u, a), NEW v \in Unit,
         v.tasks = u.tasks, v.pel = u.pel, v.last = u.last,
         v.pendingCost = u.pendingCost, v.nextSeq = u.nextSeq
  PROVE  WorkInv(v, a)
  BY DEF WorkInv, UnitFifo, UnitPel

\* Counting back from the end of n + 1 consecutive numbers.
LEMMA LastOf ==
  \A x, n \in Nat : x + 1 = (x + 1) - (n + 1) + (n + 1) /\ x = (x + 1) - (n + 1) + (n + 1) - 1
  OBVIOUS

\* Enqueue appends the next task to the stream.
LEMMA AddedInv ==
  ASSUME NEW a \in 0 .. (MaxTasks - 1), NEW u, UnitInv(u, a), NEW c \in Nat, NEW t \in Nat,
         NEW e, e = [seq |-> u.nextSeq, payload |-> a + 1, cost |-> c, ts |-> t],
         NEW v, v = Added(u, e)
  PROVE  /\ UnitInv(v, a + 1) /\ v.tasks # <<>>
         /\ v.tasks = Append(u.tasks, e) /\ Len(v.tasks) = Len(u.tasks) + 1
         /\ v.pendingCost = u.pendingCost + c /\ v.lease = u.lease /\ v.leaseMs = u.leaseMs
         /\ v.flush = IF u.pendingCost = 0 THEN t + MaxWait ELSE u.flush
<1> DEFINE n == Len(u.tasks)
<1>1. /\ u \in Unit /\ UnitFifo(u, a) /\ UnitPel(u) /\ u.pendingCost = Cost(u.tasks)
      /\ a \in Nat /\ a + 1 \in Nat /\ MaxTasks \in Nat /\ MaxWait \in Nat
  BY ValkeyBounds, ValkeyOptions DEF UnitInv, WorkInv
<1>2. /\ u.tasks \in Seq(Entry) /\ n \in Nat /\ u.nextSeq \in Nat /\ u.pendingCost \in Int
      /\ u.last \in 0 .. MaxTasks /\ u.flush \in Nat
  BY <1>1, UnitFields
<1>3. e \in Entry /\ e.seq = u.nextSeq /\ e.payload = a + 1 /\ e.cost = c /\ e.ts = t
  BY <1>1, <1>2 DEF Entry
<1>4. /\ Append(u.tasks, e) \in Seq(Entry) /\ Len(Append(u.tasks, e)) = n + 1
      /\ \A i \in 1 .. n : Append(u.tasks, e)[i] = u.tasks[i]
      /\ Append(u.tasks, e)[n + 1] = e
  BY <1>2, <1>3, AppendElements
<1>5. PICK f \in Nat : f = IF u.pendingCost + e.cost = e.cost THEN e.ts + MaxWait ELSE u.flush
  <2>1. e.ts + MaxWait \in Nat
    BY <1>1, <1>3
  <2> QED
    BY <1>2, <2>1
<1>6. f = IF u.pendingCost = 0 THEN t + MaxWait ELSE u.flush
  <2>1. u.pendingCost + c = c <=> u.pendingCost = 0
    BY <1>2
  <2> QED
    BY <1>3, <1>5, <2>1
<1>7. v = [u EXCEPT !.pendingCost = u.pendingCost + c, !.nextSeq = u.nextSeq + 1,
                    !.tasks = Append(u.tasks, e), !.flush = f]
  BY <1>3, <1>5 DEF Added
<1>8. u.pendingCost + c \in Int /\ u.nextSeq + 1 \in Nat
  BY <1>2
<1>9. v \in Unit
  BY <1>1, <1>4, <1>7, <1>8 DEF Unit
<1>10. /\ v.tasks = Append(u.tasks, e) /\ v.pendingCost = u.pendingCost + c
       /\ v.nextSeq = u.nextSeq + 1 /\ v.flush = f /\ v.lease = u.lease
       /\ v.leaseMs = u.leaseMs /\ v.pel = u.pel /\ v.last = u.last
  BY <1>1, <1>7 DEF Unit
<1>11. Len(v.tasks) = n + 1 /\ v.tasks # <<>>
  <2>1. Len(v.tasks) = n + 1
    BY <1>4, <1>10
  <2>2. Len(<<>>) = 0
    OBVIOUS
  <2> HIDE DEF n
  <2>3. n + 1 # 0
    BY <1>2
  <2> QED
    BY <2>1, <2>2, <2>3
<1>12. UnitFifo(v, a + 1)
  <2>1. /\ n <= u.nextSeq /\ u.nextSeq <= a /\ u.last <= a
        /\ \A i \in 1 .. n : /\ u.tasks[i].payload = a - n + i
                             /\ u.tasks[i].seq = u.nextSeq - n + i - 1
    BY <1>1 DEF UnitFifo
  <2>2. ASSUME NEW i \in 1 .. (n + 1)
        PROVE  /\ v.tasks[i].payload = (a + 1) - (n + 1) + i
               /\ v.tasks[i].seq = (u.nextSeq + 1) - (n + 1) + i - 1
    <3>1. CASE i = n + 1
      <4>1. v.tasks[i].payload = a + 1 /\ v.tasks[i].seq = u.nextSeq
        BY <1>3, <1>4, <1>10, <3>1
      <4> HIDE DEF n
      <4>2. /\ a + 1 = (a + 1) - (n + 1) + (n + 1)
            /\ u.nextSeq = (u.nextSeq + 1) - (n + 1) + (n + 1) - 1
        BY <1>1, <1>2, LastOf
      <4> QED
        BY <3>1, <4>1, <4>2
    <3>2. CASE i # n + 1
      <4>1. i \in 1 .. n
        BY <1>2, <3>2
      <4>2. v.tasks[i] = u.tasks[i]
        BY <1>4, <1>10, <4>1
      <4>3. u.tasks[i].payload = a - n + i /\ u.tasks[i].seq = u.nextSeq - n + i - 1
        BY <2>1, <4>1
      <4>4. a - n + i = (a + 1) - (n + 1) + i
        BY <1>1, <1>2, <4>1
      <4>5. u.nextSeq - n + i - 1 = (u.nextSeq + 1) - (n + 1) + i - 1
        BY <1>2, <4>1
      <4> QED
        BY <4>2, <4>3, <4>4, <4>5
    <3> QED
      BY <3>1, <3>2
  <2>3. n + 1 <= u.nextSeq + 1 /\ u.nextSeq + 1 <= a + 1 /\ u.last <= a + 1
    BY <1>1, <1>2, <2>1
  <2> HIDE DEF n
  <2> QED
    BY ZenonT(60), <1>10, <1>11, <2>2, <2>3 DEF UnitFifo
<1>13. UnitPel(v)
  <2>1. Payloads(v.tasks) = ((a + 1) - Len(v.tasks) + 1) .. (a + 1)
    BY <1>1, <1>9, <1>12, StreamPayloads
  <2>2. Payloads(u.tasks) = (a - n + 1) .. a
    BY <1>1, StreamPayloads
  <2>3. u.last <= a
    BY <1>1 DEF UnitFifo
  <2>4. Payloads(v.tasks) = (a - n + 1) .. (a + 1)
    <3>1. (a + 1) - (n + 1) + 1 = a - n + 1
      BY <1>1, <1>2
    <3> QED
      BY <1>11, <2>1, <3>1
  <2> HIDE DEF n
  <2>5. {p \in (a - n + 1) .. (a + 1) : p <= u.last} = {p \in (a - n + 1) .. a : p <= u.last}
    BY <1>1, <1>2, <2>3
  <2> QED
    BY <1>1, <1>10, <2>2, <2>4, <2>5 DEF UnitPel
<1>14. Cost(Append(u.tasks, e)) = Cost(u.tasks) + c
  <2>1. \A i \in 1 .. Len(u.tasks) : u.tasks[i].seq # e.seq
    <3> SUFFICES ASSUME NEW i \in 1 .. Len(u.tasks) PROVE u.tasks[i].seq # e.seq
      OBVIOUS
    <3>1. u.tasks[i].seq < u.nextSeq /\ u.tasks[i].seq \in Nat
      BY <1>1, StreamSeqs, UnitFields
    <3> QED
      BY <1>2, <1>3, <3>1
  <2>2. Cost(Append(u.tasks, e)) = Cost(u.tasks) + e.cost
    BY ZenonT(30), <1>2, <1>3, <2>1, EntryPriced, CostAppendIn
  <2> QED
    BY <1>3, <2>2
<1>15. WorkInv(v, a + 1)
  BY <1>1, <1>9, <1>10, <1>12, <1>13, <1>14 DEF WorkInv
<1> QED
  BY <1>6, <1>10, <1>11, <1>15 DEF UnitInv

(***************************************************************************)
(* What Ack and Fail drop is the head of the stream; what is left is again *)
(* the most recent arrivals.                                               *)
(***************************************************************************)
Shed(a, u, m, v) ==
  /\ WorkInv(v, a)
  /\ v.tasks = Suffix(u.tasks, m) /\ Len(v.tasks) = Len(u.tasks) - m
  /\ v.lease = u.lease /\ v.leaseMs = u.leaseMs /\ v.flush = u.flush

\* XACK and XDEL of the first m entries: what is left is a stream again.
LEMMA DropInv ==
  ASSUME NEW a \in Nat, NEW u, WorkInv(u, a), NEW m \in Nat, m <= Len(u.tasks),
         NEW S, S = 1 .. m, NEW v, v = Dropped(u, S)
  PROVE  Shed(a, u, m, v)
<1> SUFFICES /\ WorkInv(v, a)
             /\ v.tasks = Suffix(u.tasks, m) /\ Len(v.tasks) = Len(u.tasks) - m
             /\ v.lease = u.lease /\ v.leaseMs = u.leaseMs /\ v.flush = u.flush
  BY DEF Shed
<1> DEFINE n == Len(u.tasks)
           P == Prefix(u.tasks, m)
           Q == Suffix(u.tasks, m)
<1>1. u \in Unit /\ UnitFifo(u, a) /\ UnitPel(u) /\ u.pendingCost = Cost(u.tasks)
  BY DEF WorkInv
<1>2. /\ u.tasks \in Seq(Entry) /\ n \in Nat /\ u.nextSeq \in Nat /\ u.pendingCost \in Int
      /\ u.last \in 0 .. MaxTasks /\ u.flush \in Nat /\ u.pel \in SUBSET (1 .. MaxTasks)
      /\ DOMAIN u.tasks = 1 .. n
  BY <1>1, UnitFields
<1>m. m \in 0 .. Len(u.tasks)
  BY <1>2
<1>3. At(u.tasks, 1 .. m) = P /\ At(u.tasks, DOMAIN u.tasks \ (1 .. m)) = Q
  BY <1>2, <1>m, AtPrefix
<1>4. /\ P \in Seq(Entry) /\ Len(P) = m /\ \A i \in 1 .. m : P[i] = u.tasks[i]
  BY <1>2, <1>m, PrefixProperties
<1>5. /\ Q \in Seq(Entry) /\ Len(Q) = n - m /\ \A i \in 1 .. n - m : Q[i] = u.tasks[m + i]
  BY <1>2, <1>m, SuffixProperties
<1> HIDE DEF P, Q
<1>6. Cost(u.tasks) = Cost(P) + Cost(Q) /\ Cost(P) \in Nat /\ Cost(Q) \in Nat
  <2>1. \A i, j \in 1 .. Len(u.tasks) : i # j => u.tasks[i].seq # u.tasks[j].seq
    BY <1>1, StreamSeqs
  <2>2. Cost(u.tasks) = Cost(Prefix(u.tasks, m)) + Cost(Suffix(u.tasks, m))
    BY ZenonT(30), <1>2, <1>m, <2>1, EntryPriced, CostSplitIn
  <2> QED
    BY <1>4, <1>5, <2>2, EntryPriced, CostFiniteIn DEF P, Q
<1>7. v = [u EXCEPT !.tasks = Q, !.pel = u.pel \ Payloads(P),
                    !.pendingCost = u.pendingCost - Cost(P), !.attempts = 0]
  BY <1>3 DEF Dropped
<1>8. PICK x \in Int, y \in SUBSET (1 .. MaxTasks) :
        x = u.pendingCost - Cost(P) /\ y = u.pel \ Payloads(P)
  <2>1. u.pendingCost - Cost(P) \in Int
    BY <1>2, <1>6
  <2>2. u.pel \ Payloads(P) \in SUBSET (1 .. MaxTasks)
    BY <1>2
  <2> QED
    BY <2>1, <2>2
<1>9. v \in Unit
  <2>1. v = [u EXCEPT !.tasks = Q, !.pel = y, !.pendingCost = x, !.attempts = 0]
    BY <1>7, <1>8
  <2>2. Q \in Seq(Entry) /\ u \in Unit
    BY <1>1, <1>5
  <2>3. v = [tasks |-> Q, pel |-> y, last |-> u.last, pendingCost |-> x, nextSeq |-> u.nextSeq,
             flush |-> u.flush, lease |-> u.lease, leaseMs |-> u.leaseMs, attempts |-> 0]
    BY <2>1, <2>2 DEF Unit
  <2>4. /\ u.last \in 0 .. MaxTasks /\ u.nextSeq \in Nat /\ u.flush \in Nat
        /\ u.lease \in LeaseTokens \cup {None} /\ u.leaseMs \in Nat /\ 0 \in Nat
    BY <2>2, UnitFields
  <2>5. [tasks |-> Q, pel |-> y, last |-> u.last, pendingCost |-> x, nextSeq |-> u.nextSeq,
             flush |-> u.flush, lease |-> u.lease, leaseMs |-> u.leaseMs, attempts |-> 0] \in Unit
    BY <2>2, <2>4 DEF Unit
  <2> QED
    BY <2>3, <2>5
<1>10. /\ v.tasks = Q /\ v.pel = u.pel \ Payloads(P) /\ v.pendingCost = u.pendingCost - Cost(P)
       /\ v.nextSeq = u.nextSeq /\ v.last = u.last /\ v.lease = u.lease
       /\ v.leaseMs = u.leaseMs /\ v.flush = u.flush
  BY <1>1, <1>7 DEF Unit
<1>11. UnitFifo(v, a)
  <2>1. /\ n <= u.nextSeq /\ u.nextSeq <= a /\ u.last <= a
        /\ \A i \in 1 .. n : /\ u.tasks[i].payload = a - n + i
                             /\ u.tasks[i].seq = u.nextSeq - n + i - 1
    BY <1>1 DEF UnitFifo
  <2>2. ASSUME NEW i \in 1 .. (n - m)
        PROVE  /\ Q[i].payload = a - (n - m) + i
               /\ Q[i].seq = u.nextSeq - (n - m) + i - 1
    <3>1. m + i \in 1 .. n /\ Q[i] = u.tasks[m + i]
      BY <1>2, <1>5
    <3>2. Q[i].payload = a - n + (m + i) /\ Q[i].seq = u.nextSeq - n + (m + i) - 1
      BY <2>1, <3>1
    <3> HIDE DEF n
    <3> QED
      BY <1>2, <3>2
  <2>3. n - m <= u.nextSeq
    BY <1>2, <2>1
  <2> HIDE DEF n
  <2> QED
    BY ZenonT(60), <1>5, <1>10, <2>1, <2>2, <2>3 DEF UnitFifo
<1>12. UnitPel(v)
  <2>1. Payloads(u.tasks) = (a - n + 1) .. a
    BY <1>1, StreamPayloads
  <2>2. Payloads(Q) = (a - (n - m) + 1) .. a
    BY <1>5, <1>9, <1>10, <1>11, StreamPayloads
  <2>3. Payloads(P) = (a - n + 1) .. (a - n + m)
    <3>1. ASSUME NEW i \in 1 .. m PROVE P[i].payload = a - n + i
      <4>1. i \in 1 .. n /\ P[i] = u.tasks[i]
        BY <1>2, <1>4
      <4> QED
        BY <1>1, <4>1 DEF UnitFifo
    <3>2. DOMAIN P = 1 .. m
      BY <1>4, LenProperties
    <3>3. Payloads(P) = {a - n + i : i \in 1 .. m}
      BY <3>1, <3>2 DEF Payloads
    <3> HIDE DEF n
    <3>4. ASSUME NEW p \in (a - n + 1) .. (a - n + m) PROVE p \in {a - n + i : i \in 1 .. m}
      <4>1. p - a + n \in 1 .. m /\ p = a - n + (p - a + n)
        BY <1>2
      <4> QED
        BY <4>1
    <3>5. ASSUME NEW i \in 1 .. m PROVE a - n + i \in (a - n + 1) .. (a - n + m)
      BY <1>2
    <3> QED
      BY <3>3, <3>4, <3>5
  <2> HIDE DEF n
  <2>4. ((a - n + 1) .. a) \ ((a - n + 1) .. (a - n + m)) = (a - (n - m) + 1) .. a
    BY <1>2
  <2>5. u.pel = {p \in (a - n + 1) .. a : p <= u.last}
    BY <1>1, <2>1 DEF UnitPel
  <2> QED
    BY <1>10, <2>2, <2>3, <2>4, <2>5 DEF UnitPel
<1>13. v.pendingCost = Cost(v.tasks)
  BY <1>1, <1>6, <1>10
<1> QED
  BY <1>5, <1>9, <1>10, <1>11, <1>12, <1>13 DEF WorkInv, Q

\* The changes to a unit that leave its work alone: the new flush clock, ...
LEMMA HeadClockInv ==
  ASSUME NEW a \in Nat, NEW u, WorkInv(u, a), u.tasks # <<>>
  PROVE  /\ WorkInv(HeadClock(u), a) /\ HeadClock(u).tasks = u.tasks
         /\ HeadClock(u).flush = u.tasks[1].ts + MaxWait /\ HeadClock(u).flush \in Nat
         /\ HeadClock(u).pendingCost = u.pendingCost
         /\ HeadClock(u).lease = u.lease /\ HeadClock(u).leaseMs = u.leaseMs
<1>1. u \in Unit
  BY DEF WorkInv
<1>2. u.tasks[1].ts \in Nat /\ MaxWait \in Nat
  <2>1. 1 \in 1 .. Len(u.tasks)
    BY <1>1, UnitFields
  <2> QED
    BY <1>1, <2>1, UnitFields, ValkeyOptions
<1>3. PICK f \in Nat : f = u.tasks[1].ts + MaxWait
  BY <1>2
<1>4. PICK v : v = HeadClock(u)
  OBVIOUS
<1>5. v = [u EXCEPT !.flush = f]
  BY <1>3, <1>4 DEF HeadClock
<1>6. v \in Unit
  BY <1>1, <1>5 DEF Unit
<1>7. /\ v.tasks = u.tasks /\ v.pel = u.pel /\ v.last = u.last /\ v.pendingCost = u.pendingCost
      /\ v.nextSeq = u.nextSeq /\ v.flush = f /\ v.lease = u.lease /\ v.leaseMs = u.leaseMs
  BY <1>1, <1>5 DEF Unit
<1>8. WorkInv(v, a)
  BY <1>6, <1>7, SameWork
<1> QED
  BY <1>3, <1>4, <1>7, <1>8

\* ... the lease going, ...
LEMMA FreedInv ==
  ASSUME NEW a, NEW u, WorkInv(u, a)
  PROVE  /\ WorkInv(Freed(u), a) /\ Freed(u).tasks = u.tasks /\ Freed(u).lease = None
         /\ Freed(u).flush = u.flush /\ Freed(u).pendingCost = u.pendingCost
         /\ Freed(u).leaseMs = u.leaseMs
<1>1. u \in Unit
  BY DEF WorkInv
<1>2. Freed(u) \in Unit
  BY <1>1 DEF Freed, Unit
<1>3. /\ Freed(u).tasks = u.tasks /\ Freed(u).pel = u.pel /\ Freed(u).last = u.last
      /\ Freed(u).pendingCost = u.pendingCost /\ Freed(u).nextSeq = u.nextSeq
      /\ Freed(u).flush = u.flush /\ Freed(u).lease = None /\ Freed(u).leaseMs = u.leaseMs
  BY <1>1 DEF Freed, Unit
<1> QED
  BY <1>2, <1>3, SameWork

\* ... or coming, ...
LEMMA LeasedInv ==
  ASSUME NEW a, NEW u, WorkInv(u, a), NEW token \in LeaseTokens, NEW d \in Nat
  PROVE  /\ WorkInv(Leased(u, token, d), a) /\ Leased(u, token, d).tasks = u.tasks
         /\ Leased(u, token, d).lease = token /\ Leased(u, token, d).leaseMs = d
         /\ Leased(u, token, d).flush = u.flush
         /\ Leased(u, token, d).pendingCost = u.pendingCost
<1> DEFINE v == Leased(u, token, d)
<1>1. u \in Unit
  BY DEF WorkInv
<1>2. v \in Unit
  BY <1>1 DEF Leased, Unit
<1>3. /\ v.tasks = u.tasks /\ v.pel = u.pel /\ v.last = u.last
      /\ v.pendingCost = u.pendingCost /\ v.nextSeq = u.nextSeq
      /\ v.flush = u.flush /\ v.lease = token /\ v.leaseMs = d
  BY <1>1 DEF Leased, Unit
<1> HIDE DEF v
<1>4. WorkInv(v, a)
  BY <1>2, <1>3, SameWork
<1> QED
  BY <1>3, <1>4 DEF v

\* ... and one more failed attempt.
LEMMA RetriedInv ==
  ASSUME NEW a, NEW u, WorkInv(u, a)
  PROVE  /\ WorkInv(Retried(u), a) /\ Retried(u).tasks = u.tasks /\ Retried(u).lease = u.lease
         /\ Retried(u).pendingCost = u.pendingCost /\ Retried(u).leaseMs = u.leaseMs
<1> DEFINE v == Retried(u)
<1>1. u \in Unit
  BY DEF WorkInv
<1>2. PICK n \in Nat : n = u.attempts + 1
  BY <1>1, UnitFields
<1>3. v = [u EXCEPT !.attempts = n]
  BY <1>2 DEF Retried
<1> HIDE DEF v
<1>4. v \in Unit
  BY <1>1, <1>3 DEF Unit
<1>5. /\ v.tasks = u.tasks /\ v.pel = u.pel /\ v.last = u.last
      /\ v.pendingCost = u.pendingCost /\ v.nextSeq = u.nextSeq
      /\ v.lease = u.lease /\ v.leaseMs = u.leaseMs
  BY <1>1, <1>3 DEF Unit
<1>6. WorkInv(v, a)
  BY <1>4, <1>5, SameWork
<1> QED
  BY <1>5, <1>6 DEF v

\* The pending entries that an Ack deletes are the first of the stream.
LEMMA GonePrefix ==
  ASSUME NEW a \in Nat, NEW u, WorkInv(u, a), NEW through \in Int
  PROVE  \E m \in 0 .. Len(u.tasks) : Gone(u, through) = 1 .. m
<1> DEFINE n == Len(u.tasks)
<1>1. u \in Unit /\ UnitFifo(u, a) /\ UnitPel(u)
  BY DEF WorkInv
<1>2. n \in Nat /\ DOMAIN u.tasks = 1 .. n
  BY <1>1, UnitFields
<1>3. PICK x \in Int, y \in Int : x = u.last - (a - n) /\ y = through - (u.nextSeq - n) + 1
  BY <1>1, <1>2, UnitFields, ValkeyBounds
<1>4. ASSUME NEW i \in 1 .. n
      PROVE  i \in Gone(u, through) <=> i <= x /\ i <= y
  <2>1. u.tasks[i].payload \in Payloads(u.tasks)
    BY <1>2 DEF Payloads
  <2>2. i \in Gone(u, through) <=> u.tasks[i].payload <= u.last /\ u.tasks[i].seq <= through
    BY <1>1, <1>2, <2>1 DEF Gone, Pending, UnitPel
  <2>3. u.tasks[i].payload = a - n + i /\ u.tasks[i].seq = u.nextSeq - n + i - 1
    BY <1>1 DEF UnitFifo
  <2>4. PICK l \in Int, q \in Int : l = u.last /\ q = u.nextSeq
    BY <1>1, UnitFields, ValkeyBounds
  <2> HIDE DEF n
  <2>5. a - n + i <= l <=> i <= x
    <3>1. n \in Nat /\ x = l - (a - n)
      BY <1>2, <1>3, <2>4
    <3> QED
      BY <3>1
  <2>6. q - n + i - 1 <= through <=> i <= y
    <3>1. n \in Nat /\ y = through - (q - n) + 1
      BY <1>2, <1>3, <2>4
    <3> QED
      BY <3>1
  <2> QED
    BY <2>2, <2>3, <2>4, <2>5, <2>6
<1>5. Gone(u, through) \subseteq 1 .. n
  BY <1>2 DEF Gone, Pending
<1> HIDE DEF n
<1>6. PICK m \in 0 .. n : \A i \in 1 .. n : i <= m <=> i <= x /\ i <= y
  <2> DEFINE z == IF x <= y THEN x ELSE y
             w == IF z < 0 THEN 0 ELSE IF z > n THEN n ELSE z
  <2>1. z \in Int /\ \A i \in 1 .. n : i <= z <=> i <= x /\ i <= y
    OBVIOUS
  <2> HIDE DEF z
  <2>2. w \in 0 .. n /\ \A i \in 1 .. n : i <= w <=> i <= z
    BY <1>2, <2>1
  <2> HIDE DEF w
  <2> QED
    BY <2>1, <2>2
<1>7. Gone(u, through) = 1 .. m
  <2>1. ASSUME NEW i \in Gone(u, through) PROVE i \in 1 .. m
    <3>1. i \in 1 .. n
      BY <1>5
    <3>2. i <= m
      BY <1>4, <1>6, <3>1
    <3> QED
      BY <1>2, <3>1, <3>2
  <2>2. ASSUME NEW i \in 1 .. m PROVE i \in Gone(u, through)
    <3>1. i \in 1 .. n /\ i <= m
      BY <1>2
    <3> QED
      BY <1>4, <1>6, <3>1
  <2> QED
    BY <2>1, <2>2
<1> QED
  BY <1>7 DEF n

\* Without a seq to stop at: what is pending is the first of the stream.
LEMMA PendingPrefix ==
  ASSUME NEW a \in Nat, NEW u, WorkInv(u, a)
  PROVE  \E m \in 0 .. Len(u.tasks) : Pending(u) = 1 .. m
<1>1. u \in Unit
  BY DEF WorkInv
<1>2. ASSUME NEW i \in DOMAIN u.tasks PROVE u.tasks[i].seq <= u.nextSeq
  <2>1. i \in 1 .. Len(u.tasks)
    BY <1>1, UnitFields
  <2>2. u.tasks[i].seq < u.nextSeq /\ u.tasks[i].seq \in Nat /\ u.nextSeq \in Nat
    BY <1>1, <2>1, StreamSeqs, UnitFields DEF WorkInv
  <2> QED
    BY <2>2
<1>3. Gone(u, u.nextSeq) = Pending(u)
  BY <1>2 DEF Gone, Pending
<1>4. u.nextSeq \in Int
  BY <1>1, UnitFields
<1>5. \E m \in 0 .. Len(u.tasks) : Gone(u, u.nextSeq) = 1 .. m
  BY <1>4, GonePrefix
<1> QED
  BY <1>3, <1>5

\* The lesser of two numbers.
LEMMA Lesser ==
  \A n, l \in Nat : \E m \in 0 .. l : m <= n /\ m = IF n < l THEN n ELSE l
  OBVIOUS

\* The first n of a stretch of the stream are a stretch of the stream.
LEMMA OldestStretch ==
  ASSUME NEW s \in Seq(Entry), NEW x \in Nat, NEW y \in Nat, x <= y, y <= Len(s),
         NEW n \in Nat
  PROVE  \E m \in 0 .. (y - x) :
           /\ m <= n
           /\ Oldest(s, (x + 1) .. y, n) \in Seq(Entry)
           /\ Len(Oldest(s, (x + 1) .. y, n)) = m
           /\ \A i \in 1 .. m : Oldest(s, (x + 1) .. y, n)[i] = s[x + i]
<1>1. /\ At(s, (x + 1) .. y) \in Seq(Entry) /\ Len(At(s, (x + 1) .. y)) = y - x
      /\ \A i \in 1 .. (y - x) : At(s, (x + 1) .. y)[i] = s[x + i]
  BY ZenonT(30), AtInterval
<1>2. PICK es \in Seq(Entry) : es = At(s, (x + 1) .. y)
  BY <1>1
<1>3. Len(es) = y - x /\ \A i \in 1 .. (y - x) : es[i] = s[x + i]
  BY <1>1, <1>2
<1>4. PICK m \in 0 .. (y - x) : m <= n /\ m = IF n < Len(es) THEN n ELSE Len(es)
  <2>1. y - x \in Nat
    OBVIOUS
  <2>2. \E m \in 0 .. (y - x) : m <= n /\ m = IF n < y - x THEN n ELSE y - x
    BY ZenonT(60), <2>1, Lesser
  <2>3. Len(es) = y - x
    BY <1>3
  <2> QED
    BY ZenonT(60), <2>2, <2>3
<1>5. Oldest(s, (x + 1) .. y, n) = Prefix(es, m)
  BY <1>2, <1>4 DEF Oldest
<1>6. m \in 0 .. Len(es)
  BY <1>3
<1>7. /\ Prefix(es, m) \in Seq(Entry) /\ Len(Prefix(es, m)) = m
      /\ \A i \in 1 .. m : Prefix(es, m)[i] = es[i]
  BY <1>6, PrefixProperties
<1>8. \A i \in 1 .. m : Prefix(es, m)[i] = s[x + i]
  BY <1>3, <1>7
<1> QED
  BY <1>4, <1>5, <1>7, <1>8

(***************************************************************************)
(* XREADGROUP delivers the entries after the last delivered one: pending   *)
(* entries and what was just delivered are again the head of the stream.   *)
(***************************************************************************)
Regrouped(a, u, v) ==
  /\ WorkInv(v, a) /\ v.tasks = u.tasks /\ v.lease = u.lease /\ v.leaseMs = u.leaseMs
  /\ v.flush = u.flush /\ v.pendingCost = u.pendingCost

\* XREADGROUP touches the group alone and returns no more than COUNT.
LEMMA FreshInv ==
  ASSUME NEW a \in Nat, a <= MaxTasks, NEW u, WorkInv(u, a), NEW n \in Nat,
         NEW es, es = Oldest(u.tasks, Undelivered(u), n), NEW v, v = Delivered(u, es)
  PROVE  es \in Seq(Entry) /\ Len(es) <= n /\ Regrouped(a, u, v)
<1> SUFFICES /\ es \in Seq(Entry) /\ Len(es) <= n
             /\ WorkInv(v, a) /\ v.tasks = u.tasks /\ v.lease = u.lease /\ v.leaseMs = u.leaseMs
             /\ v.flush = u.flush /\ v.pendingCost = u.pendingCost
  BY DEF Regrouped
<1> DEFINE len == Len(u.tasks)
           new == Undelivered(u)
<1>1. u \in Unit /\ UnitFifo(u, a) /\ UnitPel(u) /\ MaxTasks \in Nat
  BY ValkeyBounds DEF WorkInv
<1>2. /\ u.tasks \in Seq(Entry) /\ len \in Nat /\ DOMAIN u.tasks = 1 .. len
      /\ u.pel \in SUBSET (1 .. MaxTasks)
  BY <1>1, UnitFields
<1>3. /\ \A i \in 1 .. len : u.tasks[i].payload = a - len + i
      /\ len <= a
  <2>1. len <= u.nextSeq /\ u.nextSeq <= a /\ u.nextSeq \in Nat
    BY <1>1, UnitFields DEF UnitFifo
  <2>2. len <= a
    BY <1>1, <1>2, <2>1
  <2> QED
    BY <1>1, <2>2 DEF UnitFifo
<1>4. PICK l \in 0 .. a : l = u.last
  BY <1>1, UnitFields DEF UnitFifo
<1> HIDE DEF len
<1>5. PICK x \in 0 .. len : (l <= a - len + x) /\ (x > 0 => l = a - len + x)
  <2>1. CASE l <= a - len
    <3>1. 0 \in 0 .. len /\ l <= a - len + 0
      BY <1>2, <1>3, <2>1
    <3> QED
      BY <3>1
  <2>2. CASE l > a - len
    <3>1. l - (a - len) \in 0 .. len /\ l = a - len + (l - (a - len))
      BY <1>2, <1>3, <2>2
    <3> QED
      BY <3>1
  <2> QED
    BY <1>2, <2>1, <2>2
<1>6. new = (x + 1) .. len
  <2>1. ASSUME NEW i \in 1 .. len PROVE u.tasks[i].payload > u.last <=> i >= x + 1
    <3>1. u.tasks[i].payload = a - len + i
      BY <1>3
    <3>0. len \in Nat /\ a \in Nat /\ l \in Nat /\ x \in Nat /\ i \in Nat /\ i >= 1
      BY <1>2
    <3>2. a - len + i > l <=> i >= x + 1
      <4>1. CASE x = 0
        BY <1>5, <3>0, <4>1
      <4>2. CASE x > 0
        BY <1>5, <3>0, <4>2
      <4> QED
        BY <3>0, <4>1, <4>2
    <3> QED
      BY <1>4, <3>1, <3>2
  <2>2. (x + 1) .. len = {i \in 1 .. len : i >= x + 1}
    BY <1>2
  <2> QED
    BY <1>2, <2>1, <2>2 DEF Undelivered
<1>7. PICK m \in 0 .. (len - x) :
        /\ m <= n /\ es \in Seq(Entry) /\ Len(es) = m
        /\ \A i \in 1 .. m : es[i] = u.tasks[x + i]
  <2>1. x \in Nat /\ x <= len /\ len <= Len(u.tasks)
    BY <1>2 DEF len
  <2>2. \E m \in 0 .. (len - x) :
           /\ m <= n
           /\ Oldest(u.tasks, (x + 1) .. len, n) \in Seq(Entry)
           /\ Len(Oldest(u.tasks, (x + 1) .. len, n)) = m
           /\ \A i \in 1 .. m : Oldest(u.tasks, (x + 1) .. len, n)[i] = u.tasks[x + i]
    BY ZenonT(30), <1>2, <2>1, OldestStretch
  <2>3. es = Oldest(u.tasks, (x + 1) .. len, n)
    BY <1>6
  <2> QED
    BY <2>2, <2>3
<1> HIDE DEF new
<1>8. CASE m = 0
  <2>1. es = <<>>
    BY <1>7, <1>8, EmptySeq
  <2>2. v = u
    BY <2>1 DEF Delivered
  <2> QED
    BY <1>7, <2>2
<1>9. CASE m # 0
  <2>1. m \in 1 .. (len - x) /\ x + m \in 1 .. len /\ x + m \in Nat
    BY <1>2, <1>9
  <2>2. es # <<>> /\ es[Len(es)].payload = a - len + (x + m)
    <3>1. es[Len(es)] = u.tasks[x + m]
      BY <1>7, <2>1
    <3>2. u.tasks[x + m].payload = a - len + (x + m)
      BY <1>3, <2>1
    <3> QED
      BY <1>7, <1>9, <3>1, <3>2
  <2>3. Payloads(es) = (a - len + x + 1) .. (a - len + x + m)
    <3>1. DOMAIN es = 1 .. m
      BY <1>7, LenProperties
    <3>2. ASSUME NEW i \in 1 .. m PROVE es[i].payload = a - len + x + i
      <4>1. x + i \in 1 .. len /\ es[i] = u.tasks[x + i]
        BY <1>2, <1>7, <2>1
      <4>2. es[i].payload = a - len + (x + i)
        BY <1>3, <4>1
      <4> QED
        BY <1>2, <4>2
    <3>3. Payloads(es) = {a - len + x + i : i \in 1 .. m}
      BY <3>1, <3>2 DEF Payloads
    <3>4. ASSUME NEW p \in (a - len + x + 1) .. (a - len + x + m)
          PROVE  p \in {a - len + x + i : i \in 1 .. m}
      <4>1. p - (a - len + x) \in 1 .. m /\ p = a - len + x + (p - (a - len + x))
        BY <1>2
      <4> QED
        BY <4>1
    <3>5. ASSUME NEW i \in 1 .. m
          PROVE  a - len + x + i \in (a - len + x + 1) .. (a - len + x + m)
      BY <1>2
    <3> QED
      BY <3>3, <3>4, <3>5
  <2>4. PICK z \in 1 .. a : z = a - len + (x + m)
    BY <1>2, <1>3, <2>1
  <2>5. PICK pel \in SUBSET (1 .. MaxTasks) : pel = u.pel \cup Payloads(es)
    <3>1. (a - len + x + 1) .. (a - len + x + m) \subseteq 1 .. MaxTasks
      BY <1>1, <1>2, <1>3, <2>1
    <3>2. u.pel \cup Payloads(es) \in SUBSET (1 .. MaxTasks)
      BY <1>2, <2>3, <3>1
    <3> QED
      BY <3>2
  <2>6. v = [u EXCEPT !.pel = pel, !.last = z]
    BY <2>2, <2>4, <2>5 DEF Delivered
  <2>7. z \in 0 .. MaxTasks
    BY <1>1, <2>4
  <2>8. v \in Unit
    BY <1>1, <2>6, <2>7 DEF Unit
  <2>9. /\ v.tasks = u.tasks /\ v.pel = pel /\ v.last = z /\ v.pendingCost = u.pendingCost
        /\ v.nextSeq = u.nextSeq /\ v.lease = u.lease /\ v.leaseMs = u.leaseMs
        /\ v.flush = u.flush
    BY <1>1, <2>6 DEF Unit
  <2>10. UnitFifo(v, a)
    <3>1. z <= a
      BY <2>4
    <3> QED
      BY <1>1, <2>9, <3>1 DEF UnitFifo
  <2>11. UnitPel(v)
    <3>1. Payloads(u.tasks) = (a - len + 1) .. a
      BY <1>1, StreamPayloads DEF len
    <3>2. u.pel = {p \in (a - len + 1) .. a : p <= l}
      BY <1>1, <1>4, <3>1 DEF UnitPel
    <3>3. {p \in (a - len + 1) .. a : p <= l} = (a - len + 1) .. (a - len + x)
      <4>0. len \in Nat /\ a \in Nat /\ l \in Nat /\ x \in Nat /\ x <= len /\ len <= a /\ l <= a
        BY <1>2, <1>3
      <4>1. CASE x = 0
        BY <1>5, <4>0, <4>1
      <4>2. CASE x > 0
        <5>1. l = a - len + x
          BY <1>5, <4>2
        <5> QED
          BY <4>0, <5>1
      <4> QED
        BY <1>2, <4>1, <4>2
    <3>4. ((a - len + 1) .. (a - len + x)) \cup ((a - len + x + 1) .. (a - len + x + m))
            = {p \in (a - len + 1) .. a : p <= z}
      BY <1>2, <1>3, <2>1, <2>4
    <3> QED
      BY <2>3, <2>5, <2>9, <3>1, <3>2, <3>3, <3>4 DEF UnitPel
  <2>12. WorkInv(v, a)
    BY <2>8, <2>9, <2>10, <2>11 DEF WorkInv
  <2> QED
    BY <1>7, <2>9, <2>12
<1> QED
  BY <1>8, <1>9

-----------------------------------------------------------------------------
(***************************************************************************)
(* The inductive invariant.  Listed(k) says where the unit k is indexed;   *)
(* a Drain that is past its lease check has a handle, and one about to read*)
(* new entries has room for them.                                          *)
(***************************************************************************)
Listed(k) ==
  /\ (units[k].tasks # <<>> /\ units[k].lease = None) =>
       /\ k \in DOMAIN eligible \cup DOMAIN pendingFlush
       /\ units[k].pendingCost >= Threshold => k \in DOMAIN eligible
  /\ units[k].tasks = <<>> => k \notin DOMAIN eligible \cup DOMAIN pendingFlush
  /\ k \in DOMAIN leases <=> units[k].lease # None

CallType ==
  [by : ClaimedUnit \cup {None}, step : {"idle", "autoclaim", "read"}, got : Seq(Entry)]

DrainInv(d) ==
  /\ d.step # "idle" => d.by \in ClaimedUnit
  /\ d.step = "read" => Len(d.got) < Batch

StateInv ==
  /\ TypeOK
  /\ \A k \in Keys : UnitInv(units[k], arrived[k])
  /\ IsFiniteSet(Backlog) /\ pendingTasks = Cardinality(Backlog)
  /\ \A k \in Keys : Listed(k)
  /\ \A c \in Callers : DrainInv(calls[c])

\* The facts of one unit that the steps below keep using.
LEMMA Facts ==
  ASSUME StateInv, NEW k \in Keys
  PROVE  /\ units \in [Keys -> Unit] /\ units[k] \in Unit /\ arrived[k] \in 0 .. MaxTasks
         /\ arrived[k] \in Nat /\ MaxTasks \in Nat /\ now \in Nat
         /\ UnitInv(units[k], arrived[k]) /\ WorkInv(units[k], arrived[k]) /\ Listed(k)
         /\ ZSet(eligible) /\ ZSet(pendingFlush) /\ ZSet(leases)
<1>1. /\ units \in [Keys -> Unit] /\ arrived \in [Keys -> 0 .. MaxTasks] /\ now \in 0 .. MaxNow
      /\ ZSet(eligible) /\ ZSet(pendingFlush) /\ ZSet(leases)
  BY DEF StateInv, TypeOK
<1>2. UnitInv(units[k], arrived[k]) /\ Listed(k)
  BY DEF StateInv
<1>3. MaxTasks \in Nat /\ MaxNow \in Nat
  BY ValkeyBounds
<1>4. arrived[k] \in 0 .. MaxTasks /\ units[k] \in Unit
  BY <1>1
<1>5. arrived[k] \in Nat /\ now \in Nat
  BY <1>1, <1>3, <1>4
<1> QED
  BY <1>1, <1>2, <1>3, <1>4, <1>5 DEF UnitInv

\* The backlog without one unit, and that unit.
LEMMA BacklogSplit ==
  ASSUME NEW f \in [Keys -> Unit], NEW k \in Keys,
         NEW B, B = UNION {{j} \X DOMAIN f[j].tasks : j \in Keys},
         NEW R, R = UNION {{j} \X DOMAIN f[j].tasks : j \in Keys \ {k}}
  PROVE  /\ IsFiniteSet(B) <=> IsFiniteSet(R)
         /\ IsFiniteSet(R) => Cardinality(B) = Cardinality(R) + Len(f[k].tasks)
<1> DEFINE D == {k} \X DOMAIN f[k].tasks
<1>1. f[k] \in Unit
  OBVIOUS
<1>2. Len(f[k].tasks) \in Nat /\ DOMAIN f[k].tasks = 1 .. Len(f[k].tasks)
  BY <1>1, UnitFields
<1>3. B = R \cup D
  OBVIOUS
<1>4. R \cap D = {}
  OBVIOUS
<1>5. IsFiniteSet(D) /\ Cardinality(D) = Len(f[k].tasks)
  <2>1. IsFiniteSet(DOMAIN f[k].tasks) /\ Cardinality(DOMAIN f[k].tasks) = Len(f[k].tasks)
    BY <1>2, CountTo
  <2>2. IsFiniteSet({k}) /\ Cardinality({k}) = 1
    BY FS_Singleton
  <2>3. IsFiniteSet(D) /\ Cardinality(D) = Cardinality({k}) * Cardinality(DOMAIN f[k].tasks)
    BY <2>1, <2>2, FS_Product
  <2> QED
    BY <1>2, <2>1, <2>2, <2>3
<1> HIDE DEF D
<1>6. ASSUME IsFiniteSet(R)
      PROVE  IsFiniteSet(B) /\ Cardinality(B) = Cardinality(R) + Len(f[k].tasks)
  <2>1. IsFiniteSet(B) /\ Cardinality(B) = Cardinality(R) + Cardinality(D) - Cardinality({})
    BY <1>3, <1>4, <1>5, <1>6, FS_Union
  <2>2. Cardinality(R) \in Nat
    BY <1>6, FS_CardinalityType
  <2> QED
    BY <1>2, <1>5, <2>1, <2>2, FS_EmptySet
<1>7. ASSUME IsFiniteSet(B) PROVE IsFiniteSet(R)
  <2>1. R \in SUBSET B
    BY <1>3
  <2> QED
    BY <1>7, <2>1, FS_Subset
<1> QED
  BY <1>6, <1>7

\* The tasks pending in the units f.
Work(f) == UNION {{j} \X DOMAIN f[j].tasks : j \in Keys}

\* Replacing a unit changes the size of the backlog by what it has more.
LEMMA BacklogStep ==
  ASSUME NEW f \in [Keys -> Unit], NEW k \in Keys, NEW v \in Unit, IsFiniteSet(Work(f))
  PROVE  LET C == Work([f EXCEPT ![k] = v])
         IN  /\ IsFiniteSet(C) /\ Cardinality(C) \in Nat
             /\ Cardinality(C) = Cardinality(Work(f)) + (Len(v.tasks) - Len(f[k].tasks))
<1>0. PICK g : g = [f EXCEPT ![k] = v]
  OBVIOUS
<1>1. g \in [Keys -> Unit] /\ g[k] = v
  BY <1>0
<1>2. PICK R : R = UNION {{j} \X DOMAIN f[j].tasks : j \in Keys \ {k}}
  OBVIOUS
<1>3. R = UNION {{j} \X DOMAIN g[j].tasks : j \in Keys \ {k}}
  BY <1>0, <1>2
<1>b. PICK B, C : B = Work(f) /\ C = Work(g)
  OBVIOUS
<1>4. IsFiniteSet(R) /\ Cardinality(B) = Cardinality(R) + Len(f[k].tasks)
  BY <1>b, <1>2, BacklogSplit DEF Work
<1>5. IsFiniteSet(C) /\ Cardinality(C) = Cardinality(R) + Len(v.tasks)
  <2>1. /\ IsFiniteSet(C) <=> IsFiniteSet(R)
        /\ IsFiniteSet(R) => Cardinality(C) = Cardinality(R) + Len(g[k].tasks)
    BY <1>b, <1>1, <1>3, BacklogSplit DEF Work
  <2> QED
    BY <1>1, <1>4, <2>1
<1>6. PICK r \in Nat, x \in Nat, y \in Nat :
        r = Cardinality(R) /\ x = Len(v.tasks) /\ y = Len(f[k].tasks)
  <2>1. Cardinality(R) \in Nat
    BY <1>4, FS_CardinalityType
  <2>2. f[k] \in Unit
    OBVIOUS
  <2>3. Len(v.tasks) \in Nat /\ Len(f[k].tasks) \in Nat
    BY <2>2, UnitFields
  <2> QED
    BY <2>1, <2>3
<1>7. r + x \in Nat /\ r + x = (r + y) + (x - y)
  OBVIOUS
<1>8. /\ IsFiniteSet(C) /\ Cardinality(C) \in Nat
      /\ Cardinality(C) = Cardinality(B) + (Len(v.tasks) - Len(f[k].tasks))
  BY <1>4, <1>5, <1>6, <1>7
<1> QED
  BY <1>0, <1>b, <1>8

\* A step that replaces one unit keeps what is said of units and counters.
LEMMA OneUnit ==
  ASSUME StateInv, NEW k \in Keys, NEW v, units' = [units EXCEPT ![k] = v],
         arrived' \in [Keys -> 0 .. MaxTasks], \A j \in Keys \ {k} : arrived'[j] = arrived[j],
         UnitInv(v, arrived'[k]),
         pendingTasks' = pendingTasks + (Len(v.tasks) - Len(units[k].tasks))
  PROVE  /\ units' \in [Keys -> Unit] /\ \A j \in Keys : UnitInv(units[j], arrived[j])'
         /\ IsFiniteSet(Backlog') /\ pendingTasks' = Cardinality(Backlog')
         /\ pendingTasks' \in Nat
<1>1. units \in [Keys -> Unit] /\ v \in Unit
  BY Facts DEF UnitInv, WorkInv
<1>2. units' \in [Keys -> Unit]
  BY <1>1
<1>3. ASSUME NEW j \in Keys PROVE UnitInv(units'[j], arrived'[j])
  <2>1. CASE j = k
    BY <1>1, <2>1
  <2>2. CASE j # k
    <3>1. units'[j] = units[j] /\ arrived'[j] = arrived[j]
      BY <1>1, <2>2
    <3> QED
      BY <3>1 DEF StateInv
  <2> QED
    BY <2>1, <2>2
<1>4. PICK f \in [Keys -> Unit] : f = units
  BY <1>1
<1>5. Backlog = Work(f) /\ Backlog' = Work([f EXCEPT ![k] = v])
  BY <1>4 DEF Backlog, Work
<1>6. IsFiniteSet(Work(f)) /\ pendingTasks = Cardinality(Work(f))
  BY <1>5 DEF StateInv
<1>7. PICK C : C = Work([f EXCEPT ![k] = v])
  OBVIOUS
<1>8. /\ IsFiniteSet(C) /\ Cardinality(C) \in Nat
      /\ Cardinality(C) = Cardinality(Work(f)) + (Len(v.tasks) - Len(f[k].tasks))
  BY <1>1, <1>6, <1>7, BacklogStep
<1> QED
  BY <1>2, <1>3, <1>4, <1>5, <1>6, <1>7, <1>8

\* ZSETs that differ at most in one member.
Agree(y, z, k) ==
  \A j \in Keys \ {k} : /\ (j \in DOMAIN y) <=> (j \in DOMAIN z)
                        /\ (j \in DOMAIN z) => (y[j] = z[j])

\* ZADD and ZREM of k leave the other members alone.
LEMMA Agreement ==
  ASSUME NEW z, NEW k
  PROVE  /\ Agree(z, z, k) /\ Agree(ZRem(z, k), z, k)
         /\ \A score : Agree(ZAdd(z, k, score), z, k)
<1>1. Agree(z, z, k)
  BY DEF Agree
<1>2. Agree(ZRem(z, k), z, k)
  BY DEF Agree, ZRem, ZRemAll, Restrict
<1>3. ASSUME NEW score PROVE Agree(ZAdd(z, k, score), z, k)
  BY DEF Agree, ZAdd, ZAddAll
<1> QED
  BY <1>1, <1>2, <1>3

\* A step that indexes only the unit it replaces keeps the others listed.
LEMMA OneListed ==
  ASSUME StateInv, NEW k \in Keys, NEW v, units' = [units EXCEPT ![k] = v],
         Agree(eligible', eligible, k), Agree(pendingFlush', pendingFlush, k),
         Agree(leases', leases, k), Listed(k)'
  PROVE  \A j \in Keys : Listed(j)'
<1> SUFFICES ASSUME NEW j \in Keys, j # k PROVE Listed(j)'
  OBVIOUS
<1>0. j \in Keys \ {k}
  OBVIOUS
<1>1. units \in [Keys -> Unit] /\ Listed(j)
  BY Facts
<1>2. units'[j] = units[j]
  BY <1>1
<1>3. /\ (j \in DOMAIN eligible') <=> (j \in DOMAIN eligible)
      /\ (j \in DOMAIN pendingFlush') <=> (j \in DOMAIN pendingFlush)
      /\ (j \in DOMAIN leases') <=> (j \in DOMAIN leases)
  BY <1>0 DEF Agree
<1> QED
  BY <1>1, <1>2, <1>3 DEF Listed

\* A step of one caller keeps what is said of the others' Drains.
LEMMA OneCall ==
  ASSUME StateInv, NEW c \in Callers, NEW d \in CallType, DrainInv(d),
         calls' = [calls EXCEPT ![c] = d]
  PROVE  calls' \in [Callers -> CallType] /\ \A x \in Callers : DrainInv(calls[x])'
<1>1. calls \in [Callers -> CallType] /\ \A x \in Callers : DrainInv(calls[x])
  BY DEF StateInv, TypeOK, CallType
<1>2. calls' \in [Callers -> CallType]
  BY <1>1
<1>3. ASSUME NEW x \in Callers PROVE DrainInv(calls'[x])
  BY <1>1
<1> QED
  BY <1>2, <1>3

\* A caller outside Drain has nothing to account for.
LEMMA IdleCall == Idle \in CallType /\ DrainInv(Idle)
  BY DEF Idle, CallType, DrainInv

\* The parts of the invariant, put together again.
LEMMA StateParts ==
  ASSUME units' \in [Keys -> Unit], \A j \in Keys : UnitInv(units[j], arrived[j])',
         IsFiniteSet(Backlog'), pendingTasks' = Cardinality(Backlog'), pendingTasks' \in Nat,
         ZSet(eligible'), ZSet(pendingFlush'), ZSet(leases'), \A j \in Keys : Listed(j)',
         calls' \in [Callers -> CallType], \A x \in Callers : DrainInv(calls[x])',
         dlq' \in Seq([key : Keys, task : Entry]), tokens' \in [Procs -> 0 .. MaxClaims],
         handles' \subseteq ClaimedUnit, now' \in 0 .. MaxNow, faults' \in 0 .. MaxFaults,
         arrived' \in [Keys -> 0 .. MaxTasks]
  PROVE  StateInv'
<1>1. TypeOK'
  BY DEF TypeOK, CallType, ZSet
<1> QED
  BY <1>1 DEF StateInv

\* The types again, one by one.
LEMMA Types ==
  ASSUME StateInv
  PROVE  /\ units \in [Keys -> Unit] /\ arrived \in [Keys -> 0 .. MaxTasks]
         /\ ZSet(eligible) /\ ZSet(pendingFlush) /\ ZSet(leases)
         /\ calls \in [Callers -> CallType] /\ \A x \in Callers : DrainInv(calls[x])
         /\ dlq \in Seq([key : Keys, task : Entry]) /\ tokens \in [Procs -> 0 .. MaxClaims]
         /\ handles \subseteq ClaimedUnit /\ now \in 0 .. MaxNow /\ faults \in 0 .. MaxFaults
         /\ pendingTasks \in Nat
         /\ IsFiniteSet(Backlog) /\ pendingTasks = Cardinality(Backlog)
         /\ \A j \in Keys : UnitInv(units[j], arrived[j])
         /\ \A j \in Keys : Listed(j)
  BY DEF StateInv, TypeOK, CallType

\* The clock that a script is given.
LEMMA ClockType ==
  ASSUME StateInv, NEW t \in Clocks
  PROVE  t \in Nat /\ t <= now /\ now - t <= Lag
<1>1. now \in 0 .. MaxNow /\ MaxNow \in Nat
  BY Types, ValkeyBounds
<1> QED
  BY <1>1 DEF Clocks

\* A handle, and the unit of one that is held.
LEMMA HandleFacts ==
  ASSUME StateInv, NEW h \in handles
  PROVE  /\ h \in ClaimedUnit /\ h.key \in Keys /\ h.by \in Callers /\ h.lease \in LeaseTokens
         /\ Held(h) => /\ units[h.key].lease = h.lease /\ units[h.key].lease # None
                       /\ units[h.key].tasks # <<>> /\ h.key \in DOMAIN leases
<1>1. h \in ClaimedUnit
  BY Types
<1>2. h.key \in Keys /\ h.by \in Callers /\ h.lease \in LeaseTokens
  BY <1>1 DEF ClaimedUnit
<1>3. ASSUME Held(h) PROVE /\ units[h.key].lease = h.lease /\ units[h.key].lease # None
                           /\ units[h.key].tasks # <<>> /\ h.key \in DOMAIN leases
  <2>1. units[h.key].lease = h.lease /\ units[h.key].lease # None
    BY <1>2, <1>3, ValkeyNone DEF Held
  <2>2. Listed(h.key) /\ UnitInv(units[h.key], arrived[h.key])
    BY <1>2, Types
  <2>3. h.key \in DOMAIN leases
    BY <2>1, <2>2 DEF Listed
  <2>4. units[h.key].tasks # <<>>
    <3> SUFFICES ASSUME units[h.key].tasks = <<>> PROVE FALSE
      OBVIOUS
    <3>1. units[h.key] = NoUnit
      BY <2>2 DEF UnitInv
    <3>2. NoUnit.lease = None
      BY DEF NoUnit
    <3> QED
      BY <2>1, <3>1, <3>2
  <2> QED
    BY <2>1, <2>3, <2>4
<1> QED
  BY <1>1, <1>2, <1>3

\* The unit leaves every index.
LEMMA UnindexedStep ==
  ASSUME StateInv, NEW k \in Keys, Unindexed(k)
  PROVE  /\ ZSet(eligible') /\ ZSet(pendingFlush') /\ ZSet(leases')
         /\ Agree(eligible', eligible, k) /\ Agree(pendingFlush', pendingFlush, k)
         /\ Agree(leases', leases, k)
         /\ k \notin DOMAIN eligible' /\ k \notin DOMAIN pendingFlush' /\ k \notin DOMAIN leases'
<1>1. /\ eligible' = ZRem(eligible, k) /\ pendingFlush' = ZRem(pendingFlush, k)
      /\ leases' = ZRem(leases, k)
  BY DEF Unindexed
<1>2. ZSet(eligible) /\ ZSet(pendingFlush) /\ ZSet(leases)
  BY Types
<1>3. ZSet(ZRem(eligible, k)) /\ ZSet(ZRem(pendingFlush, k)) /\ ZSet(ZRem(leases, k))
  BY <1>2, ZRemZSet
<1>4. /\ Agree(ZRem(eligible, k), eligible, k) /\ Agree(ZRem(pendingFlush, k), pendingFlush, k)
      /\ Agree(ZRem(leases, k), leases, k)
  BY Agreement
<1>5. /\ k \notin DOMAIN ZRem(eligible, k) /\ k \notin DOMAIN ZRem(pendingFlush, k)
      /\ k \notin DOMAIN ZRem(leases, k)
  BY DEF ZRem, ZRemAll, Restrict
<1> QED
  BY <1>1, <1>3, <1>4, <1>5

\* The unit leaves leases and enters one index.
LEMMA ReindexedStep ==
  ASSUME StateInv, NEW k \in Keys, NEW u, NEW t, Reindexed(k, u, t), u.flush \in Nat
  PROVE  /\ ZSet(eligible') /\ ZSet(pendingFlush') /\ ZSet(leases')
         /\ Agree(eligible', eligible, k) /\ Agree(pendingFlush', pendingFlush, k)
         /\ Agree(leases', leases, k) /\ k \notin DOMAIN leases'
         /\ Due(u, t) => /\ k \in DOMAIN eligible' /\ eligible'[k] = u.flush
                         /\ pendingFlush' = pendingFlush
         /\ ~Due(u, t) => /\ k \in DOMAIN pendingFlush' /\ pendingFlush'[k] = u.flush
                          /\ eligible' = eligible
<1>1. /\ leases' = ZRem(leases, k)
      /\ eligible' = IF Due(u, t) THEN ZAdd(eligible, k, u.flush) ELSE eligible
      /\ pendingFlush' = IF Due(u, t) THEN pendingFlush ELSE ZAdd(pendingFlush, k, u.flush)
  BY DEF Reindexed
<1>2. ZSet(eligible) /\ ZSet(pendingFlush) /\ ZSet(leases)
  BY Types
<1>3. /\ ZSet(ZRem(leases, k)) /\ ZSet(ZAdd(eligible, k, u.flush))
      /\ ZSet(ZAdd(pendingFlush, k, u.flush))
  BY <1>2, ZRemZSet, ZAddZSet
<1>4. /\ Agree(ZRem(leases, k), leases, k)
      /\ Agree(ZAdd(eligible, k, u.flush), eligible, k) /\ Agree(eligible, eligible, k)
      /\ Agree(ZAdd(pendingFlush, k, u.flush), pendingFlush, k)
      /\ Agree(pendingFlush, pendingFlush, k)
  BY Agreement
<1>5. k \notin DOMAIN ZRem(leases, k)
  BY DEF ZRem, ZRemAll, Restrict
<1>6. /\ k \in DOMAIN ZAdd(eligible, k, u.flush) /\ ZAdd(eligible, k, u.flush)[k] = u.flush
      /\ k \in DOMAIN ZAdd(pendingFlush, k, u.flush) /\ ZAdd(pendingFlush, k, u.flush)[k] = u.flush
  BY DEF ZAdd, ZAddAll
<1>7. CASE Due(u, t)
  <2>1. eligible' = ZAdd(eligible, k, u.flush) /\ pendingFlush' = pendingFlush
    BY <1>1, <1>7
  <2> QED
    BY <1>1, <1>2, <1>3, <1>4, <1>5, <1>6, <1>7, <2>1
<1>8. CASE ~Due(u, t)
  <2>1. eligible' = eligible /\ pendingFlush' = ZAdd(pendingFlush, k, u.flush)
    BY <1>1, <1>8
  <2> QED
    BY <1>1, <1>2, <1>3, <1>4, <1>5, <1>6, <1>8, <2>1
<1> QED
  BY <1>7, <1>8

-----------------------------------------------------------------------------
(* The initial state and the steps. *)

\* An empty server satisfies the invariant.
LEMMA InitInv == Init => StateInv
<1> SUFFICES ASSUME Init PROVE StateInv
  OBVIOUS
<1>1. /\ units = [k \in Keys |-> NoUnit] /\ eligible = <<>> /\ pendingFlush = <<>>
      /\ leases = <<>> /\ pendingTasks = 0 /\ dlq = <<>> /\ tokens = [p \in Procs |-> 0]
      /\ now = 0 /\ handles = {} /\ calls = [c \in Callers |-> Idle] /\ faults = 0
      /\ arrived = [k \in Keys |-> 0]
  BY DEF Init
<1>2. \A k \in Keys : UnitInv(units[k], arrived[k])
  <2>1. UnitInv(NoUnit, 0)
    BY NoUnitInv
  <2> QED
    BY <1>1, <2>1
<1>3. NoUnit \in Unit /\ NoUnit.tasks = <<>> /\ NoUnit.lease = None
  <2>1. UnitInv(NoUnit, 0)
    BY NoUnitInv
  <2> QED
    BY <2>1 DEF UnitInv, WorkInv, NoUnit
<1>4. Backlog = {}
  <2>1. \A k \in Keys : DOMAIN units[k].tasks = {}
    BY <1>1, <1>3
  <2> QED
    BY <2>1 DEF Backlog
<1>5. IsFiniteSet(Backlog) /\ pendingTasks = Cardinality(Backlog)
  BY <1>1, <1>4, FS_EmptySet
<1>6. DOMAIN eligible = {} /\ DOMAIN pendingFlush = {} /\ DOMAIN leases = {}
  BY <1>1
<1>7. \A k \in Keys : Listed(k)
  BY <1>1, <1>3, <1>6 DEF Listed
<1>8. ZSet(eligible) /\ ZSet(pendingFlush) /\ ZSet(leases)
  BY <1>6 DEF ZSet
<1>9. calls \in [Callers -> CallType] /\ \A c \in Callers : DrainInv(calls[c])
  BY <1>1, IdleCall
<1>10. /\ tokens \in [Procs -> 0 .. MaxClaims] /\ arrived \in [Keys -> 0 .. MaxTasks]
       /\ now \in 0 .. MaxNow /\ faults \in 0 .. MaxFaults /\ pendingTasks \in Nat
  BY <1>1, ValkeyBounds
<1>11. units \in [Keys -> Unit] /\ dlq \in Seq([key : Keys, task : Entry])
       /\ handles \subseteq ClaimedUnit
  BY <1>1, <1>3
<1>12. TypeOK
  BY <1>8, <1>9, <1>10, <1>11 DEF TypeOK, CallType
<1> QED
  BY <1>2, <1>5, <1>7, <1>9, <1>12 DEF StateInv

\* luaEnqueue keeps the invariant.
LEMMA EnqueueInv ==
  ASSUME StateInv, NEW k \in Keys, NEW c \in Costs, NEW t \in Clocks, Enqueue(k, c, t)
  PROVE  StateInv'
<1> DEFINE e == [seq |-> units[k].nextSeq, payload |-> arrived[k] + 1, cost |-> c, ts |-> t]
<1>0. PICK v : v = Added(units[k], e)
  OBVIOUS
<1>1. /\ arrived[k] < MaxTasks /\ arrived' = [arrived EXCEPT ![k] = @ + 1]
      /\ units' = [units EXCEPT ![k] = v] /\ pendingTasks' = pendingTasks + 1
      /\ UNCHANGED <<leases, dlq, tokens, now, handles, calls, faults>>
  BY <1>0 DEF Enqueue
<1>2. \/ ~Free(v) /\ UNCHANGED <<eligible, pendingFlush>>
      \/ /\ Free(v) /\ v.pendingCost >= Threshold
         /\ eligible' = ZAdd(eligible, k, v.flush)
         /\ pendingFlush' = ZRem(pendingFlush, k)
      \/ /\ Free(v) /\ v.pendingCost < Threshold
         /\ pendingFlush' = ZAdd(pendingFlush, k, v.flush)
         /\ UNCHANGED eligible
  BY <1>0 DEF Enqueue
<1>3. /\ arrived \in [Keys -> 0 .. MaxTasks] /\ MaxTasks \in Nat
      /\ units[k] \in Unit /\ UnitInv(units[k], arrived[k]) /\ Listed(k) /\ pendingTasks \in Nat
  BY Types, Facts
<1>4. arrived[k] \in 0 .. (MaxTasks - 1)
  BY <1>1, <1>3
<1>5. t \in Nat /\ c \in Nat
  BY ClockType, ValkeyOptions
<1>6. /\ UnitInv(v, arrived[k] + 1) /\ v.tasks # <<>>
      /\ Len(v.tasks) = Len(units[k].tasks) + 1 /\ v.lease = units[k].lease
  BY <1>0, <1>3, <1>4, <1>5, AddedInv
<1>7. arrived' \in [Keys -> 0 .. MaxTasks] /\ arrived'[k] = arrived[k] + 1
      /\ \A j \in Keys \ {k} : arrived'[j] = arrived[j]
  BY <1>1, <1>3
<1>8. pendingTasks' = pendingTasks + (Len(v.tasks) - Len(units[k].tasks))
  <2>1. PICK n \in Nat : n = Len(units[k].tasks)
    BY <1>3, UnitFields
  <2> QED
    BY <1>1, <1>3, <1>6, <2>1
<1>9. /\ units' \in [Keys -> Unit] /\ \A j \in Keys : UnitInv(units[j], arrived[j])'
      /\ IsFiniteSet(Backlog') /\ pendingTasks' = Cardinality(Backlog')
      /\ pendingTasks' \in Nat
  BY <1>1, <1>6, <1>7, <1>8, OneUnit
<1>10. units'[k] = v /\ v.flush \in Nat
  BY <1>1, <1>3, <1>6, Types, UnitFields DEF UnitInv, WorkInv
<1>11. ZSet(eligible) /\ ZSet(pendingFlush) /\ ZSet(leases)
  BY Types
<1>12. /\ ZSet(eligible') /\ ZSet(pendingFlush') /\ ZSet(leases')
       /\ Agree(eligible', eligible, k) /\ Agree(pendingFlush', pendingFlush, k)
       /\ Agree(leases', leases, k)
  BY <1>1, <1>2, <1>10, <1>11, Agreement, ZAddZSet, ZRemZSet
<1>13. Listed(k)'
  <2>1. CASE ~Free(v)
    <3>1. eligible' = eligible /\ pendingFlush' = pendingFlush /\ leases' = leases
      BY <1>1, <1>2, <2>1
    <3>2. v.lease # None
      BY <2>1 DEF Free
    <3> QED
      BY <1>3, <1>6, <1>10, <3>1, <3>2 DEF Listed
  <2>2. CASE Free(v)
    <3>1. v.lease = None /\ k \notin DOMAIN leases'
      BY <1>1, <1>3, <1>6, <2>2 DEF Free, Listed
    <3>2. CASE v.pendingCost >= Threshold
      <4>1. eligible' = ZAdd(eligible, k, v.flush)
        BY <1>2, <1>6, <1>9, <1>10, <2>2, <3>2, UnitFields, ValkeyOptions DEF UnitInv, WorkInv
      <4>2. k \in DOMAIN eligible'
        BY <4>1 DEF ZAdd, ZAddAll
      <4> QED
        BY <1>6, <1>10, <3>1, <4>2 DEF Listed
    <3>3. CASE ~(v.pendingCost >= Threshold)
      <4>1. pendingFlush' = ZAdd(pendingFlush, k, v.flush)
        BY <1>2, <2>2, <3>3
      <4>2. k \in DOMAIN pendingFlush'
        BY <4>1 DEF ZAdd, ZAddAll
      <4> QED
        BY <1>6, <1>10, <3>1, <3>3, <4>2 DEF Listed
    <3> QED
      BY <3>2, <3>3
  <2> QED
    BY <2>1, <2>2
<1>14. \A j \in Keys : Listed(j)'
  BY <1>1, <1>12, <1>13, OneListed
<1>15. /\ calls' \in [Callers -> CallType] /\ \A x \in Callers : DrainInv(calls[x])'
       /\ dlq' \in Seq([key : Keys, task : Entry]) /\ tokens' \in [Procs -> 0 .. MaxClaims]
       /\ handles' \subseteq ClaimedUnit /\ now' \in 0 .. MaxNow /\ faults' \in 0 .. MaxFaults
  BY <1>1, Types
<1> QED
  BY <1>7, <1>9, <1>12, <1>14, <1>15, StateParts

\* The unit that ZPOPMIN takes has work and no holder; a token is a lease.
LEMMA TokenType ==
  ASSUME StateInv, NEW c \in Callers, tokens[c[1]] < MaxClaims
  PROVE  Token(c) \in LeaseTokens /\ Token(c) # None
<1>1. tokens \in [Procs -> 0 .. MaxClaims] /\ MaxClaims \in Nat
  BY Types, ValkeyBounds
<1>2. c[1] \in Procs /\ c[2] \in Ids
  BY DEF Callers
<1>3. tokens[c[1]] + 1 \in 1 .. MaxClaims
  BY <1>1, <1>2
<1>4. Token(c) \in LeaseTokens
  BY <1>2, <1>3 DEF Token, LeaseTokens
<1> QED
  BY <1>4, ValkeyNone

\* luaClaim keeps the invariant, also on a unit that has a holder.
LEMMA ClaimInv ==
  ASSUME StateInv, NEW c \in Callers, NEW d \in LeaseDurs, NEW t \in Clocks, NEW k \in Keys,
         Claim(c, d, t, k)
  PROVE  StateInv'
<1>0. PICK v : v = Leased(units[k], Token(c), d)
  OBVIOUS
<1>1. /\ tokens[c[1]] < MaxClaims /\ k \in DOMAIN eligible
      /\ tokens' = [tokens EXCEPT ![c[1]] = @ + 1]
      /\ units' = [units EXCEPT ![k] = v] /\ eligible' = ZRem(eligible, k)
      /\ leases' = ZAdd(leases, k, t + d)
      /\ handles' = handles \cup {[key |-> k, by |-> c, lease |-> Token(c)]}
      /\ calls' = [calls EXCEPT ![c] = Idle]
      /\ UNCHANGED <<pendingFlush, pendingTasks, dlq, now, faults, arrived>>
  BY <1>0 DEF Claim, First
<1>2. Token(c) \in LeaseTokens /\ Token(c) # None
  BY <1>1, TokenType
<1>3. t \in Nat /\ d \in Nat /\ t + d \in Nat
  BY ClockType, ValkeyOptions
<1>4. /\ WorkInv(units[k], arrived[k]) /\ Listed(k) /\ units[k] \in Unit
      /\ arrived \in [Keys -> 0 .. MaxTasks] /\ pendingTasks \in Nat
      /\ units \in [Keys -> Unit] /\ ZSet(eligible) /\ ZSet(pendingFlush) /\ ZSet(leases)
  BY Facts, Types
<1>5. /\ WorkInv(v, arrived[k]) /\ v.tasks = units[k].tasks /\ v.lease = Token(c)
  BY <1>0, <1>2, <1>3, <1>4, LeasedInv
<1>6. units[k].tasks # <<>>
  BY <1>1, <1>4 DEF Listed
<1>7. UnitInv(v, arrived'[k])
  BY <1>1, <1>5, <1>6 DEF UnitInv
<1>8. pendingTasks' = pendingTasks + (Len(v.tasks) - Len(units[k].tasks))
  <2>1. PICK n \in Nat : n = Len(units[k].tasks)
    BY <1>4, UnitFields
  <2> QED
    BY <1>1, <1>4, <1>5, <2>1
<1>9. /\ units' \in [Keys -> Unit] /\ \A j \in Keys : UnitInv(units[j], arrived[j])'
      /\ IsFiniteSet(Backlog') /\ pendingTasks' = Cardinality(Backlog')
      /\ pendingTasks' \in Nat
  BY <1>1, <1>4, <1>7, <1>8, OneUnit
<1>10. units'[k] = v
  BY <1>1, <1>4
<1>11. /\ ZSet(eligible') /\ ZSet(pendingFlush') /\ ZSet(leases')
       /\ Agree(eligible', eligible, k) /\ Agree(pendingFlush', pendingFlush, k)
       /\ Agree(leases', leases, k)
  BY <1>1, <1>3, <1>4, Agreement, ZAddZSet, ZRemZSet
<1>12. k \in DOMAIN leases'
  BY <1>1 DEF ZAdd, ZAddAll
<1>13. Listed(k)'
  BY <1>2, <1>5, <1>6, <1>10, <1>12 DEF Listed
<1>14. \A j \in Keys : Listed(j)'
  BY <1>1, <1>11, <1>13, OneListed
<1>15. calls' \in [Callers -> CallType] /\ \A x \in Callers : DrainInv(calls[x])'
  BY <1>1, IdleCall, OneCall
<1>16. tokens' \in [Procs -> 0 .. MaxClaims]
  <2>1. tokens \in [Procs -> 0 .. MaxClaims] /\ MaxClaims \in Nat /\ c[1] \in Procs
    BY Types, ValkeyBounds DEF Callers
  <2>2. tokens[c[1]] + 1 \in 0 .. MaxClaims
    BY <1>1, <2>1
  <2> QED
    BY <1>1, <2>1, <2>2
<1>17. handles' \subseteq ClaimedUnit
  <2>1. handles \subseteq ClaimedUnit
    BY Types
  <2>2. [key |-> k, by |-> c, lease |-> Token(c)] \in ClaimedUnit
    BY <1>2 DEF ClaimedUnit
  <2> QED
    BY <1>1, <2>1, <2>2
<1>18. /\ dlq' \in Seq([key : Keys, task : Entry]) /\ now' \in 0 .. MaxNow
       /\ faults' \in 0 .. MaxFaults /\ arrived' \in [Keys -> 0 .. MaxTasks]
  BY <1>1, Types
<1> QED
  BY <1>9, <1>11, <1>14, <1>15, <1>16, <1>17, <1>18, StateParts

(***************************************************************************)
(* What Ack, Release and Fail have in common: m tasks leave the head of a  *)
(* held unit, and what is left of it is deleted, kept or freed.            *)
(***************************************************************************)
Settled(k, m, v, t) ==
  /\ units' = [units EXCEPT ![k] = v] /\ pendingTasks' = pendingTasks - m
  /\ UnitInv(v, arrived[k]) /\ m \in 0 .. Len(units[k].tasks)
  /\ v.tasks = Suffix(units[k].tasks, m) /\ Len(v.tasks) = Len(units[k].tasks) - m
  /\ v.tasks # <<>> => v.leaseMs = units[k].leaseMs
  /\ \/ v.tasks = <<>> /\ Unindexed(k)
     \/ /\ v.tasks # <<>> /\ v.lease = units[k].lease /\ Due(v, t)
        /\ leases' = ZAdd(leases, k, t + v.leaseMs) /\ UNCHANGED <<eligible, pendingFlush>>
     \/ v.tasks # <<>> /\ v.lease = None /\ Reindexed(k, v, t)

\* What Ack, Release and Fail have in common keeps the server's part.
LEMMA SettledStep ==
  ASSUME StateInv, NEW k \in Keys, NEW t \in Nat, units[k].lease # None,
         NEW m, NEW v, Settled(k, m, v, t), UNCHANGED arrived
  PROVE  /\ units' \in [Keys -> Unit] /\ \A j \in Keys : UnitInv(units[j], arrived[j])'
         /\ IsFiniteSet(Backlog') /\ pendingTasks' = Cardinality(Backlog')
         /\ pendingTasks' \in Nat /\ arrived' \in [Keys -> 0 .. MaxTasks]
         /\ ZSet(eligible') /\ ZSet(pendingFlush') /\ ZSet(leases')
         /\ \A j \in Keys : Listed(j)'
<1>1. /\ units' = [units EXCEPT ![k] = v] /\ pendingTasks' = pendingTasks - m
      /\ UnitInv(v, arrived[k]) /\ Len(v.tasks) = Len(units[k].tasks) - m
      /\ m \in 0 .. Len(units[k].tasks)
  BY DEF Settled
<1>2. \/ v.tasks = <<>> /\ Unindexed(k)
      \/ /\ v.tasks # <<>> /\ v.lease = units[k].lease /\ Due(v, t)
         /\ leases' = ZAdd(leases, k, t + v.leaseMs) /\ UNCHANGED <<eligible, pendingFlush>>
      \/ v.tasks # <<>> /\ v.lease = None /\ Reindexed(k, v, t)
  BY DEF Settled
<1>3. /\ Listed(k) /\ units[k] \in Unit
      /\ arrived \in [Keys -> 0 .. MaxTasks] /\ pendingTasks \in Nat
      /\ units \in [Keys -> Unit] /\ ZSet(eligible) /\ ZSet(pendingFlush) /\ ZSet(leases)
  BY Facts, Types
<1>4. pendingTasks' = pendingTasks + (Len(v.tasks) - Len(units[k].tasks))
  <2>1. PICK n \in Nat : n = Len(units[k].tasks)
    BY <1>3, UnitFields
  <2> QED
    BY <1>1, <1>3, <2>1
<1>5. UnitInv(v, arrived'[k]) /\ arrived' \in [Keys -> 0 .. MaxTasks]
      /\ \A j \in Keys \ {k} : arrived'[j] = arrived[j]
  BY <1>1, <1>3
<1>6. /\ units' \in [Keys -> Unit] /\ \A j \in Keys : UnitInv(units[j], arrived[j])'
      /\ IsFiniteSet(Backlog') /\ pendingTasks' = Cardinality(Backlog')
      /\ pendingTasks' \in Nat
  BY <1>1, <1>4, <1>5, OneUnit
<1>7. units'[k] = v
  BY <1>1, <1>3
<1>8. v \in Unit
  BY <1>1 DEF UnitInv, WorkInv
<1>9. v.flush \in Nat /\ v.leaseMs \in Nat /\ v.pendingCost \in Int
  BY <1>8, UnitFields
<1>10. /\ ZSet(eligible') /\ ZSet(pendingFlush') /\ ZSet(leases')
       /\ Agree(eligible', eligible, k) /\ Agree(pendingFlush', pendingFlush, k)
       /\ Agree(leases', leases, k) /\ Listed(k)'
  <2>1. CASE v.tasks = <<>> /\ Unindexed(k)
    <3>1. /\ ZSet(eligible') /\ ZSet(pendingFlush') /\ ZSet(leases')
          /\ Agree(eligible', eligible, k) /\ Agree(pendingFlush', pendingFlush, k)
          /\ Agree(leases', leases, k)
          /\ k \notin DOMAIN eligible' /\ k \notin DOMAIN pendingFlush' /\ k \notin DOMAIN leases'
      BY <2>1, UnindexedStep
    <3>2. v.lease = None
      BY <1>1, <2>1 DEF UnitInv, NoUnit
    <3> QED
      BY <1>7, <2>1, <3>1, <3>2 DEF Listed
  <2>2. CASE /\ v.tasks # <<>> /\ v.lease = units[k].lease /\ Due(v, t)
             /\ leases' = ZAdd(leases, k, t + v.leaseMs) /\ UNCHANGED <<eligible, pendingFlush>>
    <3>1. t + v.leaseMs \in Nat
      BY <1>9
    <3>2. /\ ZSet(eligible') /\ ZSet(pendingFlush') /\ ZSet(leases')
      BY <1>3, <2>2, <3>1, ZAddZSet
    <3>3. /\ Agree(eligible', eligible, k) /\ Agree(pendingFlush', pendingFlush, k)
          /\ Agree(leases', leases, k)
      BY <2>2, Agreement
    <3>4. k \in DOMAIN leases'
      BY <2>2 DEF ZAdd, ZAddAll
    <3> QED
      BY <1>7, <2>2, <3>2, <3>3, <3>4 DEF Listed
  <2>3. CASE v.tasks # <<>> /\ v.lease = None /\ Reindexed(k, v, t)
    <3>1. /\ ZSet(eligible') /\ ZSet(pendingFlush') /\ ZSet(leases')
          /\ Agree(eligible', eligible, k) /\ Agree(pendingFlush', pendingFlush, k)
          /\ Agree(leases', leases, k) /\ k \notin DOMAIN leases'
          /\ Due(v, t) => k \in DOMAIN eligible'
          /\ ~Due(v, t) => k \in DOMAIN pendingFlush'
      BY <1>9, <2>3, ReindexedStep
    <3>2. v.pendingCost >= Threshold => Due(v, t)
      BY DEF Due
    <3> QED
      BY <1>7, <2>3, <3>1, <3>2 DEF Listed
  <2> QED
    BY <1>2, <2>1, <2>2, <2>3
<1>11. \A j \in Keys : Listed(j)'
  BY <1>1, <1>10, OneListed
<1> QED
  BY <1>5, <1>6, <1>10, <1>11

\* What is left of a held unit is deleted.
LEMMA SettledEmpty ==
  ASSUME StateInv, NEW k \in Keys, NEW t, NEW m \in 0 .. Len(units[k].tasks),
         NEW rest, rest.tasks = <<>>, rest.tasks = Suffix(units[k].tasks, m),
         Len(rest.tasks) = Len(units[k].tasks) - m,
         units' = [units EXCEPT ![k] = NoUnit], pendingTasks' = pendingTasks - m, Unindexed(k)
  PROVE  Settled(k, m, NoUnit, t)
<1>1. arrived[k] \in Nat
  BY Facts
<1>2. UnitInv(NoUnit, arrived[k])
  BY <1>1, NoUnitInv
<1>3. NoUnit.tasks = rest.tasks
  BY DEF NoUnit
<1> QED
  BY <1>2, <1>3 DEF Settled

\* luaAck settles its unit, and frees it only when it is not due.
LEMMA AckShape ==
  ASSUME StateInv, NEW h \in handles, NEW through \in Seqs, NEW t \in Clocks,
         Ack(h, through, t)
  PROVE  \E m, v :
           /\ Settled(h.key, m, v, t)
           /\ v.tasks # <<>> => /\ v.flush = v.tasks[1].ts + MaxWait
                                /\ v.lease = None => ~Due(v, t)
<1>0. PICK k \in Keys : k = h.key
  BY HandleFacts
<1>1. WorkInv(units[k], arrived[k]) /\ arrived[k] \in Nat /\ units[k] \in Unit /\ t \in Nat
  BY Facts, ClockType
<1>h. units[k].lease # None
  BY <1>0, HandleFacts DEF Ack, Closing
<1>2. through \in Int
  BY ValkeyBounds DEF Seqs
<1>3. PICK m \in 0 .. Len(units[k].tasks) : Gone(units[k], through) = 1 .. m
  BY <1>1, <1>2, GonePrefix
<1>4. m \in Nat /\ Cardinality(1 .. m) = m
  <2>1. Len(units[k].tasks) \in Nat
    BY <1>1, UnitFields
  <2>2. m \in Nat
    BY <2>1
  <2> QED
    BY <2>2, CountTo
<1>5. PICK rest : rest = Dropped(units[k], 1 .. m)
  OBVIOUS
<1>6. /\ WorkInv(rest, arrived[k])
      /\ rest.tasks = Suffix(units[k].tasks, m) /\ Len(rest.tasks) = Len(units[k].tasks) - m
      /\ rest.lease = units[k].lease /\ rest.leaseMs = units[k].leaseMs
      /\ rest.flush = units[k].flush
  <2>1. PICK w \in Unit, a \in Nat : w = units[k] /\ a = arrived[k]
    BY <1>1
  <2>2. PICK S : S = 1 .. m
    OBVIOUS
  <2>3. WorkInv(w, a) /\ m \in Nat /\ m <= Len(w.tasks) /\ rest = Dropped(w, S)
    BY <1>1, <1>4, <1>5, <2>1, <2>2, UnitFields
  <2>4. Shed(a, w, m, rest)
    BY <2>2, <2>3, DropInv
  <2> QED
    BY <2>1, <2>4 DEF Shed
<1>7. PICK u : u = HeadClock(rest)
  OBVIOUS
<1>8. /\ pendingTasks' = pendingTasks - m
      /\ \/ /\ rest.tasks = <<>>
            /\ units' = [units EXCEPT ![k] = NoUnit]
            /\ Unindexed(k)
         \/ /\ rest.tasks # <<>> /\ Due(u, t)
            /\ units' = [units EXCEPT ![k] = u]
            /\ leases' = ZAdd(leases, k, t + u.leaseMs)
            /\ UNCHANGED <<eligible, pendingFlush>>
         \/ /\ rest.tasks # <<>> /\ ~Due(u, t)
            /\ units' = [units EXCEPT ![k] = Freed(u)]
            /\ Reindexed(k, u, t)
  BY <1>0, <1>3, <1>4, <1>5, <1>7 DEF Ack
<1>9. CASE /\ rest.tasks = <<>>
           /\ units' = [units EXCEPT ![k] = NoUnit]
           /\ Unindexed(k)
  <2>1. Settled(k, m, NoUnit, t)
    BY <1>6, <1>8, <1>9, SettledEmpty
  <2>2. NoUnit.tasks = <<>>
    BY DEF NoUnit
  <2> QED
    BY <1>0, <2>1, <2>2
<1>10. ASSUME rest.tasks # <<>>
       PROVE  /\ WorkInv(u, arrived[k]) /\ u.tasks = rest.tasks
              /\ u.flush = u.tasks[1].ts + MaxWait /\ u.lease = rest.lease
              /\ u.leaseMs = rest.leaseMs
  BY <1>1, <1>6, <1>7, <1>10, HeadClockInv
<1>11. CASE /\ rest.tasks # <<>> /\ Due(u, t)
            /\ units' = [units EXCEPT ![k] = u]
            /\ leases' = ZAdd(leases, k, t + u.leaseMs)
            /\ UNCHANGED <<eligible, pendingFlush>>
  <2>1. UnitInv(u, arrived[k])
    BY <1>10, <1>11 DEF UnitInv
  <2>2. Settled(k, m, u, t)
    BY <1>6, <1>8, <1>10, <1>11, <2>1 DEF Settled
  <2>3. u.lease # None
    BY <1>6, <1>10, <1>11, <1>h
  <2> QED
    BY <1>0, <1>10, <1>11, <2>2, <2>3
<1>12. CASE /\ rest.tasks # <<>> /\ ~Due(u, t)
            /\ units' = [units EXCEPT ![k] = Freed(u)]
            /\ Reindexed(k, u, t)
  <2>0. PICK v : v = Freed(u)
    OBVIOUS
  <2>1. /\ WorkInv(v, arrived[k]) /\ v.tasks = u.tasks /\ v.lease = None
        /\ v.flush = u.flush /\ v.pendingCost = u.pendingCost /\ v.leaseMs = u.leaseMs
    BY <1>10, <1>12, <2>0, FreedInv
  <2>2. Reindexed(k, v, t)
    BY <1>12, <2>1 DEF Reindexed, Due
  <2>3. UnitInv(v, arrived[k])
    BY <1>10, <1>12, <2>1 DEF UnitInv
  <2>4. Settled(k, m, v, t)
    BY <1>6, <1>8, <1>10, <1>12, <2>0, <2>1, <2>2, <2>3 DEF Settled
  <2>5. ~Due(v, t) /\ v.flush = v.tasks[1].ts + MaxWait
    BY <1>10, <1>12, <2>1 DEF Due
  <2> QED
    BY <1>0, <1>12, <2>4, <2>5
<1> QED
  BY <1>8, <1>9, <1>11, <1>12

\* luaRelease settles its unit, with the same work as before.
LEMMA ReleaseShape ==
  ASSUME StateInv, NEW h \in handles, NEW t \in Clocks, Release(h, t)
  PROVE  \E v : /\ Settled(h.key, 0, v, t) /\ v.flush = units[h.key].flush /\ v.lease = None
                /\ v.tasks = units[h.key].tasks /\ v.tasks # <<>>
<1>0. PICK k \in Keys : k = h.key
  BY HandleFacts
<1>1. Held(h)
  BY DEF Release, Closing
<1>2. units[k].tasks # <<>>
  BY <1>0, <1>1, HandleFacts
<1>3. WorkInv(units[k], arrived[k]) /\ units[k] \in Unit /\ pendingTasks \in Nat
  BY Facts, Types
<1>4. PICK v : v = Freed(units[k])
  OBVIOUS
<1>5. /\ WorkInv(v, arrived[k]) /\ v.tasks = units[k].tasks /\ v.lease = None
      /\ v.flush = units[k].flush /\ v.leaseMs = units[k].leaseMs
  BY <1>3, <1>4, FreedInv
<1>6. units' = [units EXCEPT ![k] = v] /\ Reindexed(k, v, t) /\ pendingTasks' = pendingTasks
  BY <1>0, <1>2, <1>4, <1>5 DEF Release
<1>7. UnitInv(v, arrived[k])
  BY <1>2, <1>5 DEF UnitInv
<1>8. /\ Len(units[k].tasks) = Len(units[k].tasks) - 0 /\ pendingTasks' = pendingTasks - 0
      /\ units[k].tasks = Suffix(units[k].tasks, 0) /\ 0 \in 0 .. Len(units[k].tasks)
  <2>1. PICK s \in Seq(Entry) : s = units[k].tasks
    BY <1>3, UnitFields
  <2>2. Len(s) \in Nat /\ s = [i \in 1 .. Len(s) |-> s[i]]
    OBVIOUS
  <2>3. Len(s) - 0 = Len(s) /\ \A i \in 1 .. Len(s) : 0 + i = i /\ i + 0 = i
    BY <2>2
  <2>4. s = Suffix(s, 0)
    BY <2>2, <2>3 DEF Suffix
  <2> QED
    BY <1>3, <1>6, <2>1, <2>2, <2>3, <2>4
<1> QED
  BY <1>0, <1>2, <1>5, <1>6, <1>7, <1>8 DEF Settled

\* luaFail settles its unit, without the head if that is poison.
LEMMA FailShape ==
  ASSUME StateInv, NEW h \in handles, NEW seq \in Seqs, NEW t \in Clocks, Fail(h, seq, t)
  PROVE  \E m, v :
           /\ Settled(h.key, m, v, t)
           /\ m = IF Poison(units[h.key], seq) THEN 1 ELSE 0
           /\ v.lease = None
           /\ v.tasks # <<>> => v.flush = v.tasks[1].ts + MaxWait
<1>0. PICK k \in Keys : k = h.key
  BY HandleFacts
<1>1. Held(h)
  BY DEF Fail, Closing
<1>2. units[k].tasks # <<>>
  BY <1>0, <1>1, HandleFacts
<1>3. WorkInv(units[k], arrived[k]) /\ arrived[k] \in Nat /\ units[k] \in Unit
      /\ pendingTasks \in Nat
  BY Facts, Types
<1>4. PICK n \in Nat : n = Len(units[k].tasks) /\ n # 0
  BY <1>2, <1>3, UnitFields
<1>5. PICK m \in 0 .. n : m \in Nat /\ m = IF Poison(units[k], seq) THEN 1 ELSE 0
  BY <1>4
<1>6. PICK rest : rest = IF Poison(units[k], seq) THEN Dropped(units[k], {1})
                         ELSE Retried(units[k])
  OBVIOUS
<1>7. /\ WorkInv(rest, arrived[k])
      /\ rest.tasks = Suffix(units[k].tasks, m) /\ Len(rest.tasks) = Len(units[k].tasks) - m
      /\ rest.lease = units[k].lease /\ rest.leaseMs = units[k].leaseMs
  <2>1. CASE Poison(units[k], seq)
    <3>1. 1 .. 1 = {1} /\ m = 1
      BY <1>5, <2>1
    <3>2. rest = Dropped(units[k], 1 .. m) /\ m \in 0 .. Len(units[k].tasks)
      BY <1>4, <1>6, <2>1, <3>1
    <3>3. PICK w \in Unit, a \in Nat : w = units[k] /\ a = arrived[k]
      BY <1>3
    <3>4. PICK S : S = 1 .. m
      OBVIOUS
    <3>5. WorkInv(w, a) /\ m \in Nat /\ m <= Len(w.tasks) /\ rest = Dropped(w, S)
      BY <1>3, <1>4, <1>5, <3>2, <3>3, <3>4
    <3>6. Shed(a, w, m, rest)
      BY <3>4, <3>5, DropInv
    <3> QED
      BY <3>3, <3>6 DEF Shed
  <2>2. CASE ~Poison(units[k], seq)
    <3>1. m = 0 /\ rest = Retried(units[k])
      BY <1>5, <1>6, <2>2
    <3>2. /\ WorkInv(rest, arrived[k]) /\ rest.tasks = units[k].tasks
          /\ rest.lease = units[k].lease /\ rest.leaseMs = units[k].leaseMs
      BY <1>3, <3>1, RetriedInv
    <3>3. PICK s \in Seq(Entry) : s = units[k].tasks
      BY <1>3, UnitFields
    <3>4. Len(s) \in Nat /\ s = [i \in 1 .. Len(s) |-> s[i]]
      OBVIOUS
    <3>5. Len(s) - 0 = Len(s) /\ \A i \in 1 .. Len(s) : 0 + i = i /\ i + 0 = i
      BY <3>4
    <3>6. s = Suffix(s, 0)
      BY <3>4, <3>5 DEF Suffix
    <3> QED
      BY <3>1, <3>2, <3>3, <3>5, <3>6
  <2> QED
    BY <2>1, <2>2
<1>8. PICK u : u = HeadClock(rest)
  OBVIOUS
<1>9. /\ pendingTasks' = IF Poison(units[k], seq) THEN pendingTasks - 1 ELSE pendingTasks
      /\ \/ /\ rest.tasks = <<>>
            /\ units' = [units EXCEPT ![k] = NoUnit]
            /\ Unindexed(k)
         \/ /\ rest.tasks # <<>>
            /\ units' = [units EXCEPT ![k] = Freed(u)]
            /\ Reindexed(k, Freed(u), t)
  BY <1>0, <1>6, <1>8 DEF Fail
<1>10. pendingTasks' = pendingTasks - m
  BY <1>3, <1>5, <1>9
<1>11. CASE rest.tasks = <<>>
  <2>1. Settled(k, m, NoUnit, t)
    BY <1>4, <1>7, <1>9, <1>10, <1>11, SettledEmpty
  <2>2. NoUnit.tasks = <<>> /\ NoUnit.lease = None
    BY DEF NoUnit
  <2> QED
    BY <1>0, <1>4, <1>5, <2>1, <2>2
<1>12. CASE rest.tasks # <<>>
  <2>1. /\ WorkInv(u, arrived[k]) /\ u.tasks = rest.tasks
        /\ u.flush = u.tasks[1].ts + MaxWait /\ u.leaseMs = rest.leaseMs
    BY <1>3, <1>7, <1>8, <1>12, HeadClockInv
  <2>2. PICK v : v = Freed(u)
    OBVIOUS
  <2>3. /\ WorkInv(v, arrived[k]) /\ v.tasks = u.tasks /\ v.lease = None
        /\ v.flush = u.flush /\ v.leaseMs = u.leaseMs
    BY <2>1, <2>2, FreedInv
  <2>4. units' = [units EXCEPT ![k] = v] /\ Reindexed(k, v, t)
    BY <1>9, <1>12, <2>2
  <2>5. UnitInv(v, arrived[k])
    BY <1>12, <2>1, <2>3 DEF UnitInv
  <2>6. Settled(k, m, v, t)
    BY <1>7, <1>10, <1>12, <2>1, <2>3, <2>4, <2>5 DEF Settled
  <2> QED
    BY <1>0, <1>4, <1>5, <2>1, <2>3, <2>6
<1> QED
  BY <1>11, <1>12

\* A caller is done with its batch; nothing else of the callers changes.
LEMMA ClosingStep ==
  ASSUME StateInv, NEW h \in handles, Closing(h)
  PROVE  /\ calls' \in [Callers -> CallType] /\ \A x \in Callers : DrainInv(calls[x])'
         /\ Held(h) /\ units[h.key].lease # None /\ h.key \in Keys
<1>1. Held(h) /\ calls' = [calls EXCEPT ![h.by] = Idle]
  BY DEF Closing
<1>2. h.key \in Keys /\ h.by \in Callers /\ units[h.key].lease # None
  BY <1>1, HandleFacts
<1> QED
  BY <1>1, <1>2, IdleCall, OneCall

\* luaAck keeps the invariant.
LEMMA AckInv ==
  ASSUME StateInv, NEW h \in handles, NEW through \in Seqs, NEW t \in Clocks,
         Ack(h, through, t)
  PROVE  StateInv'
<1>1. Closing(h) /\ UNCHANGED <<dlq, tokens, now, handles, faults, arrived>>
  BY DEF Ack
<1>2. /\ calls' \in [Callers -> CallType] /\ \A x \in Callers : DrainInv(calls[x])'
      /\ units[h.key].lease # None /\ h.key \in Keys
  BY <1>1, ClosingStep
<1>3. PICK m, v : Settled(h.key, m, v, t)
  BY AckShape
<1>4. t \in Nat
  BY ClockType
<1>5. /\ units' \in [Keys -> Unit] /\ \A j \in Keys : UnitInv(units[j], arrived[j])'
      /\ IsFiniteSet(Backlog') /\ pendingTasks' = Cardinality(Backlog')
      /\ pendingTasks' \in Nat /\ arrived' \in [Keys -> 0 .. MaxTasks]
      /\ ZSet(eligible') /\ ZSet(pendingFlush') /\ ZSet(leases')
      /\ \A j \in Keys : Listed(j)'
  BY <1>1, <1>2, <1>3, <1>4, SettledStep
<1>6. /\ dlq' \in Seq([key : Keys, task : Entry]) /\ tokens' \in [Procs -> 0 .. MaxClaims]
      /\ handles' \subseteq ClaimedUnit /\ now' \in 0 .. MaxNow /\ faults' \in 0 .. MaxFaults
  BY <1>1, Types
<1> QED
  BY <1>2, <1>5, <1>6, StateParts

\* luaRelease keeps the invariant.
LEMMA ReleaseInv ==
  ASSUME StateInv, NEW h \in handles, NEW t \in Clocks, Release(h, t)
  PROVE  StateInv'
<1>1. Closing(h) /\ UNCHANGED <<dlq, tokens, now, handles, faults, arrived>>
  BY DEF Release
<1>2. /\ calls' \in [Callers -> CallType] /\ \A x \in Callers : DrainInv(calls[x])'
      /\ units[h.key].lease # None /\ h.key \in Keys
  BY <1>1, ClosingStep
<1>3. PICK v : Settled(h.key, 0, v, t)
  BY ReleaseShape
<1>4. t \in Nat /\ 0 \in 0 .. Len(units[h.key].tasks)
  <2>1. units[h.key] \in Unit
    BY <1>2, Facts
  <2>2. Len(units[h.key].tasks) \in Nat
    BY <2>1, UnitFields
  <2> QED
    BY <2>2, ClockType
<1>5. /\ units' \in [Keys -> Unit] /\ \A j \in Keys : UnitInv(units[j], arrived[j])'
      /\ IsFiniteSet(Backlog') /\ pendingTasks' = Cardinality(Backlog')
      /\ pendingTasks' \in Nat /\ arrived' \in [Keys -> 0 .. MaxTasks]
      /\ ZSet(eligible') /\ ZSet(pendingFlush') /\ ZSet(leases')
      /\ \A j \in Keys : Listed(j)'
  BY <1>1, <1>2, <1>3, <1>4, SettledStep
<1>6. /\ dlq' \in Seq([key : Keys, task : Entry]) /\ tokens' \in [Procs -> 0 .. MaxClaims]
      /\ handles' \subseteq ClaimedUnit /\ now' \in 0 .. MaxNow /\ faults' \in 0 .. MaxFaults
  BY <1>1, Types
<1> QED
  BY <1>2, <1>5, <1>6, StateParts

\* luaFail keeps the invariant.
LEMMA FailInv ==
  ASSUME StateInv, NEW h \in handles, NEW seq \in Seqs, NEW t \in Clocks, Fail(h, seq, t)
  PROVE  StateInv'
<1>1. Closing(h) /\ UNCHANGED <<tokens, now, handles, faults, arrived>>
  BY DEF Fail
<1>2. /\ calls' \in [Callers -> CallType] /\ \A x \in Callers : DrainInv(calls[x])'
      /\ units[h.key].lease # None /\ h.key \in Keys /\ Held(h)
  BY <1>1, ClosingStep
<1>3. PICK m, v : Settled(h.key, m, v, t)
  BY FailShape
<1>4. t \in Nat
  BY ClockType
<1>5. /\ units' \in [Keys -> Unit] /\ \A j \in Keys : UnitInv(units[j], arrived[j])'
      /\ IsFiniteSet(Backlog') /\ pendingTasks' = Cardinality(Backlog')
      /\ pendingTasks' \in Nat /\ arrived' \in [Keys -> 0 .. MaxTasks]
      /\ ZSet(eligible') /\ ZSet(pendingFlush') /\ ZSet(leases')
      /\ \A j \in Keys : Listed(j)'
  BY <1>1, <1>2, <1>3, <1>4, SettledStep
<1>6. dlq' \in Seq([key : Keys, task : Entry])
  <2>1. dlq \in Seq([key : Keys, task : Entry])
    BY Types
  <2>2. units[h.key] \in Unit /\ units[h.key].tasks # <<>>
    BY <1>2, Facts, HandleFacts
  <2>3. PICK head \in Entry : head = units[h.key].tasks[1]
    <3>1. Len(units[h.key].tasks) \in Nat /\ Len(units[h.key].tasks) # 0
          /\ \A i \in 1 .. Len(units[h.key].tasks) : units[h.key].tasks[i] \in Entry
      BY <2>2, UnitFields
    <3>2. 1 \in 1 .. Len(units[h.key].tasks)
      BY <3>1
    <3> QED
      BY <3>1, <3>2
  <2>4. PICK r \in [key : Keys, task : Entry] : r = [key |-> h.key, task |-> head]
    BY <1>2
  <2>5. dlq' = Append(dlq, r) \/ dlq' = dlq
    BY <2>3, <2>4 DEF Fail
  <2>6. PICK D : D = [key : Keys, task : Entry]
    OBVIOUS
  <2>7. dlq \in Seq(D) /\ r \in D
    BY <2>1, <2>6
  <2>8. dlq' \in Seq(D)
    BY <2>5, <2>7
  <2> QED
    BY <2>6, <2>8
<1>7. /\ tokens' \in [Procs -> 0 .. MaxClaims]
      /\ handles' \subseteq ClaimedUnit /\ now' \in 0 .. MaxNow /\ faults' \in 0 .. MaxFaults
  BY <1>1, Types
<1> QED
  BY <1>2, <1>5, <1>6, <1>7, StateParts

\* luaHeartbeat keeps the invariant.
LEMMA HeartbeatInv ==
  ASSUME StateInv, NEW h \in handles, NEW d \in LeaseDurs, NEW t \in Clocks, Heartbeat(h, d, t)
  PROVE  StateInv'
<1>1. /\ Held(h) /\ leases' = ZAdd(leases, h.key, t + d)
      /\ UNCHANGED <<units, eligible, pendingFlush, pendingTasks, dlq, tokens, now,
                     handles, calls, faults, arrived>>
  BY DEF Heartbeat
<1>2. h.key \in Keys /\ h.key \in DOMAIN leases
  BY <1>1, HandleFacts
<1>3. t + d \in Nat
  BY ClockType, ValkeyOptions
<1>4. ZSet(leases')
  BY <1>1, <1>2, <1>3, Types, ZAddZSet
<1>5. DOMAIN leases' = DOMAIN leases
  BY <1>1, <1>2 DEF ZAdd, ZAddAll
<1>6. ASSUME NEW j \in Keys PROVE Listed(j)'
  <2>1. Listed(j)
    BY Types
  <2> QED
    BY <1>1, <1>5, <2>1 DEF Listed
<1>7. Backlog' = Backlog
  BY <1>1 DEF Backlog
<1> QED
  BY <1>1, <1>4, <1>6, <1>7, Types, StateParts

\* A command of Drain that changes nothing but the call, and the fault count.
LEMMA DrainStep ==
  ASSUME StateInv, NEW c \in Callers, NEW d \in CallType, DrainInv(d),
         calls' = [calls EXCEPT ![c] = d], faults' \in 0 .. MaxFaults, UNCHANGED <<units, others>>
  PROVE  StateInv'
<1>1. UNCHANGED <<units, eligible, pendingFlush, leases, pendingTasks, dlq, tokens, now,
                  handles, arrived>>
  BY DEF others
<1>2. calls' \in [Callers -> CallType] /\ \A x \in Callers : DrainInv(calls[x])'
  BY OneCall
<1>3. Backlog' = Backlog
  BY <1>1 DEF Backlog
<1>4. ASSUME NEW j \in Keys PROVE Listed(j)'
  <2>1. Listed(j)
    BY Types
  <2> QED
    BY <1>1, <2>1 DEF Listed
<1> QED
  BY <1>1, <1>2, <1>3, <1>4, Types, StateParts

\* Drain's lease check keeps the invariant.
LEMMA DrainCheckInv ==
  ASSUME StateInv, NEW h \in handles, DrainCheck(h)
  PROVE  StateInv'
<1>1. h \in ClaimedUnit /\ h.by \in Callers
  BY HandleFacts
<1>2. PICK d : d = [by |-> h, step |-> "autoclaim", got |-> <<>>]
  OBVIOUS
<1>3. calls' = [calls EXCEPT ![h.by] = d] /\ UNCHANGED <<units, faults, others>>
  BY <1>2 DEF DrainCheck
<1>4. <<>> \in Seq(Entry)
  OBVIOUS
<1>5. d \in CallType /\ DrainInv(d)
  BY <1>1, <1>2, <1>4 DEF CallType, DrainInv
<1>6. faults' \in 0 .. MaxFaults
  BY <1>3, Types
<1> QED
  BY <1>1, <1>3, <1>5, <1>6, DrainStep

\* The Drain that a caller is in, and the unit it reads.
LEMMA DrainFacts ==
  ASSUME StateInv, NEW c \in Callers, calls[c].step # "idle"
  PROVE  /\ calls[c] \in CallType /\ calls[c].by \in ClaimedUnit /\ calls[c].by.key \in Keys
         /\ calls[c].got \in Seq(Entry) /\ Len(calls[c].got) \in Nat
         /\ calls[c].step = "read" => Len(calls[c].got) < Batch
<1>1. calls[c] \in CallType /\ DrainInv(calls[c])
  BY Types
<1>2. calls[c].by \in ClaimedUnit /\ calls[c].got \in Seq(Entry)
  BY <1>1 DEF CallType, DrainInv
<1>3. calls[c].by.key \in Keys
  BY <1>2 DEF ClaimedUnit
<1>4. Len(calls[c].got) \in Nat
  BY <1>2
<1> QED
  BY <1>1, <1>2, <1>3, <1>4 DEF DrainInv

\* What the pending entries give to XAUTOCLAIM.
LEMMA AutoclaimGot ==
  ASSUME StateInv, NEW k \in Keys
  PROVE  LET got == Oldest(units[k].tasks, Pending(units[k]), Batch)
         IN  got \in Seq(Entry) /\ Len(got) \in Nat /\ Len(got) <= Batch
<1>1. WorkInv(units[k], arrived[k]) /\ arrived[k] \in Nat /\ units[k] \in Unit
  BY Facts
<1>2. PICK m \in 0 .. Len(units[k].tasks) : Pending(units[k]) = 1 .. m
  BY <1>1, PendingPrefix
<1>3. PICK s \in Seq(Entry) : s = units[k].tasks
  BY <1>1, UnitFields
<1>4. Len(s) \in Nat /\ m \in Nat /\ m <= Len(s) /\ 0 <= m
  BY <1>2, <1>3
<1>5. Batch \in Nat
  BY ValkeyOptions
<1>6. PICK x \in Nat : x = 0
  OBVIOUS
<1>7. 1 .. m = (x + 1) .. m /\ x <= m
  BY <1>4, <1>6
<1>8. PICK got : got = Oldest(s, (x + 1) .. m, Batch)
  OBVIOUS
<1>9. \E y \in 0 .. (m - x) : y <= Batch /\ got \in Seq(Entry) /\ Len(got) = y
  BY <1>4, <1>5, <1>7, <1>8, OldestStretch
<1>10. got \in Seq(Entry) /\ Len(got) \in Nat /\ Len(got) <= Batch
  BY <1>9
<1> QED
  BY <1>2, <1>3, <1>7, <1>8, <1>10

\* XAUTOCLAIM keeps the invariant.
LEMMA AutoclaimInv ==
  ASSUME StateInv, NEW c \in Callers, Autoclaim(c)
  PROVE  StateInv'
<1>1. calls[c].step = "autoclaim"
  BY DEF Autoclaim
<1>2. calls[c].by \in ClaimedUnit /\ calls[c].by.key \in Keys
  BY <1>1, DrainFacts
<1>3. PICK k \in Keys : k = calls[c].by.key
  BY <1>2
<1>4. PICK got : got = Oldest(units[k].tasks, Pending(units[k]), Batch)
  OBVIOUS
<1>5. got \in Seq(Entry) /\ Len(got) \in Nat /\ Len(got) <= Batch
  BY <1>4, AutoclaimGot
<1>6. PICK d : d = [by |-> calls[c].by, step |-> IF Len(got) < Batch THEN "read" ELSE "idle",
                    got |-> got]
  OBVIOUS
<1>7. calls' = [calls EXCEPT ![c] = d] /\ UNCHANGED <<units, faults, others>>
  BY <1>3, <1>4, <1>6 DEF Autoclaim, Goes
<1>8. d \in CallType /\ DrainInv(d)
  BY <1>2, <1>5, <1>6 DEF CallType, DrainInv
<1>9. faults' \in 0 .. MaxFaults
  BY <1>7, Types
<1> QED
  BY <1>7, <1>8, <1>9, DrainStep

\* One command more has failed.
LEMMA OneFault ==
  ASSUME StateInv, faults < MaxFaults, faults' = faults + 1
  PROVE  faults' \in 0 .. MaxFaults
<1>1. faults \in 0 .. MaxFaults /\ MaxFaults \in Nat
  BY Types, ValkeyBounds
<1> QED
  BY <1>1

\* A failed XAUTOCLAIM keeps the invariant.
LEMMA AutoclaimFailsInv ==
  ASSUME StateInv, NEW c \in Callers, AutoclaimFails(c)
  PROVE  StateInv'
<1>1. /\ calls[c].step = "autoclaim" /\ faults < MaxFaults /\ faults' = faults + 1
      /\ UNCHANGED <<units, others>>
  BY DEF AutoclaimFails
<1>2. calls[c].by \in ClaimedUnit
  BY <1>1, DrainFacts
<1>3. PICK d : d = [by |-> calls[c].by, step |-> "read", got |-> <<>>]
  OBVIOUS
<1>4. calls' = [calls EXCEPT ![c] = d]
  BY <1>3 DEF AutoclaimFails, Goes
<1>5. <<>> \in Seq(Entry) /\ Len(<<>>) < Batch
  BY ValkeyOptions
<1>6. d \in CallType /\ DrainInv(d)
  BY <1>2, <1>3, <1>5 DEF CallType, DrainInv
<1>7. faults' \in 0 .. MaxFaults
  BY <1>1, OneFault
<1> QED
  BY <1>1, <1>4, <1>6, <1>7, DrainStep

\* XREADGROUP delivers some entries; the unit stays as it is but for the group.
LEMMA FreshFacts ==
  ASSUME StateInv, NEW c \in Callers, calls[c].step = "read", NEW k \in Keys,
         k = calls[c].by.key, NEW v, v = Delivered(units[k], Fresh(c))
  PROVE  /\ Fresh(c) \in Seq(Entry)
         /\ UnitInv(v, arrived[k]) /\ v.tasks = units[k].tasks
         /\ v.lease = units[k].lease /\ v.leaseMs = units[k].leaseMs
         /\ v.flush = units[k].flush /\ v.pendingCost = units[k].pendingCost
<1>1. /\ WorkInv(units[k], arrived[k]) /\ UnitInv(units[k], arrived[k])
      /\ arrived[k] \in 0 .. MaxTasks
  BY Facts
<1>2. Len(calls[c].got) \in Nat /\ Len(calls[c].got) < Batch
  BY DrainFacts
<1>3. PICK n \in Nat : n = Batch - Len(calls[c].got)
  <2>1. PICK l \in Nat : l = Len(calls[c].got)
    BY <1>2
  <2>2. l < Batch /\ Batch \in Nat
    BY <1>2, <2>1, ValkeyOptions
  <2>3. Batch - l \in Nat
    BY <2>2
  <2> QED
    BY <2>1, <2>3
<1>4. PICK u : u = units[k]
  OBVIOUS
<1>5. PICK es : es = Oldest(u.tasks, Undelivered(u), n)
  OBVIOUS
<1>6. es = Fresh(c)
  BY <1>3, <1>4, <1>5 DEF Fresh
<1>7. PICK a \in Nat : a = arrived[k] /\ a <= MaxTasks
  BY <1>1, ValkeyBounds
<1>8. WorkInv(u, a)
  BY <1>1, <1>4, <1>7
<1>9. v = Delivered(u, es)
  BY <1>4, <1>6
<1>10. es \in Seq(Entry) /\ Regrouped(a, u, v)
  BY <1>5, <1>7, <1>8, <1>9, FreshInv
<1>11. v.tasks = <<>> => v = NoUnit
  <2> SUFFICES ASSUME v.tasks = <<>> PROVE v = NoUnit
    OBVIOUS
  <2>1. u = NoUnit
    BY <1>1, <1>4, <1>10 DEF UnitInv, Regrouped
  <2>2. es = <<>>
    <3>1. Undelivered(u) = {} /\ u.tasks = <<>>
      BY <2>1 DEF NoUnit, Undelivered
    <3>2. At(<<>>, {}) = <<>>
      <4>1. Cardinality({}) = 0
        BY FS_EmptySet
      <4>2. At(<<>>, {}) = [i \in 1 .. 0 |-> <<>>[Nth({}, i)]]
        BY <4>1 DEF At
      <4>3. 1 .. 0 = {}
        OBVIOUS
      <4> QED
        BY <4>2, <4>3
    <3>3. Oldest(<<>>, {}, n) = <<>>
      <4>1. Len(<<>>) = 0 /\ ~(n < 0)
        OBVIOUS
      <4>2. Oldest(<<>>, {}, n) = Prefix(<<>>, 0)
        BY <3>2, <4>1 DEF Oldest
      <4> QED
        BY <4>2 DEF Prefix
    <3> QED
      BY <1>5, <3>1, <3>3
  <2> QED
    BY <1>9, <2>1, <2>2 DEF Delivered
<1> QED
  BY <1>4, <1>6, <1>7, <1>10, <1>11 DEF UnitInv, Regrouped

\* XREADGROUP, whether or not its answer arrives.
LEMMA ReadStep ==
  ASSUME StateInv, NEW c \in Callers, calls[c].step = "read",
         Deliver(calls[c].by.key, Fresh(c)), NEW d \in CallType, DrainInv(d),
         calls' = [calls EXCEPT ![c] = d], faults' \in 0 .. MaxFaults, UNCHANGED others
  PROVE  StateInv'
<1>1. UNCHANGED <<eligible, pendingFlush, leases, pendingTasks, dlq, tokens, now,
                  handles, arrived>>
  BY DEF others
<1>2. PICK k \in Keys : k = calls[c].by.key
  BY DrainFacts
<1>3. PICK v : v = Delivered(units[k], Fresh(c))
  OBVIOUS
<1>4. units' = [units EXCEPT ![k] = v]
  BY <1>2, <1>3 DEF Deliver
<1>5. /\ UnitInv(v, arrived[k]) /\ v.tasks = units[k].tasks /\ v.lease = units[k].lease
      /\ v.pendingCost = units[k].pendingCost
  BY <1>2, <1>3, FreshFacts
<1>6. /\ units \in [Keys -> Unit] /\ units[k] \in Unit /\ Listed(k) /\ pendingTasks \in Nat
      /\ arrived \in [Keys -> 0 .. MaxTasks]
  BY Facts, Types
<1>7. pendingTasks' = pendingTasks + (Len(v.tasks) - Len(units[k].tasks))
  <2>1. PICK n \in Nat : n = Len(units[k].tasks)
    BY <1>6, UnitFields
  <2> QED
    BY <1>1, <1>5, <1>6, <2>1
<1>8. /\ units' \in [Keys -> Unit] /\ \A j \in Keys : UnitInv(units[j], arrived[j])'
      /\ IsFiniteSet(Backlog') /\ pendingTasks' = Cardinality(Backlog')
      /\ pendingTasks' \in Nat
  <2>1. UnitInv(v, arrived'[k]) /\ arrived' \in [Keys -> 0 .. MaxTasks]
        /\ \A j \in Keys \ {k} : arrived'[j] = arrived[j]
    BY <1>1, <1>5, <1>6
  <2> QED
    BY <1>4, <1>7, <2>1, OneUnit
<1>9. units'[k] = v
  BY <1>4, <1>6
<1>10. Listed(k)'
  BY <1>1, <1>5, <1>6, <1>9 DEF Listed
<1>11. /\ Agree(eligible', eligible, k) /\ Agree(pendingFlush', pendingFlush, k)
       /\ Agree(leases', leases, k)
  BY <1>1, Agreement
<1>12. \A j \in Keys : Listed(j)'
  BY <1>4, <1>10, <1>11, OneListed
<1>13. calls' \in [Callers -> CallType] /\ \A x \in Callers : DrainInv(calls[x])'
  BY OneCall
<1> QED
  BY <1>1, <1>8, <1>12, <1>13, Types, StateParts

\* XREADGROUP keeps the invariant, whoever holds the unit by now.
LEMMA ReadGroupInv ==
  ASSUME StateInv, NEW c \in Callers, ReadGroup(c)
  PROVE  StateInv'
<1>1. /\ calls[c].step = "read" /\ Deliver(calls[c].by.key, Fresh(c))
      /\ Goes(c, "idle", BySeq(calls[c].got \o Fresh(c))) /\ UNCHANGED <<faults, others>>
  BY DEF ReadGroup
<1>2. calls[c].by \in ClaimedUnit /\ calls[c].by.key \in Keys /\ calls[c].got \in Seq(Entry)
  BY <1>1, DrainFacts
<1>3. PICK k \in Keys : k = calls[c].by.key
  BY <1>2
<1>4. Fresh(c) \in Seq(Entry)
  BY <1>1, <1>3, FreshFacts
<1>5. calls[c].got \o Fresh(c) \in Seq(Entry)
  BY <1>2, <1>4
<1>6. PICK s \in Seq(Entry) : s = BySeq(calls[c].got \o Fresh(c))
  BY <1>5, BySeqType
<1>7. PICK d : d = [by |-> calls[c].by, step |-> "idle", got |-> s]
  OBVIOUS
<1>8. calls' = [calls EXCEPT ![c] = d]
  BY <1>1, <1>6, <1>7 DEF Goes
<1>9. d \in CallType /\ DrainInv(d)
  BY <1>2, <1>7 DEF CallType, DrainInv
<1>10. faults' \in 0 .. MaxFaults
  BY <1>1, Types
<1> QED
  BY <1>1, <1>8, <1>9, <1>10, ReadStep

\* A failed XREADGROUP keeps the invariant, served or not.
LEMMA ReadGroupFailsInv ==
  ASSUME StateInv, NEW c \in Callers, ReadGroupFails(c)
  PROVE  StateInv'
<1>1. /\ calls[c].step = "read"
      /\ Deliver(calls[c].by.key, Fresh(c)) \/ UNCHANGED units
      /\ faults < MaxFaults /\ faults' = faults + 1
      /\ Goes(c, "idle", BySeq(calls[c].got)) /\ UNCHANGED others
  BY DEF ReadGroupFails
<1>2. calls[c].by \in ClaimedUnit /\ calls[c].by.key \in Keys /\ calls[c].got \in Seq(Entry)
  BY <1>1, DrainFacts
<1>3. PICK s \in Seq(Entry) : s = BySeq(calls[c].got)
  BY <1>2, BySeqType
<1>4. PICK d : d = [by |-> calls[c].by, step |-> "idle", got |-> s]
  OBVIOUS
<1>5. calls' = [calls EXCEPT ![c] = d]
  BY <1>1, <1>3, <1>4 DEF Goes
<1>6. d \in CallType /\ DrainInv(d)
  BY <1>2, <1>4 DEF CallType, DrainInv
<1>7. faults' \in 0 .. MaxFaults
  BY <1>1, OneFault
<1>8. CASE Deliver(calls[c].by.key, Fresh(c))
  BY <1>1, <1>5, <1>6, <1>7, <1>8, ReadStep
<1>9. CASE UNCHANGED units
  BY <1>1, <1>5, <1>6, <1>7, <1>9, DrainStep
<1> QED
  BY <1>1, <1>8, <1>9

(***************************************************************************)
(* What a reap does to units and indexes, member by member: the units in   *)
(* expired are freed, those in ready or due are eligible afterwards.       *)
(***************************************************************************)
Reaped(t, expired, ready, pending, due) ==
  /\ expired = {k \in DOMAIN leases : leases[k] <= t}
  /\ ready = {k \in expired : Due(units[k], t)}
  /\ DOMAIN pending = DOMAIN pendingFlush \cup (expired \ ready)
  /\ \A k \in DOMAIN pending :
       pending[k] = IF k \in expired \ ready THEN units[k].flush ELSE pendingFlush[k]
  /\ due = {k \in DOMAIN pending : pending[k] <= t}
  /\ units' = [k \in Keys |-> IF k \in expired THEN Freed(units[k]) ELSE units[k]]
  /\ DOMAIN leases' = DOMAIN leases \ expired
  /\ \A k \in DOMAIN leases' : leases'[k] = leases[k]
  /\ DOMAIN pendingFlush' = DOMAIN pending \ due
  /\ \A k \in DOMAIN pendingFlush' : pendingFlush'[k] = pending[k]
  /\ DOMAIN eligible' = DOMAIN eligible \cup ready \cup due
  /\ \A k \in DOMAIN eligible' :
       eligible'[k] = IF k \in due THEN pending[k]
                      ELSE IF k \in ready THEN units[k].flush ELSE eligible[k]

\* luaReap names what it reclaims and what it promotes.
LEMMA ReapShape ==
  ASSUME NEW t, ReapExpired(t)
  PROVE  \E expired, ready, pending, due : Reaped(t, expired, ready, pending, due)
<1>1. PICK expired : expired = {k \in DOMAIN leases : leases[k] <= t}
  OBVIOUS
<1>2. PICK ready : ready = {k \in expired : Due(units[k], t)}
  OBVIOUS
<1>3. PICK f : f = [k \in expired \ ready |-> units[k].flush]
  OBVIOUS
<1>4. PICK g : g = [k \in ready |-> units[k].flush]
  OBVIOUS
<1>5. PICK pending : pending = ZAddAll(pendingFlush, f)
  OBVIOUS
<1>6. PICK due : due = {k \in DOMAIN pending : pending[k] <= t}
  OBVIOUS
<1>7. /\ units' = [k \in Keys |-> IF k \in expired THEN Freed(units[k]) ELSE units[k]]
      /\ leases' = ZRemAll(leases, expired) /\ pendingFlush' = ZRemAll(pending, due)
      /\ eligible' = ZAddAll(ZAddAll(eligible, g), Restrict(pending, due))
  BY <1>1, <1>2, <1>3, <1>4, <1>5, <1>6 DEF ReapExpired
<1>8. /\ DOMAIN pending = DOMAIN pendingFlush \cup (expired \ ready)
      /\ \A k \in DOMAIN pending :
           pending[k] = IF k \in expired \ ready THEN units[k].flush ELSE pendingFlush[k]
  BY <1>3, <1>5 DEF ZAddAll
<1>9. /\ DOMAIN leases' = DOMAIN leases \ expired
      /\ \A k \in DOMAIN leases' : leases'[k] = leases[k]
  BY <1>7 DEF ZRemAll, Restrict
<1>10. /\ DOMAIN pendingFlush' = DOMAIN pending \ due
       /\ \A k \in DOMAIN pendingFlush' : pendingFlush'[k] = pending[k]
  BY <1>7 DEF ZRemAll, Restrict
<1>11. PICK y : y = ZAddAll(eligible, g)
  OBVIOUS
<1>12. /\ DOMAIN y = DOMAIN eligible \cup ready
       /\ \A k \in DOMAIN y : y[k] = IF k \in ready THEN units[k].flush ELSE eligible[k]
  BY <1>4, <1>11 DEF ZAddAll
<1>13. PICK r : r = Restrict(pending, due)
  OBVIOUS
<1>14. DOMAIN r = due /\ \A k \in due : r[k] = pending[k]
  BY <1>13 DEF Restrict
<1>15. eligible' = ZAddAll(y, r)
  BY <1>7, <1>11, <1>13
<1>16. /\ DOMAIN eligible' = DOMAIN y \cup due
       /\ \A k \in DOMAIN eligible' : eligible'[k] = IF k \in due THEN pending[k] ELSE y[k]
  BY <1>14, <1>15 DEF ZAddAll
<1>17. \A k \in DOMAIN eligible' :
         eligible'[k] = IF k \in due THEN pending[k]
                        ELSE IF k \in ready THEN units[k].flush ELSE eligible[k]
  BY <1>12, <1>16
<1>18. DOMAIN eligible' = DOMAIN eligible \cup ready \cup due
  BY <1>12, <1>16
<1>19. Reaped(t, expired, ready, pending, due)
  BY ZenonT(30), <1>1, <1>2, <1>6, <1>7, <1>8, <1>9, <1>10, <1>17, <1>18 DEF Reaped
<1> QED
  BY <1>19

\* luaReap keeps the invariant, whatever instant it is given.
LEMMA ReapInv ==
  ASSUME StateInv, NEW t \in 0 .. MaxNow, ReapExpired(t)
  PROVE  StateInv'
<1>1. UNCHANGED <<pendingTasks, dlq, tokens, now, handles, calls, faults, arrived>>
  BY DEF ReapExpired
<1>2. PICK expired, ready, pending, due : Reaped(t, expired, ready, pending, due)
  BY ReapShape
<1>3. ZSet(eligible) /\ ZSet(pendingFlush) /\ ZSet(leases) /\ units \in [Keys -> Unit]
  BY Types
<1>4. expired \subseteq DOMAIN leases /\ expired \subseteq Keys /\ ready \subseteq expired
  BY <1>2, <1>3 DEF Reaped, ZSet
<1>5. ASSUME NEW j \in Keys
      PROVE  /\ UnitInv(units'[j], arrived[j]) /\ units'[j].tasks = units[j].tasks
             /\ units'[j].pendingCost = units[j].pendingCost
             /\ j \in expired => units'[j].lease = None /\ units[j].tasks # <<>>
             /\ j \notin expired => units'[j] = units[j]
  <2>1. UnitInv(units[j], arrived[j]) /\ Listed(j)
    BY Types
  <2>2. CASE j \in expired
    <3>1. units[j].lease # None
      BY <1>4, <2>1, <2>2 DEF Listed
    <3>2. units[j].tasks # <<>>
      <4>1. units[j].tasks = <<>> => units[j].lease = None
        BY <2>1 DEF UnitInv, NoUnit
      <4> QED
        BY <3>1, <4>1
    <3>3. PICK v : v = Freed(units[j])
      OBVIOUS
    <3>4. WorkInv(units[j], arrived[j])
      BY <2>1 DEF UnitInv
    <3>5. /\ WorkInv(v, arrived[j]) /\ v.tasks = units[j].tasks /\ v.lease = None
          /\ v.pendingCost = units[j].pendingCost
      BY <3>3, <3>4, FreedInv
    <3>6. units'[j] = v
      BY <1>2, <2>2, <3>3 DEF Reaped
    <3> QED
      BY <2>2, <3>2, <3>5, <3>6 DEF UnitInv
  <2>3. CASE j \notin expired
    <3>1. units'[j] = units[j]
      BY <1>2, <2>3 DEF Reaped
    <3> QED
      BY <2>1, <2>3, <3>1
  <2> QED
    BY <2>2, <2>3
<1>6. units' \in [Keys -> Unit] /\ \A j \in Keys : UnitInv(units[j], arrived[j])'
  <2>1. \A j \in Keys : units'[j] \in Unit
    BY <1>5 DEF UnitInv, WorkInv
  <2>2. units' = [j \in Keys |-> units'[j]]
    BY <1>2 DEF Reaped
  <2>3. units' \in [Keys -> Unit]
    BY <2>1, <2>2
  <2> QED
    BY <1>1, <1>5, <2>3
<1>7. Backlog' = Backlog
  <2>1. \A j \in Keys : units'[j].tasks = units[j].tasks
    BY <1>5
  <2> QED
    BY <2>1 DEF Backlog
<1>8. /\ DOMAIN pending = DOMAIN pendingFlush \cup (expired \ ready)
      /\ DOMAIN leases' = DOMAIN leases \ expired /\ due \subseteq DOMAIN pending
      /\ DOMAIN pendingFlush' = DOMAIN pending \ due
      /\ DOMAIN eligible' = DOMAIN eligible \cup ready \cup due
  BY <1>2 DEF Reaped
<1>9. ASSUME NEW j \in Keys PROVE Listed(j)'
  <2>1. Listed(j)
    BY Types
  <2>2. /\ units'[j].tasks = units[j].tasks /\ units'[j].pendingCost = units[j].pendingCost
        /\ j \in expired => units'[j].lease = None /\ units[j].tasks # <<>>
        /\ j \notin expired => units'[j] = units[j]
    BY <1>5
  <2>3. CASE j \in expired
    <3>1. units[j].pendingCost >= Threshold => j \in ready
      BY <1>2, <2>3 DEF Reaped, Due
    <3> QED
      BY <1>8, <2>2, <2>3, <3>1 DEF Listed
  <2>4. CASE j \notin expired
    BY <1>4, <1>8, <2>1, <2>2, <2>4 DEF Listed
  <2> QED
    BY <2>3, <2>4
<1>10. \A j \in Keys : units[j].flush \in Nat
  BY <1>3, UnitFields
<1>11. /\ DOMAIN pending \subseteq Keys
       /\ \A j \in DOMAIN pending : pending[j] \in Nat
  <2>1. DOMAIN pending \subseteq Keys
    BY <1>3, <1>4, <1>8 DEF ZSet
  <2>2. ASSUME NEW j \in DOMAIN pending PROVE pending[j] \in Nat
    <3>1. pending[j] = IF j \in expired \ ready THEN units[j].flush ELSE pendingFlush[j]
      BY <1>2 DEF Reaped
    <3>2. j \notin expired \ ready => pendingFlush[j] \in Nat
      BY <1>3, <1>8 DEF ZSet
    <3> QED
      BY <1>10, <2>1, <3>1, <3>2
  <2> QED
    BY <2>1, <2>2
<1>12. ZSet(leases')
  BY <1>2, <1>3, <1>8 DEF ZSet, Reaped
<1>13. ZSet(pendingFlush')
  BY <1>2, <1>8, <1>11 DEF ZSet, Reaped
<1>14. ZSet(eligible')
  <2>1. DOMAIN eligible' \subseteq Keys
    BY <1>3, <1>4, <1>8, <1>11 DEF ZSet
  <2>2. ASSUME NEW j \in DOMAIN eligible' PROVE eligible'[j] \in Nat
    <3>1. eligible'[j] = IF j \in due THEN pending[j]
                         ELSE IF j \in ready THEN units[j].flush ELSE eligible[j]
      BY <1>2 DEF Reaped
    <3>2. j \in due => pending[j] \in Nat
      BY <1>8, <1>11
    <3>3. (j \notin due /\ j \notin ready) => eligible[j] \in Nat
      BY <1>3, <1>8 DEF ZSet
    <3> QED
      BY <1>10, <2>1, <3>1, <3>2, <3>3
  <2> QED
    BY <2>1, <2>2 DEF ZSet
<1> QED
  BY <1>1, <1>6, <1>7, <1>9, <1>12, <1>13, <1>14, Types, StateParts

\* The passing of time keeps the invariant.
LEMMA TickInv ==
  ASSUME StateInv, Tick
  PROVE  StateInv'
<1>1. /\ now < MaxNow /\ now' = now + 1
      /\ UNCHANGED <<units, eligible, pendingFlush, leases, pendingTasks, dlq, tokens,
                     handles, calls, faults, arrived>>
  BY DEF Tick
<1>2. now' \in 0 .. MaxNow
  BY <1>1, Types, ValkeyBounds
<1>3. Backlog' = Backlog
  BY <1>1 DEF Backlog
<1>4. ASSUME NEW j \in Keys PROVE Listed(j)'
  <2>1. Listed(j)
    BY Types
  <2> QED
    BY <1>1, <2>1 DEF Listed
<1> QED
  BY <1>1, <1>2, <1>3, <1>4, Types, StateParts

\* So does a step of somebody else.
LEMMA StutterInv ==
  ASSUME StateInv, UNCHANGED vars
  PROVE  StateInv'
<1>1. UNCHANGED <<units, eligible, pendingFlush, leases, pendingTasks, dlq, tokens, now,
                  handles, calls, faults, arrived>>
  BY DEF vars
<1>2. Backlog' = Backlog
  BY <1>1 DEF Backlog
<1>3. ASSUME NEW j \in Keys PROVE Listed(j)'
  <2>1. Listed(j)
    BY Types
  <2> QED
    BY <1>1, <2>1 DEF Listed
<1> QED
  BY <1>1, <1>2, <1>3, Types, StateParts

\* Every step keeps the invariant.
LEMMA StepInv == StateInv /\ [Next]_vars => StateInv'
<1> SUFFICES ASSUME StateInv, [Next]_vars PROVE StateInv'
  OBVIOUS
<1>1. ASSUME NEW t \in Clocks, NEW k \in Keys, NEW c \in Costs, Enqueue(k, c, t)
      PROVE  StateInv'
  BY <1>1, EnqueueInv
<1>2. ASSUME NEW t \in Clocks, NEW c \in Callers, NEW d \in LeaseDurs, NEW k \in Keys,
             Claim(c, d, t, k)
      PROVE  StateInv'
  BY <1>2, ClaimInv
<1>3. ASSUME NEW t \in Clocks, NEW h \in handles, NEW s \in Seqs, Ack(h, s, t)
      PROVE  StateInv'
  BY <1>3, AckInv
<1>4. ASSUME NEW t \in Clocks, NEW h \in handles, NEW s \in Seqs, Fail(h, s, t)
      PROVE  StateInv'
  BY <1>4, FailInv
<1>5. ASSUME NEW t \in Clocks, NEW h \in handles, Release(h, t) PROVE StateInv'
  BY <1>5, ReleaseInv
<1>6. ASSUME NEW t \in Clocks, NEW h \in handles, NEW d \in LeaseDurs, Heartbeat(h, d, t)
      PROVE  StateInv'
  BY <1>6, HeartbeatInv
<1>7. ASSUME NEW h \in handles, DrainCheck(h) PROVE StateInv'
  BY <1>7, DrainCheckInv
<1>8. ASSUME NEW c \in Callers,
             Autoclaim(c) \/ AutoclaimFails(c) \/ ReadGroup(c) \/ ReadGroupFails(c)
      PROVE  StateInv'
  BY <1>8, AutoclaimInv, AutoclaimFailsInv, ReadGroupInv, ReadGroupFailsInv
<1>9. ASSUME NEW t \in 0 .. MaxNow, ReapExpired(t) PROVE StateInv'
  BY <1>9, ReapInv
<1>10. CASE Tick
  BY <1>10, TickInv
<1>11. CASE UNCHANGED vars
  BY <1>11, StutterInv
<1> QED
  BY <1>1, <1>2, <1>3, <1>4, <1>5, <1>6, <1>7, <1>8, <1>9, <1>10, <1>11 DEF Next

\* The invariant holds in every execution.
LEMMA Invariance == Spec => []StateInv
  BY InitInv, StepInv, PTL DEF Spec

-----------------------------------------------------------------------------
(* What the invariant says of the server. *)

(***************************************************************************)
(* Server and callers keep their types: in particular pending_tasks never  *)
(* goes below zero, though Ack and Fail subtract from it what they find.   *)
(***************************************************************************)
THEOREM TypeCorrect == Spec => []TypeOK
<1>1. StateInv => TypeOK
  BY DEF StateInv
<1> QED
  BY <1>1, Invariance, PTL

(***************************************************************************)
(* I1 on the server: a stream is the unit's most recent arrivals, in order *)
(* and under consecutive seqs, whatever interleaving of Drains, takeovers, *)
(* acks, dead letters and reaps it went through.                           *)
(***************************************************************************)
THEOREM StreamsAreFifo == Spec => []StreamFifo
<1>1. ASSUME StateInv PROVE StreamFifo
  <2> SUFFICES ASSUME NEW k \in Keys
               PROVE  /\ \A i \in 1 .. Len(units[k].tasks) :
                           /\ units[k].tasks[i].payload = arrived[k] - Len(units[k].tasks) + i
                           /\ units[k].tasks[i].seq = units[k].nextSeq - Len(units[k].tasks) + i - 1
                      /\ Len(units[k].tasks) = 0 => units[k] = NoUnit
    BY DEF StreamFifo
  <2>1. UnitInv(units[k], arrived[k])
    BY <1>1, Types
  <2>2. Len(units[k].tasks) = 0 => units[k].tasks = <<>>
    BY <2>1, UnitFields DEF UnitInv, WorkInv
  <2> QED
    BY <2>1, <2>2 DEF UnitInv, WorkInv, UnitFifo
<1> QED
  BY <1>1, Invariance, PTL

(***************************************************************************)
(* The pending entries of a group are the stream's entries up to the last  *)
(* delivered one: what Ack's scan and XAUTOCLAIM rest on.                  *)
(***************************************************************************)
THEOREM PelIsPrefix == Spec => []PelIsDeliveredPrefix
<1>1. ASSUME StateInv PROVE PelIsDeliveredPrefix
  <2> SUFFICES ASSUME NEW k \in Keys
               PROVE  units[k].pel = {p \in Payloads(units[k].tasks) : p <= units[k].last}
    BY DEF PelIsDeliveredPrefix
  <2>1. UnitInv(units[k], arrived[k])
    BY <1>1, Types
  <2> QED
    BY <2>1 DEF UnitInv, WorkInv, UnitPel
<1> QED
  BY <1>1, Invariance, PTL

\* I3: pending_cost and pending_tasks are exact in every state.
THEOREM CountersAreExact == Spec => []CountersExact
<1>1. ASSUME StateInv PROVE CountersExact
  <2>1. \A k \in Keys : units[k].pendingCost = Cost(units[k].tasks)
    BY <1>1, Types DEF UnitInv, WorkInv
  <2>2. pendingTasks = Cardinality(Backlog)
    BY <1>1, Types
  <2> QED
    BY <2>1, <2>2 DEF CountersExact
<1> QED
  BY <1>1, Invariance, PTL

(***************************************************************************)
(* A free unit with work is always where Claim or the reaper looks for it, *)
(* and an empty one nowhere.                                               *)
(***************************************************************************)
THEOREM NoneStranded == Spec => []NeverStranded
<1>1. ASSUME StateInv PROVE NeverStranded
  <2> SUFFICES ASSUME NEW k \in Keys
               PROVE  /\ (units[k].tasks # <<>> /\ units[k].lease = None) =>
                           /\ k \in DOMAIN eligible \cup DOMAIN pendingFlush
                           /\ Cost(units[k].tasks) >= Threshold => k \in DOMAIN eligible
                      /\ units[k].tasks = <<>> => k \notin DOMAIN eligible \cup DOMAIN pendingFlush
    BY DEF NeverStranded
  <2>1. UnitInv(units[k], arrived[k]) /\ Listed(k)
    BY <1>1, Types
  <2>2. units[k].pendingCost = Cost(units[k].tasks)
    BY <2>1 DEF UnitInv, WorkInv
  <2> QED
    BY <2>1, <2>2 DEF Listed
<1> QED
  BY <1>1, Invariance, PTL

\* I5: leases lists exactly the units that have a holder.
THEOREM LeasesAreListed == Spec => []LeasesListed
<1>1. ASSUME StateInv PROVE LeasesListed
  <2>1. DOMAIN leases \subseteq Keys
    BY <1>1, Types DEF ZSet
  <2>2. \A k \in Keys : (k \in DOMAIN leases) <=> (units[k].lease # None)
    BY <1>1, Types DEF Listed
  <2> QED
    BY <2>1, <2>2 DEF LeasesListed
<1> QED
  BY <1>1, Invariance, PTL

-----------------------------------------------------------------------------
(***************************************************************************)
(* The flush clock.  luaEnqueue recognises an empty unit by its total, so  *)
(* what follows is about producers whose tasks all cost something.         *)
(***************************************************************************)
Clocked(u) ==
  /\ \A i \in DOMAIN u.tasks : u.tasks[i].cost # 0
  /\ u.tasks # <<>> => u.flush = u.tasks[1].ts + MaxWait

ClockInv == \A k \in Keys : Clocked(units[k])

\* A unit whose entries and flush time stay keeps its clock.
LEMMA SameClock ==
  ASSUME NEW u, Clocked(u), NEW v, v.tasks = u.tasks, v.flush = u.flush
  PROVE  Clocked(v)
  BY DEF Clocked

\* Work that costs something has a total above zero.
LEMMA WorkCosts ==
  ASSUME NEW a, NEW u, WorkInv(u, a), Clocked(u), u.tasks # <<>>
  PROVE  u.pendingCost # 0
<1>1. u \in Unit /\ u.pendingCost = Cost(u.tasks)
  BY DEF WorkInv
<1>2. PICK s \in Seq(Entry) : s = u.tasks
  BY <1>1, UnitFields
<1>3. Len(s) \in Nat /\ Len(s) # 0 /\ 1 \in DOMAIN s
  BY <1>2
<1>4. s[1] \in Entry /\ s[1].cost # 0
  BY <1>2, <1>3 DEF Clocked
<1>5. s[1].cost \in Nat
  BY <1>4 DEF Entry
<1>6. 1 \in 1 .. s[1].cost
  BY <1>4, <1>5
<1>7. <<s[1].seq, 1>> \in CostUnits(s)
  BY <1>3, <1>6 DEF CostUnits
<1>8. IsFiniteSet(CostUnits(s))
  BY EntryPriced, CostFiniteIn
<1>9. Cardinality(CostUnits(s)) # 0
  BY <1>7, <1>8, FS_EmptySet
<1> QED
  BY <1>1, <1>2, <1>9 DEF Cost

\* A step that replaces one unit by one whose clock is right.
LEMMA OneClock ==
  ASSUME StateInv, ClockInv, NEW k \in Keys, NEW v, units' = [units EXCEPT ![k] = v],
         Clocked(v)
  PROVE  ClockInv'
<1>1. units \in [Keys -> Unit]
  BY Types
<1>2. ASSUME NEW j \in Keys PROVE Clocked(units'[j])
  <2>1. CASE j = k
    BY <1>1, <2>1
  <2>2. CASE j # k
    <3>1. units'[j] = units[j]
      BY <1>1, <2>2
    <3> QED
      BY <3>1 DEF ClockInv
  <2> QED
    BY <2>1, <2>2
<1> QED
  BY <1>2 DEF ClockInv

\* Clocks of what is left when a head is dropped.
LEMMA SettledClock ==
  ASSUME StateInv, ClockInv, NEW k \in Keys, NEW t, NEW m, NEW v, Settled(k, m, v, t),
         v.tasks # <<>> => v.flush = v.tasks[1].ts + MaxWait
  PROVE  ClockInv'
<1>1. /\ units' = [units EXCEPT ![k] = v] /\ v.tasks = Suffix(units[k].tasks, m)
      /\ m \in 0 .. Len(units[k].tasks)
  BY DEF Settled
<1>2. PICK s \in Seq(Entry) : s = units[k].tasks
  BY Facts, UnitFields
<1>3. /\ Suffix(s, m) \in Seq(Entry) /\ Len(Suffix(s, m)) = Len(s) - m
      /\ \A i \in 1 .. Len(s) - m : Suffix(s, m)[i] = s[m + i]
  BY <1>1, <1>2, SuffixProperties
<1>4. DOMAIN v.tasks = 1 .. Len(s) - m
  BY <1>1, <1>2, <1>3
<1>5. ASSUME NEW i \in DOMAIN v.tasks PROVE v.tasks[i].cost # 0
  <2>1. v.tasks[i] = s[m + i]
    BY <1>1, <1>2, <1>3, <1>4
  <2>2. Len(s) \in Nat /\ m \in 0 .. Len(s) /\ i \in 1 .. Len(s) - m
    BY <1>1, <1>2, <1>4
  <2>3. m + i \in DOMAIN s
    BY <2>2
  <2>4. s[m + i].cost # 0
    BY <1>2, <2>3 DEF ClockInv, Clocked
  <2> QED
    BY <2>1, <2>4
<1>6. Clocked(v)
  BY <1>5 DEF Clocked
<1> QED
  BY <1>1, <1>6, OneClock

\* luaEnqueue starts the clock of a unit that was empty, and of no other.
LEMMA EnqueueClock ==
  ASSUME StateInv, ClockInv, 0 \notin Costs,
         NEW k \in Keys, NEW c \in Costs, NEW t \in Clocks, Enqueue(k, c, t)
  PROVE  ClockInv'
<1>1. PICK e : e = [seq |-> units[k].nextSeq, payload |-> arrived[k] + 1, cost |-> c, ts |-> t]
  OBVIOUS
<1>2. PICK u, v : u = units[k] /\ v = Added(u, e)
  OBVIOUS
<1>3. units' = [units EXCEPT ![k] = v] /\ arrived[k] < MaxTasks
  BY <1>1, <1>2 DEF Enqueue
<1>4. /\ UnitInv(u, arrived[k]) /\ WorkInv(u, arrived[k]) /\ u \in Unit
      /\ arrived[k] \in Nat /\ MaxTasks \in Nat
  BY <1>2, Facts
<1>5. arrived[k] \in 0 .. (MaxTasks - 1) /\ t \in Nat /\ c \in Nat /\ c # 0
  BY <1>3, <1>4, ClockType, ValkeyOptions
<1>6. PICK a \in 0 .. (MaxTasks - 1) : a = arrived[k]
  BY <1>5
<1>7. e = [seq |-> u.nextSeq, payload |-> a + 1, cost |-> c, ts |-> t]
  BY <1>1, <1>2, <1>6
<1>8. UnitInv(u, a)
  BY <1>4, <1>6
<1>9. /\ v.tasks = Append(u.tasks, e)
      /\ v.flush = IF u.pendingCost = 0 THEN t + MaxWait ELSE u.flush
  BY <1>2, <1>5, <1>7, <1>8, AddedInv
<1>10. Clocked(u)
  BY <1>2 DEF ClockInv
<1>11. PICK s \in Seq(Entry) : s = u.tasks
  BY <1>4, UnitFields
<1>12. e.cost = c /\ e.ts = t
  BY <1>7
<1>13. ASSUME NEW i \in DOMAIN v.tasks PROVE v.tasks[i].cost # 0
  <2>1. v.tasks = Append(s, e) /\ Len(s) \in Nat
    BY <1>9, <1>11
  <2>2. CASE i = Len(s) + 1
    <3>1. v.tasks[i] = e
      BY <2>1, <2>2
    <3> QED
      BY <1>5, <1>12, <3>1
  <2>3. CASE i # Len(s) + 1
    <3>1. i \in DOMAIN s /\ v.tasks[i] = s[i]
      BY <2>1, <2>3
    <3> QED
      BY <1>10, <1>11, <3>1 DEF Clocked
  <2> QED
    BY <2>2, <2>3
<1>14. v.flush = v.tasks[1].ts + MaxWait
  <2>1. CASE u.tasks = <<>>
    <3>1. u.pendingCost = 0
      BY <1>4, <2>1 DEF UnitInv, NoUnit
    <3>2. v.tasks[1] = e
      BY <1>9, <2>1
    <3> QED
      BY <1>9, <1>12, <3>1, <3>2
  <2>2. CASE u.tasks # <<>>
    <3>1. u.pendingCost # 0
      BY <1>4, <1>10, <2>2, WorkCosts
    <3>2. v.tasks[1] = u.tasks[1]
      <4>1. v.tasks = Append(s, e) /\ Len(s) \in Nat /\ Len(s) # 0
        BY <1>9, <1>11, <2>2
      <4> QED
        BY <1>11, <4>1
    <3>3. u.flush = u.tasks[1].ts + MaxWait
      BY <1>10, <2>2 DEF Clocked
    <3> QED
      BY <1>9, <3>1, <3>2, <3>3
  <2> QED
    BY <2>1, <2>2
<1>15. Clocked(v)
  BY <1>13, <1>14 DEF Clocked
<1> QED
  BY <1>3, <1>15, OneClock

\* A step that leaves every unit's tasks and clock alone.
LEMMA SteadyClock ==
  ASSUME ClockInv, \A j \in Keys : units'[j].tasks = units[j].tasks,
         \A j \in Keys : units'[j].flush = units[j].flush
  PROVE  ClockInv'
<1>1. ASSUME NEW j \in Keys PROVE Clocked(units'[j])
  <2>1. Clocked(units[j])
    BY DEF ClockInv
  <2> QED
    BY <2>1, SameClock
<1> QED
  BY <1>1 DEF ClockInv

\* One unit is replaced by one with the same tasks and clock.
LEMMA SteadyUnit ==
  ASSUME StateInv, ClockInv, NEW k \in Keys, NEW v, units' = [units EXCEPT ![k] = v],
         v.tasks = units[k].tasks, v.flush = units[k].flush
  PROVE  ClockInv'
<1>1. Clocked(units[k])
  BY DEF ClockInv
<1>2. Clocked(v)
  BY <1>1, SameClock
<1> QED
  BY <1>2, OneClock

\* Every step keeps the flush clocks at their heads.
LEMMA ClockStep ==
  ASSUME StateInv, ClockInv, 0 \notin Costs, [Next]_vars
  PROVE  ClockInv'
<1>1. ASSUME NEW t \in Clocks, NEW k \in Keys, NEW c \in Costs, Enqueue(k, c, t)
      PROVE  ClockInv'
  BY <1>1, EnqueueClock
<1>2. ASSUME NEW t \in Clocks, NEW c \in Callers, NEW d \in LeaseDurs, NEW k \in Keys,
             Claim(c, d, t, k)
      PROVE  ClockInv'
  <2>1. PICK v : v = Leased(units[k], Token(c), d)
    OBVIOUS
  <2>2. units' = [units EXCEPT ![k] = v] /\ tokens[c[1]] < MaxClaims
    BY <1>2, <2>1 DEF Claim
  <2>3. WorkInv(units[k], arrived[k]) /\ Token(c) \in LeaseTokens /\ d \in Nat
    BY <2>2, Facts, TokenType, ValkeyOptions
  <2>4. v.tasks = units[k].tasks /\ v.flush = units[k].flush
    BY <2>1, <2>3, LeasedInv
  <2> QED
    BY <2>2, <2>4, SteadyUnit
<1>3. ASSUME NEW t \in Clocks, NEW h \in handles, NEW s \in Seqs, Ack(h, s, t)
      PROVE  ClockInv'
  BY <1>3, AckShape, SettledClock, HandleFacts
<1>4. ASSUME NEW t \in Clocks, NEW h \in handles, NEW s \in Seqs, Fail(h, s, t)
      PROVE  ClockInv'
  BY <1>4, FailShape, SettledClock, HandleFacts
<1>5. ASSUME NEW t \in Clocks, NEW h \in handles, Release(h, t) PROVE ClockInv'
  <2>1. PICK v : /\ Settled(h.key, 0, v, t) /\ v.flush = units[h.key].flush
                 /\ v.tasks = units[h.key].tasks
    BY <1>5, ReleaseShape
  <2>2. units' = [units EXCEPT ![h.key] = v] /\ h.key \in Keys
    BY <2>1, HandleFacts DEF Settled
  <2> QED
    BY <2>1, <2>2, SteadyUnit
<1>6. ASSUME UNCHANGED units PROVE ClockInv'
  BY <1>6, SteadyClock
<1>7. ASSUME NEW c \in Callers, calls[c].step = "read", Deliver(calls[c].by.key, Fresh(c))
      PROVE  ClockInv'
  <2>1. PICK k \in Keys : k = calls[c].by.key
    BY <1>7, DrainFacts
  <2>2. PICK v : v = Delivered(units[k], Fresh(c))
    OBVIOUS
  <2>3. units' = [units EXCEPT ![k] = v]
    BY <1>7, <2>1, <2>2 DEF Deliver
  <2>4. v.tasks = units[k].tasks /\ v.flush = units[k].flush
    BY <1>7, <2>1, <2>2, FreshFacts
  <2> QED
    BY <2>3, <2>4, SteadyUnit
<1>8. ASSUME NEW t \in 0 .. MaxNow, ReapExpired(t) PROVE ClockInv'
  <2>1. PICK expired : units' = [k \in Keys |-> IF k \in expired THEN Freed(units[k])
                                                ELSE units[k]]
    BY <1>8 DEF ReapExpired
  <2>2. ASSUME NEW j \in Keys
        PROVE  units'[j].tasks = units[j].tasks /\ units'[j].flush = units[j].flush
    <3>1. WorkInv(units[j], arrived[j])
      BY Facts
    <3>2. Freed(units[j]).tasks = units[j].tasks /\ Freed(units[j]).flush = units[j].flush
      BY <3>1, FreedInv
    <3> QED
      BY <2>1, <3>2
  <2> QED
    BY <2>2, SteadyClock
<1>9. ASSUME NEW t \in Clocks, NEW h \in handles, NEW d \in LeaseDurs, Heartbeat(h, d, t)
      PROVE  ClockInv'
  BY <1>6, <1>9 DEF Heartbeat
<1>10. ASSUME NEW h \in handles, DrainCheck(h) PROVE ClockInv'
  BY <1>6, <1>10 DEF DrainCheck
<1>11. ASSUME NEW c \in Callers,
              Autoclaim(c) \/ AutoclaimFails(c) \/ ReadGroup(c) \/ ReadGroupFails(c)
       PROVE  ClockInv'
  BY <1>6, <1>7, <1>11 DEF Autoclaim, AutoclaimFails, ReadGroup, ReadGroupFails
<1>12. CASE Tick
  BY <1>6, <1>12 DEF Tick
<1>13. CASE UNCHANGED vars
  BY <1>6, <1>13 DEF vars
<1> QED
  BY <1>1, <1>2, <1>3, <1>4, <1>5, <1>8, <1>9, <1>10, <1>11, <1>12, <1>13 DEF Next

\* An empty unit has no clock.
LEMMA ClockInit == Init => ClockInv
<1> SUFFICES ASSUME Init, NEW k \in Keys PROVE Clocked(units[k])
  BY DEF ClockInv
<1>1. units[k].tasks = <<>>
  BY DEF Init, NoUnit
<1> QED
  BY <1>1 DEF Clocked

(***************************************************************************)
(* As long as every task costs something, flush_ms is the head's time plus *)
(* max_wait whatever was acked, dead-lettered, released or reaped before   *)
(* (luaEnqueue, luaAck, luaFail).                                          *)
(***************************************************************************)
THEOREM ClockFollowsHead ==
  ASSUME 0 \notin Costs
  PROVE  Spec => []FlushClock
<1>1. StateInv /\ ClockInv /\ [Next]_vars => ClockInv'
  BY ClockStep
<1>2. ClockInv => FlushClock
  BY DEF ClockInv, Clocked, FlushClock
<1> QED
  BY <1>1, <1>2, ClockInit, Invariance, PTL DEF Spec

-----------------------------------------------------------------------------
(***************************************************************************)
(* The indexes while no producer tops up a promoted unit: each unit is in  *)
(* one at most, under its flush time, and in eligible only when it is due. *)
(***************************************************************************)
Indexed(k) ==
  /\ k \in DOMAIN eligible => /\ k \notin DOMAIN pendingFlush /\ k \notin DOMAIN leases
                              /\ eligible[k] = units[k].flush
                              /\ units[k].pendingCost >= Threshold \/ units[k].flush <= now
  /\ k \in DOMAIN pendingFlush => k \notin DOMAIN leases /\ pendingFlush[k] = units[k].flush
  /\ k \in DOMAIN leases => units[k].leaseMs \in LeaseDurs

IndexInv == \A k \in Keys : Indexed(k)

\* A held unit is in leases alone.
LEMMA HeldAlone ==
  ASSUME StateInv, IndexInv, NEW k \in Keys, units[k].lease # None
  PROVE  /\ k \in DOMAIN leases /\ k \notin DOMAIN eligible /\ k \notin DOMAIN pendingFlush
         /\ units[k].leaseMs \in LeaseDurs
<1>1. Listed(k) /\ Indexed(k)
  BY Types DEF IndexInv
<1> QED
  BY <1>1 DEF Listed, Indexed

\* A step that touches one unit keeps the others indexed.
LEMMA OneIndexed ==
  ASSUME StateInv, IndexInv, NEW k \in Keys, NEW v, units' = [units EXCEPT ![k] = v],
         Agree(eligible', eligible, k), Agree(pendingFlush', pendingFlush, k),
         Agree(leases', leases, k), now' = now, Indexed(k)'
  PROVE  IndexInv'
<1> SUFFICES ASSUME NEW j \in Keys PROVE Indexed(j)'
  BY DEF IndexInv
<1>1. CASE j = k
  BY <1>1
<1>2. CASE j # k
  <2>0. j \in Keys \ {k}
    BY <1>2
  <2>1. units \in [Keys -> Unit] /\ Indexed(j)
    BY Types DEF IndexInv
  <2>2. units'[j] = units[j]
    BY <1>2, <2>1
  <2>3. /\ (j \in DOMAIN eligible') <=> (j \in DOMAIN eligible)
        /\ (j \in DOMAIN pendingFlush') <=> (j \in DOMAIN pendingFlush)
        /\ (j \in DOMAIN leases') <=> (j \in DOMAIN leases)
        /\ (j \in DOMAIN eligible) => (eligible'[j] = eligible[j])
        /\ (j \in DOMAIN pendingFlush) => (pendingFlush'[j] = pendingFlush[j])
    BY <2>0 DEF Agree
  <2> QED
    BY <2>1, <2>2, <2>3 DEF Indexed
<1> QED
  BY <1>1, <1>2

\* Ack, Release and Fail leave their unit in one index at most.
LEMMA SettledIndex ==
  ASSUME StateInv, IndexInv, NEW k \in Keys, NEW t \in Clocks, NEW m, NEW v,
         units[k].lease # None, Settled(k, m, v, t), now' = now
  PROVE  IndexInv'
<1>1. /\ units' = [units EXCEPT ![k] = v] /\ UnitInv(v, arrived[k])
      /\ v.tasks # <<>> => v.leaseMs = units[k].leaseMs
  BY DEF Settled
<1>2. \/ v.tasks = <<>> /\ Unindexed(k)
      \/ /\ v.tasks # <<>> /\ v.lease = units[k].lease /\ Due(v, t)
         /\ leases' = ZAdd(leases, k, t + v.leaseMs) /\ UNCHANGED <<eligible, pendingFlush>>
      \/ v.tasks # <<>> /\ v.lease = None /\ Reindexed(k, v, t)
  BY DEF Settled
<1>3. /\ k \in DOMAIN leases /\ k \notin DOMAIN eligible /\ k \notin DOMAIN pendingFlush
      /\ units[k].leaseMs \in LeaseDurs
  BY HeldAlone
<1>4. units'[k] = v
  BY <1>1, Types
<1>5. v.flush \in Nat
  BY <1>1, UnitFields DEF UnitInv, WorkInv
<1>6. CASE v.tasks = <<>> /\ Unindexed(k)
  <2>1. /\ Agree(eligible', eligible, k) /\ Agree(pendingFlush', pendingFlush, k)
        /\ Agree(leases', leases, k)
        /\ k \notin DOMAIN eligible' /\ k \notin DOMAIN pendingFlush' /\ k \notin DOMAIN leases'
    BY <1>6, UnindexedStep
  <2>2. Indexed(k)'
    BY <2>1 DEF Indexed
  <2> QED
    BY <1>1, <2>1, <2>2, OneIndexed
<1>7. CASE /\ v.tasks # <<>> /\ v.lease = units[k].lease /\ Due(v, t)
           /\ leases' = ZAdd(leases, k, t + v.leaseMs) /\ UNCHANGED <<eligible, pendingFlush>>
  <2>1. /\ Agree(eligible', eligible, k) /\ Agree(pendingFlush', pendingFlush, k)
        /\ Agree(leases', leases, k)
    BY <1>7, Agreement
  <2>2. Indexed(k)'
    BY <1>1, <1>3, <1>4, <1>7 DEF Indexed
  <2> QED
    BY <1>1, <2>1, <2>2, OneIndexed
<1>8. CASE v.tasks # <<>> /\ v.lease = None /\ Reindexed(k, v, t)
  <2>1. /\ Agree(eligible', eligible, k) /\ Agree(pendingFlush', pendingFlush, k)
        /\ Agree(leases', leases, k) /\ k \notin DOMAIN leases'
        /\ Due(v, t) => eligible'[k] = v.flush /\ pendingFlush' = pendingFlush
        /\ ~Due(v, t) => pendingFlush'[k] = v.flush /\ eligible' = eligible
    BY <1>5, <1>8, ReindexedStep
  <2>2. CASE Due(v, t)
    <3>1. v.pendingCost >= Threshold \/ v.flush <= now
      <4>1. t \in Nat /\ t <= now /\ now \in Nat
        BY ClockType, Facts
      <4>2. v.pendingCost >= Threshold \/ v.flush <= t
        BY <2>2 DEF Due
      <4> QED
        BY <1>5, <4>1, <4>2
    <3>2. Indexed(k)'
      BY <1>3, <1>4, <2>1, <2>2, <3>1 DEF Indexed
    <3> QED
      BY <1>1, <2>1, <3>2, OneIndexed
  <2>3. CASE ~Due(v, t)
    <3>1. Indexed(k)'
      BY <1>3, <1>4, <2>1, <2>3 DEF Indexed
    <3> QED
      BY <1>1, <2>1, <3>1, OneIndexed
  <2> QED
    BY <2>2, <2>3
<1> QED
  BY <1>2, <1>6, <1>7, <1>8

\* So does luaEnqueue, unless it tops up a promoted unit.
LEMMA EnqueueIndex ==
  ASSUME StateInv, IndexInv, ~TopsUpPromoted,
         NEW k \in Keys, NEW c \in Costs, NEW t \in Clocks, Enqueue(k, c, t)
  PROVE  IndexInv'
<1>1. PICK e : e = [seq |-> units[k].nextSeq, payload |-> arrived[k] + 1, cost |-> c, ts |-> t]
  OBVIOUS
<1>2. PICK u, v : u = units[k] /\ v = Added(u, e)
  OBVIOUS
<1>3. /\ units' = [units EXCEPT ![k] = v] /\ arrived[k] < MaxTasks
      /\ arrived' = [arrived EXCEPT ![k] = @ + 1] /\ leases' = leases /\ now' = now
  BY <1>1, <1>2 DEF Enqueue
<1>4. \/ ~Free(v) /\ UNCHANGED <<eligible, pendingFlush>>
      \/ /\ Free(v) /\ v.pendingCost >= Threshold
         /\ eligible' = ZAdd(eligible, k, v.flush)
         /\ pendingFlush' = ZRem(pendingFlush, k)
      \/ /\ Free(v) /\ v.pendingCost < Threshold
         /\ pendingFlush' = ZAdd(pendingFlush, k, v.flush)
         /\ UNCHANGED eligible
  BY <1>1, <1>2 DEF Enqueue
<1>5. /\ UnitInv(u, arrived[k]) /\ arrived[k] \in Nat /\ MaxTasks \in Nat
      /\ arrived \in [Keys -> 0 .. MaxTasks] /\ Listed(k) /\ units \in [Keys -> Unit]
  BY <1>2, Facts, Types
<1>6. arrived[k] \in 0 .. (MaxTasks - 1) /\ t \in Nat /\ c \in Nat
  BY <1>3, <1>5, ClockType, ValkeyOptions
<1>7. PICK a \in 0 .. (MaxTasks - 1) : a = arrived[k]
  BY <1>6
<1>8. e = [seq |-> u.nextSeq, payload |-> a + 1, cost |-> c, ts |-> t]
  BY <1>1, <1>2, <1>7
<1>a. UnitInv(u, a)
  BY <1>5, <1>7
<1>9. v.lease = u.lease /\ v.leaseMs = u.leaseMs
  BY <1>2, <1>6, <1>8, <1>a, AddedInv
<1>10. units'[k] = v
  BY <1>3, <1>5
<1>11. /\ Agree(eligible', eligible, k) /\ Agree(pendingFlush', pendingFlush, k)
       /\ Agree(leases', leases, k)
  BY <1>3, <1>4, Agreement
<1>12. Indexed(k)'
  <2>1. CASE ~Free(v) /\ UNCHANGED <<eligible, pendingFlush>>
    <3>1. units[k].lease # None
      BY <1>2, <1>9, <2>1 DEF Free
    <3>2. /\ k \in DOMAIN leases /\ k \notin DOMAIN eligible /\ k \notin DOMAIN pendingFlush
          /\ units[k].leaseMs \in LeaseDurs
      BY <3>1, HeldAlone
    <3> QED
      BY <1>2, <1>3, <1>9, <1>10, <2>1, <3>2 DEF Indexed
  <2>2. CASE /\ Free(v) /\ v.pendingCost >= Threshold
             /\ eligible' = ZAdd(eligible, k, v.flush)
             /\ pendingFlush' = ZRem(pendingFlush, k)
    <3>1. k \notin DOMAIN leases'
      BY <1>2, <1>3, <1>5, <1>9, <2>2 DEF Free, Listed
    <3>2. eligible'[k] = v.flush
      BY <2>2 DEF ZAdd, ZAddAll
    <3>3. k \notin DOMAIN pendingFlush'
      BY <2>2 DEF ZRem, ZRemAll, Restrict
    <3> QED
      BY <1>10, <2>2, <3>1, <3>2, <3>3 DEF Indexed
  <2>3. CASE /\ Free(v) /\ v.pendingCost < Threshold
             /\ pendingFlush' = ZAdd(pendingFlush, k, v.flush)
             /\ UNCHANGED eligible
    <3>1. k \notin DOMAIN leases' /\ units[k].lease = None
      BY <1>2, <1>3, <1>5, <1>9, <2>3 DEF Free, Listed
    <3>2. pendingFlush'[k] = v.flush /\ k \in DOMAIN pendingFlush'
      BY <2>3 DEF ZAdd, ZAddAll
    <3>3. arrived'[k] > arrived[k]
      BY <1>3, <1>5
    <3>4. k \notin DOMAIN eligible'
      BY <2>3, <3>1, <3>2, <3>3 DEF TopsUpPromoted
    <3> QED
      BY <1>10, <3>1, <3>2, <3>4 DEF Indexed
  <2> QED
    BY <1>4, <2>1, <2>2, <2>3
<1> QED
  BY <1>3, <1>11, <1>12, OneIndexed

\* luaClaim takes its unit out of the only index it was in: it was free.
LEMMA ClaimIndex ==
  ASSUME StateInv, IndexInv,
         NEW c \in Callers, NEW d \in LeaseDurs, NEW t \in Clocks, NEW k \in Keys,
         Claim(c, d, t, k)
  PROVE  IndexInv' /\ units[k].lease = None
<1>1. PICK v : v = Leased(units[k], Token(c), d)
  OBVIOUS
<1>2. /\ units' = [units EXCEPT ![k] = v] /\ tokens[c[1]] < MaxClaims /\ k \in DOMAIN eligible
      /\ eligible' = ZRem(eligible, k) /\ leases' = ZAdd(leases, k, t + d)
      /\ pendingFlush' = pendingFlush /\ now' = now
  BY <1>1 DEF Claim, First
<1>3. WorkInv(units[k], arrived[k]) /\ Token(c) \in LeaseTokens /\ d \in Nat /\ Listed(k)
  BY <1>2, Facts, TokenType, ValkeyOptions
<1>4. v.leaseMs = d
  BY <1>1, <1>3, LeasedInv
<1>5. k \notin DOMAIN pendingFlush /\ k \notin DOMAIN leases
  BY <1>2 DEF IndexInv, Indexed
<1>6. units'[k] = v
  BY <1>2, Types
<1>7. k \notin DOMAIN eligible'
  BY <1>2 DEF ZRem, ZRemAll, Restrict
<1>8. Indexed(k)'
  BY <1>2, <1>4, <1>5, <1>6, <1>7 DEF Indexed
<1>9. /\ Agree(eligible', eligible, k) /\ Agree(pendingFlush', pendingFlush, k)
      /\ Agree(leases', leases, k)
  BY <1>2, Agreement
<1>10. IndexInv'
  BY <1>2, <1>8, <1>9, OneIndexed
<1>11. units[k].lease = None
  BY <1>3, <1>5 DEF Listed
<1> QED
  BY <1>10, <1>11

\* luaReap moves units from one index to the other.
LEMMA ReapIndex ==
  ASSUME StateInv, IndexInv, NEW t \in 0 .. MaxNow, ReapExpired(t)
  PROVE  IndexInv'
<1>1. PICK expired, ready, pending, due : Reaped(t, expired, ready, pending, due)
  BY ReapShape
<1>2. now' = now /\ t \in Nat /\ t <= now /\ now \in Nat
  BY Types, ValkeyBounds DEF ReapExpired
<1>3. /\ expired = {k \in DOMAIN leases : leases[k] <= t}
      /\ ready = {k \in expired : Due(units[k], t)}
      /\ DOMAIN pending = DOMAIN pendingFlush \cup (expired \ ready)
      /\ DOMAIN leases' = DOMAIN leases \ expired /\ due = {k \in DOMAIN pending : pending[k] <= t}
      /\ DOMAIN pendingFlush' = DOMAIN pending \ due
      /\ DOMAIN eligible' = DOMAIN eligible \cup ready \cup due
  BY <1>1 DEF Reaped
<1> SUFFICES ASSUME NEW j \in Keys PROVE Indexed(j)'
  BY DEF IndexInv
<1>4. Indexed(j) /\ WorkInv(units[j], arrived[j]) /\ units[j] \in Unit
  BY Facts DEF IndexInv
<1>5. PICK f \in Nat : f = units[j].flush
  BY <1>4, UnitFields
<1>6. /\ units'[j].flush = f /\ units'[j].pendingCost = units[j].pendingCost
      /\ units'[j].leaseMs = units[j].leaseMs
  <2>1. /\ Freed(units[j]).flush = units[j].flush
        /\ Freed(units[j]).pendingCost = units[j].pendingCost
        /\ Freed(units[j]).leaseMs = units[j].leaseMs
    BY <1>4, FreedInv
  <2>2. units'[j] = IF j \in expired THEN Freed(units[j]) ELSE units[j]
    BY <1>1 DEF Reaped
  <2> QED
    BY <1>5, <2>1, <2>2
<1>7. j \in DOMAIN pending => pending[j] = f
  <2>1. j \in DOMAIN pending =>
          pending[j] = IF j \in expired \ ready THEN units[j].flush ELSE pendingFlush[j]
    BY <1>1 DEF Reaped
  <2> QED
    BY <1>3, <1>4, <1>5, <2>1 DEF Indexed
<1>8. j \in DOMAIN eligible' =>
        /\ j \notin DOMAIN pendingFlush' /\ j \notin DOMAIN leases' /\ eligible'[j] = f
        /\ units[j].pendingCost >= Threshold \/ f <= now
  <2> SUFFICES ASSUME j \in DOMAIN eligible'
               PROVE  /\ j \notin DOMAIN pendingFlush' /\ j \notin DOMAIN leases'
                      /\ eligible'[j] = f
                      /\ units[j].pendingCost >= Threshold \/ f <= now
    OBVIOUS
  <2>1. eligible'[j] = IF j \in due THEN pending[j]
                       ELSE IF j \in ready THEN units[j].flush ELSE eligible[j]
    BY <1>1 DEF Reaped
  <2>2. CASE j \in due
    <3>1. pending[j] <= t /\ j \in DOMAIN pending
      BY <1>3, <2>2
    <3>2. f <= now
      BY <1>2, <1>7, <3>1
    <3>3. j \notin DOMAIN leases'
      BY <1>3, <1>4, <3>1 DEF Indexed
    <3> QED
      BY <1>3, <1>7, <2>1, <2>2, <3>1, <3>2, <3>3
  <2>3. CASE j \in ready /\ j \notin due
    <3>1. j \in DOMAIN leases /\ j \in expired /\ Due(units[j], t)
      BY <1>3, <2>3
    <3>2. j \notin DOMAIN pendingFlush
      BY <1>4, <3>1 DEF Indexed
    <3>3. units[j].pendingCost >= Threshold \/ f <= now
      <4>1. units[j].pendingCost >= Threshold \/ f <= t
        BY <1>5, <3>1 DEF Due
      <4> QED
        BY <1>2, <4>1
    <3> QED
      BY <1>3, <1>5, <2>1, <2>3, <3>1, <3>2, <3>3
  <2>4. CASE j \notin ready /\ j \notin due
    <3>1. j \in DOMAIN eligible
      BY <1>3, <2>4
    <3>2. /\ j \notin DOMAIN pendingFlush /\ j \notin DOMAIN leases
          /\ eligible[j] = f
          /\ units[j].pendingCost >= Threshold \/ f <= now
      BY <1>4, <1>5, <3>1 DEF Indexed
    <3> QED
      BY <1>3, <2>1, <2>4, <3>2
  <2> QED
    BY <2>2, <2>3, <2>4
<1>9. j \in DOMAIN pendingFlush' => j \notin DOMAIN leases' /\ pendingFlush'[j] = f
  <2> SUFFICES ASSUME j \in DOMAIN pendingFlush'
               PROVE  j \notin DOMAIN leases' /\ pendingFlush'[j] = f
    OBVIOUS
  <2>1. pendingFlush'[j] = pending[j] /\ j \in DOMAIN pending
    BY <1>1, <1>3 DEF Reaped
  <2>2. j \notin DOMAIN leases'
    BY <1>3, <1>4, <2>1 DEF Indexed
  <2> QED
    BY <1>7, <2>1, <2>2
<1>10. j \in DOMAIN leases' => units[j].leaseMs \in LeaseDurs
  BY <1>3, <1>4 DEF Indexed
<1> QED
  BY <1>2, <1>6, <1>8, <1>9, <1>10 DEF Indexed

\* A step that leaves the indexes' members and the units' clocks alone.
LEMMA SteadyIndex ==
  ASSUME StateInv, IndexInv, eligible' = eligible, pendingFlush' = pendingFlush,
         DOMAIN leases' = DOMAIN leases, now' \in Nat, now <= now',
         \A j \in Keys : units'[j].flush = units[j].flush,
         \A j \in Keys : units'[j].pendingCost = units[j].pendingCost,
         \A j \in Keys : units'[j].leaseMs = units[j].leaseMs
  PROVE  IndexInv'
<1> SUFFICES ASSUME NEW j \in Keys PROVE Indexed(j)'
  BY DEF IndexInv
<1>1. Indexed(j) /\ units[j] \in Unit /\ now \in Nat
  BY Facts DEF IndexInv
<1>2. units[j].flush \in Nat
  BY <1>1, UnitFields
<1>3. units[j].flush <= now => units[j].flush <= now'
  BY <1>1, <1>2
<1> QED
  BY <1>1, <1>3 DEF Indexed

\* XREADGROUP leaves what the indexes speak of alone.
LEMMA DeliverKeeps ==
  ASSUME StateInv, NEW c \in Callers, calls[c].step = "read",
         Deliver(calls[c].by.key, Fresh(c)), NEW j \in Keys
  PROVE  /\ units'[j].tasks = units[j].tasks /\ units'[j].lease = units[j].lease
         /\ units'[j].flush = units[j].flush /\ units'[j].leaseMs = units[j].leaseMs
         /\ units'[j].pendingCost = units[j].pendingCost
<1>1. PICK k \in Keys : k = calls[c].by.key
  BY DrainFacts
<1>2. PICK v : v = Delivered(units[k], Fresh(c))
  OBVIOUS
<1>3. units' = [units EXCEPT ![k] = v] /\ units \in [Keys -> Unit]
  BY <1>1, <1>2, Types DEF Deliver
<1>4. /\ v.tasks = units[k].tasks /\ v.lease = units[k].lease /\ v.leaseMs = units[k].leaseMs
      /\ v.flush = units[k].flush /\ v.pendingCost = units[k].pendingCost
  BY <1>1, <1>2, FreshFacts
<1>5. CASE j = k
  <2>1. units'[j] = v
    BY <1>3, <1>5
  <2> QED
    BY <1>4, <1>5, <2>1
<1>6. CASE j # k
  <2>1. units'[j] = units[j]
    BY <1>3, <1>6
  <2> QED
    BY <2>1
<1> QED
  BY <1>5, <1>6

\* The commands of Drain touch nothing but calls, faults and the group.
LEMMA DrainKeeps ==
  ASSUME StateInv, NEW c \in Callers,
         Autoclaim(c) \/ AutoclaimFails(c) \/ ReadGroup(c) \/ ReadGroupFails(c)
  PROVE  /\ UNCHANGED others
         /\ \A j \in Keys :
              /\ units'[j].tasks = units[j].tasks /\ units'[j].lease = units[j].lease
              /\ units'[j].flush = units[j].flush /\ units'[j].leaseMs = units[j].leaseMs
              /\ units'[j].pendingCost = units[j].pendingCost
<1>1. UNCHANGED others
  BY DEF Autoclaim, AutoclaimFails, ReadGroup, ReadGroupFails
<1>2. UNCHANGED units \/ (calls[c].step = "read" /\ Deliver(calls[c].by.key, Fresh(c)))
  BY DEF Autoclaim, AutoclaimFails, ReadGroup, ReadGroupFails
<1>3. CASE UNCHANGED units
  BY <1>1, <1>3
<1>4. CASE calls[c].step = "read" /\ Deliver(calls[c].by.key, Fresh(c))
  BY <1>1, <1>4, DeliverKeeps
<1> QED
  BY <1>2, <1>3, <1>4

\* Every step but a top-up keeps the indexes disjoint and their scores right.
LEMMA IndexStep ==
  ASSUME StateInv, IndexInv, [Next /\ ~TopsUpPromoted]_vars
  PROVE  IndexInv'
<1>0. now \in Nat /\ now <= now
  BY Types, ValkeyBounds
<1>1. ASSUME ~TopsUpPromoted,
             NEW t \in Clocks, NEW k \in Keys, NEW c \in Costs, Enqueue(k, c, t)
      PROVE  IndexInv'
  BY <1>1, EnqueueIndex
<1>2. ASSUME NEW t \in Clocks, NEW c \in Callers, NEW d \in LeaseDurs, NEW k \in Keys,
             Claim(c, d, t, k)
      PROVE  IndexInv'
  BY <1>2, ClaimIndex
<1>3. ASSUME NEW t \in Clocks, NEW h \in handles, NEW m, NEW v, Closing(h),
             Settled(h.key, m, v, t), now' = now
      PROVE  IndexInv'
  <2>1. units[h.key].lease # None /\ h.key \in Keys
    BY <1>3, ClosingStep
  <2> QED
    BY <1>3, <2>1, SettledIndex
<1>4. ASSUME NEW t \in Clocks, NEW h \in handles, NEW s \in Seqs, Ack(h, s, t)
      PROVE  IndexInv'
  <2>1. Closing(h) /\ now' = now
    BY <1>4 DEF Ack
  <2>2. PICK m, v : Settled(h.key, m, v, t)
    BY <1>4, AckShape
  <2> QED
    BY <1>3, <2>1, <2>2
<1>5. ASSUME NEW t \in Clocks, NEW h \in handles, NEW s \in Seqs, Fail(h, s, t)
      PROVE  IndexInv'
  <2>1. Closing(h) /\ now' = now
    BY <1>5 DEF Fail
  <2>2. PICK m, v : Settled(h.key, m, v, t)
    BY <1>5, FailShape
  <2> QED
    BY <1>3, <2>1, <2>2
<1>6. ASSUME NEW t \in Clocks, NEW h \in handles, Release(h, t) PROVE IndexInv'
  <2>1. Closing(h) /\ now' = now
    BY <1>6 DEF Release
  <2>2. PICK v : Settled(h.key, 0, v, t)
    BY <1>6, ReleaseShape
  <2> QED
    BY <1>3, <2>1, <2>2
<1>7. ASSUME NEW t \in Clocks, NEW h \in handles, NEW d \in LeaseDurs, Heartbeat(h, d, t)
      PROVE  IndexInv'
  <2>1. /\ UNCHANGED <<units, eligible, pendingFlush, now>> /\ Held(h)
        /\ leases' = ZAdd(leases, h.key, t + d)
    BY <1>7 DEF Heartbeat
  <2>2. h.key \in DOMAIN leases
    BY <2>1, HandleFacts
  <2>3. DOMAIN leases' = DOMAIN leases
    BY <2>1, <2>2 DEF ZAdd, ZAddAll
  <2> QED
    BY <1>0, <2>1, <2>3, SteadyIndex
<1>8. ASSUME UNCHANGED <<units, eligible, pendingFlush, leases, now>> PROVE IndexInv'
  BY <1>0, <1>8, SteadyIndex
<1>9. ASSUME NEW h \in handles, DrainCheck(h) PROVE IndexInv'
  BY <1>8, <1>9 DEF DrainCheck, others
<1>10. ASSUME NEW c \in Callers,
              Autoclaim(c) \/ AutoclaimFails(c) \/ ReadGroup(c) \/ ReadGroupFails(c)
       PROVE  IndexInv'
  <2>1. /\ UNCHANGED others
        /\ \A j \in Keys : units'[j].flush = units[j].flush
        /\ \A j \in Keys : units'[j].leaseMs = units[j].leaseMs
        /\ \A j \in Keys : units'[j].pendingCost = units[j].pendingCost
    BY <1>10, DrainKeeps
  <2>2. UNCHANGED <<eligible, pendingFlush, leases, now>>
    BY <2>1 DEF others
  <2> QED
    BY <1>0, <2>1, <2>2, SteadyIndex
<1>11. ASSUME NEW t \in 0 .. MaxNow, ReapExpired(t) PROVE IndexInv'
  BY <1>11, ReapIndex
<1>12. CASE Tick
  <2>1. UNCHANGED <<units, eligible, pendingFlush, leases>> /\ now' = now + 1
    BY <1>12 DEF Tick
  <2>2. now' \in Nat /\ now <= now'
    BY <1>0, <2>1
  <2> QED
    BY <2>1, <2>2, SteadyIndex
<1>13. CASE UNCHANGED vars
  BY <1>8, <1>13 DEF vars
<1> QED
  BY <1>1, <1>2, <1>4, <1>5, <1>6, <1>7, <1>9, <1>10, <1>11, <1>12, <1>13 DEF Next

\* At the start nothing is listed.
LEMMA IndexInit == Init => IndexInv
<1> SUFFICES ASSUME Init, NEW k \in Keys PROVE Indexed(k)
  BY DEF IndexInv
<1>1. DOMAIN eligible = {} /\ DOMAIN pendingFlush = {} /\ DOMAIN leases = {}
  BY DEF Init
<1> QED
  BY <1>1 DEF Indexed

\* Without top-ups the driver is still the driver.
LEMMA NoTopUpIsSpec == SpecNoTopUp => Spec
<1>1. [Next /\ ~TopsUpPromoted]_vars => [Next]_vars
  OBVIOUS
<1> QED
  BY <1>1, PTL DEF Spec, SpecNoTopUp

\* Both invariants hold while no producer tops up a promoted unit.
LEMMA IndexInvariance == SpecNoTopUp => [](StateInv /\ IndexInv)
<1>1. StateInv /\ IndexInv /\ [Next /\ ~TopsUpPromoted]_vars => IndexInv'
  BY IndexStep
<1> QED
  BY <1>1, IndexInit, Invariance, NoTopUpIsSpec, PTL DEF SpecNoTopUp

(***************************************************************************)
(* Only a claim gives a unit a lease that it did not have, and it gives it *)
(* the token that the caller's process rendered.                           *)
(***************************************************************************)
LEMMA LeaseMoves ==
  ASSUME StateInv, [Next]_vars, NEW k \in Keys, units'[k].lease # None,
         units'[k].lease # units[k].lease
  PROVE  \E c \in Callers, d \in LeaseDurs, t \in Clocks :
           Claim(c, d, t, k) /\ units'[k].lease = Token(c)
<1>0. units \in [Keys -> Unit]
  BY Types
<1>1. ASSUME NEW j \in Keys, NEW v, units' = [units EXCEPT ![j] = v],
             v.lease \in {None, units[j].lease}
      PROVE  FALSE
  <2>1. CASE j = k
    BY <1>0, <1>1, <2>1
  <2>2. CASE j # k
    BY <1>0, <1>1, <2>2
  <2> QED
    BY <2>1, <2>2
<1>2. ASSUME NEW t \in Clocks, NEW j \in Keys, NEW c \in Costs, Enqueue(j, c, t)
      PROVE  FALSE
  <2>1. PICK e : e = [seq |-> units[j].nextSeq, payload |-> arrived[j] + 1, cost |-> c, ts |-> t]
    OBVIOUS
  <2>2. PICK u, v : u = units[j] /\ v = Added(u, e)
    OBVIOUS
  <2>3. units' = [units EXCEPT ![j] = v]
    BY <1>2, <2>1, <2>2 DEF Enqueue
  <2>4. u \in Unit
    BY <1>0, <2>2
  <2>5. v.lease = u.lease
    BY <2>2, <2>4 DEF Added, Unit
  <2> QED
    BY <1>1, <2>2, <2>3, <2>5
<1>3. ASSUME NEW t \in Clocks, NEW c \in Callers, NEW d \in LeaseDurs, NEW j \in Keys,
             Claim(c, d, t, j)
      PROVE  j = k /\ units'[k].lease = Token(c)
  <2>1. PICK v : v = Leased(units[j], Token(c), d)
    OBVIOUS
  <2>2. units' = [units EXCEPT ![j] = v] /\ tokens[c[1]] < MaxClaims
    BY <1>3, <2>1 DEF Claim
  <2>3. WorkInv(units[j], arrived[j]) /\ Token(c) \in LeaseTokens /\ d \in Nat
    BY <2>2, Facts, TokenType, ValkeyOptions
  <2>4. v.lease = Token(c)
    BY <2>1, <2>3, LeasedInv
  <2>5. j = k
    BY <1>0, <2>2
  <2> QED
    BY <1>0, <2>2, <2>4, <2>5
<1>4. ASSUME NEW t \in Clocks, NEW h \in handles, NEW m, NEW v, Settled(h.key, m, v, t)
      PROVE  FALSE
  <2>1. /\ units' = [units EXCEPT ![h.key] = v] /\ h.key \in Keys
        /\ UnitInv(v, arrived[h.key])
    BY <1>4, HandleFacts DEF Settled
  <2>2. v.tasks = <<>> => v.lease = None
    BY <2>1 DEF UnitInv, NoUnit
  <2>3. v.lease \in {None, units[h.key].lease}
    BY <1>4, <2>2 DEF Settled
  <2> QED
    BY <1>1, <2>1, <2>3
<1>5. ASSUME NEW t \in Clocks, NEW h \in handles, NEW s \in Seqs, Ack(h, s, t) \/ Fail(h, s, t)
      PROVE  FALSE
  <2>1. PICK m, v : Settled(h.key, m, v, t)
    BY <1>5, AckShape, FailShape
  <2> QED
    BY <1>4, <2>1
<1>6. ASSUME NEW t \in Clocks, NEW h \in handles, Release(h, t) PROVE FALSE
  <2>1. PICK v : Settled(h.key, 0, v, t)
    BY <1>6, ReleaseShape
  <2> QED
    BY <1>4, <2>1
<1>7. ASSUME UNCHANGED units PROVE FALSE
  BY <1>7
<1>8. ASSUME NEW t \in Clocks, NEW h \in handles, NEW d \in LeaseDurs, Heartbeat(h, d, t)
      PROVE  FALSE
  BY <1>7, <1>8 DEF Heartbeat
<1>9. ASSUME NEW h \in handles, DrainCheck(h) PROVE FALSE
  BY <1>7, <1>9 DEF DrainCheck
<1>10. ASSUME NEW c \in Callers,
              Autoclaim(c) \/ AutoclaimFails(c) \/ ReadGroup(c) \/ ReadGroupFails(c)
       PROVE  FALSE
  BY <1>10, DrainKeeps
<1>11. ASSUME NEW t \in 0 .. MaxNow, ReapExpired(t) PROVE FALSE
  <2>1. PICK expired : units' = [j \in Keys |-> IF j \in expired THEN Freed(units[j])
                                                ELSE units[j]]
    BY <1>11 DEF ReapExpired
  <2>2. Freed(units[k]).lease = None
    BY <1>0 DEF Freed, Unit
  <2> QED
    BY <2>1, <2>2
<1>12. CASE Tick
  BY <1>7, <1>12 DEF Tick
<1>13. CASE UNCHANGED vars
  BY <1>7, <1>13 DEF vars
<1> QED
  BY <1>2, <1>3, <1>5, <1>6, <1>8, <1>9, <1>10, <1>11, <1>12, <1>13 DEF Next

(***************************************************************************)
(* I2 while no producer tops up a promoted unit: a lease is only granted on*)
(* a unit that nobody holds.  This is the one way in which luaEnqueue can  *)
(* make luaClaim take a unit from its holder.                              *)
(***************************************************************************)
THEOREM ClaimsTakeFree == SpecNoTopUp => ClaimTakesFree
<1> DEFINE A == \A k \in Keys : units[k].lease # None =>
                  units'[k].lease \in {None, units[k].lease}
<1>1. ASSUME StateInv, IndexInv, [Next /\ ~TopsUpPromoted]_vars PROVE A
  <2> SUFFICES ASSUME NEW k \in Keys, units[k].lease # None,
                      units'[k].lease # None, units'[k].lease # units[k].lease
               PROVE  FALSE
    OBVIOUS
  <2>1. [Next]_vars
    BY <1>1
  <2>2. PICK c \in Callers, d \in LeaseDurs, t \in Clocks : Claim(c, d, t, k)
    BY <1>1, <2>1, LeaseMoves
  <2> QED
    BY <1>1, <2>2, ClaimIndex
<1>2. StateInv /\ IndexInv /\ [Next /\ ~TopsUpPromoted]_vars => [A]_vars
  BY <1>1
<1> QED
  BY <1>2, IndexInvariance, PTL DEF SpecNoTopUp, ClaimTakesFree

(***************************************************************************)
(* Age-fair claim, for tasks that cost something and while no producer tops*)
(* up a promoted unit: the unit ZPOPMIN takes has the oldest head of all   *)
(* free units worth T (luaClaim).                                          *)
(***************************************************************************)
THEOREM ClaimsAreAgeFair ==
  ASSUME 0 \notin Costs
  PROVE  SpecNoTopUp => AgeFairClaim
<1> DEFINE A == \A k \in Keys :
                  (units[k].lease = None /\ units'[k].lease # None) =>
                    \A j \in Keys :
                      (units[j].lease = None /\ units[j].tasks # <<>> /\ Cost(units[j].tasks) >= Threshold)
                        => units[k].tasks[1].ts <= units[j].tasks[1].ts
<1>1. ASSUME StateInv, IndexInv, ClockInv, [Next /\ ~TopsUpPromoted]_vars PROVE A
  <2> SUFFICES ASSUME NEW k \in Keys, units[k].lease = None, units'[k].lease # None,
                      NEW j \in Keys, units[j].lease = None, units[j].tasks # <<>>,
                      Cost(units[j].tasks) >= Threshold
               PROVE  units[k].tasks[1].ts <= units[j].tasks[1].ts
    OBVIOUS
  <2>1. [Next]_vars
    BY <1>1
  <2>2. PICK c \in Callers, d \in LeaseDurs, t \in Clocks : Claim(c, d, t, k)
    BY <1>1, <2>1, LeaseMoves
  <2>3. First(k)
    BY <2>2 DEF Claim
  <2>4. k \in DOMAIN eligible /\ Listed(k) /\ Listed(j) /\ UnitInv(units[j], arrived[j])
        /\ units[k] \in Unit /\ units[j] \in Unit
    BY <1>1, <2>3, Facts DEF First
  <2>5. units[k].tasks # <<>> /\ j \in DOMAIN eligible
    BY <2>4 DEF Listed, UnitInv, WorkInv
  <2>6. eligible[k] = units[k].flush /\ eligible[j] = units[j].flush
    BY <1>1, <2>4, <2>5 DEF IndexInv, Indexed
  <2>7. /\ units[k].flush = units[k].tasks[1].ts + MaxWait
        /\ units[j].flush = units[j].tasks[1].ts + MaxWait
    BY <1>1, <2>5 DEF ClockInv, Clocked
  <2>8. PICK x \in Nat, y \in Nat, w \in Nat :
          x = units[k].tasks[1].ts /\ y = units[j].tasks[1].ts /\ w = MaxWait
    <3>1. units[k].tasks[1].ts \in Nat
      BY <2>4, <2>5, UnitFields
    <3>2. units[j].tasks[1].ts \in Nat
      BY <2>4, UnitFields
    <3> QED
      BY <3>1, <3>2, ValkeyOptions
  <2>9. CASE j = k
    BY <2>8, <2>9
  <2>10. CASE j # k
    <3>1. eligible[k] < eligible[j] \/ eligible[k] = eligible[j]
      BY <2>3, <2>5, <2>10 DEF First
    <3>2. x + w < y + w \/ x + w = y + w
      BY <2>6, <2>7, <2>8, <3>1
    <3>3. x <= y
      BY <3>2
    <3> QED
      BY <2>8, <3>3
  <2> QED
    BY <2>9, <2>10
<1>2. StateInv /\ IndexInv /\ ClockInv /\ [Next /\ ~TopsUpPromoted]_vars => [A]_vars
  BY <1>1
<1>3. StateInv /\ ClockInv /\ [Next]_vars => ClockInv'
  BY ClockStep
<1>4. AgeFairClaim <=> [][A]_vars
  BY DEF AgeFairClaim
<1> QED
  BY <1>2, <1>3, <1>4, ClockInit, IndexInvariance, NoTopUpIsSpec, PTL DEF SpecNoTopUp, Spec

-----------------------------------------------------------------------------
(***************************************************************************)
(* Tokens.  They are rendered from a counter of the process and the id of a*)
(* worker, ids that every process uses alike, so what follows is about one *)
(* process: no token that is out exceeds its counter.                      *)
(***************************************************************************)
OneProcess == \A p, q \in Procs : p = q

TokenInv ==
  \A p \in Procs :
    /\ \A h \in handles : h.lease[1] <= tokens[p]
    /\ \A k \in Keys : units[k].lease # None => units[k].lease[1] <= tokens[p]

\* Only a claim renders a token and hands it out.
LEMMA HandleMoves ==
  ASSUME [Next]_vars
  PROVE  \/ UNCHANGED <<tokens, handles>>
         \/ \E c \in Callers, d \in LeaseDurs, t \in Clocks, k \in Keys : Claim(c, d, t, k)
<1>1. ASSUME NEW t \in Clocks, NEW k \in Keys, NEW c \in Costs, Enqueue(k, c, t)
      PROVE  UNCHANGED <<tokens, handles>>
  BY <1>1 DEF Enqueue
<1>2. ASSUME NEW t \in Clocks, NEW h \in handles, NEW s \in Seqs, Ack(h, s, t) \/ Fail(h, s, t)
      PROVE  UNCHANGED <<tokens, handles>>
  BY <1>2 DEF Ack, Fail
<1>3. ASSUME NEW t \in Clocks, NEW h \in handles, Release(h, t)
      PROVE  UNCHANGED <<tokens, handles>>
  BY <1>3 DEF Release
<1>4. ASSUME NEW t \in Clocks, NEW h \in handles, NEW d \in LeaseDurs, Heartbeat(h, d, t)
      PROVE  UNCHANGED <<tokens, handles>>
  BY <1>4 DEF Heartbeat
<1>5. ASSUME NEW h \in handles, DrainCheck(h) PROVE UNCHANGED <<tokens, handles>>
  BY <1>5 DEF DrainCheck, others
<1>6. ASSUME NEW c \in Callers,
             Autoclaim(c) \/ AutoclaimFails(c) \/ ReadGroup(c) \/ ReadGroupFails(c)
      PROVE  UNCHANGED <<tokens, handles>>
  BY <1>6 DEF Autoclaim, AutoclaimFails, ReadGroup, ReadGroupFails, others
<1>7. ASSUME NEW t \in 0 .. MaxNow, ReapExpired(t) PROVE UNCHANGED <<tokens, handles>>
  BY <1>7 DEF ReapExpired
<1>8. CASE Tick
  BY <1>8 DEF Tick
<1>9. CASE UNCHANGED vars
  BY <1>9 DEF vars
<1> QED
  BY <1>1, <1>2, <1>3, <1>4, <1>5, <1>6, <1>7, <1>8, <1>9 DEF Next

\* A fresh token is above every token that is out.
LEMMA TokenIsNew ==
  ASSUME StateInv, TokenInv, OneProcess, NEW c \in Callers, tokens[c[1]] < MaxClaims
  PROVE  /\ \A h \in handles : h.lease # Token(c)
         /\ \A k \in Keys : units[k].lease # Token(c)
<1>1. c[1] \in Procs
  BY DEF Callers
<1>2. PICK n \in Nat : n = tokens[c[1]]
  BY <1>1, Types, ValkeyBounds
<1>3. Token(c)[1] = n + 1
  BY <1>2 DEF Token
<1>4. ASSUME NEW h \in handles PROVE h.lease # Token(c)
  <2>1. h.lease[1] <= n
    BY <1>1, <1>2 DEF TokenInv
  <2>2. h.lease[1] \in Nat
    BY HandleFacts, ValkeyBounds DEF LeaseTokens
  <2> QED
    BY <1>3, <2>1, <2>2
<1>5. ASSUME NEW k \in Keys, units[k].lease = Token(c) PROVE FALSE
  <2>0. Token(c) # None
    BY TokenType
  <2>1. units[k].lease[1] <= n
    BY <1>1, <1>2, <1>5, <2>0 DEF TokenInv
  <2>2. n + 1 <= n
    BY <1>3, <1>5, <2>1
  <2> QED
    BY <2>2
<1> QED
  BY <1>4, <1>5

\* With one process every step keeps tokens at or below the counter.
LEMMA TokenStep ==
  ASSUME StateInv, TokenInv, OneProcess, [Next]_vars
  PROVE  TokenInv'
<1> SUFFICES ASSUME NEW p \in Procs
             PROVE  /\ \A h \in handles' : h.lease[1] <= tokens'[p]
                    /\ \A k \in Keys : units'[k].lease # None => units'[k].lease[1] <= tokens'[p]
  BY DEF TokenInv
<1>1. tokens \in [Procs -> 0 .. MaxClaims] /\ MaxClaims \in Nat
  BY Types, ValkeyBounds
<1>2. PICK n \in Nat : n = tokens[p]
  BY <1>1
<1>3. /\ \A h \in handles : h.lease[1] <= n
      /\ \A k \in Keys : units[k].lease # None => units[k].lease[1] <= n
  BY <1>2 DEF TokenInv
<1>4. \A h \in handles : h.lease[1] \in Nat
  BY HandleFacts, ValkeyBounds DEF LeaseTokens
<1>5. \A k \in Keys : units[k].lease # None => units[k].lease[1] \in Nat
  <2> SUFFICES ASSUME NEW k \in Keys, units[k].lease # None PROVE units[k].lease[1] \in Nat
    OBVIOUS
  <2>1. units[k].lease \in LeaseTokens
    BY Facts, UnitFields
  <2> QED
    BY <2>1, ValkeyBounds DEF LeaseTokens
<1>6. CASE \E c \in Callers, d \in LeaseDurs, t \in Clocks, k \in Keys : Claim(c, d, t, k)
  <2>1. PICK c \in Callers, d \in LeaseDurs, t \in Clocks, k \in Keys : Claim(c, d, t, k)
    BY <1>6
  <2>2. c[1] = p
    BY DEF Callers, OneProcess
  <2>3. /\ tokens' = [tokens EXCEPT ![c[1]] = @ + 1] /\ tokens[c[1]] < MaxClaims
        /\ handles' = handles \cup {[key |-> k, by |-> c, lease |-> Token(c)]}
        /\ units' = [units EXCEPT ![k] = Leased(@, Token(c), d)]
    BY <2>1 DEF Claim
  <2>4. tokens'[p] = n + 1
    BY <1>1, <1>2, <2>2, <2>3
  <2>5. Token(c)[1] = n + 1
    BY <1>2, <2>2 DEF Token
  <2>6. ASSUME NEW h \in handles' PROVE h.lease[1] <= n + 1
    <3>1. CASE h \in handles
      <4>1. PICK x \in Nat : x = h.lease[1]
        BY <1>4, <3>1
      <4>2. x <= n
        BY <1>3, <3>1, <4>1
      <4>3. x <= n + 1
        BY <4>2
      <4> QED
        BY <4>1, <4>3
    <3>2. CASE h \notin handles
      <4>1. h.lease = Token(c)
        BY <2>3, <3>2
      <4>2. n + 1 <= n + 1
        OBVIOUS
      <4> QED
        BY <2>5, <4>1, <4>2
    <3> QED
      BY <3>1, <3>2
  <2>7. ASSUME NEW j \in Keys, units'[j].lease # None PROVE units'[j].lease[1] <= n + 1
    <3>1. CASE j = k
      <4>1. WorkInv(units[k], arrived[k]) /\ Token(c) \in LeaseTokens /\ d \in Nat
        BY <2>3, Facts, TokenType, ValkeyOptions
      <4>0. PICK v : v = Leased(units[k], Token(c), d)
        OBVIOUS
      <4>a. units'[j] = v
        BY <2>3, <3>1, <4>0, Types
      <4>2. units'[j].lease = Token(c)
        BY <4>0, <4>a, <4>1, LeasedInv
      <4>3. n + 1 <= n + 1
        OBVIOUS
      <4> QED
        BY <2>5, <4>2, <4>3
    <3>2. CASE j # k
      <4>1. units'[j] = units[j]
        BY <2>3, <3>2, Types
      <4>2. PICK x \in Nat : x = units[j].lease[1]
        BY <1>5, <2>7, <4>1
      <4>3. x <= n
        BY <1>3, <2>7, <4>1, <4>2
      <4>4. x <= n + 1
        BY <4>3
      <4> QED
        BY <4>1, <4>2, <4>4
    <3> QED
      BY <3>1, <3>2
  <2> QED
    BY <2>4, <2>6, <2>7
<1>7. CASE /\ UNCHANGED <<tokens, handles>>
           /\ ~\E c \in Callers, d \in LeaseDurs, t \in Clocks, k \in Keys : Claim(c, d, t, k)
  <2>1. ASSUME NEW k \in Keys, units'[k].lease # None PROVE units'[k].lease = units[k].lease
    BY <1>7, <2>1, LeaseMoves
  <2> QED
    BY <1>2, <1>3, <1>7, <2>1
<1> QED
  BY <1>6, <1>7, HandleMoves

\* At the start no token is out.
LEMMA TokenInit == Init => TokenInv
<1> SUFFICES ASSUME Init PROVE TokenInv
  OBVIOUS
<1>1. handles = {} /\ \A k \in Keys : units[k].lease = None
  BY DEF Init, NoUnit
<1> QED
  BY <1>1 DEF TokenInv

(***************************************************************************)
(* With one process, a handle that stopped being valid is never accepted   *)
(* again, whoever claims the unit later (Claim's token, the lease check of *)
(* every script).                                                          *)
(***************************************************************************)
THEOREM LostForGood ==
  ASSUME OneProcess
  PROVE  Spec => LostStaysLost
<1> DEFINE A == \A h \in handles : ~Held(h) => ~Held(h)'
<1>1. ASSUME StateInv, TokenInv, [Next]_vars PROVE A
  <2> SUFFICES ASSUME NEW h \in handles, ~Held(h), units'[h.key].lease = h.lease PROVE FALSE
    BY DEF Held
  <2>1. h.key \in Keys /\ h.lease # None /\ units[h.key].lease # h.lease
    BY <1>1, HandleFacts, ValkeyNone DEF Held
  <2>2. PICK c \in Callers, d \in LeaseDurs, t \in Clocks :
          Claim(c, d, t, h.key) /\ units'[h.key].lease = Token(c)
    BY <1>1, <2>1, LeaseMoves
  <2>3. tokens[c[1]] < MaxClaims
    BY <2>2 DEF Claim
  <2> QED
    BY <1>1, <2>2, <2>3, TokenIsNew
<1>2. StateInv /\ TokenInv /\ [Next]_vars => [A]_vars
  BY <1>1
<1>3. StateInv /\ TokenInv /\ [Next]_vars => TokenInv'
  BY TokenStep
<1>4. LostStaysLost <=> [][A]_vars
  BY DEF LostStaysLost
<1> QED
  BY <1>2, <1>3, <1>4, TokenInit, Invariance, PTL DEF Spec

-----------------------------------------------------------------------------
(***************************************************************************)
(* The driver implements QueueContract.  The contract's variables are given*)
(* names; a first group of lemmas says which facts about them make a step a*)
(* step of the contract.                                                   *)
(***************************************************************************)
Queues == [k \in Keys |-> Stripped(units[k].tasks)]
Ages == [k \in Keys |-> Aged(units[k].tasks)]
Holders == [k \in Keys |-> units[k].lease]
Lapsed == {k \in DOMAIN leases : leases[k] <= now}
Copies == {[key |-> h.key, lease |-> h.lease] : h \in handles}
Dead == {[key |-> dlq[i].key, task |-> TaskOf(dlq[i].task)] : i \in DOMAIN dlq}

-----------------------------------------------------------------------------
(* The contract, in terms of these. *)

\* The instance's own copy of Cardinality is Cardinality.
LEMMA SameCardinality ==
  ASSUME NEW S
  PROVE  Contract!Cardinality(S) = Cardinality(S)
  BY DEF Contract!Cardinality, Cardinality

\* The contract's words for FIFOs are those of WorkUnits.
LEMMA SameWords ==
  ASSUME NEW ts
  PROVE  /\ Contract!Cost(ts) = Cost(ts) /\ Contract!Payloads(ts) = Payloads(ts)
         /\ \A n : Contract!Suffix(ts, n) = Suffix(ts, n)
<1>1. Contract!CostUnits(ts) = CostUnits(ts)
  BY DEF Contract!CostUnits, CostUnits
<1>2. Contract!Cost(ts) = Cost(ts)
  BY <1>1, SameCardinality DEF Contract!Cost, Cost
<1>3. Contract!Payloads(ts) = Payloads(ts)
  BY DEF Contract!Payloads, Payloads
<1>4. ASSUME NEW n PROVE Contract!Suffix(ts, n) = Suffix(ts, n)
  BY DEF Contract!Suffix, Suffix
<1> QED
  BY <1>2, <1>3, <1>4

\* The gate of the contract.
Worth(ts, old) == ts # <<>> /\ (Cost(ts) >= Threshold \/ ts[1].payload \in old)

\* Eligible of the contract is Worth.
LEMMA SameGate ==
  ASSUME NEW ts, NEW old
  PROVE  Contract!Eligible(ts, old) <=> Worth(ts, old)
  BY SameWords DEF Contract!Eligible, Worth

\* What makes a step an Enqueue of the contract.
LEMMA ContractEnqueue ==
  ASSUME NEW k \in Keys, NEW c \in Costs, NEW s \in 0 .. (MaxTasks - 1),
         arrived[k] < MaxTasks,
         \A i \in DOMAIN Queues[k] : Queues[k][i].seq < s,
         arrived' = [arrived EXCEPT ![k] = arrived[k] + 1],
         Queues' = [Queues EXCEPT ![k] =
                     Append(Queues[k], [seq |-> s, payload |-> arrived[k] + 1, cost |-> c])],
         UNCHANGED <<Ages, Holders, Lapsed, Copies, Dead>>
  PROVE  Contract!Next
<1>1. Contract!Enqueue(k, c, s)
  BY DEF Contract!Enqueue, Contract!HandlesAmong,
         Queues, Ages, Holders, Lapsed, Copies, Dead, Aged, Stripped
<1> QED
  BY <1>1 DEF Contract!Next

\* What makes a step a Claim of the contract.
LEMMA ContractClaim ==
  ASSUME NEW k \in Keys, NEW t \in LeaseTokens,
         Holders[k] = None, Worth(Queues[k], Ages[k]),
         \A j \in Keys : Holders[j] # t, \A h \in Copies : h.lease # t,
         Holders' = [Holders EXCEPT ![k] = t],
         Copies' = Copies \cup {[key |-> k, lease |-> t]},
         UNCHANGED <<Queues, arrived, Ages, Lapsed, Dead>>
  PROVE  Contract!Next
<1>0. Contract!Eligible(Queues[k], Ages[k])
  BY SameGate
<1>1. Contract!Claim(k, t)
  BY <1>0 DEF Contract!Claim, Contract!HandlesAmong,
         Queues, Ages, Holders, Lapsed, Copies, Dead, Aged, Stripped
<1> QED
  BY <1>1 DEF Contract!Next

\* The effects Ack, Release and Fail share.
Drops(h, n) ==
  /\ Queues' = [Queues EXCEPT ![h.key] = Suffix(Queues[h.key], n)]
  /\ Ages' = [Ages EXCEPT ![h.key] = Ages[h.key] \cap Payloads(Suffix(Queues[h.key], n))]

Gives(h) == Holders' = [Holders EXCEPT ![h.key] = None] /\ Lapsed' = Lapsed \ {h.key}

\* What makes a step drop the head of a unit.
LEMMA ContractDrop ==
  ASSUME NEW h, NEW n, Drops(h, n)
  PROVE  Contract!DropHead(h, n)
<1> DEFINE rest == Suffix(Queues[h.key], n)
<1>1. Contract!Suffix(Queues[h.key], n) = rest /\ Contract!Payloads(rest) = Payloads(rest)
  BY SameWords
<1>2. /\ Queues' = [Queues EXCEPT ![h.key] = Contract!Suffix(Queues[h.key], n)]
      /\ Ages' = [Ages EXCEPT ![h.key] =
                    Ages[h.key] \cap Contract!Payloads(Contract!Suffix(Queues[h.key], n))]
  BY <1>1 DEF Drops
<1> HIDE DEF rest
<1> QED
  BY <1>2 DEF Contract!DropHead, Queues, Ages, Aged, Stripped

\* What makes a step an Ack of the contract, the lease kept or given up.
LEMMA ContractAck ==
  ASSUME NEW h \in Copies, NEW n \in 0 .. MaxTasks,
         Holders[h.key] = h.lease, n <= Len(Queues[h.key]), Drops(h, n),
         \/ /\ Worth(Suffix(Queues[h.key], n), Ages[h.key])
            /\ Lapsed' = Lapsed \ {h.key} /\ UNCHANGED Holders
         \/ ~Worth(Suffix(Queues[h.key], n), {}) /\ Gives(h),
         UNCHANGED <<arrived, Copies, Dead>>
  PROVE  Contract!Next
<1>1. Contract!Held(h)
  BY DEF Contract!Held, Holders
<1>2. Contract!DropHead(h, n)
  BY ContractDrop
<1>3. \/ Contract!StillEligible(h, n) /\ Lapsed' = Lapsed \ {h.key} /\ UNCHANGED Holders
      \/ ~Contract!StillWorthT(h, n) /\ Contract!Free(h)
  <2>1. CASE /\ Worth(Suffix(Queues[h.key], n), Ages[h.key])
             /\ Lapsed' = Lapsed \ {h.key} /\ UNCHANGED Holders
    <3>1. Contract!Suffix(Queues[h.key], n) = Suffix(Queues[h.key], n)
      BY SameWords
    <3>2. Contract!Eligible(Suffix(Queues[h.key], n), Ages[h.key])
      BY <2>1, SameGate
    <3>3. Contract!StillEligible(h, n)
      BY <3>1, <3>2 DEF Contract!StillEligible, Queues, Ages, Aged, Stripped
    <3> QED
      BY <2>1, <3>3
  <2>2. CASE ~Worth(Suffix(Queues[h.key], n), {}) /\ Gives(h)
    <3>1. Contract!Suffix(Queues[h.key], n) = Suffix(Queues[h.key], n)
      BY SameWords
    <3>2. ~Contract!Eligible(Suffix(Queues[h.key], n), {})
      BY <2>2, SameGate
    <3>3. ~Contract!StillWorthT(h, n)
      BY <3>1, <3>2 DEF Contract!StillWorthT, Queues, Stripped
    <3>4. Contract!Free(h)
      BY <2>2 DEF Contract!Free, Gives, Holders, Lapsed
    <3> QED
      BY <3>3, <3>4
  <2> QED
    BY <2>1, <2>2
<1>4. Contract!Ack(h, n)
  BY <1>1, <1>2, <1>3 DEF Contract!Ack, Contract!HandlesAmong,
     Queues, Holders, Lapsed, Copies, Dead, Stripped
<1> QED
  BY <1>4 DEF Contract!Next, Copies

\* What makes a step a Release of the contract.
LEMMA ContractRelease ==
  ASSUME NEW h \in Copies, Holders[h.key] = h.lease, Gives(h),
         UNCHANGED <<Queues, arrived, Ages, Copies, Dead>>
  PROVE  Contract!Next
<1>1. Contract!Release(h)
  BY DEF Contract!Release, Contract!Held, Contract!Free, Gives, Contract!HandlesAmong,
         Queues, Ages, Holders, Lapsed, Copies, Dead, Aged, Stripped
<1> QED
  BY <1>1 DEF Contract!Next, Copies

\* What makes a step a Heartbeat of the contract.
LEMMA ContractHeartbeat ==
  ASSUME NEW h \in Copies, Holders[h.key] = h.lease, Lapsed' = Lapsed \ {h.key},
         UNCHANGED <<Queues, arrived, Ages, Holders, Copies, Dead>>
  PROVE  Contract!Next
<1>1. Contract!Heartbeat(h)
  BY DEF Contract!Heartbeat, Contract!Held, Contract!HandlesAmong,
         Queues, Ages, Holders, Lapsed, Copies, Dead, Aged, Stripped
<1> QED
  BY <1>1 DEF Contract!Next, Copies

\* What makes a step a dead letter of the contract.
LEMMA ContractDeadLetter ==
  ASSUME NEW h \in Copies, Holders[h.key] = h.lease, Queues[h.key] # <<>>,
         Drops(h, 1), Gives(h),
         Dead' = Dead \cup {[key |-> h.key, task |-> Queues[h.key][1]]},
         UNCHANGED <<arrived, Copies>>
  PROVE  Contract!Next
<1> USE DEF Queues, Ages, Holders, Lapsed, Copies, Dead, Aged, Stripped
<1>1. Contract!DropHead(h, 1)
  BY ContractDrop
<1>2. Contract!DeadLetterHead(h)
  BY <1>1 DEF Contract!DeadLetterHead, Contract!Held, Contract!Free, Gives,
              Contract!HandlesAmong
<1> QED
  BY <1>2 DEF Contract!Next

\* What makes a step reclaim leases that ran out.
LEMMA ContractReclaim ==
  ASSUME NEW S \in SUBSET Keys, S \subseteq Lapsed,
         Holders' = [k \in Keys |-> IF k \in S THEN None ELSE Holders[k]],
         Lapsed' = Lapsed \ S,
         UNCHANGED <<Queues, arrived, Ages, Copies, Dead>>
  PROVE  Contract!Next
<1>1. Contract!Reclaim(S)
  BY DEF Contract!Reclaim, Contract!HandlesAmong,
         Queues, Ages, Holders, Lapsed, Copies, Dead, Aged, Stripped
<1> QED
  BY <1>1 DEF Contract!Next

\* What makes a step the passing of time.
LEMMA ContractElapse ==
  ASSUME Ages' \in [Keys -> SUBSET (1 .. MaxTasks)],
         \A k \in Keys : Ages[k] \subseteq Ages'[k] /\ Ages'[k] \subseteq Payloads(Queues[k]),
         Lapsed' \in SUBSET {k \in Keys : Holders[k] # None}, Lapsed \subseteq Lapsed',
         UNCHANGED <<Queues, arrived, Holders, Copies, Dead>>
  PROVE  Contract!Next
<1>1. Contract!Elapse
  BY ZenonT(60), SameWords DEF Contract!Elapse, Contract!HandlesAmong,
         Queues, Ages, Holders, Lapsed, Copies, Dead, Aged, Stripped
<1> QED
  BY <1>1 DEF Contract!Next

-----------------------------------------------------------------------------
(* What the scripts do to the contract's variables. *)

\* A stream, as the contract sees it.
LEMMA StrippedStream ==
  ASSUME NEW ts \in Seq(Entry)
  PROVE  /\ Stripped(ts) \in Seq(Task) /\ Len(Stripped(ts)) = Len(ts) /\ Len(ts) \in Nat
         /\ DOMAIN ts = 1 .. Len(ts) /\ DOMAIN Stripped(ts) = 1 .. Len(ts)
         /\ \A i \in 1 .. Len(ts) : /\ ts[i] \in Entry /\ ts[i].ts \in Nat
                                    /\ Stripped(ts)[i] = TaskOf(ts[i])
                                    /\ Stripped(ts)[i].seq = ts[i].seq
                                    /\ Stripped(ts)[i].payload = ts[i].payload
         /\ Cost(Stripped(ts)) = Cost(ts)
<1>1. Len(ts) \in Nat /\ DOMAIN ts = 1 .. Len(ts)
  BY LenProperties
<1>2. \A i \in 1 .. Len(ts) : ts[i] \in Entry
  BY <1>1, ElementOfSeq
<1>3. \A i \in 1 .. Len(ts) : ts[i].ts \in Nat /\ TaskOf(ts[i]) \in Task
  BY <1>2 DEF TaskOf, Task, Entry
<1>4. Stripped(ts) \in [1 .. Len(ts) -> Task]
  BY <1>1, <1>3 DEF Stripped
<1>5. Stripped(ts) \in Seq(Task)
  BY <1>1, <1>4, SeqDef
<1>6. DOMAIN Stripped(ts) = 1 .. Len(ts) /\ Len(Stripped(ts)) = Len(ts)
  BY <1>1, <1>4, <1>5, LenProperties
<1>7. \A i \in 1 .. Len(ts) : Stripped(ts)[i] = TaskOf(ts[i])
  BY <1>1 DEF Stripped
<1>8. \A i \in 1 .. Len(ts) : /\ TaskOf(ts[i]).seq = ts[i].seq
                              /\ TaskOf(ts[i]).payload = ts[i].payload
                              /\ TaskOf(ts[i]).cost = ts[i].cost
  BY DEF TaskOf
<1>9. \A i \in 1 .. Len(ts) : /\ Stripped(ts)[i].seq = ts[i].seq
                              /\ Stripped(ts)[i].payload = ts[i].payload
                              /\ Stripped(ts)[i].cost = ts[i].cost
  BY <1>7, <1>8
<1>10. CostUnits(Stripped(ts)) = CostUnits(ts)
  BY <1>1, <1>6, <1>9 DEF CostUnits
<1> QED
  BY <1>1, <1>2, <1>3, <1>5, <1>6, <1>7, <1>9, <1>10 DEF Cost

\* An entry older than max_wait.
HasAged(e) == now >= e.ts + MaxWait

\* The payloads of a unit's most recent arrivals.
Numbered(ts, a) == \A i \in 1 .. Len(ts) : ts[i].payload = a - Len(ts) + i

\* Payloads being distinct, an entry's age can be read off its payload.
LEMMA AgedAt ==
  ASSUME NEW ts \in Seq(Entry), NEW a \in Nat, Numbered(ts, a), NEW i \in 1 .. Len(ts)
  PROVE  ts[i].payload \in Aged(ts) <=> HasAged(ts[i])
<1>1. Len(ts) \in Nat /\ DOMAIN ts = 1 .. Len(ts)
  BY StrippedStream
<1>2. ASSUME ts[i].payload \in Aged(ts) PROVE HasAged(ts[i])
  <2>1. PICK j \in 1 .. Len(ts) : HasAged(ts[j]) /\ ts[i].payload = ts[j].payload
    BY <1>1, <1>2 DEF Aged, HasAged
  <2>2. a - Len(ts) + i = a - Len(ts) + j
    BY <2>1 DEF Numbered
  <2>3. i = j
    BY <1>1, <2>2
  <2> QED
    BY <2>1, <2>3
<1>3. ASSUME HasAged(ts[i]) PROVE ts[i].payload \in Aged(ts)
  BY <1>1, <1>3 DEF Aged, HasAged
<1> QED
  BY <1>2, <1>3

\* Aged, in terms of HasAged.
LEMMA AgedIs ==
  ASSUME NEW ts \in Seq(Entry)
  PROVE  Aged(ts) = {ts[i].payload : i \in {j \in 1 .. Len(ts) : HasAged(ts[j])}}
<1>1. DOMAIN ts = 1 .. Len(ts)
  BY StrippedStream
<1> QED
  BY <1>1 DEF Aged, HasAged

\* The first n entries go.
LEMMA AgedDrop ==
  ASSUME NEW ts \in Seq(Entry), NEW a \in Nat, NEW n \in 0 .. Len(ts), Numbered(ts, a),
         NEW us, us = Suffix(ts, n)
  PROVE  /\ us \in Seq(Entry) /\ Stripped(us) = Suffix(Stripped(ts), n)
         /\ Aged(us) = Aged(ts) \cap Payloads(Stripped(us))
<1>1. us \in Seq(Entry) /\ Len(us) = Len(ts) - n /\ \A i \in 1 .. Len(us) : us[i] = ts[n + i]
  BY SuffixProperties
<1>2. /\ Stripped(ts) \in Seq(Task) /\ Len(Stripped(ts)) = Len(ts) /\ Len(ts) \in Nat
      /\ \A i \in 1 .. Len(ts) : Stripped(ts)[i] = TaskOf(ts[i])
  BY StrippedStream
<1>3. /\ Stripped(us) \in Seq(Task) /\ Len(Stripped(us)) = Len(us) /\ Len(us) \in Nat
      /\ \A i \in 1 .. Len(us) : /\ Stripped(us)[i] = TaskOf(us[i])
                                 /\ Stripped(us)[i].payload = us[i].payload
      /\ DOMAIN Stripped(us) = 1 .. Len(us)
  BY <1>1, StrippedStream
<1>4. /\ Suffix(Stripped(ts), n) \in Seq(Task) /\ Len(Suffix(Stripped(ts), n)) = Len(ts) - n
      /\ \A i \in 1 .. Len(ts) - n : Suffix(Stripped(ts), n)[i] = Stripped(ts)[n + i]
  <2>1. PICK qs \in Seq(Task) : qs = Stripped(ts) /\ n \in 0 .. Len(qs) /\ Len(qs) = Len(ts)
    BY <1>2
  <2>2. /\ Suffix(qs, n) \in Seq(Task) /\ Len(Suffix(qs, n)) = Len(qs) - n
        /\ \A i \in 1 .. Len(qs) - n : Suffix(qs, n)[i] = qs[n + i]
    BY <2>1, SuffixProperties
  <2> QED
    BY <2>1, <2>2
<1>5. \A i \in 1 .. Len(us) : n + i \in 1 .. Len(ts)
  BY <1>1, <1>2
<1>6. \A i \in 1 .. Len(us) : Stripped(us)[i] = Suffix(Stripped(ts), n)[i]
  BY <1>1, <1>2, <1>3, <1>4, <1>5
<1>7. Stripped(us) = Suffix(Stripped(ts), n)
  BY <1>1, <1>3, <1>4, <1>6, SeqEqual
<1>8. \A i \in 1 .. Len(us) : us[i].payload \in Aged(ts) <=> HasAged(us[i])
  <2> SUFFICES ASSUME NEW i \in 1 .. Len(us) PROVE us[i].payload \in Aged(ts) <=> HasAged(us[i])
    OBVIOUS
  <2>1. n + i \in 1 .. Len(ts) /\ us[i] = ts[n + i]
    BY <1>1, <1>5
  <2>2. ts[n + i].payload \in Aged(ts) <=> HasAged(ts[n + i])
    BY <2>1, AgedAt
  <2> QED
    BY <2>1, <2>2
<1>9. Payloads(Stripped(us)) = {us[i].payload : i \in 1 .. Len(us)}
  BY <1>3 DEF Payloads
<1>10. Aged(us) = {us[i].payload : i \in {j \in 1 .. Len(us) : HasAged(us[j])}}
  BY <1>1, AgedIs
<1>11. Aged(us) = Aged(ts) \cap Payloads(Stripped(us))
  BY <1>8, <1>9, <1>10
<1> QED
  BY <1>1, <1>7, <1>11

\* An entry that just joined has not aged.
LEMMA AgedAppend ==
  ASSUME NEW ts \in Seq(Entry), NEW e \in Entry, ~HasAged(e)
  PROVE  /\ Stripped(Append(ts, e)) = Append(Stripped(ts), TaskOf(e))
         /\ Aged(Append(ts, e)) = Aged(ts)
<1>1. PICK len \in Nat : len = Len(ts) /\ DOMAIN ts = 1 .. len
  BY StrippedStream
<1>2. PICK us : us = Append(ts, e)
  OBVIOUS
<1>3. /\ us \in Seq(Entry) /\ Len(us) = len + 1
      /\ us[len + 1] = e /\ \A i \in 1 .. len : us[i] = ts[i]
  BY <1>1, <1>2, AppendElements
<1>4. /\ Stripped(ts) \in Seq(Task) /\ Len(Stripped(ts)) = len
      /\ \A i \in 1 .. len : Stripped(ts)[i] = TaskOf(ts[i])
  BY <1>1, StrippedStream
<1>5. /\ Stripped(us) \in Seq(Task) /\ Len(Stripped(us)) = len + 1
      /\ \A i \in 1 .. len + 1 : Stripped(us)[i] = TaskOf(us[i])
  BY <1>3, StrippedStream
<1>6. TaskOf(e) \in Task
  BY DEF TaskOf, Entry, Task
<1>7. /\ Append(Stripped(ts), TaskOf(e)) \in Seq(Task)
      /\ Len(Append(Stripped(ts), TaskOf(e))) = len + 1
      /\ Append(Stripped(ts), TaskOf(e))[len + 1] = TaskOf(e)
      /\ \A i \in 1 .. len : Append(Stripped(ts), TaskOf(e))[i] = Stripped(ts)[i]
  BY <1>4, <1>6, AppendElements
<1>8. 1 .. (len + 1) = (1 .. len) \cup {len + 1}
  BY <1>1
<1>9. \A i \in 1 .. len + 1 : Stripped(us)[i] = Append(Stripped(ts), TaskOf(e))[i]
  BY <1>3, <1>4, <1>5, <1>7, <1>8
<1>10. Stripped(us) = Append(Stripped(ts), TaskOf(e))
  BY <1>5, <1>7, <1>9, SeqEqual
<1>11. Aged(us) = {us[i].payload : i \in {j \in 1 .. len + 1 : HasAged(us[j])}}
  BY <1>3, AgedIs
<1>12. Aged(ts) = {ts[i].payload : i \in {j \in 1 .. len : HasAged(ts[j])}}
  BY <1>1, AgedIs
<1>13. {j \in 1 .. len + 1 : HasAged(us[j])} = {j \in 1 .. len : HasAged(ts[j])}
  BY <1>3, <1>8
<1>14. Aged(us) = Aged(ts)
  BY <1>3, <1>11, <1>12, <1>13
<1> QED
  BY <1>2, <1>10, <1>14

\* The gate of the contract, on what the stream says.
LEMMA WorthIs ==
  ASSUME NEW ts \in Seq(Entry), ts # <<>>, Cost(ts) >= Threshold \/ HasAged(ts[1])
  PROVE  Worth(Stripped(ts), Aged(ts))
<1>1. Len(ts) \in Nat /\ Len(ts) # 0 /\ 1 \in 1 .. Len(ts)
  BY EmptySeq, LenProperties
<1>2. /\ Stripped(ts) \in Seq(Task) /\ Len(Stripped(ts)) = Len(ts)
      /\ Cost(Stripped(ts)) = Cost(ts) /\ Stripped(ts)[1].payload = ts[1].payload
  BY <1>1, StrippedStream
<1>3. Stripped(ts) # <<>>
  BY <1>1, <1>2, EmptySeq
<1>4. ASSUME HasAged(ts[1]) PROVE ts[1].payload \in Aged(ts)
  BY <1>1, <1>4, AgedIs
<1> QED
  BY <1>2, <1>3, <1>4 DEF Worth

\* m tasks leave the head of k, every other unit stays.
LEMMA UnitDropped ==
  ASSUME StateInv, now' = now, NEW k \in Keys, NEW m \in 0 .. Len(units[k].tasks), NEW v,
         v.tasks = Suffix(units[k].tasks, m), units' = [units EXCEPT ![k] = v]
  PROVE  /\ m \in 0 .. MaxTasks /\ m <= Len(Queues[k])
         /\ Queues' = [Queues EXCEPT ![k] = Suffix(Queues[k], m)]
         /\ Ages' = [Ages EXCEPT ![k] = Ages[k] \cap Payloads(Suffix(Queues[k], m))]
         /\ v.tasks \in Seq(Entry) /\ Suffix(Queues[k], m) = Stripped(v.tasks)
         /\ Aged(v.tasks) \subseteq Ages[k]
<1>1. PICK ts \in Seq(Entry) : ts = units[k].tasks
  BY Facts, UnitFields
<1>2. PICK us : us = v.tasks /\ us = Suffix(ts, m)
  BY <1>1
<1>3. PICK a \in Nat : a = arrived[k] /\ a <= MaxTasks
  BY Facts
<1>4. PICK len \in Nat : len = Len(ts) /\ len <= a
  <2>1. UnitFifo(units[k], arrived[k]) /\ units[k] \in Unit
    BY Facts DEF WorkInv
  <2>2. Len(ts) <= units[k].nextSeq /\ units[k].nextSeq <= a /\ units[k].nextSeq \in Nat
    BY <1>1, <1>3, <2>1, UnitFields DEF UnitFifo
  <2>3. Len(ts) \in Nat
    OBVIOUS
  <2> QED
    BY <2>2, <2>3
<1>5. Numbered(ts, a)
  BY <1>1, <1>3, Facts DEF WorkInv, UnitFifo, Numbered
<1>6. m \in 0 .. Len(ts) /\ m \in 0 .. MaxTasks /\ m <= Len(ts)
  BY <1>1, <1>3, <1>4, ValkeyBounds
<1>7. /\ us \in Seq(Entry) /\ Stripped(us) = Suffix(Stripped(ts), m)
      /\ Aged(us) = Aged(ts) \cap Payloads(Stripped(us))
  <2>1. PICK n \in 0 .. Len(ts) : n = m /\ us = Suffix(ts, n)
    BY <1>2, <1>6
  <2>2. /\ us \in Seq(Entry) /\ Stripped(us) = Suffix(Stripped(ts), n)
        /\ Aged(us) = Aged(ts) \cap Payloads(Stripped(us))
    BY <1>5, <2>1, AgedDrop
  <2> QED
    BY <2>1, <2>2
<1>8. Queues[k] = Stripped(ts) /\ Ages[k] = Aged(ts) /\ Len(Queues[k]) = Len(ts)
  BY <1>1, StrippedStream DEF Queues, Ages
<1>9. \A j \in Keys : units'[j].tasks = IF j = k THEN us ELSE units[j].tasks
  BY <1>2, Types
<1>10. Queues' = [Queues EXCEPT ![k] = Stripped(us)]
  <2>1. Queues' = [j \in Keys |-> Stripped(units'[j].tasks)]
    BY DEF Queues, Stripped
  <2>2. \A j \in Keys :
          Stripped(units'[j].tasks) = IF j = k THEN Stripped(us) ELSE Stripped(units[j].tasks)
    BY <1>9
  <2> QED
    BY <2>1, <2>2 DEF Queues
<1>11. Ages' = [Ages EXCEPT ![k] = Aged(us)]
  <2>1. Ages' = [j \in Keys |-> Aged(units'[j].tasks)]
    BY DEF Ages, Aged
  <2>2. \A j \in Keys : Aged(units'[j].tasks) = IF j = k THEN Aged(us) ELSE Aged(units[j].tasks)
    BY <1>9
  <2> QED
    BY <2>1, <2>2 DEF Ages
<1> QED
  BY <1>2, <1>6, <1>7, <1>8, <1>10, <1>11

\* The streams stay, and the clock.
LEMMA StreamsStay ==
  ASSUME \A j \in Keys : units'[j].tasks = units[j].tasks, now' = now
  PROVE  Queues' = Queues /\ Ages' = Ages
<1>1. Queues' = [j \in Keys |-> Stripped(units'[j].tasks)]
  BY DEF Queues, Stripped
<1>2. Ages' = [j \in Keys |-> Aged(units'[j].tasks)]
  BY DEF Ages, Aged
<1> QED
  BY <1>1, <1>2 DEF Queues, Ages

\* A held handle, as the contract sees it.
LEMMA HeldCopy ==
  ASSUME StateInv, NEW h \in handles, Held(h)
  PROVE  /\ h.key \in Keys /\ units[h.key].lease # None
         /\ \E g \in Copies : g.key = h.key /\ g.lease = h.lease /\ Holders[h.key] = g.lease
<1>1. h.key \in Keys /\ units[h.key].lease = h.lease /\ units[h.key].lease # None
  BY HandleFacts
<1>2. PICK g : g = [key |-> h.key, lease |-> h.lease]
  OBVIOUS
<1>3. g \in Copies /\ g.key = h.key /\ g.lease = h.lease
  BY <1>2 DEF Copies
<1>4. Holders[h.key] = g.lease
  BY <1>1, <1>3 DEF Holders
<1> QED
  BY <1>1, <1>3, <1>4

\* The lease of k is given up, everybody else's stays.
LEMMA LeaseGiven ==
  ASSUME StateInv, StateInv', now' = now, NEW k \in Keys, NEW v, v.lease = None,
         units' = [units EXCEPT ![k] = v], Agree(leases', leases, k), NEW g, g.key = k
  PROVE  Gives(g)
<1>1. \A j \in Keys : units'[j].lease = IF j = k THEN None ELSE units[j].lease
  BY Types
<1>2. Holders' = [Holders EXCEPT ![k] = None]
  BY <1>1 DEF Holders
<1>3. DOMAIN leases \subseteq Keys /\ DOMAIN leases' \subseteq Keys
  BY Types DEF StateInv, TypeOK, ZSet
<1>4. k \notin DOMAIN leases'
  BY <1>1 DEF StateInv, Listed
<1>5. \A j \in Keys \ {k} : /\ (j \in DOMAIN leases') <=> (j \in DOMAIN leases)
                            /\ (j \in DOMAIN leases) => (leases'[j] = leases[j])
  BY DEF Agree
<1>6. Lapsed' = Lapsed \ {k}
  BY <1>3, <1>4, <1>5 DEF Lapsed
<1> QED
  BY <1>2, <1>6 DEF Gives

\* The lease of k is renewed and has not run out, everybody else's stays.
LEMMA LeaseRenewed ==
  ASSUME StateInv, now' = now, NEW k \in Keys, NEW x, ~(x <= now), leases' = ZAdd(leases, k, x)
  PROVE  Lapsed' = Lapsed \ {k}
<1>1. Agree(leases', leases, k) /\ DOMAIN leases' = DOMAIN leases \cup {k} /\ leases'[k] = x
  BY ZenonT(60), Agreement DEF ZAdd, ZAddAll
<1>2. DOMAIN leases \subseteq Keys
  BY Types DEF ZSet
<1>3. \A j \in Keys \ {k} : /\ (j \in DOMAIN leases') <=> (j \in DOMAIN leases)
                            /\ (j \in DOMAIN leases) => (leases'[j] = leases[j])
  BY <1>1 DEF Agree
<1> QED
  BY <1>1, <1>2, <1>3 DEF Lapsed

(***************************************************************************)
(* Why a task is young when it is enqueued, and a lease alive when it is   *)
(* written: a call takes less time than the flush cap and than any lease.  *)
(***************************************************************************)
Prompt == Lag < MaxWait /\ \A d \in LeaseDurs : Lag < d

\* A lease that a prompt call writes has not run out yet.
LEMMA WrittenAlive ==
  ASSUME StateInv, Prompt, NEW t \in Clocks, NEW d \in LeaseDurs
  PROVE  ~(t + d <= now)
<1>1. PICK n \in Nat, g \in Nat, x \in Nat, y \in Nat : n = now /\ g = Lag /\ x = t /\ y = d
  <2>1. now \in Nat /\ Lag \in Nat
    BY Types, ValkeyBounds
  <2>2. t \in Nat
    BY ClockType
  <2>3. d \in Nat
    BY ValkeyOptions
  <2> QED
    BY <2>1, <2>2, <2>3
<1>2. n - x <= g /\ g < y
  BY <1>1, ClockType DEF Prompt
<1>3. ~(x + y <= n)
  BY <1>1, <1>2
<1> QED
  BY <1>1, <1>3

\* An entry joins the stream under the next seq, too young to have aged.
LEMMA EnqueueStep ==
  ASSUME StateInv, Prompt, NEW k \in Keys, NEW c \in Costs, NEW t \in Clocks, Enqueue(k, c, t)
  PROVE  Contract!Next
<1>1. PICK a \in Nat : a = arrived[k] /\ a < MaxTasks
  BY Facts DEF Enqueue
<1>2. /\ units \in [Keys -> Unit] /\ units[k] \in Unit /\ UnitInv(units[k], a)
      /\ UnitFifo(units[k], a)
  BY <1>1, Facts DEF WorkInv
<1>3. PICK s \in Nat : s = units[k].nextSeq
  BY <1>2, UnitFields
<1>4. PICK e : e = [seq |-> s, payload |-> a + 1, cost |-> c, ts |-> t]
  OBVIOUS
<1>5. PICK v : v = Added(units[k], e)
  OBVIOUS
<1>6. /\ units' = [units EXCEPT ![k] = v] /\ arrived' = [arrived EXCEPT ![k] = arrived[k] + 1]
      /\ UNCHANGED <<leases, dlq, now, handles>>
  BY <1>1, <1>3, <1>4, <1>5 DEF Enqueue
<1>7. c \in Nat /\ t \in Nat
  BY ClockType, ValkeyOptions
<1>8. v.tasks = Append(units[k].tasks, e) /\ v.lease = units[k].lease
  <2>1. a \in 0 .. (MaxTasks - 1)
    BY <1>1, ValkeyBounds
  <2>2. e = [seq |-> units[k].nextSeq, payload |-> a + 1, cost |-> c, ts |-> t]
    BY <1>3, <1>4
  <2>3. PICK u : u = units[k]
    OBVIOUS
  <2>4. v.tasks = Append(u.tasks, e) /\ v.lease = u.lease
    BY <1>2, <1>5, <1>7, <2>1, <2>2, <2>3, AddedInv
  <2> QED
    BY <2>3, <2>4
<1>9. e \in Entry /\ e.ts = t /\ TaskOf(e) = [seq |-> s, payload |-> a + 1, cost |-> c]
  BY <1>1, <1>4, <1>7 DEF Entry, TaskOf
<1>10. ~HasAged(e)
  <2>1. now - t <= Lag /\ Lag < MaxWait /\ now \in Nat /\ Lag \in Nat /\ MaxWait \in Nat
    BY ClockType, Facts, ValkeyBounds, ValkeyOptions DEF Prompt
  <2>2. ~(now >= t + MaxWait)
    BY <1>7, <2>1
  <2> QED
    BY <1>9, <2>2 DEF HasAged
<1>11. PICK ts \in Seq(Entry) : ts = units[k].tasks
  BY <1>2, UnitFields
<1>12. /\ Stripped(Append(ts, e)) = Append(Stripped(ts), TaskOf(e))
       /\ Aged(Append(ts, e)) = Aged(ts)
  BY <1>9, <1>10, AgedAppend
<1>13. \A j \in Keys : /\ units'[j].tasks = IF j = k THEN Append(ts, e) ELSE units[j].tasks
                       /\ units'[j].lease = units[j].lease
  BY <1>2, <1>6, <1>8, <1>11
<1>14. Queues' = [Queues EXCEPT ![k] = Append(Queues[k], [seq |-> s, payload |-> a + 1, cost |-> c])]
  <2>1. Queues' = [j \in Keys |-> Stripped(units'[j].tasks)]
    BY DEF Queues, Stripped
  <2>2. \A j \in Keys : Stripped(units'[j].tasks) =
          IF j = k THEN Append(Stripped(ts), TaskOf(e)) ELSE Stripped(units[j].tasks)
    BY <1>12, <1>13
  <2> QED
    BY <1>9, <1>11, <2>1, <2>2 DEF Queues
<1>15. Ages' = Ages
  <2>1. Ages' = [j \in Keys |-> Aged(units'[j].tasks)]
    BY <1>6 DEF Ages, Aged
  <2>2. \A j \in Keys : Aged(units'[j].tasks) = Aged(units[j].tasks)
    BY <1>11, <1>12, <1>13
  <2> QED
    BY <2>1, <2>2 DEF Ages
<1>16. \A i \in DOMAIN Queues[k] : Queues[k][i].seq < s
  <2>1. Queues[k] = Stripped(ts)
    BY <1>11 DEF Queues
  <2>2. /\ DOMAIN Stripped(ts) = 1 .. Len(ts) /\ Len(ts) \in Nat
        /\ \A i \in 1 .. Len(ts) : Stripped(ts)[i].seq = ts[i].seq
    BY StrippedStream
  <2>3. ASSUME NEW i \in 1 .. Len(ts) PROVE Stripped(ts)[i].seq < s
    <3>1. ts[i].seq = s - Len(ts) + i - 1
      BY <1>2, <1>3, <1>11 DEF UnitFifo
    <3>2. s - Len(ts) + i - 1 < s
      BY <2>2
    <3> QED
      BY <2>2, <3>1, <3>2
  <2> QED
    BY <2>1, <2>2, <2>3
<1>17. s \in 0 .. (MaxTasks - 1)
  <2>1. s <= a
    BY <1>2, <1>3 DEF UnitFifo
  <2> QED
    BY <1>1, <2>1, ValkeyBounds
<1>18. UNCHANGED <<Holders, Lapsed, Copies, Dead>>
  BY <1>6, <1>13 DEF Holders, Lapsed, Copies, Dead
<1>19. arrived[k] < MaxTasks /\ arrived[k] = a
  BY <1>1
<1> QED
  BY <1>6, <1>14, <1>15, <1>16, <1>17, <1>18, <1>19, ContractEnqueue

\* The unit that ZPOPMIN takes is free and worth it, and its token is new.
LEMMA ClaimStep ==
  ASSUME StateInv, ClockInv, IndexInv, TokenInv, OneProcess, Prompt,
         NEW c \in Callers, NEW d \in LeaseDurs, NEW t \in Clocks, NEW k \in Keys,
         Claim(c, d, t, k)
  PROVE  Contract!Next
<1>1. PICK v : v = Leased(units[k], Token(c), d)
  OBVIOUS
<1>2. /\ units' = [units EXCEPT ![k] = v] /\ tokens[c[1]] < MaxClaims /\ k \in DOMAIN eligible
      /\ leases' = ZAdd(leases, k, t + d)
      /\ handles' = handles \cup {[key |-> k, by |-> c, lease |-> Token(c)]}
      /\ UNCHANGED <<dlq, now, arrived>>
  BY <1>1 DEF Claim, First
<1>3. /\ WorkInv(units[k], arrived[k]) /\ Token(c) \in LeaseTokens /\ d \in Nat
      /\ units[k] \in Unit /\ units \in [Keys -> Unit] /\ Listed(k) /\ now \in Nat
  BY <1>2, Facts, TokenType, ValkeyOptions
<1>4. v.tasks = units[k].tasks /\ v.lease = Token(c)
  BY <1>1, <1>3, LeasedInv
<1>5. units[k].lease = None
  BY ClaimIndex
<1>6. PICK l \in LeaseTokens : l = Token(c)
  BY <1>3
<1>7. (\A h \in handles : h.lease # l) /\ (\A j \in Keys : units[j].lease # l)
  BY <1>2, <1>6, TokenIsNew
<1>8. PICK ts \in Seq(Entry) : ts = units[k].tasks
  BY <1>3, UnitFields
<1>9. ts # <<>>
  BY <1>2, <1>3, <1>8 DEF Listed
<1>10. Cost(ts) >= Threshold \/ HasAged(ts[1])
  <2>1. units[k].pendingCost >= Threshold \/ units[k].flush <= now
    BY <1>2 DEF IndexInv, Indexed
  <2>2. units[k].pendingCost = Cost(ts) /\ units[k].flush = ts[1].ts + MaxWait
    BY <1>3, <1>8, <1>9 DEF WorkInv, ClockInv, Clocked
  <2>3. PICK x \in Nat : x = units[k].flush
    BY <1>3, UnitFields
  <2>4. x <= now => now >= x
    BY <1>3
  <2> QED
    BY <2>1, <2>2, <2>3, <2>4 DEF HasAged
<1>11. Worth(Queues[k], Ages[k])
  BY <1>8, <1>9, <1>10, WorthIs DEF Queues, Ages
<1>12. \A j \in Keys : /\ units'[j].tasks = units[j].tasks
                       /\ units'[j].lease = IF j = k THEN l ELSE units[j].lease
  BY <1>2, <1>3, <1>4, <1>6
<1>13. Queues' = Queues /\ Ages' = Ages
  BY <1>2, <1>12, StreamsStay
<1>14. Holders' = [Holders EXCEPT ![k] = l]
  BY <1>12 DEF Holders
<1>15. Lapsed' = Lapsed
  <2>1. ~(t + d <= now)
    BY WrittenAlive
  <2>2. Lapsed' = Lapsed \ {k}
    BY <1>2, <2>1, LeaseRenewed
  <2>3. k \notin Lapsed
    BY <1>3, <1>5 DEF Lapsed, Listed
  <2> QED
    BY <2>2, <2>3
<1>16. Copies' = Copies \cup {[key |-> k, lease |-> l]}
  <2>1. PICK n : n = [key |-> k, by |-> c, lease |-> Token(c)]
    OBVIOUS
  <2>2. n.key = k /\ n.lease = l /\ handles' = handles \cup {n}
    BY <1>2, <1>6, <2>1
  <2> QED
    BY <2>2 DEF Copies
<1>17. \A h \in Copies : h.lease # l
  BY <1>7 DEF Copies
<1>18. Holders[k] = None /\ \A j \in Keys : Holders[j] # l
  BY <1>5, <1>7 DEF Holders
<1>19. UNCHANGED <<arrived, Dead>>
  BY <1>2 DEF Dead
<1> QED
  BY <1>11, <1>13, <1>14, <1>15, <1>16, <1>17, <1>18, <1>19, ContractClaim

\* What a settled unit looks like to the contract.
LEMMA SettledDrops ==
  ASSUME StateInv, now' = now, NEW k \in Keys, NEW m, NEW v, NEW t, Settled(k, m, v, t),
         NEW g, g.key = k
  PROVE  /\ m \in 0 .. MaxTasks /\ m <= Len(Queues[k]) /\ Drops(g, m)
         /\ v.tasks \in Seq(Entry) /\ Suffix(Queues[k], m) = Stripped(v.tasks)
         /\ Aged(v.tasks) \subseteq Ages[k]
<1>1. /\ units' = [units EXCEPT ![k] = v] /\ m \in 0 .. Len(units[k].tasks)
      /\ v.tasks = Suffix(units[k].tasks, m)
  BY DEF Settled
<1>2. /\ m \in 0 .. MaxTasks /\ m <= Len(Queues[k])
      /\ Queues' = [Queues EXCEPT ![k] = Suffix(Queues[k], m)]
      /\ Ages' = [Ages EXCEPT ![k] = Ages[k] \cap Payloads(Suffix(Queues[k], m))]
      /\ v.tasks \in Seq(Entry) /\ Suffix(Queues[k], m) = Stripped(v.tasks)
      /\ Aged(v.tasks) \subseteq Ages[k]
  BY <1>1, UnitDropped
<1>3. Drops(g, m)
  BY <1>2 DEF Drops
<1> QED
  BY <1>2, <1>3

\* Whatever settles a unit touches no other unit's lease.
LEMMA SettledLeases ==
  ASSUME NEW k, NEW m, NEW v, NEW t, Settled(k, m, v, t)
  PROVE  Agree(leases', leases, k)
<1>1. leases' = ZRem(leases, k) \/ \E x : leases' = ZAdd(leases, k, x)
  BY DEF Settled, Unindexed, Reindexed
<1> QED
  BY <1>1, Agreement

\* What luaAck leaves: a prefix is gone, the lease renewed or given up.
LEMMA AckStep ==
  ASSUME StateInv, StateInv', IndexInv, Prompt,
         NEW h \in handles, NEW through \in Seqs, NEW t \in Clocks, Ack(h, through, t)
  PROVE  Contract!Next
<1>1. Held(h) /\ UNCHANGED <<dlq, now, handles, arrived>>
  BY DEF Ack, Closing
<1>2. PICK k \in Keys : k = h.key /\ units[k].lease # None
  BY <1>1, HeldCopy
<1>3. PICK g \in Copies : g.key = k /\ g.lease = h.lease /\ Holders[k] = g.lease
  BY <1>1, <1>2, HeldCopy
<1>4. PICK m, v : /\ Settled(k, m, v, t)
                  /\ v.tasks # <<>> => /\ v.flush = v.tasks[1].ts + MaxWait
                                       /\ v.lease = None => ~Due(v, t)
  BY <1>2, AckShape
<1>5. /\ m \in 0 .. MaxTasks /\ m <= Len(Queues[k]) /\ Drops(g, m)
      /\ v.tasks \in Seq(Entry) /\ Suffix(Queues[k], m) = Stripped(v.tasks)
      /\ Aged(v.tasks) \subseteq Ages[k]
  BY <1>1, <1>3, <1>4, SettledDrops
<1>6. /\ units' = [units EXCEPT ![k] = v] /\ UnitInv(v, arrived[k])
      /\ v.tasks # <<>> => v.leaseMs = units[k].leaseMs
      /\ \/ v.tasks = <<>>
         \/ /\ v.tasks # <<>> /\ v.lease = units[k].lease /\ Due(v, t)
            /\ leases' = ZAdd(leases, k, t + v.leaseMs)
         \/ v.tasks # <<>> /\ v.lease = None
  BY <1>4 DEF Settled
<1>7. UNCHANGED <<arrived, Copies, Dead>>
  BY <1>1 DEF Copies, Dead
<1>8. v \in Unit /\ v.pendingCost = Cost(v.tasks)
  BY <1>6 DEF UnitInv, WorkInv
<1>9. CASE v.lease = None
  <2>1. Gives(g)
    BY <1>1, <1>3, <1>4, <1>6, <1>9, LeaseGiven, SettledLeases
  <2>2. Cost(Stripped(v.tasks)) = Cost(v.tasks)
    BY <1>5, StrippedStream
  <2>3. ~Worth(Stripped(v.tasks), {})
    <3>1. CASE v.tasks = <<>>
      <4>1. Stripped(v.tasks) = <<>>
        BY <3>1 DEF Stripped
      <4> QED
        BY <4>1 DEF Worth
    <3>2. CASE v.tasks # <<>>
      <4>1. ~(Cost(v.tasks) >= Threshold)
        BY <1>4, <1>8, <1>9, <3>2 DEF Due
      <4> QED
        BY <2>2, <4>1 DEF Worth
    <3> QED
      BY <3>1, <3>2
  <2>4. ~Worth(Suffix(Queues[k], m), {})
    BY <1>5, <2>3
  <2> QED
    BY <1>3, <1>5, <1>7, <2>1, <2>4, ContractAck
<1>10. CASE v.lease # None
  <2>1. v.tasks # <<>>
    BY <1>6, <1>10 DEF UnitInv, NoUnit
  <2>2. /\ v.lease = units[k].lease /\ Due(v, t) /\ v.leaseMs = units[k].leaseMs
        /\ leases' = ZAdd(leases, k, t + v.leaseMs)
    BY <1>6, <1>10, <2>1
  <2>3. v.leaseMs \in LeaseDurs
    BY <1>2, <2>2, HeldAlone
  <2>4. ~(t + v.leaseMs <= now)
    BY <2>3, WrittenAlive
  <2>5. Lapsed' = Lapsed \ {k}
    BY <1>1, <2>2, <2>4, LeaseRenewed
  <2>6. Holders' = Holders
    <3>1. \A j \in Keys : units'[j].lease = units[j].lease
      BY <1>6, <2>2, Types
    <3> QED
      BY <3>1 DEF Holders
  <2>7. Cost(v.tasks) >= Threshold \/ HasAged(v.tasks[1])
    <3>1. v.pendingCost >= Threshold \/ v.flush <= t
      BY <2>2 DEF Due
    <3>2. PICK x \in Nat, n \in Nat, y \in Nat : x = v.flush /\ n = now /\ y = t /\ y <= n
      <4>1. v.flush \in Nat
        BY <1>8, UnitFields
      <4>2. t \in Nat /\ t <= now
        BY ClockType
      <4>3. now \in Nat
        BY Facts
      <4> QED
        BY <4>1, <4>2, <4>3
    <3>3. x <= y => n >= x
      BY <3>2
    <3>4. v.flush = v.tasks[1].ts + MaxWait
      BY <1>4, <2>1
    <3> QED
      BY <1>8, <3>1, <3>2, <3>3, <3>4 DEF HasAged
  <2>8. Worth(Stripped(v.tasks), Aged(v.tasks))
    BY <1>5, <2>1, <2>7, WorthIs
  <2>9. Worth(Suffix(Queues[k], m), Ages[k])
    BY <1>5, <2>8 DEF Worth
  <2> QED
    BY <1>3, <1>5, <1>7, <2>5, <2>6, <2>9, ContractAck
<1> QED
  BY <1>9, <1>10

\* Nothing leaves a stream: the contract sees no drop.
LEMMA NoDrop ==
  ASSUME StateInv, now' = now, NEW k \in Keys, NEW v, NEW t, Settled(k, 0, v, t)
  PROVE  Queues' = Queues /\ Ages' = Ages
<1>1. units' = [units EXCEPT ![k] = v] /\ v.tasks = Suffix(units[k].tasks, 0)
  BY DEF Settled
<1>2. units[k].tasks = Suffix(units[k].tasks, 0)
  <2>1. PICK s \in Seq(Entry) : s = units[k].tasks
    BY Facts, UnitFields
  <2>2. Len(s) \in Nat /\ s = [i \in 1 .. Len(s) |-> s[i]]
    OBVIOUS
  <2>3. Len(s) - 0 = Len(s) /\ \A i \in 1 .. Len(s) : 0 + i = i /\ i + 0 = i
    BY <2>2
  <2>4. s = Suffix(s, 0)
    BY <2>2, <2>3 DEF Suffix
  <2> QED
    BY <2>1, <2>4
<1>3. \A j \in Keys : units'[j].tasks = units[j].tasks
  BY <1>1, <1>2, Types
<1> QED
  BY <1>3, StreamsStay

\* luaRelease gives the lease up.
LEMMA ReleaseStep ==
  ASSUME StateInv, StateInv', NEW h \in handles, NEW t \in Clocks, Release(h, t)
  PROVE  Contract!Next
<1>1. Held(h) /\ UNCHANGED <<dlq, now, handles, arrived>>
  BY DEF Release, Closing
<1>2. PICK k \in Keys : k = h.key
  BY <1>1, HeldCopy
<1>3. PICK g \in Copies : g.key = k /\ Holders[k] = g.lease
  BY <1>1, <1>2, HeldCopy
<1>4. PICK v : Settled(k, 0, v, t) /\ v.lease = None
  BY <1>2, ReleaseShape
<1>5. units' = [units EXCEPT ![k] = v]
  BY <1>4 DEF Settled
<1>6. Gives(g)
  BY <1>1, <1>3, <1>4, <1>5, LeaseGiven, SettledLeases
<1>7. Queues' = Queues /\ Ages' = Ages
  BY <1>1, <1>4, NoDrop
<1>8. UNCHANGED <<arrived, Copies, Dead>>
  BY <1>1 DEF Copies, Dead
<1> QED
  BY <1>3, <1>6, <1>7, <1>8, ContractRelease

\* The dead-letter stream grows by one entry.
LEMMA DeadGrows ==
  ASSUME StateInv, NEW k \in Keys, NEW q \in Entry,
         dlq' = Append(dlq, [key |-> k, task |-> q])
  PROVE  Dead' = Dead \cup {[key |-> k, task |-> TaskOf(q)]}
<1> DEFINE Letter == [key : Keys, task : Entry]
<1>1. PICK e \in Letter : e = [key |-> k, task |-> q]
  OBVIOUS
<1>2. e.key = k /\ e.task = q
  BY <1>1
<1>3. dlq \in Seq(Letter)
  BY Types
<1> HIDE DEF Letter
<1>4. PICK m \in Nat : m = Len(dlq) /\ DOMAIN dlq = 1 .. m
  BY <1>3, LenProperties
<1>5. /\ DOMAIN dlq' = 1 .. (m + 1) /\ dlq'[m + 1] = e
      /\ \A i \in 1 .. m : dlq'[i] = dlq[i]
  <2>1. /\ Append(dlq, e) \in Seq(Letter) /\ Len(Append(dlq, e)) = Len(dlq) + 1
        /\ \A i \in 1 .. Len(dlq) : Append(dlq, e)[i] = dlq[i]
        /\ Append(dlq, e)[Len(dlq) + 1] = e
    BY <1>3, AppendElements
  <2>2. DOMAIN Append(dlq, e) = 1 .. Len(Append(dlq, e))
    BY <2>1, LenProperties
  <2> QED
    BY <1>1, <1>4, <2>1, <2>2
<1>6. 1 .. (m + 1) = (1 .. m) \cup {m + 1}
  BY <1>4
<1>7. Dead' = {[key |-> dlq'[i].key, task |-> TaskOf(dlq'[i].task)] : i \in DOMAIN dlq'}
  BY DEF Dead, TaskOf
<1>8. Dead' = {[key |-> dlq[i].key, task |-> TaskOf(dlq[i].task)] : i \in 1 .. m}
                \cup {[key |-> e.key, task |-> TaskOf(e.task)]}
  BY <1>5, <1>6, <1>7
<1> QED
  BY <1>2, <1>4, <1>8 DEF Dead

\* What luaFail leaves: a dead letter, or only the lease given up.
LEMMA FailStep ==
  ASSUME StateInv, StateInv', NEW h \in handles, NEW seq \in Seqs, NEW t \in Clocks,
         Fail(h, seq, t)
  PROVE  Contract!Next
<1>1. Held(h) /\ UNCHANGED <<now, handles, arrived>>
  BY DEF Fail, Closing
<1>2. PICK k \in Keys : k = h.key
  BY <1>1, HeldCopy
<1>3. PICK g \in Copies : g.key = k /\ Holders[k] = g.lease
  BY <1>1, <1>2, HeldCopy
<1>4. PICK m, v : /\ Settled(k, m, v, t) /\ v.lease = None
                  /\ m = IF Poison(units[k], seq) THEN 1 ELSE 0
  BY <1>2, FailShape
<1>5. units' = [units EXCEPT ![k] = v]
  BY <1>4 DEF Settled
<1>6. Gives(g)
  BY <1>1, <1>3, <1>4, <1>5, LeaseGiven, SettledLeases
<1>7. UNCHANGED <<arrived, Copies>>
  BY <1>1 DEF Copies
<1>8. CASE ~Poison(units[k], seq)
  <2>1. dlq' = dlq
    BY <1>2, <1>8 DEF Fail
  <2>2. Dead' = Dead
    BY <2>1 DEF Dead
  <2>3. Settled(k, 0, v, t)
    BY <1>4, <1>8
  <2>4. Queues' = Queues /\ Ages' = Ages
    BY <1>1, <2>3, NoDrop
  <2> QED
    BY <1>3, <1>6, <1>7, <2>2, <2>4, ContractRelease
<1>9. CASE Poison(units[k], seq)
  <2>1. PICK ts \in Seq(Entry) : ts = units[k].tasks /\ ts # <<>>
    BY <1>9, Facts, UnitFields DEF Poison
  <2>2. Len(ts) \in Nat /\ Len(ts) # 0 /\ 1 \in 1 .. Len(ts)
    BY <2>1, EmptySeq, LenProperties
  <2>3. PICK q \in Entry : q = ts[1]
    BY <2>2, StrippedStream
  <2>4. dlq' = Append(dlq, [key |-> k, task |-> q])
    BY <1>2, <1>9, <2>1, <2>3 DEF Fail
  <2>5. Dead' = Dead \cup {[key |-> k, task |-> TaskOf(q)]}
    BY <2>4, DeadGrows
  <2>6. /\ Stripped(ts) \in Seq(Task) /\ Len(Stripped(ts)) = Len(ts)
        /\ Stripped(ts)[1] = TaskOf(q)
    BY <2>2, <2>3, StrippedStream
  <2>7. Queues[k] = Stripped(ts)
    BY <2>1 DEF Queues
  <2>8. Queues[k] # <<>> /\ Queues[k][1] = TaskOf(q)
    BY <2>2, <2>6, <2>7, EmptySeq
  <2>9. Settled(k, 1, v, t)
    BY <1>4, <1>9
  <2>10. Drops(g, 1)
    BY <1>1, <1>3, <2>9, SettledDrops
  <2> QED
    BY <1>3, <1>6, <1>7, <2>5, <2>8, <2>10, ContractDeadLetter
<1> QED
  BY <1>8, <1>9

\* luaHeartbeat renews the lease.
LEMMA HeartbeatStep ==
  ASSUME StateInv, Prompt, NEW h \in handles, NEW d \in LeaseDurs, NEW t \in Clocks,
         Heartbeat(h, d, t)
  PROVE  Contract!Next
<1>1. /\ Held(h) /\ leases' = ZAdd(leases, h.key, t + d)
      /\ UNCHANGED <<units, dlq, now, handles, arrived>>
  BY DEF Heartbeat
<1>2. PICK k \in Keys : k = h.key
  BY <1>1, HeldCopy
<1>3. PICK g \in Copies : g.key = k /\ Holders[k] = g.lease
  BY <1>1, <1>2, HeldCopy
<1>4. ~(t + d <= now)
  BY WrittenAlive
<1>5. Lapsed' = Lapsed \ {k}
  BY <1>1, <1>2, <1>4, LeaseRenewed
<1>6. Queues' = Queues /\ Ages' = Ages
  BY <1>1, StreamsStay
<1>7. UNCHANGED <<arrived, Holders, Copies, Dead>>
  BY <1>1 DEF Holders, Copies, Dead
<1> QED
  BY <1>3, <1>5, <1>6, <1>7, ContractHeartbeat

\* luaReap frees leases that have run out, and only those.
LEMMA ReapStep ==
  ASSUME StateInv, NEW t \in 0 .. MaxNow, ReapExpired(t)
  PROVE  Contract!Next
<1>1. t <= now /\ UNCHANGED <<dlq, now, handles, arrived>>
  BY DEF ReapExpired
<1>2. PICK S, ready, pending, due : Reaped(t, S, ready, pending, due)
  BY ReapShape
<1>3. /\ S = {k \in DOMAIN leases : leases[k] <= t}
      /\ units' = [k \in Keys |-> IF k \in S THEN Freed(units[k]) ELSE units[k]]
      /\ DOMAIN leases' = DOMAIN leases \ S
      /\ \A k \in DOMAIN leases' : leases'[k] = leases[k]
  BY <1>2 DEF Reaped
<1>4. /\ units \in [Keys -> Unit] /\ DOMAIN leases \subseteq Keys
      /\ \A k \in DOMAIN leases : leases[k] \in Nat
  BY Types DEF ZSet
<1>5. t \in Nat /\ now \in Nat
  BY Types, ValkeyBounds
<1>6. S \in SUBSET Keys /\ S \subseteq Lapsed
  <2>1. ASSUME NEW k \in S PROVE k \in Lapsed
    <3>1. k \in DOMAIN leases /\ leases[k] <= t
      BY <1>3
    <3>2. PICK x \in Nat : x = leases[k]
      BY <1>4, <3>1
    <3>3. x <= now
      BY <1>1, <1>5, <3>1, <3>2
    <3> QED
      BY <3>1, <3>2, <3>3 DEF Lapsed
  <2> QED
    BY <1>3, <1>4, <2>1
<1>7. ASSUME NEW k \in Keys
      PROVE  Freed(units[k]).lease = None /\ Freed(units[k]).tasks = units[k].tasks
  <2>1. PICK v : v = Freed(units[k])
    OBVIOUS
  <2>2. WorkInv(units[k], arrived[k])
    BY Facts
  <2>3. v.lease = None /\ v.tasks = units[k].tasks
    BY <2>1, <2>2, FreedInv
  <2> QED
    BY <2>1, <2>3
<1>8. \A k \in Keys : /\ units'[k].lease = IF k \in S THEN None ELSE units[k].lease
                      /\ units'[k].tasks = units[k].tasks
  BY <1>3, <1>7
<1>9. Holders' = [k \in Keys |-> IF k \in S THEN None ELSE Holders[k]]
  BY <1>8 DEF Holders
<1>10. Lapsed' = Lapsed \ S
  BY <1>1, <1>3 DEF Lapsed
<1>11. Queues' = Queues /\ Ages' = Ages
  BY <1>1, <1>8, StreamsStay
<1>12. UNCHANGED <<arrived, Copies, Dead>>
  BY <1>1 DEF Copies, Dead
<1> QED
  BY <1>6, <1>9, <1>10, <1>11, <1>12, ContractReclaim

\* A task that has aged stays aged, and is one of the pending ones.
LEMMA AgesGrow ==
  ASSUME StateInv, units' = units, now' = now + 1, NEW k \in Keys
  PROVE  /\ Ages[k] \subseteq Ages'[k] /\ Ages'[k] \subseteq Payloads(Queues[k])
         /\ Ages'[k] \subseteq 1 .. MaxTasks
<1>1. PICK ts \in Seq(Entry) : ts = units[k].tasks
  BY Facts, UnitFields
<1>2. PICK len \in Nat : /\ len = Len(ts) /\ DOMAIN ts = 1 .. len
                         /\ \A i \in 1 .. len : ts[i].ts \in Nat
  BY StrippedStream
<1>3. PICK a \in Nat : a = arrived[k] /\ a <= MaxTasks
  BY Facts
<1>4. now \in Nat /\ MaxWait \in Nat /\ MaxTasks \in Nat
  BY Facts, ValkeyOptions
<1>5. len <= a /\ \A i \in 1 .. len : ts[i].payload = a - len + i
  <2>1. UnitFifo(units[k], a) /\ units[k] \in Unit
    BY <1>3, Facts DEF WorkInv
  <2>2. PICK s \in Nat : s = units[k].nextSeq
    BY <2>1, UnitFields
  <2>3. len <= s /\ s <= a /\ \A i \in 1 .. len : ts[i].payload = a - len + i
    BY <1>1, <1>2, <2>1, <2>2 DEF UnitFifo
  <2>4. len <= a
    BY <2>3
  <2> QED
    BY <2>3, <2>4
<1> DEFINE Old(n, i) == n >= ts[i].ts + MaxWait
<1>6. Ages[k] = {ts[i].payload : i \in {j \in 1 .. len : Old(now, j)}}
  BY <1>1, <1>2 DEF Ages, Aged
<1>7. Ages'[k] = {ts[i].payload : i \in {j \in 1 .. len : Old(now + 1, j)}}
  <2>1. Ages'[k] = Aged(units[k].tasks)'
    BY DEF Ages
  <2>2. Aged(units[k].tasks)' = {ts[i].payload : i \in {j \in 1 .. len : Old(now + 1, j)}}
    BY <1>1, <1>2 DEF Aged
  <2> QED
    BY <2>1, <2>2
<1>8. \A j \in 1 .. len : Old(now, j) => Old(now + 1, j)
  BY <1>2, <1>4
<1>9. Payloads(Queues[k]) = {ts[i].payload : i \in 1 .. len}
  <2>1. Queues[k] = Stripped(ts)
    BY <1>1 DEF Queues
  <2>2. DOMAIN Stripped(ts) = 1 .. len /\ \A i \in 1 .. len : Stripped(ts)[i].payload = ts[i].payload
    BY <1>2, StrippedStream
  <2> QED
    BY <2>1, <2>2 DEF Payloads
<1> HIDE DEF Old
<1>10. \A i \in 1 .. len : ts[i].payload \in 1 .. MaxTasks
  <2>1. \A i \in 1 .. len : a - len + i \in 1 .. MaxTasks
    BY <1>2, <1>3, <1>4, <1>5
  <2> QED
    BY <1>5, <2>1
<1> QED
  BY <1>6, <1>7, <1>8, <1>9, <1>10

\* The clock moves on.
LEMMA TickStep ==
  ASSUME StateInv, Tick
  PROVE  Contract!Next
<1>1. now' = now + 1 /\ UNCHANGED <<units, leases, dlq, handles, arrived>>
  BY DEF Tick
<1>2. UNCHANGED <<Queues, arrived, Holders, Copies, Dead>>
  BY <1>1 DEF Queues, Stripped, Holders, Copies, Dead
<1>3. \A k \in Keys : /\ Ages[k] \subseteq Ages'[k] /\ Ages'[k] \subseteq Payloads(Queues[k])
                      /\ Ages'[k] \subseteq 1 .. MaxTasks
  BY <1>1, AgesGrow
<1>4. Ages' \in [Keys -> SUBSET (1 .. MaxTasks)]
  <2>1. Ages' = [k \in Keys |-> Ages'[k]]
    BY DEF Ages
  <2> QED
    BY <1>3, <2>1
<1>5. /\ now \in Nat /\ DOMAIN leases \subseteq Keys
      /\ \A k \in DOMAIN leases : leases[k] \in Nat
  BY Types, ValkeyBounds DEF ZSet
<1>6. Lapsed' = {k \in DOMAIN leases : leases[k] <= now + 1}
  BY <1>1 DEF Lapsed
<1>7. \A k \in DOMAIN leases : units[k].lease # None
  BY <1>5, Types DEF Listed
<1>8. Lapsed' \in SUBSET {k \in Keys : Holders[k] # None}
  BY <1>5, <1>6, <1>7 DEF Holders
<1>9. Lapsed \subseteq Lapsed'
  <2>1. ASSUME NEW k \in DOMAIN leases, leases[k] <= now PROVE leases[k] <= now + 1
    <3>1. PICK x \in Nat : x = leases[k]
      BY <1>5
    <3> QED
      BY <1>5, <2>1, <3>1
  <2> QED
    BY <1>6, <2>1 DEF Lapsed
<1> QED
  BY <1>2, <1>3, <1>4, <1>8, <1>9, ContractElapse

-----------------------------------------------------------------------------
(* The refinement. *)

\* An empty server is the contract's initial state.
LEMMA ContractInit ==
  ASSUME Init
  PROVE  Contract!Init
<1>1. \A k \in Keys : units[k].tasks = <<>> /\ units[k].lease = None
  BY DEF Init, NoUnit
<1>2. \A k \in Keys : Aged(units[k].tasks) = {} /\ Stripped(units[k].tasks) = <<>>
  BY <1>1 DEF Aged, Stripped
<1>3. {[key |-> dlq[i].key, task |-> TaskOf(dlq[i].task)] : i \in DOMAIN dlq} = {}
  BY DEF Init
<1>4. {k \in DOMAIN leases : leases[k] <= now} = {}
  BY DEF Init
<1>5. {[key |-> h.key, lease |-> h.lease] : h \in handles} = {}
  BY DEF Init
<1> QED
  BY <1>1, <1>2, <1>3, <1>4, <1>5 DEF Init, Contract!Init

\* What the commands of Drain do, the contract does not see.
Unseen == UNCHANGED <<Queues, arrived, Ages, Holders, Lapsed, Copies, Dead>>

\* A step that changes nothing the contract sees is a stutter of it.
LEMMA UnseenStutters ==
  ASSUME Unseen
  PROVE  UNCHANGED Contract!vars
  BY DEF Unseen, Contract!vars, Queues, Ages, Aged, Holders, Lapsed, Copies, Dead, Stripped

\* Drain's commands are such steps.
LEMMA UnseenSteps ==
  ASSUME StateInv,
         \/ \E h \in handles : DrainCheck(h)
         \/ \E c \in Callers :
              Autoclaim(c) \/ AutoclaimFails(c) \/ ReadGroup(c) \/ ReadGroupFails(c)
         \/ UNCHANGED vars
  PROVE  Unseen
<1>1. /\ UNCHANGED <<leases, dlq, now, handles, arrived>>
      /\ \A j \in Keys : units'[j].tasks = units[j].tasks
      /\ \A j \in Keys : units'[j].lease = units[j].lease
  <2>1. ASSUME NEW h \in handles, DrainCheck(h)
        PROVE  UNCHANGED <<units, leases, dlq, now, handles, arrived>>
    BY <2>1 DEF DrainCheck, others
  <2>2. ASSUME NEW c \in Callers,
               Autoclaim(c) \/ AutoclaimFails(c) \/ ReadGroup(c) \/ ReadGroupFails(c)
        PROVE  /\ UNCHANGED <<leases, dlq, now, handles, arrived>>
               /\ \A j \in Keys : units'[j].tasks = units[j].tasks
               /\ \A j \in Keys : units'[j].lease = units[j].lease
    <3>1. /\ UNCHANGED others
          /\ \A j \in Keys : units'[j].tasks = units[j].tasks
          /\ \A j \in Keys : units'[j].lease = units[j].lease
      BY <2>2, DrainKeeps
    <3> QED
      BY <3>1 DEF others
  <2>3. ASSUME UNCHANGED vars PROVE UNCHANGED <<units, leases, dlq, now, handles, arrived>>
    BY <2>3 DEF vars
  <2> QED
    BY <2>1, <2>2, <2>3
<1>2. Queues' = Queues /\ Ages' = Ages
  BY <1>1, StreamsStay
<1>3. UNCHANGED <<Holders, Lapsed, Copies, Dead>>
  BY <1>1 DEF Holders, Lapsed, Copies, Dead
<1> QED
  BY <1>1, <1>2, <1>3 DEF Unseen

\* Every step of the driver is a step of the contract, or one it does not see.
LEMMA ContractStep ==
  ASSUME StateInv, StateInv', ClockInv, IndexInv, TokenInv, OneProcess, Prompt,
         [Next /\ ~TopsUpPromoted]_vars
  PROVE  [Contract!Next]_Contract!vars
<1>1. CASE \/ \E h \in handles : DrainCheck(h)
           \/ \E c \in Callers :
                Autoclaim(c) \/ AutoclaimFails(c) \/ ReadGroup(c) \/ ReadGroupFails(c)
           \/ UNCHANGED vars
  BY <1>1, UnseenSteps, UnseenStutters
<1>2. ASSUME NEW t \in Clocks, NEW k \in Keys, NEW c \in Costs, Enqueue(k, c, t)
      PROVE  Contract!Next
  BY <1>2, EnqueueStep
<1>3. ASSUME NEW t \in Clocks, NEW c \in Callers, NEW d \in LeaseDurs, NEW k \in Keys,
             Claim(c, d, t, k)
      PROVE  Contract!Next
  BY <1>3, ClaimStep
<1>4. ASSUME NEW t \in Clocks, NEW h \in handles, NEW s \in Seqs, Ack(h, s, t) \/ Fail(h, s, t)
      PROVE  Contract!Next
  BY <1>4, AckStep, FailStep
<1>5. ASSUME NEW t \in Clocks, NEW h \in handles, Release(h, t) PROVE Contract!Next
  BY <1>5, ReleaseStep
<1>6. ASSUME NEW t \in Clocks, NEW h \in handles, NEW d \in LeaseDurs, Heartbeat(h, d, t)
      PROVE  Contract!Next
  BY <1>6, HeartbeatStep
<1>7. ASSUME NEW t \in 0 .. MaxNow, ReapExpired(t) PROVE Contract!Next
  BY <1>7, ReapStep
<1>8. CASE Tick
  BY <1>8, TickStep
<1> QED
  BY <1>1, <1>2, <1>3, <1>4, <1>5, <1>6, <1>7, <1>8 DEF Next

(***************************************************************************)
(* The Valkey driver implements the contract of queue.Backend for every set*)
(* of keys, every option and every bound, its scripts, the commands of     *)
(* Drain and the reaper interleaved in any way: with one process, tasks    *)
(* that cost something, calls shorter than the flush cap and than a lease, *)
(* and while no producer tops up a promoted unit.  Each script then does   *)
(* what QueueContract allows at that point, and everything else is         *)
(* invisible (backend.go, scripts.go).                                     *)
(***************************************************************************)
THEOREM ValkeyImplements ==
  ASSUME OneProcess, Prompt, 0 \notin Costs
  PROVE  SpecNoTopUp => ImplementsContract
<1>1. Init => Contract!Init
  BY ContractInit
<1>2. StateInv /\ StateInv' /\ ClockInv /\ IndexInv /\ TokenInv /\ [Next /\ ~TopsUpPromoted]_vars
        => [Contract!Next]_Contract!vars
  BY ContractStep
<1>3. StateInv /\ ClockInv /\ [Next]_vars => ClockInv'
  BY ClockStep
<1>4. StateInv /\ TokenInv /\ [Next]_vars => TokenInv'
  BY TokenStep
<1> QED
  BY <1>1, <1>2, <1>3, <1>4, ClockInit, TokenInit, IndexInvariance, NoTopUpIsSpec, PTL
     DEF SpecNoTopUp, Spec, ImplementsContract, Contract!Spec
=============================================================================
