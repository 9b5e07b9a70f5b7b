------------------------ MODULE MemoryBackendProofs ------------------------
(***************************************************************************)
(* Proofs about the in-memory driver, for every set of keys and workers,   *)
(* every option and every bound.  The inductive invariant is per unit:     *)
(* what FifoIntact, AggregateExact, FlushClock and GateExact say of one    *)
(* unit need each other, so each method's effect on a unit is shown to     *)
(* preserve their conjunction, and the theorems about the whole map follow.*)
(***************************************************************************)
EXTENDS MemoryBackend, WorkUnitLemmas

UnitInv(u, a, t) ==
  /\ u \in Unit
  /\ UnitFifo(u, a)
  /\ u.pendingCost = Cost(u.tasks)
  /\ UnitClock(u, t)
  /\ UnitGate(u, t)

-----------------------------------------------------------------------------
(* The effect of each method on one unit. *)

\* A deleted unit satisfies the invariant whatever arrived before.
LEMMA NoUnitInv ==
  ASSUME NEW a \in Nat, NEW t \in Nat
  PROVE  UnitInv(NoUnit, a, t)
<1>1. NoUnit \in Unit
  BY DEF NoUnit, Unit
<1> QED
  BY <1>1, CostEmpty DEF NoUnit, UnitInv, UnitFifo, UnitClock, UnitGate

\* Only the lease and retry fields of a unit with work changed.
LEMMA LeaseFieldsOnly ==
  ASSUME NEW a \in Nat, NEW t \in Nat, NEW u, NEW v \in Unit,
         UnitInv(u, a, t), u.tasks # <<>>,
         v.tasks = u.tasks, v.enqAt = u.enqAt, v.nextSeq = u.nextSeq,
         v.pendingCost = u.pendingCost, v.flushDeadline = u.flushDeadline,
         v.eligible = u.eligible
  PROVE  UnitInv(v, a, t)
<1>1. Len(u.tasks) # 0
  BY EmptySeq, LenProperties DEF UnitInv, Unit
<1> QED
  BY <1>1 DEF UnitInv, UnitFifo, UnitClock, UnitGate

\* Time passing leaves a unit's invariant alone.
LEMMA LaterInv ==
  ASSUME NEW a \in Nat, NEW t \in Nat, NEW u, UnitInv(u, a, t)
  PROVE  UnitInv(u, a, t + 1)
<1>1. u.enqAt \in Seq(Nat) /\ u.tasks \in Seq(Task) /\ Len(u.enqAt) = Len(u.tasks)
  BY DEF UnitInv, Unit, UnitFifo
<1>2. \A i \in 1 .. Len(u.enqAt) : u.enqAt[i] \in Nat
  BY <1>1, ElementOfSeq
<1>3. UnitClock(u, t + 1)
  BY <1>2 DEF UnitInv, UnitClock
<1>4. UnitGate(u, t + 1)
  <2>1. u.tasks # <<>> => u.enqAt[1] \in Nat
    BY <1>1, <1>2, EmptySeq, LenProperties
  <2> QED
    BY <2>1, OptionsAssumption DEF UnitInv, UnitGate
<1> QED
  BY <1>3, <1>4 DEF UnitInv

\* Facts about one unit that the steps below keep using.
LEMMA UnitFacts ==
  ASSUME NEW a \in Nat, NEW t \in Nat, NEW u, UnitInv(u, a, t)
  PROVE  /\ u.tasks \in Seq(Task) /\ u.enqAt \in Seq(Nat)
         /\ Len(u.tasks) \in Nat /\ Len(u.enqAt) = Len(u.tasks)
         /\ \A i \in 1 .. Len(u.tasks) : u.tasks[i] \in Task /\ u.enqAt[i] \in Nat
         /\ u.tasks = <<>> <=> Len(u.tasks) = 0
         /\ u.nextSeq \in Nat
         /\ \A i, j \in 1 .. Len(u.tasks) : i # j => u.tasks[i].seq # u.tasks[j].seq
         /\ \A i \in 1 .. Len(u.tasks) : u.tasks[i].seq # u.nextSeq
<1>1. u.tasks \in Seq(Task) /\ u.enqAt \in Seq(Nat) /\ u.nextSeq \in Nat
  BY DEF UnitInv, Unit
<1>2. Len(u.tasks) \in Nat /\ Len(u.enqAt) = Len(u.tasks)
  BY <1>1, LenProperties DEF UnitInv, UnitFifo
<1>3. \A i \in 1 .. Len(u.tasks) : u.tasks[i] \in Task /\ u.enqAt[i] \in Nat
  BY <1>1, <1>2, ElementOfSeq
<1>4. u.tasks = <<>> <=> Len(u.tasks) = 0
  BY <1>1, <1>2, EmptySeq
<1>5. \A i \in 1 .. Len(u.tasks) : u.tasks[i].seq = u.nextSeq - Len(u.tasks) + i - 1
  BY DEF UnitInv, UnitFifo
<1>6. \A i, j \in 1 .. Len(u.tasks) : i # j => u.tasks[i].seq # u.tasks[j].seq
  <2> SUFFICES ASSUME NEW i \in 1 .. Len(u.tasks), NEW j \in 1 .. Len(u.tasks), i # j
               PROVE  u.tasks[i].seq # u.tasks[j].seq
    OBVIOUS
  <2>1. u.tasks[i].seq = u.nextSeq - Len(u.tasks) + i - 1
    BY <1>5
  <2>2. u.tasks[j].seq = u.nextSeq - Len(u.tasks) + j - 1
    BY <1>5
  <2> QED
    BY SMTT(30), <1>1, <1>2, <2>1, <2>2
<1>7. \A i \in 1 .. Len(u.tasks) : u.tasks[i].seq # u.nextSeq
  <2> SUFFICES ASSUME NEW i \in 1 .. Len(u.tasks) PROVE u.tasks[i].seq # u.nextSeq
    OBVIOUS
  <2>1. u.tasks[i].seq = u.nextSeq - Len(u.tasks) + i - 1
    BY <1>5
  <2> QED
    BY <1>1, <1>2, <2>1
<1> QED
  BY <1>1, <1>2, <1>3, <1>4, <1>6, <1>7

(***************************************************************************)
(* Enqueue: the task numbered nextSeq joins the tail, a first task starts  *)
(* the flush clock, crossing T sets the flag.                              *)
(***************************************************************************)
LEMMA EnqueueInv ==
  ASSUME NEW a \in Nat, now \in Nat, NEW u, UnitInv(u, a, now), NEW c \in Nat
  PROVE  LET task == [seq |-> u.nextSeq, payload |-> a + 1, cost |-> c]
         IN  UnitInv(EnqueueUnit(u, task), a + 1, now)
<1> DEFINE task == [seq |-> u.nextSeq, payload |-> a + 1, cost |-> c]
           v == EnqueueUnit(u, task)
           len == Len(u.tasks)
<1>1. /\ u \in Unit /\ u.tasks \in Seq(Task) /\ u.enqAt \in Seq(Nat) /\ u.nextSeq \in Nat
      /\ len \in Nat /\ Len(u.enqAt) = len
      /\ \A i \in 1 .. len : u.tasks[i] \in Task /\ u.enqAt[i] \in Nat
      /\ u.tasks = <<>> <=> len = 0
      /\ \A i \in 1 .. len : u.tasks[i].seq # u.nextSeq
  BY UnitFacts DEF UnitInv
<1>2. task \in Task /\ task.seq = u.nextSeq /\ task.payload = a + 1 /\ task.cost = c
  BY <1>1 DEF Task
<1>3. /\ Append(u.tasks, task) \in Seq(Task)
      /\ Len(Append(u.tasks, task)) = len + 1
      /\ \A i \in 1 .. len : Append(u.tasks, task)[i] = u.tasks[i]
      /\ Append(u.tasks, task)[len + 1] = task
  BY <1>1, <1>2, AppendElements
<1>4. /\ Append(u.enqAt, now) \in Seq(Nat)
      /\ Len(Append(u.enqAt, now)) = len + 1
      /\ \A i \in 1 .. len : Append(u.enqAt, now)[i] = u.enqAt[i]
      /\ Append(u.enqAt, now)[len + 1] = now
  BY <1>1, AppendElements
<1>5. Cost(Append(u.tasks, task)) = Cost(u.tasks) + c /\ Cost(u.tasks) \in Nat
  BY <1>1, <1>2, CostAppend, CostFinite
<1>6. u.pendingCost = Cost(u.tasks) /\ u.flushDeadline \in Nat /\ u.eligible \in BOOLEAN
  BY DEF UnitInv, Unit
<1>7. /\ v.tasks = Append(u.tasks, task) /\ v.enqAt = Append(u.enqAt, now)
      /\ v.nextSeq = u.nextSeq + 1 /\ v.pendingCost = u.pendingCost + c
      /\ v.flushDeadline = IF u.tasks = <<>> THEN now + MaxWait ELSE u.flushDeadline
      /\ v.eligible = (u.eligible \/ u.pendingCost + c >= Threshold)
  BY <1>1, <1>2 DEF EnqueueUnit, Unit
<1>8. v \in Unit
  <2>1. (IF u.tasks = <<>> THEN now + MaxWait ELSE u.flushDeadline) \in Nat
    BY <1>6, OptionsAssumption
  <2>2. u.pendingCost + task.cost \in Int
    BY <1>2, <1>5, <1>6
  <2>3. (u.eligible \/ u.pendingCost + task.cost >= Threshold) \in BOOLEAN
    BY <1>6
  <2> QED
    <3> DEFINE fd == IF u.tasks = <<>> THEN now + MaxWait ELSE u.flushDeadline
               el == u.eligible \/ u.pendingCost + task.cost >= Threshold
    <3>1. v = [u EXCEPT !.nextSeq = u.nextSeq + 1, !.flushDeadline = fd,
                 !.tasks = Append(u.tasks, task), !.enqAt = Append(u.enqAt, now),
                 !.pendingCost = u.pendingCost + task.cost, !.eligible = el]
      BY DEF EnqueueUnit
    <3>2. u.nextSeq + 1 \in Nat
      BY <1>1
    <3> HIDE DEF fd, el, v, task
    <3> QED
      BY ZenonT(60), <1>1, <1>3, <1>4, <2>1, <2>2, <2>3, <3>1, <3>2 DEF Unit, fd, el
<1> HIDE DEF task, v
<1>9. UnitFifo(v, a + 1)
  <2>1. /\ len <= u.nextSeq /\ u.nextSeq <= a
        /\ \A i \in 1 .. len : /\ u.tasks[i].payload = a - len + i
                             /\ u.tasks[i].seq = u.nextSeq - len + i - 1
    BY DEF UnitInv, UnitFifo
  <2>2. Len(v.tasks) = len + 1 /\ Len(v.enqAt) = len + 1 /\ v.nextSeq = u.nextSeq + 1
    BY <1>3, <1>4, <1>7
  <2>3. \A i \in 1 .. len + 1 : /\ v.tasks[i].payload = a + 1 - (len + 1) + i
                              /\ v.tasks[i].seq = u.nextSeq + 1 - (len + 1) + i - 1
    <3> SUFFICES ASSUME NEW i \in 1 .. len + 1
                 PROVE  /\ v.tasks[i].payload = a + 1 - (len + 1) + i
                        /\ v.tasks[i].seq = u.nextSeq + 1 - (len + 1) + i - 1
      OBVIOUS
    <3>1. CASE i = len + 1
      BY <3>1, <1>1, <1>2, <1>3, <1>7
    <3>2. CASE i # len + 1
      <4>1. i \in 1 .. len /\ v.tasks[i] = u.tasks[i]
        BY <3>2, <1>1, <1>3, <1>7
      <4>2. u.tasks[i].payload = a - len + i /\ u.tasks[i].seq = u.nextSeq - len + i - 1
        BY <4>1, <2>1
      <4>3. len \in Nat /\ u.nextSeq \in Nat
        BY <1>1
      <4> HIDE DEF len
      <4> QED
        BY <4>1, <4>2, <4>3
    <3> QED
      BY <3>1, <3>2
  <2>4. /\ Len(v.tasks) <= v.nextSeq /\ v.nextSeq <= a + 1 /\ Len(v.enqAt) = Len(v.tasks)
        /\ Len(v.tasks) # 0 /\ Len(v.tasks) \in Nat /\ v.nextSeq \in Nat
    BY <1>1, <2>1, <2>2
  <2>5. /\ \A i \in 1 .. Len(v.tasks) : v.tasks[i].payload = (a + 1) - Len(v.tasks) + i
        /\ \A i \in 1 .. Len(v.tasks) : v.tasks[i].seq = v.nextSeq - Len(v.tasks) + i - 1
    <3> SUFFICES ASSUME NEW i \in 1 .. Len(v.tasks)
                 PROVE  /\ v.tasks[i].payload = (a + 1) - Len(v.tasks) + i
                        /\ v.tasks[i].seq = v.nextSeq - Len(v.tasks) + i - 1
      OBVIOUS
    <3>1. i \in 1 .. len + 1
      BY <2>2
    <3>2. /\ v.tasks[i].payload = a + 1 - (len + 1) + i
          /\ v.tasks[i].seq = u.nextSeq + 1 - (len + 1) + i - 1
      BY <3>1, <2>3
    <3> QED
      BY <3>1, <3>2, <2>2, <1>1
  <2> QED
    BY <2>4, <2>5 DEF UnitFifo
<1>10. UnitClock(v, now)
  <2>1. v.flushDeadline = v.enqAt[1] + MaxWait
    <3>1. CASE len = 0
      BY <3>1, <1>1, <1>4, <1>7
    <3>2. CASE len # 0
      <4>1. u.flushDeadline = u.enqAt[1] + MaxWait /\ v.enqAt[1] = u.enqAt[1]
        BY <3>2, <1>1, <1>4, <1>7 DEF UnitInv, UnitClock
      <4> QED
        BY <4>1, <3>2, <1>1, <1>7
    <3> QED
      BY <3>1, <3>2
  <2>2. \A i \in 1 .. len + 1 : v.enqAt[i] <= now
    BY <1>1, <1>4, <1>7 DEF UnitInv, UnitClock
  <2>3. \A i, j \in 1 .. len + 1 : i <= j => v.enqAt[i] <= v.enqAt[j]
    BY SMTT(30), <1>1, <1>4, <1>7, <2>2 DEF UnitInv, UnitClock
  <2> QED
    BY <1>4, <1>7, <2>1, <2>2, <2>3 DEF UnitClock
<1>11. UnitGate(v, now)
  <2>1. Cost(v.tasks) = Cost(u.tasks) + c
    BY <1>5, <1>7
  <2>2. v.eligible = (u.eligible \/ Cost(u.tasks) + c >= Threshold)
    BY <1>6, <1>7
  <2>3. Cost(u.tasks) + c >= Threshold => v.eligible
    BY <2>2
  <2>4. ASSUME v.eligible
        PROVE  Cost(u.tasks) + c >= Threshold \/ now >= v.enqAt[1] + MaxWait
    <3>1. CASE Cost(u.tasks) + c >= Threshold
      BY <3>1
    <3>2. CASE u.eligible /\ len # 0
      <4>1. Cost(u.tasks) >= Threshold \/ now >= u.enqAt[1] + MaxWait
        BY <3>2, <1>1 DEF UnitInv, UnitGate
      <4>2. v.enqAt[1] = u.enqAt[1]
        BY <3>2, <1>1, <1>4, <1>7
      <4> QED
        BY <4>1, <4>2, <1>5, OptionsAssumption
    <3>3. CASE u.eligible /\ len = 0
      <4>1. u = NoUnit
        BY <3>3 DEF UnitInv, UnitFifo
      <4> QED
        BY <4>1, <3>3 DEF NoUnit
    <3> QED
      BY <2>2, <2>4, <3>1, <3>2, <3>3
  <2> QED
    BY <2>1, <2>3, <2>4 DEF UnitGate
<1>12. v.pendingCost = Cost(v.tasks)
  BY <1>5, <1>6, <1>7
<1> QED
  BY <1>8, <1>9, <1>10, <1>11, <1>12 DEF UnitInv, v, task

(***************************************************************************)
(* DropHead then Recompute, the heart of Ack and Fail: what is left is a   *)
(* sound unit whose clock and gate are its new head's.                     *)
(***************************************************************************)
LEMMA DropInv ==
  ASSUME NEW a \in Nat, now \in Nat, NEW u, UnitInv(u, a, now),
         NEW m \in 0 .. Len(u.tasks)
  PROVE  /\ DropHead(u, m) \in Unit
         /\ DropHead(u, m).tasks = Suffix(u.tasks, m)
         /\ DropHead(u, m).tasks # <<>> => UnitInv(Recompute(DropHead(u, m)), a, now)
<1> DEFINE r == DropHead(u, m)
           v == Recompute(r)
           len == Len(u.tasks)
<1>1. /\ u \in Unit /\ u.tasks \in Seq(Task) /\ u.enqAt \in Seq(Nat) /\ u.nextSeq \in Nat
      /\ len \in Nat /\ Len(u.enqAt) = len
      /\ \A i \in 1 .. len : u.tasks[i] \in Task /\ u.enqAt[i] \in Nat
      /\ \A i, j \in 1 .. len : i # j => u.tasks[i].seq # u.tasks[j].seq
  BY UnitFacts DEF UnitInv
<1>2. /\ Suffix(u.tasks, m) \in Seq(Task)
      /\ Len(Suffix(u.tasks, m)) = len - m
      /\ \A i \in 1 .. len - m : Suffix(u.tasks, m)[i] = u.tasks[m + i]
  BY <1>1, SuffixProperties
<1>3. /\ Suffix(u.enqAt, m) \in Seq(Nat)
      /\ Len(Suffix(u.enqAt, m)) = len - m
      /\ \A i \in 1 .. len - m : Suffix(u.enqAt, m)[i] = u.enqAt[m + i]
  <2>1. m \in 0 .. Len(u.enqAt)
    BY <1>1
  <2>2. /\ Suffix(u.enqAt, m) \in Seq(Nat)
        /\ Len(Suffix(u.enqAt, m)) = Len(u.enqAt) - m
        /\ \A i \in 1 .. Len(u.enqAt) - m : Suffix(u.enqAt, m)[i] = u.enqAt[m + i]
    BY <1>1, <2>1, SuffixProperties
  <2> QED
    BY <1>1, <2>2
<1>4. /\ Cost(u.tasks) = Cost(Prefix(u.tasks, m)) + Cost(Suffix(u.tasks, m))
      /\ Cost(Prefix(u.tasks, m)) \in Nat /\ Cost(Suffix(u.tasks, m)) \in Nat
  BY <1>1, <1>2, CostSplit, CostFinite, PrefixProperties
<1>5. u.pendingCost - Cost(Prefix(u.tasks, m)) = Cost(Suffix(u.tasks, m))
  BY <1>4 DEF UnitInv
<1>6. r = [u EXCEPT !.tasks = Suffix(u.tasks, m), !.enqAt = Suffix(u.enqAt, m),
                    !.pendingCost = Cost(Suffix(u.tasks, m)), !.attempts = 0]
  BY <1>5 DEF DropHead
<1> HIDE DEF r
<1>7. /\ r \in Unit
      /\ r.tasks = Suffix(u.tasks, m) /\ r.enqAt = Suffix(u.enqAt, m)
      /\ r.pendingCost = Cost(Suffix(u.tasks, m)) /\ r.nextSeq = u.nextSeq
  <2>1. Cost(Suffix(u.tasks, m)) \in Int
    BY <1>4
  <2> DEFINE ts == Suffix(u.tasks, m)
             times == Suffix(u.enqAt, m)
             pend == Cost(ts)
  <2>2. /\ u \in Unit /\ ts \in Seq(Task) /\ times \in Seq(Nat) /\ pend \in Int
        /\ r = [u EXCEPT !.tasks = ts, !.enqAt = times, !.pendingCost = pend,
                         !.attempts = 0]
    BY <1>1, <1>2, <1>3, <1>6, <2>1
  <2> HIDE DEF ts, times, pend
  <2>3. /\ r \in Unit /\ r.tasks = ts /\ r.enqAt = times /\ r.pendingCost = pend
        /\ r.nextSeq = u.nextSeq
    BY <2>2 DEF Unit
  <2> QED
    BY <2>3 DEF ts, times, pend
<1>8. ASSUME r.tasks # <<>> PROVE UnitInv(v, a, now)
  <2>1. len - m # 0 /\ len - m \in Nat
    BY <1>1, <1>2, <1>7, <1>8, EmptySeq
  <2>2. r.enqAt[1] = u.enqAt[m + 1] /\ r.enqAt[1] \in Nat
    BY <1>1, <1>3, <1>7, <2>1
  <2> DEFINE fd == r.enqAt[1] + MaxWait
             el == r.pendingCost >= Threshold \/ now >= r.enqAt[1] + MaxWait
  <2>3. v = [r EXCEPT !.flushDeadline = fd, !.eligible = el]
    BY DEF Recompute
  <2>4. fd \in Nat /\ el \in BOOLEAN
    BY <2>2, OptionsAssumption
  <2> HIDE DEF v, fd, el
  <2>5. /\ v \in Unit
        /\ v.tasks = Suffix(u.tasks, m) /\ v.enqAt = Suffix(u.enqAt, m)
        /\ v.pendingCost = Cost(Suffix(u.tasks, m)) /\ v.nextSeq = u.nextSeq
        /\ v.flushDeadline = fd /\ v.eligible = el
    BY <1>7, <2>3, <2>4 DEF Unit
  <2>6. Len(v.tasks) = len - m /\ Len(v.enqAt) = len - m
    BY <1>2, <1>3, <2>5
  <2>7. UnitFifo(v, a)
    <3>1. /\ len <= u.nextSeq /\ u.nextSeq <= a
          /\ \A i \in 1 .. len : /\ u.tasks[i].payload = a - len + i
                                 /\ u.tasks[i].seq = u.nextSeq - len + i - 1
      BY DEF UnitInv, UnitFifo
    <3>2. /\ Len(v.tasks) <= v.nextSeq /\ v.nextSeq <= a
          /\ Len(v.tasks) # 0 /\ Len(v.tasks) \in Nat /\ v.nextSeq \in Nat
      BY <1>1, <2>1, <2>5, <2>6, <3>1
    <3>3. /\ \A i \in 1 .. Len(v.tasks) : v.tasks[i].payload = a - Len(v.tasks) + i
          /\ \A i \in 1 .. Len(v.tasks) : v.tasks[i].seq = v.nextSeq - Len(v.tasks) + i - 1
      <4> SUFFICES ASSUME NEW i \in 1 .. Len(v.tasks)
                   PROVE  /\ v.tasks[i].payload = a - Len(v.tasks) + i
                          /\ v.tasks[i].seq = v.nextSeq - Len(v.tasks) + i - 1
        OBVIOUS
      <4>1. m + i \in 1 .. len /\ v.tasks[i] = u.tasks[m + i]
        BY <1>1, <1>2, <2>5, <2>6
      <4>2. /\ u.tasks[m + i].payload = a - len + (m + i)
            /\ u.tasks[m + i].seq = u.nextSeq - len + (m + i) - 1
        BY <4>1, <3>1
      <4>3. /\ len \in Nat /\ i \in Nat /\ u.nextSeq \in Nat /\ m \in Nat
            /\ Len(v.tasks) = len - m /\ v.nextSeq = u.nextSeq
        BY <1>1, <2>5, <2>6, <3>2
      <4> HIDE DEF len
      <4>4. v.tasks[i].payload = a - (len - m) + i
        BY <4>1, <4>2, <4>3
      <4>5. v.tasks[i].seq = u.nextSeq - (len - m) + i - 1
        BY <4>1, <4>2, <4>3
      <4> QED
        BY <4>3, <4>4, <4>5
    <3> QED
      BY <2>6, <3>2, <3>3 DEF UnitFifo
  <2>8. UnitClock(v, now)
    <3>1. \A i \in 1 .. len - m : m + i \in 1 .. len /\ v.enqAt[i] = u.enqAt[m + i]
      BY <1>1, <1>3, <2>5
    <3>2. /\ \A i \in 1 .. len : u.enqAt[i] <= now
          /\ \A i, j \in 1 .. len : i <= j => u.enqAt[i] <= u.enqAt[j]
      BY <1>1 DEF UnitInv, UnitClock
    <3>3. v.flushDeadline = v.enqAt[1] + MaxWait
      BY <1>7, <2>5 DEF fd
    <3>4. \A i \in 1 .. len - m : v.enqAt[i] <= now
      BY <3>1, <3>2
    <3>5. \A i, j \in 1 .. len - m : i <= j => v.enqAt[i] <= v.enqAt[j]
      BY <1>1, <3>1, <3>2
    <3> QED
      BY <2>6, <3>3, <3>4, <3>5 DEF UnitClock
  <2>9. UnitGate(v, now)
    <3>1. v.eligible <=> Cost(v.tasks) >= Threshold \/ now >= v.enqAt[1] + MaxWait
      BY <1>7, <2>5 DEF el
    <3> QED
      BY <3>1 DEF UnitGate
  <2> QED
    BY <2>5, <2>7, <2>8, <2>9 DEF UnitInv
<1> QED
  BY <1>7, <1>8 DEF r, v

\* Freeing a unit that has work.
LEMMA FreedInv ==
  ASSUME NEW a \in Nat, NEW t \in Nat, NEW u, UnitInv(u, a, t)
  PROVE  UnitInv(Freed(u), a, t)
<1>1. u \in Unit
  BY DEF UnitInv
<1>2. Freed(u) \in Unit
  BY <1>1 DEF Freed, Unit
<1>3. CASE u.tasks # <<>>
  BY <1>1, <1>2, <1>3, LeaseFieldsOnly DEF Freed, Unit
<1>4. CASE u.tasks = <<>>
  <2>1. u = NoUnit
    BY <1>4, EmptySeq DEF UnitInv, UnitFifo
  <2>2. u.claimedBy = None /\ u.lease = None
    BY <2>1 DEF NoUnit
  <2>3. Freed(u) = u
    BY <1>1, <2>2 DEF Freed, Unit
  <2> QED
    BY <2>3
<1> QED
  BY <1>3, <1>4

\* Ack keeps, re-buffers or deletes the unit; each outcome is sound.
LEMMA AckInv ==
  ASSUME NEW a \in Nat, now \in Nat, NEW u, UnitInv(u, a, now), NEW through \in Int
  PROVE  UnitInv(AckUnit(u, through), a, now)
<1> DEFINE m == LeadingRun(u.tasks, through)
           rest == DropHead(u, m)
           fresh == Recompute(rest)
<1>1. m \in 0 .. Len(u.tasks)
  BY LeadingRunType DEF UnitInv, Unit
<1> HIDE DEF m
<1>2. rest.tasks # <<>> => UnitInv(fresh, a, now)
  BY <1>1, DropInv
<1> HIDE DEF rest, fresh
<1>3. CASE rest.tasks = <<>>
  BY <1>3, NoUnitInv DEF AckUnit, rest, m
<1>4. CASE rest.tasks # <<>> /\ ~fresh.eligible
  <2>1. AckUnit(u, through) = Freed(fresh)
    BY <1>4 DEF AckUnit, fresh, rest, m
  <2> QED
    BY <1>2, <1>4, <2>1, FreedInv
<1>5. CASE rest.tasks # <<>> /\ fresh.eligible
  <2>1. AckUnit(u, through) = Renewed(fresh)
    BY <1>5 DEF AckUnit, fresh, rest, m
  <2>2. fresh \in Unit /\ now + fresh.leaseDur \in Nat
    BY SMTT(30), <1>2, <1>5 DEF UnitInv, Unit
  <2>3. /\ Renewed(fresh) \in Unit
        /\ Renewed(fresh).tasks = fresh.tasks /\ Renewed(fresh).enqAt = fresh.enqAt
        /\ Renewed(fresh).nextSeq = fresh.nextSeq
        /\ Renewed(fresh).pendingCost = fresh.pendingCost
        /\ Renewed(fresh).flushDeadline = fresh.flushDeadline
        /\ Renewed(fresh).eligible = fresh.eligible
    BY <2>2 DEF Renewed, Unit
  <2>4. fresh.tasks # <<>>
    <3>1. rest \in Unit
      BY <1>1, DropInv DEF rest
    <3> QED
      BY <1>5, <3>1 DEF fresh, Recompute, Unit
  <2> QED
    BY <1>2, <1>5, <2>1, <2>3, <2>4, LeaseFieldsOnly
<1> QED
  BY <1>3, <1>4, <1>5

\* Fail counts a failure, or drops a poison head; the unit ends up free.
LEMMA FailInv ==
  ASSUME NEW a \in Nat, now \in Nat, NEW u, UnitInv(u, a, now), NEW seq \in Int,
         u.tasks # <<>>
  PROVE  UnitInv(FailUnit(u, seq), a, now)
<1> DEFINE rest == DropHead(u, 1)
           more == [u EXCEPT !.attempts = u.attempts + 1]
<1>1. 1 \in 0 .. Len(u.tasks)
  BY UnitFacts
<1>2. rest.tasks # <<>> => UnitInv(Recompute(rest), a, now)
  BY <1>1, DropInv
<1> HIDE DEF rest
<1>3. CASE ~Poison(u, seq)
  <2>1. u \in Unit /\ u.attempts + 1 \in Nat
    BY DEF UnitInv, Unit
  <2>2. /\ more \in Unit
        /\ more.tasks = u.tasks /\ more.enqAt = u.enqAt /\ more.nextSeq = u.nextSeq
        /\ more.pendingCost = u.pendingCost /\ more.flushDeadline = u.flushDeadline
        /\ more.eligible = u.eligible
    BY <2>1 DEF Unit
  <2>3. FailUnit(u, seq) = Freed(more)
    BY <1>3 DEF FailUnit
  <2> HIDE DEF more
  <2>4. UnitInv(more, a, now)
    BY <2>2, LeaseFieldsOnly
  <2> QED
    BY <2>3, <2>4, FreedInv
<1>4. CASE Poison(u, seq) /\ rest.tasks = <<>>
  BY <1>4, NoUnitInv DEF FailUnit, rest
<1>5. CASE Poison(u, seq) /\ rest.tasks # <<>>
  <2>1. FailUnit(u, seq) = Freed(Recompute(rest))
    BY <1>5 DEF FailUnit, rest
  <2> QED
    BY <1>2, <1>5, <2>1, FreedInv
<1> QED
  BY <1>3, <1>4, <1>5

\* The reaper frees units and promotes only those whose head has aged out.
LEMMA ReapInv ==
  ASSUME NEW a \in Nat, now \in Nat, NEW u, UnitInv(u, a, now),
         NEW t \in Nat, t <= now
  PROVE  UnitInv(ReapUnit(u, t), a, now)
<1> DEFINE v == IF u.claimedBy # None /\ t > u.leaseExpires THEN Freed(u) ELSE u
           w == [v EXCEPT !.eligible = TRUE]
<1>1. UnitInv(v, a, now)
  BY FreedInv
<1> HIDE DEF v
<1>2. CASE v.claimedBy = None /\ ~v.eligible /\ v.tasks # <<>> /\ t >= v.flushDeadline
  <2>1. v \in Unit
    BY <1>1 DEF UnitInv
  <2>2. /\ w \in Unit
        /\ w.tasks = v.tasks /\ w.enqAt = v.enqAt /\ w.nextSeq = v.nextSeq
        /\ w.pendingCost = v.pendingCost /\ w.flushDeadline = v.flushDeadline
        /\ w.eligible = TRUE
    BY <2>1 DEF Unit
  <2>3. ReapUnit(u, t) = w
    BY <1>2 DEF ReapUnit, v
  <2> HIDE DEF w
  <2>4. now >= v.enqAt[1] + MaxWait
    <3>1. v.flushDeadline = v.enqAt[1] + MaxWait /\ v.flushDeadline \in Nat
      BY <1>1, <1>2, <2>1 DEF UnitInv, UnitClock, Unit
    <3> QED
      BY <3>1, <1>2
  <2>5. UnitGate(w, now)
    BY <2>2, <2>4 DEF UnitGate
  <2>6. Len(v.tasks) # 0
    BY <1>1, <1>2, UnitFacts
  <2>7. UnitFifo(w, a) /\ UnitClock(w, now)
    BY <1>1, <2>2, <2>6 DEF UnitInv, UnitFifo, UnitClock
  <2> QED
    BY <1>1, <2>2, <2>3, <2>5, <2>7 DEF UnitInv
<1>3. CASE ~(v.claimedBy = None /\ ~v.eligible /\ v.tasks # <<>> /\ t >= v.flushDeadline)
  BY <1>1, <1>3 DEF ReapUnit, v
<1> QED
  BY <1>2, <1>3

-----------------------------------------------------------------------------
(* The whole map. *)

StateInv ==
  /\ TypeOK
  /\ \A k \in Keys : UnitInv(units[k], arrived[k], now)

\* A held unit has work: a deleted one has no holder (held).
LEMMA HeldHasWork ==
  ASSUME StateInv, NEW c \in handles, Held(c)
  PROVE  /\ c.key \in Keys /\ c.worker \in Workers
         /\ units[c.key].tasks # <<>>
<1>1. c.key \in Keys /\ c.worker \in Workers
  BY DEF StateInv, TypeOK, ClaimedUnit
<1>2. units[c.key].claimedBy # None
  BY <1>1, WorkersAssumption DEF Held
<1>3. units[c.key] # NoUnit
  BY <1>2 DEF NoUnit
<1>4. Len(units[c.key].tasks) # 0
  BY <1>1, <1>3 DEF StateInv, UnitInv, UnitFifo
<1>5. <<>> \in Seq(Task) /\ Len(<<>>) = 0
  BY EmptySeq
<1> QED
  BY <1>1, <1>4, <1>5

\* A step that replaces one unit by a sound one keeps the map sound.
LEMMA ReplaceUnit ==
  ASSUME StateInv, NEW k \in Keys, NEW v, UnitInv(v, arrived[k], now),
         units' = [units EXCEPT ![k] = v], UNCHANGED <<arrived, now>>
  PROVE  /\ units' \in [Keys -> Unit]
         /\ \A j \in Keys : UnitInv(units[j], arrived[j], now)'
<1>1. v \in Unit /\ units \in [Keys -> Unit]
  BY DEF StateInv, TypeOK, UnitInv
<1>2. units' \in [Keys -> Unit]
  BY <1>1
<1>3. ASSUME NEW j \in Keys PROVE UnitInv(units'[j], arrived'[j], now')
  <2>1. CASE j = k
    <3>1. units'[j] = v
      BY <1>1, <2>1
    <3> QED
      BY <2>1, <3>1
  <2>2. CASE j # k
    <3>1. units'[j] = units[j]
      BY <1>1, <2>2
    <3>2. UnitInv(units[j], arrived[j], now)
      BY DEF StateInv
    <3> QED
      BY <3>1, <3>2
  <2> QED
    BY <2>1, <2>2
<1> QED
  BY <1>2, <1>3

\* The initial state is sound.
LEMMA InitStateInv == Init => StateInv
<1> SUFFICES ASSUME Init PROVE StateInv
  OBVIOUS
<1>1. TypeOK
  <2>1. NoUnit \in Unit
    BY DEF NoUnit, Unit
  <2>2. dlq \in Seq([key : Keys, task : Task])
    BY EmptySeq DEF Init
  <2> QED
    BY <2>1, <2>2, BoundsAssumption DEF Init, TypeOK
<1>2. ASSUME NEW k \in Keys PROVE UnitInv(units[k], arrived[k], now)
  BY NoUnitInv DEF Init
<1> QED
  BY <1>1, <1>2 DEF StateInv

\* Every method keeps the state sound.
LEMMA NextStateInv == StateInv /\ [Next]_vars => StateInv'
<1> SUFFICES ASSUME StateInv, [Next]_vars PROVE StateInv'
  OBVIOUS
<1>t. /\ units \in [Keys -> Unit] /\ dlq \in Seq([key : Keys, task : Task])
      /\ leaseCounter \in 0 .. MaxClaims /\ now \in 0 .. MaxNow /\ now \in Nat
      /\ handles \subseteq ClaimedUnit /\ arrived \in [Keys -> 0 .. MaxTasks]
      /\ \A k \in Keys : arrived[k] \in Nat
  BY BoundsAssumption DEF StateInv, TypeOK
<1>1. ASSUME NEW k \in Keys, NEW c \in Costs, Enqueue(k, c) PROVE StateInv'
  <2> DEFINE v == EnqueueUnit(units[k], [seq |-> units[k].nextSeq,
                                         payload |-> arrived[k] + 1, cost |-> c])
  <2>1. /\ units' = [units EXCEPT ![k] = v]
        /\ arrived' = [arrived EXCEPT ![k] = arrived[k] + 1]
        /\ arrived[k] < MaxTasks
        /\ UNCHANGED <<dlq, leaseCounter, now, handles>>
    BY <1>1 DEF Enqueue
  <2>2. UnitInv(units[k], arrived[k], now) /\ c \in Nat
    BY InputsAssumption DEF StateInv
  <2>3. UnitInv(v, arrived[k] + 1, now)
    BY <1>t, <2>2, EnqueueInv
  <2> HIDE DEF v
  <2>4. v \in Unit
    BY <2>3 DEF UnitInv
  <2>5. TypeOK'
    <3>1. units' \in [Keys -> Unit]
      BY <1>t, <2>1, <2>4
    <3>2. arrived' \in [Keys -> 0 .. MaxTasks]
      BY <1>t, <2>1, BoundsAssumption
    <3> QED
      BY <1>t, <2>1, <3>1, <3>2 DEF TypeOK
  <2>6. ASSUME NEW j \in Keys PROVE UnitInv(units'[j], arrived'[j], now')
    <3>1. CASE j = k
      <4>1. units'[j] = v /\ arrived'[j] = arrived[k] + 1 /\ now' = now
        BY <1>t, <2>1, <3>1
      <4> QED
        BY <4>1, <2>3
    <3>2. CASE j # k
      <4>1. units'[j] = units[j] /\ arrived'[j] = arrived[j] /\ now' = now
        BY <1>t, <2>1, <3>2
      <4>2. UnitInv(units[j], arrived[j], now)
        BY DEF StateInv
      <4> QED
        BY <4>1, <4>2
    <3> QED
      BY <3>1, <3>2
  <2> QED
    BY <2>5, <2>6 DEF StateInv
<1>2. ASSUME NEW w \in Workers, NEW d \in LeaseDurs, NEW k \in Keys, Claim(w, d, k)
      PROVE  StateInv'
  <2> DEFINE u == units[k]
             tok == NextToken(w)
             v == ClaimUnit(u, w, d)
  <2>1. /\ units' = [units EXCEPT ![k] = v]
        /\ leaseCounter < MaxClaims /\ leaseCounter' = leaseCounter + 1
        /\ handles' = handles \cup {[key |-> k, worker |-> w, lease |-> tok]}
        /\ UNCHANGED <<dlq, now, arrived>>
        /\ u.tasks # <<>>
    BY <1>2 DEF Claim, Best, Claimable
  <2>2. tok \in LeaseTokens
    <3>1. leaseCounter + 1 \in 1 .. MaxClaims
      BY <1>t, <2>1, BoundsAssumption
    <3> QED
      BY <3>1 DEF NextToken, LeaseTokens
  <2>3. u \in Unit /\ now + d \in Nat /\ d \in Nat
    BY <1>t, InputsAssumption
  <2>4. /\ v \in Unit
        /\ v.tasks = u.tasks /\ v.enqAt = u.enqAt /\ v.nextSeq = u.nextSeq
        /\ v.pendingCost = u.pendingCost /\ v.flushDeadline = u.flushDeadline
        /\ v.eligible = u.eligible
    <3> HIDE DEF u, tok
    <3> QED
      BY <2>2, <2>3 DEF ClaimUnit, Unit, tok
  <2>5. UnitInv(u, arrived[k], now)
    BY DEF StateInv
  <2> HIDE DEF v, tok
  <2>6. UnitInv(v, arrived[k], now)
    BY <1>t, <2>1, <2>4, <2>5, LeaseFieldsOnly
  <2>7. /\ units' \in [Keys -> Unit]
        /\ \A j \in Keys : UnitInv(units[j], arrived[j], now)'
    BY <2>1, <2>6, ReplaceUnit
  <2>8. handles' \subseteq ClaimedUnit
    BY <1>t, <2>1, <2>2 DEF ClaimedUnit
  <2>9. leaseCounter' \in 0 .. MaxClaims
    BY <1>t, <2>1, BoundsAssumption
  <2> QED
    BY <1>t, <2>1, <2>7, <2>8, <2>9 DEF StateInv, TypeOK
<1>3. ASSUME NEW c \in handles, NEW s \in Seqs, Ack(c, s) PROVE StateInv'
  <2>1. Held(c) /\ units' = [units EXCEPT ![c.key] = AckUnit(units[c.key], s)]
        /\ UNCHANGED <<dlq, leaseCounter, now, handles, arrived>>
    BY <1>3 DEF Ack
  <2>2. c.key \in Keys /\ s \in Int
    BY <2>1, HeldHasWork DEF Seqs
  <2>3. UnitInv(AckUnit(units[c.key], s), arrived[c.key], now)
    BY <1>t, <2>2, AckInv DEF StateInv
  <2>4. /\ units' \in [Keys -> Unit]
        /\ \A j \in Keys : UnitInv(units[j], arrived[j], now)'
    BY <2>1, <2>2, <2>3, ReplaceUnit
  <2> QED
    BY <1>t, <2>1, <2>4 DEF StateInv, TypeOK
<1>4. ASSUME NEW c \in handles, Release(c) PROVE StateInv'
  <2>1. Held(c) /\ units' = [units EXCEPT ![c.key] = Freed(units[c.key])]
        /\ UNCHANGED <<dlq, leaseCounter, now, handles, arrived>>
    BY <1>4 DEF Release
  <2>2. c.key \in Keys
    BY <2>1, HeldHasWork
  <2>3. UnitInv(Freed(units[c.key]), arrived[c.key], now)
    BY <1>t, <2>2, FreedInv DEF StateInv
  <2>4. /\ units' \in [Keys -> Unit]
        /\ \A j \in Keys : UnitInv(units[j], arrived[j], now)'
    BY <2>1, <2>2, <2>3, ReplaceUnit
  <2> QED
    BY <1>t, <2>1, <2>4 DEF StateInv, TypeOK
<1>5. ASSUME NEW c \in handles, NEW d \in LeaseDurs, Heartbeat(c, d) PROVE StateInv'
  <2> DEFINE u == units[c.key]
             v == [u EXCEPT !.leaseExpires = now + d]
  <2>1. Held(c) /\ units' = [units EXCEPT ![c.key] = v]
        /\ UNCHANGED <<dlq, leaseCounter, now, handles, arrived>>
    BY <1>5 DEF Heartbeat
  <2>2. c.key \in Keys /\ u.tasks # <<>>
    BY <2>1, HeldHasWork
  <2>3. u \in Unit /\ now + d \in Nat
    BY <1>t, <2>2, InputsAssumption
  <2>4. /\ v \in Unit
        /\ v.tasks = u.tasks /\ v.enqAt = u.enqAt /\ v.nextSeq = u.nextSeq
        /\ v.pendingCost = u.pendingCost /\ v.flushDeadline = u.flushDeadline
        /\ v.eligible = u.eligible
    <3> HIDE DEF u
    <3> QED
      BY <2>3 DEF Unit
  <2>5. UnitInv(u, arrived[c.key], now)
    BY <2>2 DEF StateInv
  <2> HIDE DEF v
  <2>6. UnitInv(v, arrived[c.key], now)
    BY <1>t, <2>2, <2>4, <2>5, LeaseFieldsOnly
  <2>7. /\ units' \in [Keys -> Unit]
        /\ \A j \in Keys : UnitInv(units[j], arrived[j], now)'
    BY <2>1, <2>2, <2>6, ReplaceUnit
  <2> QED
    BY <1>t, <2>1, <2>7 DEF StateInv, TypeOK
<1>6. ASSUME NEW c \in handles, NEW s \in Seqs, Fail(c, s) PROVE StateInv'
  <2> DEFINE u == units[c.key]
  <2>1. Held(c) /\ units' = [units EXCEPT ![c.key] = FailUnit(u, s)]
        /\ UNCHANGED <<leaseCounter, now, handles, arrived>>
        /\ dlq' = IF Poison(u, s) THEN Append(dlq, [key |-> c.key, task |-> u.tasks[1]])
                  ELSE dlq
    BY <1>6 DEF Fail
  <2>2. c.key \in Keys /\ u.tasks # <<>> /\ s \in Int
    BY <2>1, HeldHasWork DEF Seqs
  <2>3. UnitInv(u, arrived[c.key], now)
    BY <2>2 DEF StateInv
  <2>4. UnitInv(FailUnit(u, s), arrived[c.key], now)
    BY <1>t, <2>2, <2>3, FailInv
  <2>5. /\ units' \in [Keys -> Unit]
        /\ \A j \in Keys : UnitInv(units[j], arrived[j], now)'
    BY <2>1, <2>2, <2>4, ReplaceUnit
  <2>6. u.tasks[1] \in Task
    BY <1>t, <2>2, <2>3, UnitFacts
  <2>7. dlq' \in Seq([key : Keys, task : Task])
    <3> HIDE DEF u
    <3> QED
      BY <1>t, <2>1, <2>2, <2>6, AppendElements
  <2> QED
    BY <1>t, <2>1, <2>5, <2>7 DEF StateInv, TypeOK
<1>7. ASSUME NEW t \in 0 .. MaxNow, ReapExpired(t) PROVE StateInv'
  <2>1. t \in Nat /\ t <= now /\ units' = [k \in Keys |-> ReapUnit(units[k], t)]
        /\ UNCHANGED <<dlq, leaseCounter, now, handles, arrived>>
    BY <1>7, BoundsAssumption DEF ReapExpired
  <2>2. ASSUME NEW k \in Keys PROVE UnitInv(ReapUnit(units[k], t), arrived[k], now)
    BY <1>t, <2>1, ReapInv DEF StateInv
  <2>3. units' \in [Keys -> Unit]
    BY <2>1, <2>2 DEF UnitInv
  <2>4. \A k \in Keys : UnitInv(units[k], arrived[k], now)'
    BY <2>1, <2>2
  <2> QED
    BY <1>t, <2>1, <2>3, <2>4 DEF StateInv, TypeOK
<1>8. CASE Tick
  <2>1. now' = now + 1 /\ now < MaxNow /\ UNCHANGED <<units, dlq, leaseCounter, handles, arrived>>
    BY <1>8 DEF Tick
  <2>2. \A k \in Keys : UnitInv(units[k], arrived[k], now + 1)
    BY <1>t, LaterInv DEF StateInv
  <2>3. now' \in 0 .. MaxNow
    BY <1>t, <2>1, BoundsAssumption
  <2> QED
    BY <1>t, <2>1, <2>2, <2>3 DEF StateInv, TypeOK
<1>9. CASE UNCHANGED vars
  BY <1>9 DEF vars, StateInv, TypeOK
<1> QED
  BY <1>1, <1>2, <1>3, <1>4, <1>5, <1>6, <1>7, <1>8, <1>9 DEF Next, NextButFail

\* Every reachable state of the driver is sound.
LEMMA StateInvariant == Spec => []StateInv
  BY InitStateInv, NextStateInv, PTL DEF Spec

-----------------------------------------------------------------------------
(* What the driver guarantees, whatever its clients do. *)

\* Type correctness of the driver's state.
THEOREM TypeCorrect == Spec => []TypeOK
<1>1. StateInv => TypeOK
  BY DEF StateInv
<1> QED
  BY <1>1, StateInvariant, PTL

(***************************************************************************)
(* I1: pending tasks are the latest arrivals, in order, under consecutive  *)
(* seqs (Enqueue, Ack, Fail).                                              *)
(***************************************************************************)
THEOREM FifoCorrect == Spec => []FifoIntact
<1>1. StateInv => FifoIntact
  BY DEF StateInv, UnitInv, FifoIntact
<1> QED
  BY <1>1, StateInvariant, PTL

\* I3: pendingCost never drifts from the cost of what is pending.
THEOREM AggregateCorrect == Spec => []AggregateExact
<1>1. StateInv => AggregateExact
  BY DEF StateInv, UnitInv, AggregateExact
<1> QED
  BY <1>1, StateInvariant, PTL

\* A unit's flush deadline is its head's, and heads only get younger.
THEOREM ClockCorrect == Spec => []FlushClock
<1>1. StateInv => FlushClock
  BY DEF StateInv, UnitInv, FlushClock
<1> QED
  BY <1>1, StateInvariant, PTL

\* I4: the eligible flag that Claim trusts tells the truth about the gate.
THEOREM GateCorrect == Spec => []GateExact
<1>1. StateInv => GateExact
  BY DEF StateInv, UnitInv, GateExact
<1> QED
  BY <1>1, StateInvariant, PTL

-----------------------------------------------------------------------------
(* Leases. *)

(***************************************************************************)
(* Every live lease is a handle that was issued for that unit, and tokens  *)
(* determine the unit they were issued for because the counter only grows. *)
(***************************************************************************)
LeaseInv ==
  /\ \A k \in Keys : units[k].claimedBy = None <=> units[k].lease = None
  /\ \A k \in Keys : units[k].claimedBy # None =>
       [key |-> k, worker |-> units[k].claimedBy, lease |-> units[k].lease] \in handles
  /\ \A c \in handles : c.lease[2] <= leaseCounter
  /\ \A c, e \in handles : c.lease = e.lease => c.key = e.key

\* v has u's lease, or none.
KeepsOrFrees(u, v) ==
  \/ v.claimedBy = u.claimedBy /\ v.lease = u.lease
  \/ v.claimedBy = None /\ v.lease = None

\* No method but Claim puts a lease on a unit.
LEMMA FreedFrees ==
  ASSUME NEW u \in Unit
  PROVE  KeepsOrFrees(u, Freed(u)) /\ Freed(u).claimedBy = None /\ Freed(u).lease = None
  BY DEF KeepsOrFrees, Freed, Unit

\* Dropping tasks and recomputing leaves lease and holder alone.
LEMMA DropKeepsLease ==
  ASSUME NEW a \in Nat, now \in Nat, NEW u, UnitInv(u, a, now),
         NEW m \in 0 .. Len(u.tasks)
  PROVE  /\ Recompute(DropHead(u, m)).claimedBy = u.claimedBy
         /\ Recompute(DropHead(u, m)).lease = u.lease
<1> DEFINE r == DropHead(u, m)
<1>1. u \in Unit /\ r \in Unit
  BY DropInv DEF UnitInv
<1>2. r.claimedBy = u.claimedBy /\ r.lease = u.lease
  BY <1>1 DEF DropHead, Unit
<1> HIDE DEF r
<1>3. Recompute(r).claimedBy = r.claimedBy /\ Recompute(r).lease = r.lease
  BY <1>1 DEF Recompute, Unit
<1> QED
  BY <1>2, <1>3 DEF r

\* Ack keeps the lease or gives it up.
LEMMA AckLease ==
  ASSUME NEW a \in Nat, now \in Nat, NEW u, UnitInv(u, a, now), NEW through \in Int
  PROVE  KeepsOrFrees(u, AckUnit(u, through))
<1> DEFINE m == LeadingRun(u.tasks, through)
           rest == DropHead(u, m)
           fresh == Recompute(rest)
<1>1. m \in 0 .. Len(u.tasks)
  BY LeadingRunType DEF UnitInv, Unit
<1> HIDE DEF m
<1>2. fresh.claimedBy = u.claimedBy /\ fresh.lease = u.lease
  BY <1>1, DropKeepsLease
<1>3. rest.tasks # <<>> => fresh \in Unit
  BY <1>1, DropInv DEF UnitInv
<1> HIDE DEF rest, fresh
<1>4. CASE rest.tasks = <<>>
  <2>1. AckUnit(u, through) = NoUnit
    BY <1>4 DEF AckUnit, rest, m
  <2> QED
    BY <2>1 DEF KeepsOrFrees, NoUnit
<1>5. CASE rest.tasks # <<>> /\ ~fresh.eligible
  <2>1. AckUnit(u, through) = Freed(fresh)
    BY <1>5 DEF AckUnit, fresh, rest, m
  <2> QED
    BY <1>3, <1>5, <2>1, FreedFrees DEF KeepsOrFrees
<1>6. CASE rest.tasks # <<>> /\ fresh.eligible
  <2>1. AckUnit(u, through) = Renewed(fresh)
    BY <1>6 DEF AckUnit, fresh, rest, m
  <2>2. Renewed(fresh).claimedBy = fresh.claimedBy /\ Renewed(fresh).lease = fresh.lease
    BY <1>3, <1>6 DEF Renewed, Unit
  <2> QED
    BY <1>2, <2>1, <2>2 DEF KeepsOrFrees
<1> QED
  BY <1>4, <1>5, <1>6

\* Fail gives the lease up.
LEMMA FailLease ==
  ASSUME NEW a \in Nat, now \in Nat, NEW u, UnitInv(u, a, now), NEW seq \in Int,
         u.tasks # <<>>
  PROVE  KeepsOrFrees(u, FailUnit(u, seq))
<1> DEFINE rest == DropHead(u, 1)
           more == [u EXCEPT !.attempts = u.attempts + 1]
<1>1. 1 \in 0 .. Len(u.tasks) /\ u \in Unit /\ u.attempts + 1 \in Nat
  BY UnitFacts DEF UnitInv, Unit
<1>2. rest.tasks # <<>> => Recompute(rest) \in Unit
  BY <1>1, DropInv DEF UnitInv
<1>3. more \in Unit
  BY <1>1 DEF Unit
<1> HIDE DEF rest, more
<1>4. CASE ~Poison(u, seq)
  <2>1. FailUnit(u, seq) = Freed(more)
    BY <1>4 DEF FailUnit, more
  <2> QED
    BY <1>3, <2>1, FreedFrees DEF KeepsOrFrees
<1>5. CASE Poison(u, seq) /\ rest.tasks = <<>>
  <2>1. FailUnit(u, seq) = NoUnit
    BY <1>5 DEF FailUnit, rest
  <2> QED
    BY <2>1 DEF KeepsOrFrees, NoUnit
<1>6. CASE Poison(u, seq) /\ rest.tasks # <<>>
  <2>1. FailUnit(u, seq) = Freed(Recompute(rest))
    BY <1>6 DEF FailUnit, rest
  <2> QED
    BY <1>2, <1>6, <2>1, FreedFrees DEF KeepsOrFrees
<1> QED
  BY <1>4, <1>5, <1>6

\* The reaper leaves a lease alone or frees the unit.
LEMMA ReapLease ==
  ASSUME NEW u \in Unit, NEW t \in Nat
  PROVE  KeepsOrFrees(u, ReapUnit(u, t))
<1> DEFINE v == IF u.claimedBy # None /\ t > u.leaseExpires THEN Freed(u) ELSE u
           w == [v EXCEPT !.eligible = TRUE]
<1>1. KeepsOrFrees(u, v)
  BY FreedFrees DEF KeepsOrFrees
<1>2. v \in Unit
  BY DEF Freed, Unit
<1> HIDE DEF v
<1>3. w.claimedBy = v.claimedBy /\ w.lease = v.lease
  BY <1>2 DEF Unit
<1>4. ReapUnit(u, t) = v \/ ReapUnit(u, t) = w
  BY DEF ReapUnit, v
<1> QED
  BY <1>1, <1>3, <1>4 DEF KeepsOrFrees

\* Replacing one unit by a version that keeps or frees its lease.
LEMMA ReplaceLease ==
  ASSUME units \in [Keys -> Unit], NEW k \in Keys, NEW v, KeepsOrFrees(units[k], v),
         units' = [units EXCEPT ![k] = v]
  PROVE  \A j \in Keys : KeepsOrFrees(units[j], units'[j])
<1> SUFFICES ASSUME NEW j \in Keys PROVE KeepsOrFrees(units[j], units'[j])
  OBVIOUS
<1>1. CASE j = k
  BY <1>1
<1>2. CASE j # k
  BY <1>2 DEF KeepsOrFrees
<1> QED
  BY <1>1, <1>2

\* Any step but a Claim only keeps or frees leases, and issues no handle.
LEMMA OtherStepsKeepOrFree ==
  ASSUME StateInv, [Next]_vars,
         ~ \E w \in Workers, d \in LeaseDurs, k \in Keys : Claim(w, d, k)
  PROVE  /\ \A k \in Keys : KeepsOrFrees(units[k], units'[k])
         /\ UNCHANGED <<handles, leaseCounter>>
<1>t. /\ units \in [Keys -> Unit] /\ now \in Nat
      /\ \A k \in Keys : arrived[k] \in Nat /\ UnitInv(units[k], arrived[k], now)
  BY BoundsAssumption DEF StateInv, TypeOK
<1> DEFINE Goal == /\ \A k \in Keys : KeepsOrFrees(units[k], units'[k])
                   /\ UNCHANGED <<handles, leaseCounter>>
<1>1. ASSUME NEW k \in Keys, NEW c \in Costs, Enqueue(k, c) PROVE Goal
  <2> DEFINE task == [seq |-> units[k].nextSeq, payload |-> arrived[k] + 1, cost |-> c]
             v == EnqueueUnit(units[k], task)
  <2>1. units' = [units EXCEPT ![k] = v] /\ UNCHANGED <<handles, leaseCounter>>
    BY <1>1 DEF Enqueue
  <2>2. v.claimedBy = units[k].claimedBy /\ v.lease = units[k].lease
    <3> HIDE DEF task
    <3> QED
      BY <1>t DEF EnqueueUnit, Unit
  <2> HIDE DEF v
  <2>3. KeepsOrFrees(units[k], v)
    BY <2>2 DEF KeepsOrFrees
  <2> QED
    BY <1>t, <2>1, <2>3, ReplaceLease
<1>2. ASSUME NEW c \in handles, NEW s \in Seqs, Ack(c, s) PROVE Goal
  <2>1. Held(c) /\ units' = [units EXCEPT ![c.key] = AckUnit(units[c.key], s)]
        /\ UNCHANGED <<handles, leaseCounter>>
    BY <1>2 DEF Ack
  <2>2. c.key \in Keys /\ s \in Int
    BY <2>1, HeldHasWork DEF Seqs
  <2>3. KeepsOrFrees(units[c.key], AckUnit(units[c.key], s))
    BY <1>t, <2>2, AckLease
  <2> QED
    BY <1>t, <2>1, <2>2, <2>3, ReplaceLease
<1>3. ASSUME NEW c \in handles, Release(c) PROVE Goal
  <2>1. Held(c) /\ units' = [units EXCEPT ![c.key] = Freed(units[c.key])]
        /\ UNCHANGED <<handles, leaseCounter>>
    BY <1>3 DEF Release
  <2>2. c.key \in Keys
    BY <2>1, HeldHasWork
  <2>3. KeepsOrFrees(units[c.key], Freed(units[c.key]))
    BY <1>t, <2>2, FreedFrees
  <2> QED
    BY <1>t, <2>1, <2>2, <2>3, ReplaceLease
<1>4. ASSUME NEW c \in handles, NEW d \in LeaseDurs, Heartbeat(c, d) PROVE Goal
  <2> DEFINE v == [units[c.key] EXCEPT !.leaseExpires = now + d]
  <2>1. Held(c) /\ units' = [units EXCEPT ![c.key] = v] /\ UNCHANGED <<handles, leaseCounter>>
    BY <1>4 DEF Heartbeat
  <2>2. c.key \in Keys
    BY <2>1, HeldHasWork
  <2>3. KeepsOrFrees(units[c.key], v)
    BY <1>t, <2>2 DEF KeepsOrFrees, Unit
  <2> HIDE DEF v
  <2> QED
    BY <1>t, <2>1, <2>2, <2>3, ReplaceLease
<1>5. ASSUME NEW c \in handles, NEW s \in Seqs, Fail(c, s) PROVE Goal
  <2>1. Held(c) /\ units' = [units EXCEPT ![c.key] = FailUnit(units[c.key], s)]
        /\ UNCHANGED <<handles, leaseCounter>>
    BY <1>5 DEF Fail
  <2>2. c.key \in Keys /\ s \in Int /\ units[c.key].tasks # <<>>
    BY <2>1, HeldHasWork DEF Seqs
  <2>3. KeepsOrFrees(units[c.key], FailUnit(units[c.key], s))
    BY <1>t, <2>2, FailLease
  <2> QED
    BY <1>t, <2>1, <2>2, <2>3, ReplaceLease
<1>6. ASSUME NEW t \in 0 .. MaxNow, ReapExpired(t) PROVE Goal
  <2>1. t \in Nat /\ units' = [k \in Keys |-> ReapUnit(units[k], t)]
        /\ UNCHANGED <<handles, leaseCounter>>
    BY <1>6, BoundsAssumption DEF ReapExpired
  <2> QED
    BY <1>t, <2>1, ReapLease
<1>7. CASE Tick \/ UNCHANGED vars
  BY <1>7 DEF Tick, vars, KeepsOrFrees
<1> QED
  BY <1>1, <1>2, <1>3, <1>4, <1>5, <1>6, <1>7 DEF Next, NextButFail

\* No handle was ever issued with the token the next Claim renders.
LEMMA FreshToken ==
  ASSUME StateInv, LeaseInv, NEW w \in Workers
  PROVE  \A c \in handles : c.lease # NextToken(w)
<1> SUFFICES ASSUME NEW c \in handles, c.lease = NextToken(w) PROVE FALSE
  OBVIOUS
<1>1. c.lease[2] = leaseCounter + 1
  BY DEF NextToken
<1>2. c.lease[2] <= leaseCounter /\ leaseCounter \in Int
  BY DEF LeaseInv, StateInv, TypeOK
<1> QED
  BY <1>1, <1>2

\* What a Claim changes, seen through the lease fields.
LEMMA ClaimLease ==
  ASSUME StateInv, NEW w \in Workers, NEW d \in LeaseDurs, NEW k \in Keys, Claim(w, d, k)
  PROVE  /\ units'[k].claimedBy = w /\ units'[k].lease = NextToken(w)
         /\ \A j \in Keys \ {k} : units'[j] = units[j]
         /\ handles' = handles \cup {[key |-> k, worker |-> w, lease |-> NextToken(w)]}
         /\ leaseCounter' = leaseCounter + 1
<1>1. units \in [Keys -> Unit] /\ units' = [units EXCEPT ![k] = ClaimUnit(units[k], w, d)]
  BY DEF Claim, StateInv, TypeOK
<1>2. ClaimUnit(units[k], w, d).claimedBy = w /\ ClaimUnit(units[k], w, d).lease = NextToken(w)
  <2> DEFINE tok == NextToken(w)
  <2>1. units[k] \in Unit
    BY <1>1
  <2> HIDE DEF tok
  <2> QED
    BY <2>1 DEF ClaimUnit, Unit
<1> QED
  BY <1>1, <1>2 DEF Claim

\* A new backend has issued nothing.
LEMMA InitLeaseInv ==
  ASSUME Init
  PROVE  LeaseInv
  BY DEF Init, LeaseInv, NoUnit

\* LeaseInv is inductive, given StateInv.
LEMMA NextLeaseInv ==
  ASSUME StateInv, LeaseInv, [Next]_vars
  PROVE  LeaseInv'
<1>t. handles \subseteq ClaimedUnit /\ leaseCounter \in Nat /\ units \in [Keys -> Unit]
  BY BoundsAssumption DEF StateInv, TypeOK
<1>1. CASE ~ \E w \in Workers, d \in LeaseDurs, k \in Keys : Claim(w, d, k)
  <2>1. /\ \A k \in Keys : KeepsOrFrees(units[k], units'[k])
        /\ handles' = handles /\ leaseCounter' = leaseCounter
    BY <1>1, OtherStepsKeepOrFree
  <2> QED
    BY <2>1 DEF LeaseInv, KeepsOrFrees
<1>2. ASSUME NEW w \in Workers, NEW d \in LeaseDurs, NEW k \in Keys, Claim(w, d, k)
      PROVE  LeaseInv'
  <2> DEFINE tok == NextToken(w)
             h == [key |-> k, worker |-> w, lease |-> tok]
  <2>1. /\ units'[k].claimedBy = w /\ units'[k].lease = tok
        /\ \A j \in Keys \ {k} : units'[j] = units[j]
        /\ handles' = handles \cup {h}
        /\ leaseCounter' = leaseCounter + 1
    BY <1>2, ClaimLease
  <2>2. \A c \in handles : c.lease # tok
    BY FreshToken
  <2>3. w # None /\ tok # None /\ tok[2] = leaseCounter + 1
    <3>1. tok \in Workers \X Nat
      BY <1>t DEF NextToken
    <3> QED
      BY <3>1, WorkersAssumption DEF NextToken
  <2>4. h.key = k /\ h.worker = w /\ h.lease = tok
    OBVIOUS
  <2> HIDE DEF tok
  <2>5. \A j \in Keys : units'[j].claimedBy = None <=> units'[j].lease = None
    BY <2>1, <2>3 DEF LeaseInv
  <2>6. \A j \in Keys : units'[j].claimedBy # None =>
          [key |-> j, worker |-> units'[j].claimedBy, lease |-> units'[j].lease] \in handles'
    <3> TAKE j \in Keys
    <3>1. CASE j = k
      BY <2>1, <3>1
    <3>2. CASE j # k
      BY <2>1, <3>2 DEF LeaseInv
    <3> QED
      BY <3>1, <3>2
  <2> HIDE DEF h
  <2>7. \A c \in handles' : c.lease[2] <= leaseCounter'
    <3> TAKE c \in handles'
    <3>1. CASE c = h
      BY <1>t, <2>1, <2>3, <2>4, <3>1
    <3>2. CASE c \in handles
      <4>1. c.lease[2] <= leaseCounter
        BY <3>2 DEF LeaseInv
      <4>2. c.lease[2] \in 1 .. MaxClaims
        BY <1>t, <3>2 DEF ClaimedUnit, LeaseTokens
      <4> QED
        BY <1>t, <2>1, <4>1, <4>2, BoundsAssumption
    <3> QED
      BY <2>1, <3>1, <3>2
  <2>8. \A c, e \in handles' : c.lease = e.lease => c.key = e.key
    BY <2>1, <2>2, <2>4 DEF LeaseInv
  <2> QED
    BY <2>5, <2>6, <2>7, <2>8 DEF LeaseInv
<1> QED
  BY <1>1, <1>2

\* The invariant of the leases holds in every execution.
LEMMA LeaseInvariant == Spec => [](StateInv /\ LeaseInv)
<1>1. Init => StateInv /\ LeaseInv
  BY InitStateInv, InitLeaseInv
<1>2. (StateInv /\ LeaseInv) /\ [Next]_vars => (StateInv /\ LeaseInv)'
  BY NextStateInv, NextLeaseInv
<1> QED
  BY <1>1, <1>2, PTL DEF Spec

(***************************************************************************)
(* I2 for any number of keys, workers and claims: at every moment a live   *)
(* lease belongs to the handle Claim returned for that unit, and to no     *)
(* other unit.                                                             *)
(***************************************************************************)
THEOREM LeasesExclusive == Spec => []LeaseExclusive
<1>1. StateInv /\ LeaseInv => LeaseExclusive
  <2> SUFFICES ASSUME StateInv, LeaseInv, NEW k \in Keys, units[k].claimedBy # None
               PROVE  /\ [key |-> k, worker |-> units[k].claimedBy,
                           lease |-> units[k].lease] \in handles
                      /\ \A j \in Keys \ {k} : units[j].lease # units[k].lease
    BY DEF LeaseExclusive
  <2>1. [key |-> k, worker |-> units[k].claimedBy, lease |-> units[k].lease] \in handles
    BY DEF LeaseInv
  <2>2. ASSUME NEW j \in Keys \ {k}, units[j].lease = units[k].lease PROVE FALSE
    <3>1. units[j].claimedBy # None
      BY <2>2 DEF LeaseInv
    <3>2. [key |-> j, worker |-> units[j].claimedBy, lease |-> units[j].lease] \in handles
      BY <3>1 DEF LeaseInv
    <3> QED
      BY <2>1, <2>2, <3>2 DEF LeaseInv
  <2> QED
    BY <2>1, <2>2
<1> QED
  BY <1>1, LeaseInvariant, PTL

(***************************************************************************)
(* A handle that held() has once refused is refused for ever: no later     *)
(* Claim, of that unit or of a revived one, can bring its token back.      *)
(***************************************************************************)
THEOREM LostLeasesStayLost == Spec => LostStaysLost
<1>1. ASSUME StateInv, LeaseInv, [Next]_vars
      PROVE  [\A c \in handles : ~Held(c) => ~Held(c)']_vars
  <2> SUFFICES ASSUME NEW c \in handles, ~Held(c), Held(c)' PROVE FALSE
    OBVIOUS
  <2>t. c.key \in Keys /\ c.worker # None
    BY <1>1, WorkersAssumption DEF StateInv, TypeOK, ClaimedUnit
  <2>1. CASE ~ \E w \in Workers, d \in LeaseDurs, k \in Keys : Claim(w, d, k)
    <3>1. KeepsOrFrees(units[c.key], units'[c.key])
      BY <1>1, <2>t, <2>1, OtherStepsKeepOrFree
    <3> QED
      BY <2>t, <3>1 DEF KeepsOrFrees, Held
  <2>2. ASSUME NEW w \in Workers, NEW d \in LeaseDurs, NEW k \in Keys, Claim(w, d, k)
        PROVE  FALSE
    <3>1. /\ units'[k].lease = NextToken(w)
          /\ \A j \in Keys \ {k} : units'[j] = units[j]
      BY <1>1, <2>2, ClaimLease
    <3>2. c.lease # NextToken(w)
      BY <1>1, FreshToken
    <3> QED
      BY <2>t, <3>1, <3>2 DEF Held
  <2> QED
    BY <2>1, <2>2
<1>2. (StateInv /\ LeaseInv) /\ [Next]_vars
        => [\A c \in handles : ~Held(c) => ~Held(c)']_vars
  BY <1>1
<1> QED
  BY <1>2, LeaseInvariant, PTL DEF Spec, LostStaysLost
=============================================================================
