----------------------- MODULE PostgresBackendProofs -----------------------
(***************************************************************************)
(* Proofs about the Postgres driver.  The inductive invariant PgInv has a  *)
(* part per concern: who may write a unit's row (Leases), what the tasks   *)
(* table holds (Arrivals, Sums), the flush clock (Clock), the gate (Gate), *)
(* failure counts (Attempts) and what callers drained (HolderAligned).     *)
(* Most of it follows from what one step can do to one unit: a task is     *)
(* added (Grew), tasks leave under the row's lock (Shrank), or the tasks   *)
(* stay (Kept).  The last part shows that the driver implements the        *)
(* contract; beside PgInv it needs that transactions are short (Timely).   *)
(***************************************************************************)
EXTENDS PostgresBackend, WorkUnitLemmas, WellFoundedInduction

CallRecord == [step : {"idle", "read"}, got : Seq(TaskRow)]

Types ==
  /\ TypeOK
  /\ calls \in [LeaseTokens -> CallRecord]
  /\ failures \in [Keys -> [1 .. MaxTasks -> Nat]]

(***************************************************************************)
(* A token is issued once and never comes back, a row is leased only to a  *)
(* handle somebody was given, and an open transaction holds the lease of   *)
(* the row it locked.                                                      *)
(***************************************************************************)
Leases ==
  /\ \A h \in handles : h.lease <= issued
  /\ \A g, h \in handles : g.lease = h.lease => g = h
  /\ \A t \in LeaseTokens : t > issued => calls[t] = Idle
  /\ \A k \in Keys : workUnits[k].lease # None =>
       [key |-> k, lease |-> workUnits[k].lease] \in handles
  /\ \A k \in Keys : tx[k] # None =>
       /\ tx[k].by.key = k /\ tx[k].by.lease = workUnits[k].lease
       /\ tx[k].at <= now

Arrivals == FifoIntact /\ \A k \in Keys : Len(tasks[k]) <= arrived[k]

Sums == \A k \in Keys : workUnits[k].pendingCost = Cost(tasks[k])

(***************************************************************************)
(* oldest_pending_at lies between the oldest pending task and a statement's*)
(* length after any pending task that costs something.                     *)
(***************************************************************************)
ClockOf(k) ==
  /\ workUnits[k].flushDeadline = After(workUnits[k].oldestPendingAt, MaxWait)
  /\ \A i \in DOMAIN tasks[k] : tasks[k][i].enqueuedAt <= now
  /\ workUnits[k].oldestPendingAt # None =>
       /\ workUnits[k].oldestPendingAt <= now
       /\ \E i \in DOMAIN tasks[k] : tasks[k][i].enqueuedAt <= workUnits[k].oldestPendingAt
  /\ \A i \in DOMAIN tasks[k] : tasks[k][i].cost > 0 =>
       /\ workUnits[k].oldestPendingAt # None
       /\ workUnits[k].oldestPendingAt <= tasks[k][i].enqueuedAt + Lag

Clock == (reap # None => reap <= now) /\ \A k \in Keys : ClockOf(k)

GateOf(k) ==
  /\ Cost(tasks[k]) >= Threshold => workUnits[k].eligible
  /\ workUnits[k].eligible =>
       \/ Cost(tasks[k]) >= Threshold
       \/ \E i \in DOMAIN tasks[k] : tasks[k][i].enqueuedAt + MaxWait <= now
  /\ workUnits[k].lease # None => workUnits[k].eligible

Gate == \A k \in Keys : GateOf(k)

(***************************************************************************)
(* A pending task's attempts are the Fails committed for it; a dead letter *)
(* is none of the unit's pending or future tasks.                          *)
(***************************************************************************)
AttemptsOf(k) ==
  /\ \A i \in DOMAIN tasks[k] : tasks[k][i].attempts = failures[k][tasks[k][i].payload]
  /\ \A p \in 1 .. MaxTasks : p > arrived[k] => failures[k][p] = 0

DeadOf(d) ==
  /\ d.task.payload \in 1 .. (arrived[d.key] - Len(tasks[d.key]))
  /\ d.task.attempts >= MaxAttempts
  /\ failures[d.key][d.task.payload] = d.task.attempts

Attempts ==
  /\ \A k \in Keys : AttemptsOf(k)
  /\ \A i \in DOMAIN deadLetters : DeadOf(deadLetters[i])

PgInv == Types /\ Leases /\ Arrivals /\ Sums /\ Clock /\ Gate /\ Attempts /\ HolderAligned

-----------------------------------------------------------------------------
(* What one step can do to one unit. *)

\* The same task, except perhaps for its attempts.
SameTask(r, s) ==
  r.seq = s.seq /\ r.payload = s.payload /\ r.cost = s.cost /\ r.enqueuedAt = s.enqueuedAt

\* The first n tasks of k leave and the rest stay; nothing arrives.
Dropped(k, n) ==
  /\ n \in 0 .. Len(tasks[k])
  /\ Len(tasks'[k]) = Len(tasks[k]) - n
  /\ \A i \in 1 .. (Len(tasks[k]) - n) : SameTask(tasks'[k][i], tasks[k][n + i])
  /\ arrived'[k] = arrived[k]
  /\ workUnits'[k].nextSeq = workUnits[k].nextSeq

Grew(k, c, t) ==
  LET old == workUnits[k]
      new == workUnits'[k]
  IN  /\ tasks'[k] = Append(tasks[k],
           [seq |-> old.nextSeq + 1, payload |-> arrived[k] + 1, cost |-> c,
            attempts |-> 0, enqueuedAt |-> t])
      /\ arrived[k] < MaxTasks /\ arrived'[k] = arrived[k] + 1
      /\ new.pendingCost = old.pendingCost + c /\ new.nextSeq = old.nextSeq + 1
      /\ (new.eligible <=> old.eligible \/ old.pendingCost + c >= Threshold)
      /\ new.oldestPendingAt = IF old.pendingCost = 0 THEN t ELSE old.oldestPendingAt
      /\ new.flushDeadline = IF old.pendingCost = 0 THEN t + MaxWait ELSE old.flushDeadline
      /\ new.lease = old.lease
      /\ now' = now

Shrank(k, n) ==
  LET new == workUnits'[k]
  IN  /\ Dropped(k, n)
      /\ tx[k] # None
      /\ new.pendingCost = workUnits[k].pendingCost - (Cost(tasks[k]) - Cost(tasks'[k]))
      /\ new.oldestPendingAt = MinEnqueued(tasks'[k])
      /\ new.flushDeadline = After(new.oldestPendingAt, MaxWait)
      /\ (new.eligible <=> \/ new.pendingCost >= Threshold
                           \/ /\ new.oldestPendingAt # None
                              /\ new.oldestPendingAt + MaxWait <= tx[k].at)
      /\ new.lease # None => new.eligible
      /\ now' = now

Kept(k) ==
  LET old == workUnits[k]
      new == workUnits'[k]
  IN  /\ Dropped(k, 0)
      /\ new.pendingCost = old.pendingCost
      /\ new.oldestPendingAt = old.oldestPendingAt /\ new.flushDeadline = old.flushDeadline
      /\ old.eligible => new.eligible
      /\ new.eligible => old.eligible \/ (reap # None /\ Flushable(old, reap))
      /\ new.lease # None => old.lease # None \/ new.eligible
      /\ now' \in {now, now + 1}

-----------------------------------------------------------------------------
(* Facts about rows. *)

USE PostgresKeys, PostgresNull, PostgresOptions, PostgresBounds

\* The rows of a unit's tasks and their columns.
LEMMA RowsAt ==
  ASSUME NEW ts \in Seq(TaskRow)
  PROVE  /\ Len(ts) \in Nat /\ DOMAIN ts = 1 .. Len(ts)
         /\ \A i \in DOMAIN ts :
              /\ ts[i] \in TaskRow
              /\ ts[i].seq \in Nat /\ ts[i].payload \in Nat /\ ts[i].cost \in Nat
              /\ ts[i].attempts \in Nat /\ ts[i].enqueuedAt \in Nat
<1>1. Len(ts) \in Nat /\ DOMAIN ts = 1 .. Len(ts)
  BY LenProperties
<1>2. \A i \in DOMAIN ts : ts[i] \in TaskRow
  BY <1>1, ElementOfSeq
<1> QED
  BY <1>1, <1>2 DEF TaskRow

\* The tasks of the contract that rows stand for.
Stripped(ts) == [i \in DOMAIN ts |-> TaskOf(ts[i])]

\* The contract's view of the rows: the same tasks, at the same cost.
LEMMA StrippedRows ==
  ASSUME NEW ts \in Seq(TaskRow)
  PROVE  /\ Stripped(ts) \in Seq(Task) /\ Len(Stripped(ts)) = Len(ts)
         /\ \A i \in 1 .. Len(ts) : /\ Stripped(ts)[i] = TaskOf(ts[i])
                                    /\ Stripped(ts)[i].seq = ts[i].seq
                                    /\ Stripped(ts)[i].cost = ts[i].cost
         /\ Cost(Stripped(ts)) = Cost(ts)
<1>1. /\ Len(ts) \in Nat /\ DOMAIN ts = 1 .. Len(ts)
      /\ \A i \in DOMAIN ts : TaskOf(ts[i]) \in Task
  BY RowsAt DEF TaskOf, Task
<1>2. Stripped(ts) \in [1 .. Len(ts) -> Task]
  BY <1>1 DEF Stripped
<1>3. Stripped(ts) \in Seq(Task)
  BY <1>1, <1>2, SeqDef
<1>4. DOMAIN Stripped(ts) = 1 .. Len(ts) /\ Len(Stripped(ts)) = Len(ts)
  BY <1>1, <1>2, <1>3, LenProperties
<1>5. \A i \in DOMAIN ts : Stripped(ts)[i].seq = ts[i].seq /\ Stripped(ts)[i].cost = ts[i].cost
  BY DEF Stripped, TaskOf
<1>6. CostUnits(Stripped(ts)) = CostUnits(ts)
  BY <1>1, <1>4, <1>5 DEF CostUnits
<1> QED
  BY <1>1, <1>3, <1>4, <1>5, <1>6 DEF Stripped, Cost

\* The cost of rows is a number.
LEMMA RowsCost ==
  ASSUME NEW ts \in Seq(TaskRow)
  PROVE  Cost(ts) \in Nat
  BY StrippedRows, CostFinite

\* Rows with the same seqs and costs cost the same.
LEMMA SameCost ==
  ASSUME NEW ts, NEW us, NEW m \in Nat, DOMAIN ts = 1 .. m, DOMAIN us = 1 .. m,
         \A i \in 1 .. m : ts[i].seq = us[i].seq /\ ts[i].cost = us[i].cost
  PROVE  Cost(ts) = Cost(us)
  BY DEF Cost, CostUnits

\* The cost of rows under distinct seqs is that of the first n and of the others.
LEMMA RowsSplit ==
  ASSUME NEW ts \in Seq(TaskRow), NEW n \in 0 .. Len(ts),
         \A i, j \in 1 .. Len(ts) : i # j => ts[i].seq # ts[j].seq
  PROVE  Cost(ts) = Cost(Prefix(ts, n)) + Cost(Suffix(ts, n))
<1> DEFINE S == Stripped(ts)
<1>1. /\ S \in Seq(Task) /\ Len(S) = Len(ts) /\ Cost(S) = Cost(ts)
      /\ \A i \in 1 .. Len(ts) : S[i].seq = ts[i].seq /\ S[i].cost = ts[i].cost
  BY StrippedRows
<1>2. Len(ts) \in Nat
  BY RowsAt
<1> HIDE DEF S
<1>3. \A i, j \in 1 .. Len(S) : i # j => S[i].seq # S[j].seq
  BY <1>1
<1>4. Cost(S) = Cost(Prefix(S, n)) + Cost(Suffix(S, n))
  BY <1>1, <1>3, CostSplit
<1>5. /\ Prefix(S, n) \in Seq(Task) /\ Len(Prefix(S, n)) = n
      /\ \A i \in 1 .. n : Prefix(S, n)[i] = S[i]
  BY <1>1, PrefixProperties
<1>6. /\ Prefix(ts, n) \in Seq(TaskRow) /\ Len(Prefix(ts, n)) = n
      /\ \A i \in 1 .. n : Prefix(ts, n)[i] = ts[i]
  BY PrefixProperties
<1>7. Cost(Prefix(S, n)) = Cost(Prefix(ts, n))
  <2>1. DOMAIN Prefix(S, n) = 1 .. n /\ DOMAIN Prefix(ts, n) = 1 .. n /\ n \in Nat
    BY <1>2, <1>5, <1>6, LenProperties
  <2>2. ASSUME NEW i \in 1 .. n
        PROVE  /\ Prefix(S, n)[i].seq = Prefix(ts, n)[i].seq
               /\ Prefix(S, n)[i].cost = Prefix(ts, n)[i].cost
    BY <1>1, <1>2, <1>5, <1>6
  <2> QED
    BY <2>1, <2>2, SameCost
<1>8. /\ Suffix(S, n) \in Seq(Task) /\ Len(Suffix(S, n)) = Len(ts) - n
      /\ \A i \in 1 .. (Len(ts) - n) : Suffix(S, n)[i] = S[n + i]
  <2>1. S \in Seq(Task) /\ n \in 0 .. Len(S) /\ Len(S) = Len(ts)
    BY <1>1
  <2>2. /\ Suffix(S, n) \in Seq(Task) /\ Len(Suffix(S, n)) = Len(S) - n
        /\ \A i \in 1 .. (Len(S) - n) : Suffix(S, n)[i] = S[n + i]
    BY <2>1, SuffixProperties
  <2> QED
    BY <2>1, <2>2
<1>9. /\ Suffix(ts, n) \in Seq(TaskRow) /\ Len(Suffix(ts, n)) = Len(ts) - n
      /\ \A i \in 1 .. (Len(ts) - n) : Suffix(ts, n)[i] = ts[n + i]
  BY SuffixProperties
<1>10. Cost(Suffix(S, n)) = Cost(Suffix(ts, n))
  <2>1. /\ DOMAIN Suffix(S, n) = 1 .. (Len(ts) - n)
        /\ DOMAIN Suffix(ts, n) = 1 .. (Len(ts) - n) /\ Len(ts) - n \in Nat
    BY <1>2, <1>8, <1>9, LenProperties
  <2>2. ASSUME NEW i \in 1 .. (Len(ts) - n)
        PROVE  /\ Suffix(S, n)[i].seq = Suffix(ts, n)[i].seq
               /\ Suffix(S, n)[i].cost = Suffix(ts, n)[i].cost
    BY <1>1, <1>2, <1>8, <1>9
  <2> QED
    BY <2>1, <2>2, SameCost
<1> QED
  BY <1>1, <1>4, <1>7, <1>10

\* A single row costs what its cost column says.
LEMMA HeadCost ==
  ASSUME NEW ts \in Seq(TaskRow), Len(ts) > 0
  PROVE  Cost(Prefix(ts, 1)) = ts[1].cost
<1> DEFINE P == Prefix(ts, 1)
           T == TaskOf(ts[1])
<1>1. Len(ts) \in Nat /\ 1 \in 1 .. Len(ts) /\ 1 \in 0 .. Len(ts) /\ T \in Task /\ T.cost = ts[1].cost
  BY RowsAt DEF TaskOf, Task
<1>2. P \in Seq(TaskRow) /\ Len(P) = 1 /\ P[1] = ts[1]
  <2>1. \A i \in 1 .. 1 : Prefix(ts, 1)[i] = ts[i]
    BY <1>1, PrefixProperties
  <2>2. Prefix(ts, 1) \in Seq(TaskRow) /\ Len(Prefix(ts, 1)) = 1
    BY ZenonT(60), <1>1, PrefixProperties
  <2> QED
    BY <2>1, <2>2
<1>3. Cost(Append(<<>>, T)) = Cost(<<>>) + T.cost
  <2>1. <<>> \in Seq(Task) /\ \A i \in 1 .. Len(<<>>) : <<>>[i].seq # T.seq
    OBVIOUS
  <2> HIDE DEF T
  <2> QED
    BY <1>1, <2>1, CostAppend
<1>4. Append(<<>>, T) = <<T>>
  OBVIOUS
<1>5. Cost(<<T>>) = Cost(P)
  <2>1. DOMAIN <<T>> = 1 .. 1 /\ DOMAIN P = 1 .. 1
    BY <1>2, LenProperties
  <2>2. \A i \in 1 .. 1 : <<T>>[i].seq = P[i].seq /\ <<T>>[i].cost = P[i].cost
    BY <1>2 DEF TaskOf
  <2> QED
    BY <2>1, <2>2, SameCost
<1>6. T.cost \in Nat
  BY <1>1 DEF Task
<1> HIDE DEF P, T
<1> QED
  BY <1>1, <1>3, <1>4, <1>5, <1>6, CostEmpty DEF P

\* A row under a fresh seq adds its own cost.
LEMMA RowsAppend ==
  ASSUME NEW ts \in Seq(TaskRow), NEW r \in TaskRow,
         \A i \in 1 .. Len(ts) : ts[i].seq # r.seq
  PROVE  Cost(Append(ts, r)) = Cost(ts) + r.cost
<1> DEFINE A == Append(ts, r)
<1>1. /\ A \in Seq(TaskRow) /\ Len(A) = Len(ts) + 1 /\ Len(ts) \in Nat
      /\ \A i \in 1 .. Len(ts) : A[i] = ts[i]
      /\ A[Len(ts) + 1] = r
  BY AppendElements, RowsAt
<1> DEFINE S == Stripped(ts)
           B == Append(S, TaskOf(r))
<1>2. /\ S \in Seq(Task) /\ Len(S) = Len(ts) /\ Cost(S) = Cost(ts)
      /\ \A i \in 1 .. Len(ts) : S[i].seq = ts[i].seq /\ S[i].cost = ts[i].cost
  BY StrippedRows
<1>3. TaskOf(r) \in Task /\ TaskOf(r).seq = r.seq /\ TaskOf(r).cost = r.cost
  BY DEF TaskOf, Task, TaskRow
<1> HIDE DEF A, S
<1>4. \A i \in 1 .. Len(S) : S[i].seq # TaskOf(r).seq
  BY <1>2, <1>3
<1>5. Cost(B) = Cost(S) + r.cost
  BY <1>2, <1>3, <1>4, CostAppend
<1>6. /\ B \in Seq(Task) /\ Len(B) = Len(ts) + 1
      /\ \A i \in 1 .. Len(ts) : B[i] = S[i]
      /\ B[Len(ts) + 1] = TaskOf(r)
  BY <1>2, <1>3, AppendElements
<1> HIDE DEF B
<1>7. DOMAIN A = 1 .. (Len(ts) + 1) /\ DOMAIN B = 1 .. (Len(ts) + 1)
  BY <1>1, <1>6, LenProperties
<1>8. ASSUME NEW i \in 1 .. (Len(ts) + 1)
      PROVE  A[i].seq = B[i].seq /\ A[i].cost = B[i].cost
  <2>1. CASE i \in 1 .. Len(ts)
    BY <2>1, <1>1, <1>2, <1>6
  <2>2. CASE i = Len(ts) + 1
    BY <2>2, <1>1, <1>6, <1>3
  <2> QED
    BY <2>1, <2>2, <1>1
<1>9. Cost(A) = Cost(B)
  BY <1>1, <1>7, <1>8, SameCost
<1> QED
  BY <1>2, <1>5, <1>9 DEF A

\* Work that costs something contains a task that does.
LEMMA CostlyRow ==
  ASSUME NEW ts \in Seq(TaskRow)
  PROVE  Cost(ts) > 0 <=> \E i \in DOMAIN ts : ts[i].cost > 0
<1>1. IsFiniteSet(CostUnits(ts)) /\ Cost(ts) \in Nat
  <2>1. IsFiniteSet(CostUnits(Stripped(ts)))
    BY StrippedRows, CostFinite
  <2>2. CostUnits(Stripped(ts)) = CostUnits(ts)
    BY DEF CostUnits, Stripped, TaskOf
  <2> QED
    BY <2>1, <2>2, RowsCost
<1>2. \A i \in DOMAIN ts : ts[i].cost \in Nat
  BY RowsAt
<1>3. CostUnits(ts) # {} <=> \E i \in DOMAIN ts : ts[i].cost > 0
  <2>1. ASSUME NEW i \in DOMAIN ts, ts[i].cost > 0 PROVE CostUnits(ts) # {}
    <3>1. <<ts[i].seq, 1>> \in {ts[i].seq} \X (1 .. ts[i].cost)
      BY <1>2, <2>1
    <3> QED
      BY <3>1 DEF CostUnits
  <2>2. ASSUME NEW u \in CostUnits(ts) PROVE \E i \in DOMAIN ts : ts[i].cost > 0
    <3>1. PICK i \in DOMAIN ts : u \in {ts[i].seq} \X (1 .. ts[i].cost)
      BY <2>2 DEF CostUnits
    <3> QED
      BY <1>2, <3>1
  <2> QED
    BY <2>1, <2>2
<1>4. Cost(ts) = 0 <=> CostUnits(ts) = {}
  BY <1>1, FS_EmptySet DEF Cost
<1> QED
  BY <1>1, <1>3, <1>4

\* A set of instants has a first one.
LEMMA LeastOf ==
  ASSUME NEW T \in SUBSET Nat, T # {}
  PROVE  \E x \in T : \A y \in T : x <= y
<1>1. PICK x \in T : \A y \in T : <<y, x>> \notin OpToRel(<, Nat)
  BY NatLessThanWellFounded, WFMin
<1>2. ASSUME NEW y \in T PROVE x <= y
  <2>1. <<y, x>> \in Nat \X Nat /\ ~(<<y, x>>[1] < <<y, x>>[2])
    BY <1>1 DEF OpToRel
  <2> QED
    BY <2>1
<1> QED
  BY <1>2

\* min(enqueued_at) is NULL over no rows, else it is that of a row and of no older one.
LEMMA MinEnqueuedIs ==
  ASSUME NEW ts \in Seq(TaskRow)
  PROVE  /\ ts = <<>> => MinEnqueued(ts) = None
         /\ ts # <<>> =>
              /\ MinEnqueued(ts) \in Nat
              /\ \E i \in DOMAIN ts : MinEnqueued(ts) = ts[i].enqueuedAt
              /\ \A i \in DOMAIN ts : MinEnqueued(ts) <= ts[i].enqueuedAt
<1>1. ts = <<>> => MinEnqueued(ts) = None
  BY DEF MinEnqueued
<1>2. ASSUME ts # <<>>
      PROVE  /\ MinEnqueued(ts) \in Nat
             /\ \E i \in DOMAIN ts : MinEnqueued(ts) = ts[i].enqueuedAt
             /\ \A i \in DOMAIN ts : MinEnqueued(ts) <= ts[i].enqueuedAt
  <2> DEFINE E == {ts[i].enqueuedAt : i \in DOMAIN ts}
  <2>1. Len(ts) \in Nat /\ DOMAIN ts = 1 .. Len(ts) /\ \A i \in DOMAIN ts : ts[i].enqueuedAt \in Nat
    BY RowsAt
  <2>2. Len(ts) # 0
    BY <1>2, EmptySeq
  <2>3. E \subseteq Nat /\ ts[1].enqueuedAt \in E
    BY <2>1, <2>2
  <2>4. PICK m \in E : \A n \in E : m <= n
    BY <2>3, LeastOf
  <2>5. Min(E) \in E /\ \A n \in E : Min(E) <= n
    BY <2>4 DEF Min
  <2>6. MinEnqueued(ts) = Min(E)
    BY <1>2 DEF MinEnqueued
  <2> QED
    BY <2>3, <2>5, <2>6
<1> QED
  BY <1>1, <1>2

\* Clearing the lease leaves the other columns alone.
LEMMA FreedRow ==
  ASSUME NEW u \in Row
  PROVE  /\ Freed(u) \in Row
         /\ Freed(u).lease = None /\ Freed(u).leaseExpires = None
         /\ Freed(u).pendingCost = u.pendingCost /\ Freed(u).nextSeq = u.nextSeq
         /\ Freed(u).eligible = u.eligible /\ Freed(u).leaseMs = u.leaseMs
         /\ Freed(u).oldestPendingAt = u.oldestPendingAt
         /\ Freed(u).flushDeadline = u.flushDeadline
  BY DEF Freed, Row

\* An UPDATE of aggregate, clock and flag yields a row.
LEMMA UpdatedRow ==
  ASSUME NEW u \in Row, NEW c \in Int, NEW o \in Nat \cup {None}, NEW f \in Nat \cup {None},
         NEW e \in BOOLEAN
  PROVE  [u EXCEPT !.pendingCost = c, !.oldestPendingAt = o, !.flushDeadline = f,
                   !.eligible = e] \in Row
  BY DEF Row

\* r is the row of u with its aggregate, flush clock and gate recomputed.
IsRecomputed(r, u, gone, left, at) ==
  /\ r \in Row
  /\ r.pendingCost = u.pendingCost - gone /\ r.nextSeq = u.nextSeq
  /\ r.oldestPendingAt = MinEnqueued(left)
  /\ r.flushDeadline = After(MinEnqueued(left), MaxWait)
  /\ (r.eligible <=> \/ u.pendingCost - gone >= Threshold
                     \/ MinEnqueued(left) # None /\ MinEnqueued(left) + MaxWait <= at)
  /\ r.lease = u.lease /\ r.leaseExpires = u.leaseExpires /\ r.leaseMs = u.leaseMs

\* What the recomputation in Ack and Fail leaves in the row.
LEMMA RecomputedRow ==
  ASSUME NEW u \in Row, NEW gone \in Int, NEW left \in Seq(TaskRow), NEW at \in Nat
  PROVE  IsRecomputed(Recomputed(u, gone, left, at), u, gone, left, at)
<1>1. MinEnqueued(left) \in Nat \cup {None}
  BY MinEnqueuedIs
<1>2. After(MinEnqueued(left), MaxWait) \in Nat \cup {None}
  BY <1>1 DEF After
<1> DEFINE oldest == MinEnqueued(left)
           e == u.pendingCost - gone >= Threshold \/ (oldest # None /\ oldest + MaxWait <= at)
<1>3. e \in BOOLEAN
  OBVIOUS
<1>4. Recomputed(u, gone, left, at) =
        [u EXCEPT !.pendingCost = u.pendingCost - gone, !.oldestPendingAt = oldest,
                  !.flushDeadline = After(oldest, MaxWait), !.eligible = e]
  BY DEF Recomputed
<1> HIDE DEF e, oldest
<1>5. Recomputed(u, gone, left, at) \in Row
  <2>1. /\ u.pendingCost - gone \in Int
        /\ oldest \in Nat \cup {None} /\ After(oldest, MaxWait) \in Nat \cup {None}
    BY <1>1, <1>2 DEF Row, oldest
  <2>2. PICK c \in Int : c = u.pendingCost - gone
    BY <2>1
  <2>3. PICK o \in Nat \cup {None} : o = oldest
    BY <2>1
  <2>4. PICK f \in Nat \cup {None} : f = After(oldest, MaxWait)
    BY <2>1
  <2>5. [u EXCEPT !.pendingCost = c, !.oldestPendingAt = o, !.flushDeadline = f,
                  !.eligible = e] \in Row
    BY <1>3, UpdatedRow
  <2> QED
    BY <1>4, <2>2, <2>3, <2>4, <2>5
<1>6. /\ Recomputed(u, gone, left, at).eligible = e
      /\ Recomputed(u, gone, left, at).pendingCost = u.pendingCost - gone
      /\ Recomputed(u, gone, left, at).nextSeq = u.nextSeq
      /\ Recomputed(u, gone, left, at).oldestPendingAt = oldest
      /\ Recomputed(u, gone, left, at).flushDeadline = After(oldest, MaxWait)
      /\ Recomputed(u, gone, left, at).lease = u.lease
      /\ Recomputed(u, gone, left, at).leaseExpires = u.leaseExpires
      /\ Recomputed(u, gone, left, at).leaseMs = u.leaseMs
  BY <1>4 DEF Row
<1> QED
  BY <1>5, <1>6 DEF IsRecomputed, e, oldest

\* Counting a failure leaves the task alone.
LEMMA CountedRow ==
  ASSUME NEW r \in TaskRow
  PROVE  /\ [r EXCEPT !.attempts = @ + 1] \in TaskRow
         /\ SameTask([r EXCEPT !.attempts = @ + 1], r)
         /\ [r EXCEPT !.attempts = @ + 1].attempts = r.attempts + 1
<1>1. [r EXCEPT !.attempts = @ + 1] \in TaskRow
  BY DEF TaskRow
<1>2. SameTask([r EXCEPT !.attempts = @ + 1], r)
  BY DEF TaskRow, SameTask
<1>3. [r EXCEPT !.attempts = @ + 1].attempts = r.attempts + 1
  BY DEF TaskRow
<1> QED
  BY <1>1, <1>2, <1>3

\* The UPDATE that counts a failure changes attempts only, and only of the row it names.
LEMMA CountedRows ==
  ASSUME NEW ts \in Seq(TaskRow), NEW seq \in Nat
  PROVE  /\ Counted(ts, seq) \in Seq(TaskRow) /\ Len(Counted(ts, seq)) = Len(ts)
         /\ \A i \in 1 .. Len(ts) :
              /\ SameTask(Counted(ts, seq)[i], ts[i])
              /\ Counted(ts, seq)[i].attempts =
                   IF ts[i].seq = seq THEN ts[i].attempts + 1 ELSE ts[i].attempts
<1>1. /\ Len(ts) \in Nat /\ DOMAIN ts = 1 .. Len(ts)
      /\ \A i \in DOMAIN ts : ts[i] \in TaskRow
  BY RowsAt
<1>2. ASSUME NEW i \in 1 .. Len(ts)
      PROVE  /\ Counted(ts, seq)[i] \in TaskRow
             /\ SameTask(Counted(ts, seq)[i], ts[i])
             /\ Counted(ts, seq)[i].attempts =
                  IF ts[i].seq = seq THEN ts[i].attempts + 1 ELSE ts[i].attempts
  <2>1. ts[i] \in TaskRow /\ i \in DOMAIN ts
    BY <1>1
  <2>2. Counted(ts, seq)[i] = IF ts[i].seq = seq THEN [ts[i] EXCEPT !.attempts = @ + 1] ELSE ts[i]
    BY <2>1 DEF Counted
  <2>3. CASE ts[i].seq = seq
    BY <2>1, <2>2, <2>3, CountedRow
  <2>4. CASE ts[i].seq # seq
    BY <2>1, <2>2, <2>4 DEF SameTask
  <2> QED
    BY <2>3, <2>4
<1>3. Counted(ts, seq) \in [1 .. Len(ts) -> TaskRow]
  BY <1>1, <1>2 DEF Counted
<1>4. Counted(ts, seq) \in Seq(TaskRow)
  BY <1>1, <1>3, SeqDef
<1>5. Len(Counted(ts, seq)) = Len(ts)
  BY <1>1, <1>3, <1>4, LenProperties
<1> QED
  BY <1>2, <1>4, <1>5

\* What an Ack leaves is a suffix.
LEMMA LeftRows ==
  ASSUME NEW ts \in Seq(TaskRow), NEW through \in Nat
  PROVE  \E n \in 0 .. Len(ts) :
           /\ Left(ts, through) = Suffix(ts, n)
           /\ Left(ts, through) \in Seq(TaskRow) /\ Len(Left(ts, through)) = Len(ts) - n
           /\ \A i \in 1 .. (Len(ts) - n) : Left(ts, through)[i] = ts[n + i]
<1> DEFINE R == {i \in DOMAIN ts : ts[i].seq <= through}
           n == Cardinality(R)
<1>1. Len(ts) \in Nat /\ R \in SUBSET (1 .. Len(ts))
  BY RowsAt
<1>2. IsFiniteSet(1 .. Len(ts)) /\ Cardinality(1 .. Len(ts)) = Len(ts)
  BY <1>1, CountTo
<1>3. IsFiniteSet(R) /\ n <= Len(ts)
  BY <1>1, <1>2, FS_Subset
<1>4. n \in 0 .. Len(ts)
  BY <1>1, <1>3, FS_CardinalityType
<1>5. Left(ts, through) = Suffix(ts, n)
  BY DEF Left
<1> HIDE DEF n
<1>6. /\ Suffix(ts, n) \in Seq(TaskRow) /\ Len(Suffix(ts, n)) = Len(ts) - n
      /\ \A i \in 1 .. Len(ts) - n : Suffix(ts, n)[i] = ts[n + i]
  BY <1>4, SuffixProperties
<1> QED
  BY <1>4, <1>5, <1>6

\* Drain's SELECT returns a prefix.
LEMMA DrainedRows ==
  ASSUME NEW ts \in Seq(TaskRow)
  PROVE  /\ Drained(ts) \in Seq(TaskRow) /\ Len(Drained(ts)) <= Len(ts)
         /\ Len(Drained(ts)) \in Nat
         /\ Drained(ts) = Prefix(ts, Len(Drained(ts)))
<1> DEFINE n == IF Batch < Len(ts) THEN Batch ELSE Len(ts)
<1>1. n \in 0 .. Len(ts) /\ n \in Nat /\ n <= Len(ts)
  BY RowsAt
<1>2. Drained(ts) = Prefix(ts, n)
  BY DEF Drained
<1> HIDE DEF n
<1>3. Prefix(ts, n) \in Seq(TaskRow) /\ Len(Prefix(ts, n)) = n
  BY <1>1, PrefixProperties
<1> QED
  BY <1>1, <1>2, <1>3

-----------------------------------------------------------------------------
(* Types *)

\* The empty tables have their types.
LEMMA TypesInit ==
  ASSUME Init
  PROVE  Types
<1>1. NoRow \in Row
  BY DEF NoRow, Row
<1>2. Idle \in CallRecord
  BY DEF Idle, CallRecord
<1>3. workUnits \in [Keys -> Row]
  BY <1>1 DEF Init
<1>4. \A k \in Keys : workUnits[k].lease = None /\ workUnits[k].leaseExpires = None
  BY DEF Init, NoRow
<1>5. calls \in [LeaseTokens -> CallRecord] /\ failures \in [Keys -> [1 .. MaxTasks -> Nat]]
  BY <1>2 DEF Init
<1>6. tx \in [Keys -> [by : ClaimedUnit, at : 0 .. MaxNow] \cup {None}]
  BY DEF Init
<1>7. tasks \in [Keys -> Seq(TaskRow)] /\ deadLetters \in Seq([key : Keys, task : TaskRow])
  BY DEF Init
<1> QED
  BY <1>3, <1>4, <1>5, <1>6, <1>7 DEF Init, Types, TypeOK

\* What the next step's proofs read off the types, for one unit.
LEMMA TypesAt ==
  ASSUME Types, NEW k \in Keys
  PROVE  /\ workUnits[k] \in Row /\ tasks[k] \in Seq(TaskRow)
         /\ workUnits[k].pendingCost \in Int /\ workUnits[k].nextSeq \in Int
         /\ workUnits[k].eligible \in BOOLEAN
         /\ workUnits[k].lease \in LeaseTokens \cup {None}
         /\ workUnits[k].leaseMs \in Nat
         /\ workUnits[k].oldestPendingAt \in Nat \cup {None}
         /\ workUnits[k].flushDeadline \in Nat \cup {None}
         /\ arrived[k] \in Nat /\ arrived[k] <= MaxTasks
         /\ now \in Nat /\ (reap # None => reap \in Nat)
         /\ tx[k] # None => /\ tx[k].by \in ClaimedUnit /\ tx[k].at \in 0 .. MaxNow
                            /\ tx[k].by.lease \in LeaseTokens /\ tx[k].by.key \in Keys
<1>1. workUnits[k] \in Row
  BY DEF Types, TypeOK
<1>2. /\ tasks[k] \in Seq(TaskRow)
      /\ arrived[k] \in Nat /\ arrived[k] <= MaxTasks
      /\ now \in Nat /\ (reap # None => reap \in Nat)
  BY DEF Types, TypeOK
<1>3. ASSUME tx[k] # None
      PROVE  /\ tx[k].by \in ClaimedUnit /\ tx[k].at \in 0 .. MaxNow
             /\ tx[k].by.lease \in LeaseTokens /\ tx[k].by.key \in Keys
  BY <1>3 DEF Types, TypeOK, ClaimedUnit
<1> QED
  BY <1>1, <1>2, <1>3 DEF Row

\* A row written with its lease and its expiry both there or both NULL keeps the types.
LEMMA RowWritten ==
  ASSUME Types, NEW k \in Keys, NEW r \in Row, r.lease = None <=> r.leaseExpires = None,
         workUnits' = [workUnits EXCEPT ![k] = r]
  PROVE  /\ workUnits' \in [Keys -> Row] /\ workUnits'[k] = r
         /\ \A j \in Keys : workUnits'[j].lease = None <=> workUnits'[j].leaseExpires = None
  BY DEF Types, TypeOK

\* Tokens are numbers and none is NULL.
LEMMA TokensCount == LeaseTokens \subseteq Nat /\ \A t \in LeaseTokens : t # None
  BY DEF LeaseTokens

\* A unit whose tasks and columns a step leaves alone, the lease's columns aside.
LEMMA StaysKept ==
  ASSUME Types, NEW k \in Keys, tasks'[k] = tasks[k], arrived'[k] = arrived[k],
         now' \in {now, now + 1},
         workUnits'[k].nextSeq = workUnits[k].nextSeq,
         workUnits'[k].pendingCost = workUnits[k].pendingCost,
         workUnits'[k].oldestPendingAt = workUnits[k].oldestPendingAt,
         workUnits'[k].flushDeadline = workUnits[k].flushDeadline,
         workUnits'[k].eligible = workUnits[k].eligible,
         workUnits'[k].lease # None => workUnits[k].lease # None \/ workUnits[k].eligible
  PROVE  Kept(k)
<1>1. Len(tasks[k]) \in Nat
  BY TypesAt, RowsAt
<1>2. Dropped(k, 0)
  BY <1>1 DEF Dropped, SameTask
<1> QED
  BY <1>2 DEF Kept

\* Enqueue adds one task to one unit.
LEMMA StepEnqueue ==
  ASSUME Types, NEW k \in Keys, NEW c \in Costs, NEW t \in Clocks, Enqueue(k, c, t),
         workUnits[k].nextSeq >= -1
  PROVE  Types' /\ Grew(k, c, t) /\ \A j \in Keys \ {k} : Kept(j)
<1> DEFINE old == workUnits[k]
           restarts == old.pendingCost = 0
           e == old.eligible \/ old.pendingCost + c >= Threshold
           o == IF restarts THEN t ELSE old.oldestPendingAt
           f == IF restarts THEN t + MaxWait ELSE old.flushDeadline
           new == [old EXCEPT !.pendingCost = old.pendingCost + c, !.nextSeq = old.nextSeq + 1,
                              !.eligible = e, !.oldestPendingAt = o, !.flushDeadline = f]
           row == [seq |-> old.nextSeq + 1, payload |-> arrived[k] + 1, cost |-> c,
                   attempts |-> 0, enqueuedAt |-> t]
<1>1. /\ old \in Row /\ tasks[k] \in Seq(TaskRow) /\ arrived[k] \in Nat /\ now \in Nat
      /\ old.pendingCost \in Int /\ old.nextSeq \in Int
      /\ old.oldestPendingAt \in Nat \cup {None} /\ old.flushDeadline \in Nat \cup {None}
  BY TypesAt
<1>2. t \in Nat /\ c \in Nat /\ old.nextSeq + 1 \in Nat /\ arrived[k] + 1 \in Nat
  <2>1. c \in Nat
    OBVIOUS
  <2>2. t \in 0 .. now
    BY DEF Clocks
  <2>3. old.nextSeq + 1 \in Nat /\ arrived[k] + 1 \in Nat
    BY <1>1
  <2> QED
    BY <1>1, <2>1, <2>2, <2>3
<1>3. /\ workUnits' = [workUnits EXCEPT ![k] = new]
      /\ tasks' = [tasks EXCEPT ![k] = Append(tasks[k], row)]
      /\ arrived' = [arrived EXCEPT ![k] = arrived[k] + 1] /\ arrived[k] < MaxTasks
      /\ UNCHANGED <<deadLetters, tx, reap, issued, calls, handles, now, failures>>
  BY DEF Enqueue
<1>4. /\ o \in Nat \cup {None} /\ f \in Nat \cup {None} /\ e \in BOOLEAN
      /\ old.pendingCost + c \in Int /\ old.nextSeq + 1 \in Int
  BY <1>1, <1>2
<1>5. row \in TaskRow
  BY <1>2 DEF TaskRow
<1> HIDE DEF e, o, f
<1>6. /\ new \in Row
      /\ new.lease = old.lease /\ new.leaseExpires = old.leaseExpires
      /\ new.pendingCost = old.pendingCost + c /\ new.nextSeq = old.nextSeq + 1
      /\ new.eligible = e /\ new.oldestPendingAt = o /\ new.flushDeadline = f
  <2> HIDE DEF old
  <2> QED
    BY <1>1, <1>4 DEF Row
<1> HIDE DEF new, row
<1>7. old.lease = None <=> old.leaseExpires = None
  BY DEF Types, TypeOK
<1>8. /\ workUnits' \in [Keys -> Row] /\ workUnits'[k] = new
      /\ \A j \in Keys : workUnits'[j].lease = None <=> workUnits'[j].leaseExpires = None
  BY <1>3, <1>6, <1>7, RowWritten
<1>9. /\ tasks' \in [Keys -> Seq(TaskRow)] /\ tasks'[k] = Append(tasks[k], row)
      /\ arrived' \in [Keys -> 0 .. MaxTasks] /\ arrived'[k] = arrived[k] + 1
  <2>1. Append(tasks[k], row) \in Seq(TaskRow)
    BY <1>1, <1>5
  <2> QED
    BY SMTT(30), <1>1, <1>3, <2>1 DEF Types, TypeOK
<1>10. Types'
  BY <1>3, <1>8, <1>9 DEF Types, TypeOK
<1>11. Grew(k, c, t)
  BY <1>3, <1>6, <1>8, <1>9 DEF Grew, e, o, f, row
<1>12. ASSUME NEW j \in Keys \ {k} PROVE Kept(j)
  <2>1. workUnits'[j] = workUnits[j] /\ tasks'[j] = tasks[j] /\ arrived'[j] = arrived[j] /\ now' = now
    BY <1>3 DEF Types, TypeOK
  <2> QED
    BY <2>1, StaysKept
<1> QED
  BY <1>10, <1>11, <1>12

\* A step that writes only the lease's columns of one row.
LEMMA LeaseWritten ==
  ASSUME Types, NEW k \in Keys, NEW l \in LeaseTokens \cup {None}, NEW ms \in Nat,
         NEW x \in Nat \cup {None}, l = None <=> x = None,
         workUnits' = [workUnits EXCEPT ![k] =
           [workUnits[k] EXCEPT !.lease = l, !.leaseMs = ms, !.leaseExpires = x]],
         l # None => workUnits[k].lease # None \/ workUnits[k].eligible,
         UNCHANGED <<tasks, arrived, now>>
  PROVE  /\ workUnits' \in [Keys -> Row]
         /\ \A j \in Keys : workUnits'[j].lease = None <=> workUnits'[j].leaseExpires = None
         /\ workUnits'[k].lease = l
         /\ \A j \in Keys : Kept(j)
<1> DEFINE old == workUnits[k]
           r == [old EXCEPT !.lease = l, !.leaseMs = ms, !.leaseExpires = x]
<1>1. old \in Row
  BY TypesAt
<1>2. /\ r \in Row /\ r.lease = l /\ r.leaseExpires = x
      /\ r.nextSeq = old.nextSeq /\ r.pendingCost = old.pendingCost
      /\ r.oldestPendingAt = old.oldestPendingAt /\ r.flushDeadline = old.flushDeadline
      /\ r.eligible = old.eligible
  <2> HIDE DEF old
  <2> QED
    BY <1>1 DEF Row
<1> HIDE DEF r
<1>3. /\ workUnits' \in [Keys -> Row] /\ workUnits'[k] = r
      /\ \A j \in Keys : workUnits'[j].lease = None <=> workUnits'[j].leaseExpires = None
  BY <1>2, RowWritten DEF r
<1>4. ASSUME NEW j \in Keys PROVE Kept(j)
  <2>1. CASE j = k
    BY <1>2, <1>3, <2>1, StaysKept
  <2>2. CASE j # k
    <3>1. workUnits'[j] = workUnits[j]
      BY <2>2 DEF Types, TypeOK
    <3> QED
      BY <3>1, StaysKept
  <2> QED
    BY <2>1, <2>2
<1> QED
  BY <1>2, <1>3, <1>4

\* Under FIFO order, no two rows of a unit share a seq.
LEMMA DistinctSeqs ==
  ASSUME Types, Arrivals, NEW k \in Keys
  PROVE  /\ \A i, j \in 1 .. Len(tasks[k]) : i # j => tasks[k][i].seq # tasks[k][j].seq
         /\ \A i \in 1 .. Len(tasks[k]) :
              /\ tasks[k][i].payload = arrived[k] - Len(tasks[k]) + i
              /\ tasks[k][i].seq = arrived[k] - Len(tasks[k]) + i - 1
         /\ workUnits[k].nextSeq = arrived[k] - 1
         /\ Len(tasks[k]) \in 0 .. arrived[k]
<1>1. tasks[k] \in Seq(TaskRow) /\ arrived[k] \in Nat
  BY TypesAt
<1>2. Len(tasks[k]) \in Nat
  BY <1>1, RowsAt
<1>3. /\ workUnits[k].nextSeq = arrived[k] - 1 /\ Len(tasks[k]) <= arrived[k]
      /\ \A i \in 1 .. Len(tasks[k]) :
           /\ tasks[k][i].payload = arrived[k] - Len(tasks[k]) + i
           /\ tasks[k][i].seq = tasks[k][i].payload - 1
  BY DEF Arrivals, FifoIntact
<1>4. ASSUME NEW i \in 1 .. Len(tasks[k])
      PROVE  tasks[k][i].seq = arrived[k] - Len(tasks[k]) + i - 1
  <2>1. tasks[k][i].payload = arrived[k] - Len(tasks[k]) + i /\ tasks[k][i].seq = tasks[k][i].payload - 1
    BY <1>3
  <2> QED
    BY <1>1, <1>2, <2>1
<1>5. \A i, j \in 1 .. Len(tasks[k]) : i # j => tasks[k][i].seq # tasks[k][j].seq
  <2> SUFFICES ASSUME NEW i \in 1 .. Len(tasks[k]), NEW j \in 1 .. Len(tasks[k]), i # j
               PROVE  tasks[k][i].seq # tasks[k][j].seq
    OBVIOUS
  <2> HIDE <1>3
  <2> QED
    BY SMTT(30), <1>1, <1>2, <1>4
<1> QED
  BY SMTT(30), <1>1, <1>2, <1>3, <1>4, <1>5

\* A transaction on k commits: k's row is written and its tasks are replaced.
LEMMA Committed ==
  ASSUME Types, NEW k \in Keys, End(k), NEW r \in Row, NEW ts \in Seq(TaskRow),
         r.lease = None <=> r.leaseExpires = None,
         workUnits' = [workUnits EXCEPT ![k] = r],
         tasks' = [tasks EXCEPT ![k] = ts],
         deadLetters' \in Seq([key : Keys, task : TaskRow]),
         failures' \in [Keys -> [1 .. MaxTasks -> Nat]],
         UNCHANGED arrived
  PROVE  /\ Types'
         /\ workUnits'[k] = r /\ tasks'[k] = ts
         /\ \A j \in Keys \ {k} : /\ Kept(j)
                                  /\ workUnits'[j] = workUnits[j] /\ tasks'[j] = tasks[j]
<1>1. /\ workUnits' \in [Keys -> Row] /\ workUnits'[k] = r
      /\ \A j \in Keys : workUnits'[j].lease = None <=> workUnits'[j].leaseExpires = None
  BY RowWritten
<1>2. /\ tasks' \in [Keys -> Seq(TaskRow)] /\ tasks'[k] = ts
      /\ \A j \in Keys \ {k} : workUnits'[j] = workUnits[j] /\ tasks'[j] = tasks[j]
  BY DEF Types, TypeOK
<1>3. /\ tx[k] # None
      /\ tx' = [tx EXCEPT ![k] = None]
      /\ calls' = [calls EXCEPT ![tx[k].by.lease] = Idle]
      /\ UNCHANGED <<reap, issued, handles, now>>
  BY DEF End
<1>4. tx' \in [Keys -> [by : ClaimedUnit, at : 0 .. MaxNow] \cup {None}]
  BY <1>3 DEF Types, TypeOK
<1>5. calls' \in [LeaseTokens -> CallRecord]
  <2>1. Idle \in CallRecord
    BY DEF Idle, CallRecord
  <2>2. calls \in [LeaseTokens -> CallRecord]
    BY DEF Types
  <2> QED
    BY <1>3, <2>1, <2>2
<1>6. Types'
  BY <1>1, <1>2, <1>3, <1>4, <1>5 DEF Types, TypeOK
<1>7. ASSUME NEW j \in Keys \ {k} PROVE Kept(j)
  <2>1. workUnits'[j] = workUnits[j] /\ tasks'[j] = tasks[j]
    BY <1>2
  <2> QED
    BY <1>3, <2>1, StaysKept
<1> QED
  BY <1>1, <1>2, <1>6, <1>7

\* Ack takes tasks from the front of one unit, and keeps or frees its lease.
LEMMA StepAck ==
  ASSUME Types, Leases, Arrivals, NEW k \in Keys, NEW through \in Seqs, Ack(k, through)
  PROVE  /\ Types'
         /\ \E n \in 0 .. Len(tasks[k]) :
              /\ Shrank(k, n)
              /\ \A i \in 1 .. (Len(tasks[k]) - n) : tasks'[k][i] = tasks[k][n + i]
         /\ workUnits'[k].lease \in {None, workUnits[k].lease}
         /\ workUnits'[k].eligible => workUnits'[k].lease # None
         /\ workUnits'[k].leaseMs = workUnits[k].leaseMs
         /\ workUnits'[k].lease # None =>
              workUnits'[k].leaseExpires = tx[k].at + workUnits[k].leaseMs
         /\ \A j \in Keys \ {k} : /\ Kept(j)
                                  /\ workUnits'[j] = workUnits[j] /\ tasks'[j] = tasks[j]
<1> DEFINE rest == Left(tasks[k], through)
           off == Cost(tasks[k]) - Cost(rest)
           began == tx[k].at
           new == Recomputed(workUnits[k], off, rest, began)
           kept == [new EXCEPT !.lease = tx[k].by.lease, !.leaseExpires = began + new.leaseMs]
           r == IF new.eligible THEN kept ELSE Freed(new)
<1>1. /\ End(k)
      /\ tasks' = [tasks EXCEPT ![k] = rest]
      /\ workUnits' = [workUnits EXCEPT ![k] = r]
      /\ UNCHANGED <<deadLetters, arrived, failures>>
  BY DEF Ack
<1>2. tx[k] # None /\ UNCHANGED now
  BY <1>1 DEF End
<1>3. /\ workUnits[k] \in Row /\ tasks[k] \in Seq(TaskRow)
      /\ began \in Nat /\ tx[k].by.lease \in LeaseTokens
  BY <1>2, TypesAt
<1>4. through \in Nat
  BY DEF Seqs
<1>5. PICK n \in 0 .. Len(tasks[k]) :
        /\ rest \in Seq(TaskRow) /\ Len(rest) = Len(tasks[k]) - n
        /\ \A i \in 1 .. (Len(tasks[k]) - n) : rest[i] = tasks[k][n + i]
  BY <1>3, <1>4, LeftRows
<1> HIDE DEF rest, began
<1>6. off \in Int
  BY <1>3, <1>5, RowsCost
<1> HIDE DEF off
<1>7. /\ new \in Row
      /\ new.pendingCost = workUnits[k].pendingCost - off /\ new.nextSeq = workUnits[k].nextSeq
      /\ new.oldestPendingAt = MinEnqueued(rest) /\ new.flushDeadline = After(MinEnqueued(rest), MaxWait)
      /\ (new.eligible <=> \/ workUnits[k].pendingCost - off >= Threshold
                           \/ MinEnqueued(rest) # None /\ MinEnqueued(rest) + MaxWait <= began)
      /\ new.leaseMs = workUnits[k].leaseMs
  <2>1. rest \in Seq(TaskRow)
    BY <1>5
  <2>2. IsRecomputed(new, workUnits[k], off, rest, began)
    BY <1>3, <1>6, <2>1, RecomputedRow
  <2> HIDE DEF new
  <2> QED
    BY <2>2 DEF IsRecomputed
<1> HIDE DEF new
<1>8. new.leaseMs \in Nat
  BY <1>7 DEF Row
<1>9. /\ kept \in Row /\ kept.lease = tx[k].by.lease /\ kept.leaseExpires = began + new.leaseMs
      /\ kept.pendingCost = new.pendingCost /\ kept.nextSeq = new.nextSeq
      /\ kept.oldestPendingAt = new.oldestPendingAt /\ kept.flushDeadline = new.flushDeadline
      /\ kept.eligible = new.eligible /\ kept.leaseMs = new.leaseMs
  <2>1. PICK x \in Nat : x = began + new.leaseMs
    BY <1>3, <1>8
  <2>2. PICK l \in LeaseTokens : l = tx[k].by.lease
    BY <1>3
  <2>3. kept = [new EXCEPT !.lease = l, !.leaseExpires = x]
    BY <2>1, <2>2
  <2> HIDE DEF kept
  <2> QED
    BY <1>7, <2>1, <2>2, <2>3 DEF Row
<1> HIDE DEF kept
<1>10. /\ r \in Row
       /\ (r.lease = None <=> r.leaseExpires = None)
       /\ r.pendingCost = new.pendingCost /\ r.nextSeq = new.nextSeq
       /\ r.oldestPendingAt = new.oldestPendingAt /\ r.flushDeadline = new.flushDeadline
       /\ r.eligible = new.eligible
       /\ (r.lease # None <=> r.eligible)
       /\ r.lease \in {None, tx[k].by.lease}
       /\ r.leaseMs = new.leaseMs
       /\ r.lease # None => r.leaseExpires = began + new.leaseMs
  <2>1. CASE new.eligible
    <3>1. tx[k].by.lease # None /\ began + new.leaseMs # None
      BY <1>3, <1>8, TokensCount
    <3> QED
      BY <1>9, <2>1, <3>1
  <2>2. CASE ~new.eligible
    BY <1>7, <2>2, FreedRow
  <2> QED
    BY <2>1, <2>2
<1> HIDE DEF r
<1>11. /\ deadLetters' \in Seq([key : Keys, task : TaskRow]) /\ arrived' = arrived
       /\ failures' \in [Keys -> [1 .. MaxTasks -> Nat]]
  BY <1>1 DEF Types, TypeOK
<1>12. /\ Types'
       /\ workUnits'[k] = r /\ tasks'[k] = rest
       /\ \A j \in Keys \ {k} : /\ Kept(j)
                                /\ workUnits'[j] = workUnits[j] /\ tasks'[j] = tasks[j]
  <2>1. rest \in Seq(TaskRow) /\ r \in Row /\ (r.lease = None <=> r.leaseExpires = None)
    BY <1>5, <1>10
  <2> QED
    BY <1>1, <1>11, <2>1, Committed
<1>13. Dropped(k, n)
  BY <1>1, <1>5, <1>7, <1>10, <1>12 DEF Dropped, SameTask
<1>14. Shrank(k, n)
  BY <1>2, <1>7, <1>10, <1>12, <1>13 DEF Shrank, off, began
<1>15. tx[k].by.lease = workUnits[k].lease
  BY <1>2 DEF Leases
<1>16. /\ workUnits'[k].eligible => workUnits'[k].lease # None
       /\ workUnits'[k].leaseMs = workUnits[k].leaseMs
       /\ workUnits'[k].lease # None =>
            workUnits'[k].leaseExpires = tx[k].at + workUnits[k].leaseMs
  BY <1>7, <1>10, <1>12 DEF began
<1> QED
  BY <1>5, <1>10, <1>12, <1>14, <1>15, <1>16

\* Fail counts the failure and either dead-letters the head or leaves the tasks.
LEMMA StepFail ==
  ASSUME Types, Leases, Arrivals, NEW k \in Keys, NEW seq \in Seqs, Fail(k, seq)
  PROVE  /\ Types'
         /\ workUnits'[k].lease = None
         /\ \A j \in Keys \ {k} : /\ Kept(j)
                                  /\ workUnits'[j] = workUnits[j] /\ tasks'[j] = tasks[j]
         /\ \/ /\ Kept(k) /\ tasks'[k] = Counted(tasks[k], seq)
               /\ deadLetters' = deadLetters
            \/ /\ Shrank(k, 1) /\ tasks'[k] = Suffix(Counted(tasks[k], seq), 1)
               /\ Poison(Counted(tasks[k], seq), seq)
               /\ deadLetters' = Append(deadLetters, [key |-> k, task |-> Counted(tasks[k], seq)[1]])
<1> DEFINE counted == Counted(tasks[k], seq)
           named == {tasks[k][i].payload : i \in {j \in DOMAIN tasks[k] : tasks[k][j].seq = seq}}
           rest == Suffix(counted, 1)
           began == tx[k].at
<1>1. /\ End(k) /\ arrived' = arrived
      /\ failures' = [failures EXCEPT ![k] =
           [p \in DOMAIN failures[k] |->
              IF p \in named THEN failures[k][p] + 1 ELSE failures[k][p]]]
  BY DEF Fail
<1>2. tx[k] # None /\ now' = now
  BY <1>1 DEF End
<1>3. /\ workUnits[k] \in Row /\ tasks[k] \in Seq(TaskRow) /\ Len(tasks[k]) \in Nat
      /\ began \in Nat /\ seq \in Nat
  <2>1. workUnits[k] \in Row /\ tasks[k] \in Seq(TaskRow) /\ began \in Nat
    BY <1>2, TypesAt
  <2> QED
    BY <2>1, RowsAt DEF Seqs
<1>4. /\ counted \in Seq(TaskRow) /\ Len(counted) = Len(tasks[k])
      /\ \A i \in 1 .. Len(tasks[k]) : SameTask(counted[i], tasks[k][i])
  BY <1>3, CountedRows
<1>5. failures' \in [Keys -> [1 .. MaxTasks -> Nat]]
  <2>1. failures \in [Keys -> [1 .. MaxTasks -> Nat]]
    BY DEF Types
  <2> HIDE DEF named
  <2>2. [p \in DOMAIN failures[k] |->
           IF p \in named THEN failures[k][p] + 1 ELSE failures[k][p]] \in [1 .. MaxTasks -> Nat]
    BY <2>1
  <2> QED
    BY <1>1, <2>1, <2>2
<1>6. CASE Poison(counted, seq)
  <2>1. /\ tasks' = [tasks EXCEPT ![k] = rest]
        /\ deadLetters' = Append(deadLetters, [key |-> k, task |-> counted[1]])
        /\ workUnits' = [workUnits EXCEPT ![k] =
             Freed(Recomputed(workUnits[k], counted[1].cost, rest, began))]
    BY <1>6 DEF Fail
  <2> DEFINE new == Recomputed(workUnits[k], counted[1].cost, rest, began)
  <2>2. Len(counted) > 0 /\ 1 \in 1 .. Len(tasks[k]) /\ 1 \in 0 .. Len(counted)
    <3>1. counted # <<>>
      BY <1>6 DEF Poison
    <3> QED
      BY <1>3, <1>4, <3>1, EmptySeq
  <2> HIDE DEF counted
  <2>3. /\ rest \in Seq(TaskRow) /\ Len(rest) = Len(counted) - 1
        /\ \A i \in 1 .. (Len(counted) - 1) : rest[i] = counted[1 + i]
    BY <1>4, <2>2, SuffixProperties
  <2>4. counted[1] \in TaskRow /\ counted[1].cost \in Int
    <3>1. 1 \in DOMAIN counted
      BY <1>3, <1>4, <2>2, LenProperties
    <3>2. counted[1] \in TaskRow /\ counted[1].cost \in Nat
      BY <1>4, <3>1, RowsAt
    <3> QED
      BY <3>2
  <2>5. IsRecomputed(new, workUnits[k], counted[1].cost, rest, began)
    <3> HIDE DEF rest
    <3> QED
      BY <1>3, <2>3, <2>4, RecomputedRow
  <2>6. new \in Row
    BY <2>5 DEF IsRecomputed
  <2>7. deadLetters' \in Seq([key : Keys, task : TaskRow])
    <3>1. deadLetters \in Seq([key : Keys, task : TaskRow])
      BY DEF Types, TypeOK
    <3> QED
      BY <2>1, <2>4, <3>1
  <2> HIDE DEF new, rest
  <2>8. Freed(new) \in Row /\ (Freed(new).lease = None <=> Freed(new).leaseExpires = None)
    BY <2>6, FreedRow
  <2>9. /\ Types'
        /\ workUnits'[k] = Freed(new) /\ tasks'[k] = rest
        /\ \A j \in Keys \ {k} : /\ Kept(j)
                                 /\ workUnits'[j] = workUnits[j] /\ tasks'[j] = tasks[j]
    <3>1. workUnits' = [workUnits EXCEPT ![k] = Freed(new)]
      BY <2>1 DEF new
    <3>2. tasks' = [tasks EXCEPT ![k] = rest] /\ rest \in Seq(TaskRow)
      BY <2>1, <2>3
    <3>3. End(k) /\ UNCHANGED arrived
      BY <1>1
    <3> QED
      BY <1>5, <2>7, <2>8, <3>1, <3>2, <3>3, Committed
  <2>10. workUnits'[k].nextSeq = workUnits[k].nextSeq /\ workUnits'[k].lease = None
    BY <2>5, <2>6, <2>9, FreedRow DEF IsRecomputed
  <2>11. Dropped(k, 1)
    <3>1. ASSUME NEW i \in 1 .. (Len(tasks[k]) - 1)
          PROVE  SameTask(tasks'[k][i], tasks[k][1 + i])
      <4>1. rest[i] = counted[1 + i] /\ 1 + i \in 1 .. Len(tasks[k])
        BY <1>3, <1>4, <2>3
      <4> QED
        BY <1>4, <2>9, <4>1
    <3> QED
      BY <1>1, <1>3, <1>4, <2>2, <2>3, <2>9, <2>10, <3>1 DEF Dropped
  <2>12. Cost(tasks[k]) - Cost(tasks'[k]) = counted[1].cost
    <3>1. Cost(counted) = Cost(tasks[k])
      <4>1. DOMAIN counted = 1 .. Len(tasks[k]) /\ DOMAIN tasks[k] = 1 .. Len(tasks[k])
        BY <1>3, <1>4, LenProperties
      <4> QED
        BY <1>3, <1>4, <4>1, SameCost DEF SameTask
    <3>2. ASSUME NEW i \in 1 .. Len(counted), NEW j \in 1 .. Len(counted), i # j
          PROVE  counted[i].seq # counted[j].seq
      <4>1. counted[i].seq = tasks[k][i].seq /\ counted[j].seq = tasks[k][j].seq
        BY <1>4 DEF SameTask
      <4> QED
        BY <1>4, <3>2, <4>1, DistinctSeqs
    <3>3. Cost(counted) = Cost(Prefix(counted, 1)) + Cost(rest)
      BY <1>4, <2>2, <3>2, RowsSplit DEF rest
    <3>4. Cost(Prefix(counted, 1)) = counted[1].cost
      BY <1>4, <2>2, HeadCost
    <3>5. Cost(rest) \in Nat
      BY <2>3, RowsCost
    <3> QED
      BY <2>4, <2>9, <3>1, <3>3, <3>4, <3>5
  <2>13. Shrank(k, 1)
    BY <1>2, <2>5, <2>6, <2>9, <2>10, <2>11, <2>12, FreedRow DEF Shrank, IsRecomputed, began
  <2> QED
    BY <1>6, <2>1, <2>9, <2>10, <2>13 DEF counted, rest
<1>7. CASE ~Poison(counted, seq)
  <2>1. /\ tasks' = [tasks EXCEPT ![k] = counted]
        /\ workUnits' = [workUnits EXCEPT ![k] = Freed(workUnits[k])]
        /\ deadLetters' = deadLetters
    BY <1>7 DEF Fail
  <2>2. deadLetters' \in Seq([key : Keys, task : TaskRow])
    BY <2>1 DEF Types, TypeOK
  <2>3. Freed(workUnits[k]) \in Row
        /\ (Freed(workUnits[k]).lease = None <=> Freed(workUnits[k]).leaseExpires = None)
    BY <1>3, FreedRow
  <2> HIDE DEF counted
  <2>4. /\ Types'
        /\ workUnits'[k] = Freed(workUnits[k]) /\ tasks'[k] = counted
        /\ \A j \in Keys \ {k} : /\ Kept(j)
                                 /\ workUnits'[j] = workUnits[j] /\ tasks'[j] = tasks[j]
    BY <1>1, <1>4, <1>5, <2>1, <2>2, <2>3, Committed
  <2>5. /\ workUnits'[k].nextSeq = workUnits[k].nextSeq /\ workUnits'[k].lease = None
        /\ workUnits'[k].pendingCost = workUnits[k].pendingCost
        /\ workUnits'[k].oldestPendingAt = workUnits[k].oldestPendingAt
        /\ workUnits'[k].flushDeadline = workUnits[k].flushDeadline
        /\ workUnits'[k].eligible = workUnits[k].eligible
    BY <1>3, <2>4, FreedRow
  <2>6. Dropped(k, 0)
    <3>1. ASSUME NEW i \in 1 .. (Len(tasks[k]) - 0)
          PROVE  SameTask(tasks'[k][i], tasks[k][0 + i])
      <4>1. 0 + i = i /\ i \in 1 .. Len(tasks[k])
        BY <1>3
      <4> QED
        BY <1>4, <2>4, <4>1
    <3>2. 0 \in 0 .. Len(tasks[k]) /\ Len(tasks'[k]) = Len(tasks[k]) - 0
      BY <1>3, <1>4, <2>4
    <3> QED
      BY <1>1, <2>5, <3>1, <3>2 DEF Dropped
  <2>7. Kept(k)
    BY <1>2, <2>5, <2>6 DEF Kept
  <2> QED
    BY <2>1, <2>4, <2>5, <2>7 DEF counted
<1> QED
  BY <1>6, <1>7

\* Claim changes the lease of one unit and nobody's tasks.
LEMMA StepClaim ==
  ASSUME Types, NEW k \in Keys, NEW d \in LeaseDurs, NEW t \in Clocks, NEW locked \in SUBSET Keys,
         Claim(k, d, t, locked)
  PROVE  /\ Types'
         /\ \A j \in Keys : Kept(j)
         /\ issued + 1 \in LeaseTokens
         /\ workUnits'[k].lease = issued + 1
         /\ \A j \in Keys \ {k} : workUnits'[j] = workUnits[j]
<1>1. /\ issued < MaxClaims /\ workUnits[k].eligible /\ issued' = issued + 1
      /\ workUnits' = [workUnits EXCEPT ![k] =
           [workUnits[k] EXCEPT !.lease = issued + 1, !.leaseMs = d, !.leaseExpires = t + d]]
      /\ handles' = handles \cup {[key |-> k, lease |-> issued + 1]}
      /\ UNCHANGED <<tasks, deadLetters, tx, reap, calls, now, arrived, failures>>
  BY DEF Claim, Claimable
<1>2. issued + 1 \in LeaseTokens /\ issued + 1 \in 0 .. MaxClaims
  BY <1>1 DEF Types, TypeOK, LeaseTokens
<1>3. d \in Nat /\ t \in Nat /\ t + d \in Nat
  <2>1. d \in Nat
    OBVIOUS
  <2>2. t \in 0 .. now /\ now \in Nat
    BY DEF Clocks, Types, TypeOK
  <2> QED
    BY <2>1, <2>2
<1>4. issued + 1 # None /\ t + d # None
  BY <1>2, <1>3, TokensCount
<1>5. /\ workUnits' \in [Keys -> Row]
      /\ \A j \in Keys : workUnits'[j].lease = None <=> workUnits'[j].leaseExpires = None
      /\ workUnits'[k].lease = issued + 1
      /\ \A j \in Keys : Kept(j)
  <2>1. PICK l \in LeaseTokens \cup {None} : l = issued + 1
    BY <1>2
  <2>2. PICK x \in Nat \cup {None} : x = t + d
    BY <1>3
  <2>3. workUnits' = [workUnits EXCEPT ![k] =
          [workUnits[k] EXCEPT !.lease = l, !.leaseMs = d, !.leaseExpires = x]]
    BY <1>1, <2>1, <2>2
  <2>4. l # None /\ x # None /\ d \in Nat /\ workUnits[k].eligible
    BY <1>1, <1>3, <1>4, <2>1, <2>2
  <2>5. UNCHANGED <<tasks, arrived, now>>
    BY <1>1
  <2>6. /\ workUnits' \in [Keys -> Row]
        /\ \A j \in Keys : workUnits'[j].lease = None <=> workUnits'[j].leaseExpires = None
        /\ workUnits'[k].lease = l
        /\ \A j \in Keys : Kept(j)
    BY <2>3, <2>4, <2>5, LeaseWritten
  <2> QED
    BY <2>1, <2>6
<1>6. handles' \subseteq ClaimedUnit
  BY <1>1, <1>2 DEF Types, TypeOK, ClaimedUnit
<1>7. Types'
  BY <1>1, <1>2, <1>5, <1>6 DEF Types, TypeOK
<1>8. \A j \in Keys \ {k} : workUnits'[j] = workUnits[j]
  BY <1>1 DEF Types, TypeOK
<1> QED
  BY <1>2, <1>5, <1>7, <1>8

\* The steps that move no task and issue no lease.
Quiet ==
  \/ \E t \in Clocks, h \in handles : Begin(h, t) \/ \E d \in LeaseDurs : Heartbeat(h, d, t)
  \/ \E h \in handles : DrainCheck(h) \/ DrainRead(h) \/ Release(h)
  \/ \E k \in Keys : Rollback(k)
  \/ \E t \in 0 .. now : ReapLeases(t)
  \/ ReapFlush \/ ReapFlushFails \/ Tick

\* What they do to the rows: a lease may go, never from a row that is locked.
QuietRows ==
  /\ workUnits' \in [Keys -> Row]
  /\ \A j \in Keys :
       /\ workUnits'[j].lease = None <=> workUnits'[j].leaseExpires = None
       /\ Kept(j)
       /\ workUnits'[j].lease \in {None, workUnits[j].lease}
       /\ tx[j] # None => workUnits'[j].lease = workUnits[j].lease

\* Steps that write no row are quiet.
LEMMA RowsStay ==
  ASSUME Types, workUnits' = workUnits, tasks' = tasks, arrived' = arrived, now' \in {now, now + 1}
  PROVE  QuietRows
<1>1. ASSUME NEW j \in Keys PROVE Kept(j)
  BY StaysKept
<1> QED
  BY <1>1 DEF QuietRows, Types, TypeOK

\* Quiet steps give no lease and take no task.
LEMMA QuietStepRows ==
  ASSUME Types, Leases, Quiet
  PROVE  QuietRows
<1>h. ASSUME NEW h \in handles PROVE h.key \in Keys /\ h.lease \in LeaseTokens /\ h.lease # None
  BY TokensCount DEF Types, TypeOK, ClaimedUnit
<1>1. ASSUME NEW t \in Clocks, NEW h \in handles, NEW d \in LeaseDurs, Heartbeat(h, d, t)
      PROVE  QuietRows
  <2>1. /\ workUnits' = [workUnits EXCEPT ![h.key] =
             [workUnits[h.key] EXCEPT !.leaseMs = d, !.leaseExpires = t + d]]
        /\ tx[h.key] = None /\ workUnits[h.key].lease = h.lease
        /\ UNCHANGED <<tasks, arrived, now>>
    BY <1>1 DEF Heartbeat, Unlocked, Held
  <2>2. d \in Nat /\ t + d \in Nat
    <3>1. d \in Nat
      OBVIOUS
    <3>2. t \in 0 .. now /\ now \in Nat
      BY DEF Clocks, Types, TypeOK
    <3> QED
      BY <3>1, <3>2
  <2>3. [workUnits[h.key] EXCEPT !.leaseMs = d, !.leaseExpires = t + d]
          = [workUnits[h.key] EXCEPT !.lease = h.lease, !.leaseMs = d, !.leaseExpires = t + d]
    <3>1. workUnits[h.key] \in Row
      BY <1>h, TypesAt
    <3> QED
      BY <2>1, <3>1 DEF Row
  <2>4. PICK x \in Nat \cup {None}, l \in LeaseTokens \cup {None} : x = t + d /\ l = h.lease
    BY <1>h, <2>2
  <2>5. /\ workUnits' \in [Keys -> Row]
        /\ \A j \in Keys : workUnits'[j].lease = None <=> workUnits'[j].leaseExpires = None
        /\ workUnits'[h.key].lease = l
        /\ \A j \in Keys : Kept(j)
    <3>1. workUnits' = [workUnits EXCEPT ![h.key] =
            [workUnits[h.key] EXCEPT !.lease = l, !.leaseMs = d, !.leaseExpires = x]]
      BY <2>1, <2>3, <2>4
    <3>2. l # None /\ x # None /\ d \in Nat /\ h.key \in Keys /\ workUnits[h.key].lease # None
      BY <1>h, <2>1, <2>2, <2>4
    <3>3. UNCHANGED <<tasks, arrived, now>>
      BY <2>1
    <3> QED
      BY <3>1, <3>2, <3>3, LeaseWritten
  <2>6. \A j \in Keys : workUnits'[j].lease = workUnits[j].lease
    BY <1>h, <2>1, <2>4, <2>5 DEF Types, TypeOK
  <2> QED
    BY <2>5, <2>6 DEF QuietRows
<1>2. ASSUME NEW h \in handles, Release(h) PROVE QuietRows
  <2>1. /\ workUnits' = [workUnits EXCEPT ![h.key] = Freed(workUnits[h.key])]
        /\ tx[h.key] = None
        /\ UNCHANGED <<tasks, arrived, now>>
    BY <1>2 DEF Release, Unlocked
  <2>2. h.key \in Keys /\ workUnits[h.key] \in Row
    BY <1>h, TypesAt
  <2>3. /\ Freed(workUnits[h.key]) \in Row
        /\ (Freed(workUnits[h.key]).lease = None <=> Freed(workUnits[h.key]).leaseExpires = None)
    BY <2>2, FreedRow
  <2>4. /\ workUnits' \in [Keys -> Row] /\ workUnits'[h.key] = Freed(workUnits[h.key])
        /\ \A j \in Keys : workUnits'[j].lease = None <=> workUnits'[j].leaseExpires = None
    BY <2>1, <2>2, <2>3, RowWritten
  <2>5. ASSUME NEW j \in Keys
        PROVE  /\ Kept(j) /\ workUnits'[j].lease \in {None, workUnits[j].lease}
               /\ tx[j] # None => workUnits'[j].lease = workUnits[j].lease
    <3>1. CASE j = h.key
      <4>1. /\ workUnits'[j].nextSeq = workUnits[j].nextSeq /\ workUnits'[j].lease = None
            /\ workUnits'[j].pendingCost = workUnits[j].pendingCost
            /\ workUnits'[j].oldestPendingAt = workUnits[j].oldestPendingAt
            /\ workUnits'[j].flushDeadline = workUnits[j].flushDeadline
            /\ workUnits'[j].eligible = workUnits[j].eligible
        BY <2>2, <2>4, <3>1, FreedRow
      <4> QED
        BY <2>1, <3>1, <4>1, StaysKept
    <3>2. CASE j # h.key
      <4>1. workUnits'[j] = workUnits[j]
        BY <2>1, <3>2 DEF Types, TypeOK
      <4> QED
        BY <2>1, <4>1, StaysKept
    <3> QED
      BY <3>1, <3>2
  <2> QED
    BY <2>4, <2>5 DEF QuietRows
<1>3. ASSUME NEW t \in 0 .. now, ReapLeases(t) PROVE QuietRows
  <2>1. /\ workUnits' = [j \in Keys |->
             IF Expired(workUnits[j], t) THEN Freed(workUnits[j]) ELSE workUnits[j]]
        /\ \A j \in Keys : Expired(workUnits[j], t) => tx[j] = None
        /\ UNCHANGED <<tasks, arrived, now>>
    BY <1>3 DEF ReapLeases, Unlocked
  <2>2. ASSUME NEW j \in Keys
        PROVE  /\ workUnits'[j] \in Row
               /\ (workUnits'[j].lease = None <=> workUnits'[j].leaseExpires = None)
               /\ Kept(j) /\ workUnits'[j].lease \in {None, workUnits[j].lease}
               /\ tx[j] # None => workUnits'[j].lease = workUnits[j].lease
    <3>0. workUnits[j] \in Row
      BY TypesAt
    <3>1. CASE Expired(workUnits[j], t)
      <4>1. workUnits'[j] = Freed(workUnits[j])
        BY <2>1, <3>1
      <4>2. /\ workUnits'[j].nextSeq = workUnits[j].nextSeq /\ workUnits'[j].lease = None
            /\ workUnits'[j].pendingCost = workUnits[j].pendingCost
            /\ workUnits'[j].oldestPendingAt = workUnits[j].oldestPendingAt
            /\ workUnits'[j].flushDeadline = workUnits[j].flushDeadline
            /\ workUnits'[j].eligible = workUnits[j].eligible
            /\ workUnits'[j] \in Row /\ workUnits'[j].leaseExpires = None
        BY <3>0, <4>1, FreedRow
      <4> QED
        BY <2>1, <3>1, <4>2, StaysKept
    <3>2. CASE ~Expired(workUnits[j], t)
      <4>1. workUnits'[j] = workUnits[j]
        BY <2>1, <3>2
      <4>2. workUnits[j].lease = None <=> workUnits[j].leaseExpires = None
        BY DEF Types, TypeOK
      <4> QED
        BY <2>1, <3>0, <4>1, <4>2, StaysKept
    <3> QED
      BY <3>1, <3>2
  <2>3. workUnits' \in [Keys -> Row]
    BY <2>1, <2>2
  <2> QED
    BY <2>2, <2>3 DEF QuietRows
<1>4. ASSUME ReapFlush PROVE QuietRows
  <2>1. /\ workUnits' = [j \in Keys |->
             [workUnits[j] EXCEPT !.eligible = workUnits[j].eligible \/ Flushable(workUnits[j], reap)]]
        /\ reap # None
        /\ UNCHANGED <<tasks, arrived, now>>
    BY <1>4 DEF ReapFlush
  <2>2. ASSUME NEW j \in Keys
        PROVE  /\ workUnits'[j] \in Row
               /\ (workUnits'[j].lease = None <=> workUnits'[j].leaseExpires = None)
               /\ Kept(j) /\ workUnits'[j].lease = workUnits[j].lease
    <3> DEFINE e == workUnits[j].eligible \/ Flushable(workUnits[j], reap)
    <3>1. workUnits[j] \in Row /\ workUnits'[j] = [workUnits[j] EXCEPT !.eligible = e]
      BY <2>1, TypesAt
    <3>2. e \in BOOLEAN
      OBVIOUS
    <3> HIDE DEF e
    <3>3. /\ workUnits'[j] \in Row
          /\ workUnits'[j].eligible = e
          /\ workUnits'[j].nextSeq = workUnits[j].nextSeq
          /\ workUnits'[j].lease = workUnits[j].lease
          /\ workUnits'[j].leaseExpires = workUnits[j].leaseExpires
          /\ workUnits'[j].pendingCost = workUnits[j].pendingCost
          /\ workUnits'[j].oldestPendingAt = workUnits[j].oldestPendingAt
          /\ workUnits'[j].flushDeadline = workUnits[j].flushDeadline
      <4>1. PICK b \in BOOLEAN, w \in Row : b = e /\ w = workUnits[j]
        BY <3>1, <3>2
      <4> QED
        BY <3>1, <4>1 DEF Row
    <3>4. workUnits[j].lease = None <=> workUnits[j].leaseExpires = None
      BY DEF Types, TypeOK
    <3>5. Dropped(j, 0)
      <4>1. Len(tasks[j]) \in Nat
        BY TypesAt, RowsAt
      <4> QED
        BY <2>1, <3>3, <4>1 DEF Dropped, SameTask
    <3>6. Kept(j)
      BY <2>1, <3>3, <3>5 DEF Kept, e
    <3> QED
      BY <3>3, <3>4, <3>6
  <2>3. workUnits' \in [Keys -> Row]
    BY <2>1, <2>2
  <2> QED
    BY <2>2, <2>3 DEF QuietRows
<1>5. CASE workUnits' = workUnits /\ tasks' = tasks /\ arrived' = arrived /\ now' \in {now, now + 1}
  BY <1>5, RowsStay
<1> QED
  BY <1>1, <1>2, <1>3, <1>4, <1>5
     DEF Quiet, Begin, DrainCheck, DrainRead, Rollback, End, ReapFlushFails, Tick, tables

\* Quiet steps keep the types and the histories.
LEMMA QuietStep ==
  ASSUME Types, Leases, Quiet
  PROVE  /\ Types' /\ QuietRows
         /\ UNCHANGED <<tasks, arrived, failures, deadLetters, handles, issued>>
<1>1. QuietRows
  BY QuietStepRows
<1>2. UNCHANGED <<tasks, arrived, failures, deadLetters, handles, issued>>
  BY DEF Quiet, Begin, Heartbeat, DrainCheck, DrainRead, Release, Rollback, End, ReapLeases,
         ReapFlush, ReapFlushFails, Tick, tables
<1>n. now \in 0 .. MaxNow /\ reap \in 0 .. MaxNow \cup {None}
  BY DEF Types, TypeOK
<1>3. now' \in 0 .. MaxNow
  <2>1. now' = now \/ (now < MaxNow /\ now' = now + 1)
    BY DEF Quiet, Begin, Heartbeat, DrainCheck, DrainRead, Release, Rollback, End, ReapLeases,
           ReapFlush, ReapFlushFails, Tick
  <2> QED
    BY <1>n, <2>1
<1>4. reap' \in 0 .. MaxNow \cup {None}
  <2>1. reap' = reap \/ reap' = None \/ reap' \in 0 .. now
    BY DEF Quiet, Begin, Heartbeat, DrainCheck, DrainRead, Release, Rollback, End, ReapLeases,
           ReapFlush, ReapFlushFails, Tick
  <2> QED
    BY <1>n, <2>1
<1>5. tx' \in [Keys -> [by : ClaimedUnit, at : 0 .. MaxNow] \cup {None}]
  <2>0. /\ tx \in [Keys -> [by : ClaimedUnit, at : 0 .. MaxNow] \cup {None}]
        /\ handles \subseteq ClaimedUnit /\ now \in 0 .. MaxNow
    BY DEF Types, TypeOK
  <2>1. ASSUME NEW t \in Clocks, NEW h \in handles, Begin(h, t)
        PROVE  tx' \in [Keys -> [by : ClaimedUnit, at : 0 .. MaxNow] \cup {None}]
    <3>1. t \in 0 .. MaxNow
      BY <2>0 DEF Clocks
    <3>2. [by |-> h, at |-> t] \in [by : ClaimedUnit, at : 0 .. MaxNow]
      BY <2>0, <3>1
    <3>3. tx' = [tx EXCEPT ![h.key] = [by |-> h, at |-> t]]
      BY <2>1 DEF Begin
    <3> QED
      BY <2>0, <3>2, <3>3
  <2>2. ASSUME NEW k \in Keys, Rollback(k)
        PROVE  tx' \in [Keys -> [by : ClaimedUnit, at : 0 .. MaxNow] \cup {None}]
    <3>1. tx' = [tx EXCEPT ![k] = None]
      BY <2>2 DEF Rollback, End
    <3> QED
      BY <2>0, <3>1
  <2>3. CASE tx' = tx
    BY <2>0, <2>3
  <2> QED
    BY <2>1, <2>2, <2>3
       DEF Quiet, Heartbeat, DrainCheck, DrainRead, Release, ReapLeases, ReapFlush,
           ReapFlushFails, Tick
<1>6. calls' \in [LeaseTokens -> CallRecord]
  <2>0. calls \in [LeaseTokens -> CallRecord]
    BY DEF Types
  <2>1. Idle \in CallRecord /\ [step |-> "read", got |-> <<>>] \in CallRecord
    BY DEF Idle, CallRecord
  <2>2. ASSUME NEW h \in handles, DrainRead(h) PROVE calls' \in [LeaseTokens -> CallRecord]
    <3>1. h.key \in Keys
      BY DEF Types, TypeOK, ClaimedUnit
    <3>2. Drained(tasks[h.key]) \in Seq(TaskRow)
      BY <3>1, TypesAt, DrainedRows
    <3>3. [step |-> "idle", got |-> Drained(tasks[h.key])] \in CallRecord
      BY <3>2 DEF CallRecord
    <3>4. calls' = [calls EXCEPT ![h.lease] = [step |-> "idle", got |-> Drained(tasks[h.key])]]
      BY <2>2 DEF DrainRead
    <3> QED
      BY <2>0, <3>3, <3>4
  <2>3. ASSUME NEW h \in handles, DrainCheck(h) PROVE calls' \in [LeaseTokens -> CallRecord]
    <3>1. calls' = [calls EXCEPT ![h.lease] = [step |-> "read", got |-> <<>>]]
      BY <2>3 DEF DrainCheck
    <3> QED
      BY <2>0, <2>1, <3>1
  <2>4. ASSUME NEW h \in handles, Release(h) PROVE calls' \in [LeaseTokens -> CallRecord]
    <3>1. calls' = [calls EXCEPT ![h.lease] = Idle]
      BY <2>4 DEF Release
    <3> QED
      BY <2>0, <2>1, <3>1
  <2>5. ASSUME NEW k \in Keys, Rollback(k) PROVE calls' \in [LeaseTokens -> CallRecord]
    <3>1. calls' = [calls EXCEPT ![tx[k].by.lease] = Idle]
      BY <2>5 DEF Rollback, End
    <3> QED
      BY <2>0, <2>1, <3>1
  <2>6. CASE calls' = calls
    BY <2>0, <2>6
  <2> QED
    BY <2>2, <2>3, <2>4, <2>5, <2>6
       DEF Quiet, Begin, Heartbeat, ReapLeases, ReapFlush, ReapFlushFails, Tick
<1>7. Types'
  BY <1>1, <1>2, <1>3, <1>4, <1>5, <1>6 DEF Types, TypeOK, QuietRows
<1> QED
  BY <1>1, <1>2, <1>7

\* A step is one of the four that change a unit's work or lease, or quiet.
LEMMA NextCases ==
  ASSUME Next
  PROVE  \/ \E k \in Keys, c \in Costs, t \in Clocks : Enqueue(k, c, t)
         \/ \E k \in Keys, d \in LeaseDurs, t \in Clocks, locked \in SUBSET Keys : Claim(k, d, t, locked)
         \/ \E k \in Keys, s \in Seqs : Ack(k, s)
         \/ \E k \in Keys, s \in Seqs : Fail(k, s)
         \/ Quiet
  BY DEF Next, Quiet

\* What a step does to each unit, whatever it is.
LEMMA StepUnits ==
  ASSUME Types, Leases, Arrivals, Next
  PROVE  /\ Types'
         /\ \A k \in Keys : \/ Kept(k)
                             \/ \E n \in 0 .. Len(tasks[k]) : Shrank(k, n)
                             \/ \E c \in Costs, t \in Clocks : Grew(k, c, t)
<1>1. ASSUME NEW k \in Keys, NEW c \in Costs, NEW t \in Clocks, Enqueue(k, c, t)
      PROVE  Types' /\ Grew(k, c, t) /\ \A j \in Keys \ {k} : Kept(j)
  <2>1. workUnits[k].nextSeq >= -1
    BY DistinctSeqs, TypesAt
  <2> QED
    BY <1>1, <2>1, StepEnqueue
<1>2. ASSUME NEW k \in Keys, NEW s \in Seqs, Ack(k, s)
      PROVE  /\ Types' /\ \E n \in 0 .. Len(tasks[k]) : Shrank(k, n)
             /\ \A j \in Keys \ {k} : Kept(j)
  BY <1>2, StepAck
<1>3. ASSUME NEW k \in Keys, NEW s \in Seqs, Fail(k, s)
      PROVE  /\ Types' /\ (Kept(k) \/ \E n \in 0 .. Len(tasks[k]) : Shrank(k, n))
             /\ \A j \in Keys \ {k} : Kept(j)
  <2>1. Shrank(k, 1) => 1 \in 0 .. Len(tasks[k])
    BY DEF Shrank, Dropped
  <2> QED
    BY <1>3, <2>1, StepFail
<1>4. ASSUME NEW k \in Keys, NEW d \in LeaseDurs, NEW t \in Clocks, NEW locked \in SUBSET Keys,
             Claim(k, d, t, locked)
      PROVE  Types' /\ \A j \in Keys : Kept(j)
  BY <1>4, StepClaim
<1>5. ASSUME Quiet PROVE Types' /\ \A j \in Keys : Kept(j)
  BY <1>5, QuietStep DEF QuietRows
<1> QED
  BY <1>1, <1>2, <1>3, <1>4, <1>5, NextCases

-----------------------------------------------------------------------------
(* The tasks table *)

\* Every step keeps the order of the tasks.
LEMMA ArrivalsStep ==
  ASSUME Types, Leases, Arrivals, Next
  PROVE  Arrivals'
<1> SUFFICES ASSUME NEW k \in Keys
             PROVE  /\ workUnits'[k].nextSeq = arrived'[k] - 1
                    /\ Len(tasks'[k]) <= arrived'[k]
                    /\ \A i \in 1 .. Len(tasks'[k]) :
                         /\ tasks'[k][i].payload = arrived'[k] - Len(tasks'[k]) + i
                         /\ tasks'[k][i].seq = tasks'[k][i].payload - 1
  BY DEF Arrivals, FifoIntact
<1>1. /\ workUnits[k].nextSeq = arrived[k] - 1
      /\ Len(tasks[k]) \in 0 .. arrived[k]
      /\ \A i \in 1 .. Len(tasks[k]) :
           /\ tasks[k][i].payload = arrived[k] - Len(tasks[k]) + i
           /\ tasks[k][i].seq = tasks[k][i].payload - 1
  BY DistinctSeqs DEF Arrivals, FifoIntact
<1>2. arrived[k] \in Nat /\ tasks[k] \in Seq(TaskRow) /\ Len(tasks[k]) \in Nat
  BY TypesAt, RowsAt
<1>3. ASSUME NEW n \in 0 .. Len(tasks[k]), Dropped(k, n)
      PROVE  /\ workUnits'[k].nextSeq = arrived'[k] - 1
             /\ Len(tasks'[k]) <= arrived'[k]
             /\ \A i \in 1 .. Len(tasks'[k]) :
                  /\ tasks'[k][i].payload = arrived'[k] - Len(tasks'[k]) + i
                  /\ tasks'[k][i].seq = tasks'[k][i].payload - 1
  <2>1. /\ Len(tasks'[k]) = Len(tasks[k]) - n
        /\ \A i \in 1 .. (Len(tasks[k]) - n) : SameTask(tasks'[k][i], tasks[k][n + i])
        /\ arrived'[k] = arrived[k] /\ workUnits'[k].nextSeq = workUnits[k].nextSeq
    BY <1>3 DEF Dropped
  <2>2. ASSUME NEW i \in 1 .. Len(tasks'[k])
        PROVE  /\ tasks'[k][i].payload = arrived'[k] - Len(tasks'[k]) + i
               /\ tasks'[k][i].seq = tasks'[k][i].payload - 1
    <3>1. i \in 1 .. (Len(tasks[k]) - n) /\ n + i \in 1 .. Len(tasks[k])
      BY <1>2, <2>1
    <3>2. /\ tasks'[k][i].payload = tasks[k][n + i].payload
          /\ tasks'[k][i].seq = tasks[k][n + i].seq
      BY <2>1, <3>1 DEF SameTask
    <3>3. /\ tasks[k][n + i].payload = arrived[k] - Len(tasks[k]) + (n + i)
          /\ tasks[k][n + i].seq = tasks[k][n + i].payload - 1
      BY <1>1, <3>1
    <3>4. arrived[k] - Len(tasks[k]) + (n + i) = arrived[k] - (Len(tasks[k]) - n) + i
      BY <1>2, <3>1
    <3> QED
      BY <2>1, <3>2, <3>3, <3>4
  <2> QED
    BY <1>1, <1>2, <2>1, <2>2
<1>4. ASSUME NEW c \in Costs, NEW t \in Clocks, Grew(k, c, t)
      PROVE  /\ workUnits'[k].nextSeq = arrived'[k] - 1
             /\ Len(tasks'[k]) <= arrived'[k]
             /\ \A i \in 1 .. Len(tasks'[k]) :
                  /\ tasks'[k][i].payload = arrived'[k] - Len(tasks'[k]) + i
                  /\ tasks'[k][i].seq = tasks'[k][i].payload - 1
  <2> DEFINE row == [seq |-> workUnits[k].nextSeq + 1, payload |-> arrived[k] + 1, cost |-> c,
                     attempts |-> 0, enqueuedAt |-> t]
             m == Len(tasks[k])
  <2>1. /\ tasks'[k] = Append(tasks[k], row)
        /\ arrived'[k] = arrived[k] + 1 /\ workUnits'[k].nextSeq = workUnits[k].nextSeq + 1
    BY <1>4 DEF Grew
  <2>2. row.payload = arrived[k] + 1 /\ row.seq = arrived[k]
    BY <1>1, <1>2
  <2> HIDE DEF row
  <2>3. /\ Len(tasks'[k]) = m + 1 /\ tasks'[k][m + 1] = row
        /\ \A i \in 1 .. m : tasks'[k][i] = tasks[k][i]
    BY <1>2, <2>1
  <2>4. ASSUME NEW i \in 1 .. (m + 1)
        PROVE  /\ tasks'[k][i].payload = arrived'[k] - (m + 1) + i
               /\ tasks'[k][i].seq = tasks'[k][i].payload - 1
    <3>1. CASE i = m + 1
      BY SMTT(30), <1>2, <2>1, <2>2, <2>3, <3>1
    <3>2. CASE i # m + 1
      <4>1. i \in 1 .. m
        BY <1>2, <3>2
      <4>2. /\ tasks'[k][i] = tasks[k][i]
            /\ tasks[k][i].payload = arrived[k] - m + i
            /\ tasks[k][i].seq = tasks[k][i].payload - 1
        BY <1>1, <2>3, <4>1
      <4>3. arrived[k] - m + i = arrived'[k] - (m + 1) + i
        BY <1>2, <2>1, <4>1
      <4> QED
        BY <4>2, <4>3
    <3> QED
      BY <3>1, <3>2
  <2>5. workUnits'[k].nextSeq = arrived'[k] - 1 /\ Len(tasks'[k]) <= arrived'[k]
    BY <1>1, <1>2, <2>1, <2>3
  <2>6. 1 .. Len(tasks'[k]) = 1 .. (m + 1)
    BY <2>3
  <2> QED
    BY <2>3, <2>4, <2>5, <2>6
<1>5. Kept(k) => \E n \in 0 .. Len(tasks[k]) : Dropped(k, n)
  BY DEF Kept, Dropped
<1>6. ASSUME NEW n \in 0 .. Len(tasks[k]), Shrank(k, n) PROVE Dropped(k, n)
  BY <1>6 DEF Shrank
<1>7. \/ Kept(k)
      \/ \E n \in 0 .. Len(tasks[k]) : Shrank(k, n)
      \/ \E c \in Costs, t \in Clocks : Grew(k, c, t)
  BY StepUnits
<1>8. CASE \E n \in 0 .. Len(tasks[k]) : Dropped(k, n)
  BY <1>3, <1>8
<1>9. CASE \E c \in Costs, t \in Clocks : Grew(k, c, t)
  BY <1>4, <1>9
<1> QED
  BY <1>5, <1>6, <1>7, <1>8, <1>9

\* What is left after n tasks are gone costs what the suffix did.
LEMMA DroppedCost ==
  ASSUME Types, Arrivals, Types', NEW k \in Keys, NEW n \in 0 .. Len(tasks[k]), Dropped(k, n)
  PROVE  /\ Cost(tasks'[k]) \in Nat /\ Cost(tasks[k]) \in Nat
         /\ Cost(tasks'[k]) <= Cost(tasks[k])
         /\ n = 0 => Cost(tasks'[k]) = Cost(tasks[k])
<1>1. tasks[k] \in Seq(TaskRow) /\ tasks'[k] \in Seq(TaskRow)
  BY DEF Types, TypeOK
<1>2. Cost(tasks'[k]) \in Nat /\ Cost(tasks[k]) \in Nat
  BY <1>1, RowsCost
<1>3. /\ Len(tasks[k]) \in Nat /\ Len(tasks'[k]) = Len(tasks[k]) - n
      /\ DOMAIN tasks'[k] = 1 .. (Len(tasks[k]) - n) /\ DOMAIN tasks[k] = 1 .. Len(tasks[k])
      /\ Len(tasks[k]) - n \in Nat
  BY <1>1, LenProperties DEF Dropped
<1>4. Cost(tasks'[k]) = Cost(Suffix(tasks[k], n))
  <2>1. /\ Suffix(tasks[k], n) \in Seq(TaskRow) /\ Len(Suffix(tasks[k], n)) = Len(tasks[k]) - n
        /\ \A i \in 1 .. (Len(tasks[k]) - n) : Suffix(tasks[k], n)[i] = tasks[k][n + i]
    BY <1>1, SuffixProperties
  <2>2. DOMAIN Suffix(tasks[k], n) = 1 .. (Len(tasks[k]) - n)
    BY <2>1, LenProperties
  <2>3. \A i \in 1 .. (Len(tasks[k]) - n) :
          /\ tasks'[k][i].seq = Suffix(tasks[k], n)[i].seq
          /\ tasks'[k][i].cost = Suffix(tasks[k], n)[i].cost
    BY <2>1 DEF Dropped, SameTask
  <2> QED
    BY <1>3, <2>2, <2>3, SameCost
<1>5. Cost(tasks[k]) = Cost(Prefix(tasks[k], n)) + Cost(Suffix(tasks[k], n))
  BY <1>1, RowsSplit, DistinctSeqs
<1>6. Cost(Prefix(tasks[k], n)) \in Nat
  BY <1>1, PrefixProperties, RowsCost
<1>7. ASSUME n = 0 PROVE Cost(tasks'[k]) = Cost(tasks[k])
  <2>1. \A i \in 1 .. Len(tasks[k]) :
          tasks'[k][i].seq = tasks[k][i].seq /\ tasks'[k][i].cost = tasks[k][i].cost
    BY <1>3, <1>7 DEF Dropped, SameTask
  <2>2. DOMAIN tasks'[k] = 1 .. Len(tasks[k])
    BY <1>3, <1>7
  <2> QED
    BY <1>3, <2>1, <2>2, SameCost
<1> QED
  BY <1>2, <1>4, <1>5, <1>6, <1>7

\* A task that arrives adds its cost.
LEMMA GrewCost ==
  ASSUME Types, Arrivals, Types', NEW k \in Keys, NEW c \in Costs, NEW t \in Clocks, Grew(k, c, t)
  PROVE  /\ Cost(tasks[k]) \in Nat /\ c \in Nat
         /\ Cost(tasks'[k]) = Cost(tasks[k]) + c
<1> DEFINE row == [seq |-> workUnits[k].nextSeq + 1, payload |-> arrived[k] + 1, cost |-> c,
                   attempts |-> 0, enqueuedAt |-> t]
<1>1. tasks[k] \in Seq(TaskRow) /\ arrived[k] \in Nat /\ now \in Nat /\ c \in Nat
  BY TypesAt
<1>2. tasks'[k] = Append(tasks[k], row)
  BY DEF Grew
<1>3. /\ workUnits[k].nextSeq + 1 = arrived[k]
      /\ \A i \in 1 .. Len(tasks[k]) : tasks[k][i].seq = arrived[k] - Len(tasks[k]) + i - 1
      /\ Len(tasks[k]) \in 0 .. arrived[k]
  BY <1>1, DistinctSeqs
<1>4. t \in Nat
  <2>1. t \in 0 .. now
    BY DEF Clocks
  <2> QED
    BY <1>1, <2>1
<1>5. row \in TaskRow /\ row.seq = arrived[k] /\ row.cost = c
  BY <1>1, <1>3, <1>4 DEF TaskRow
<1> HIDE DEF row
<1>6. \A i \in 1 .. Len(tasks[k]) : tasks[k][i].seq # row.seq
  BY <1>1, <1>3, <1>5
<1>7. Cost(Append(tasks[k], row)) = Cost(tasks[k]) + row.cost
  BY <1>1, <1>5, <1>6, RowsAppend
<1> QED
  BY <1>1, <1>2, <1>5, <1>7, RowsCost

\* Every step keeps pending_cost exact.
LEMMA SumsStep ==
  ASSUME Types, Leases, Arrivals, Sums, Next
  PROVE  Sums'
<1> SUFFICES ASSUME NEW k \in Keys PROVE workUnits'[k].pendingCost = Cost(tasks'[k])
  BY DEF Sums
<1>0. workUnits[k].pendingCost = Cost(tasks[k]) /\ Types'
  BY StepUnits DEF Sums
<1>1. CASE Kept(k)
  <2>1. Dropped(k, 0) /\ 0 \in 0 .. Len(tasks[k]) /\ workUnits'[k].pendingCost = workUnits[k].pendingCost
    BY <1>1 DEF Kept, Dropped
  <2> QED
    BY <1>0, <2>1, DroppedCost
<1>2. ASSUME NEW n \in 0 .. Len(tasks[k]), Shrank(k, n)
      PROVE  workUnits'[k].pendingCost = Cost(tasks'[k])
  <2>1. /\ Dropped(k, n)
        /\ workUnits'[k].pendingCost = workUnits[k].pendingCost - (Cost(tasks[k]) - Cost(tasks'[k]))
    BY <1>2 DEF Shrank
  <2>2. Cost(tasks'[k]) \in Nat /\ Cost(tasks[k]) \in Nat
    BY <1>0, <2>1, DroppedCost
  <2> QED
    BY <1>0, <2>1, <2>2
<1>3. ASSUME NEW c \in Costs, NEW t \in Clocks, Grew(k, c, t)
      PROVE  workUnits'[k].pendingCost = Cost(tasks'[k])
  BY <1>0, <1>3, GrewCost DEF Grew
<1> QED
  BY <1>1, <1>2, <1>3, StepUnits

-----------------------------------------------------------------------------
(* The flush clock and the gate *)

\* Every step keeps the deadline within Lag of the oldest task's.
LEMMA ClockStep ==
  ASSUME Types, Leases, Arrivals, Sums, Clock, Next
  PROVE  Clock'
<1>0. Types' /\ now \in Nat /\ Lag \in Nat /\ MaxWait \in Nat
  <2>1. Types'
    BY StepUnits
  <2>2. now \in Nat
    BY DEF Types, TypeOK
  <2> QED
    BY <2>1, <2>2
<1>1. (reap # None => reap <= now)'
  <2>1. now' \in {now, now + 1} /\ (reap' = reap \/ reap' = None \/ reap' \in 0 .. now)
    BY ZenonT(60) DEF Next, Enqueue, Claim, Ack, Fail, Begin, Heartbeat, DrainCheck, DrainRead, Release,
           Rollback, End, ReapLeases, ReapFlush, ReapFlushFails, Tick
  <2>2. reap \in 0 .. MaxNow \cup {None} /\ (reap # None => reap <= now)
    BY DEF Types, TypeOK, Clock
  <2> QED
    BY <1>0, <2>1, <2>2
<1> SUFFICES ASSUME NEW k \in Keys PROVE ClockOf(k)'
  BY <1>1 DEF Clock
<1> DEFINE o == workUnits[k].oldestPendingAt
           new == workUnits'[k].oldestPendingAt
<1>2. /\ workUnits[k].flushDeadline = After(o, MaxWait)
      /\ \A i \in DOMAIN tasks[k] : tasks[k][i].enqueuedAt <= now
      /\ o # None => /\ o <= now
                     /\ \E i \in DOMAIN tasks[k] : tasks[k][i].enqueuedAt <= o
      /\ \A i \in DOMAIN tasks[k] : tasks[k][i].cost > 0 =>
           o # None /\ o <= tasks[k][i].enqueuedAt + Lag
  BY DEF Clock, ClockOf
<1>3. /\ tasks[k] \in Seq(TaskRow) /\ o \in Nat \cup {None}
      /\ tasks'[k] \in Seq(TaskRow) /\ new \in Nat \cup {None}
  BY <1>0, TypesAt DEF Types, TypeOK, Row
<1>4. /\ Len(tasks[k]) \in Nat /\ DOMAIN tasks[k] = 1 .. Len(tasks[k])
      /\ \A i \in DOMAIN tasks[k] : tasks[k][i].enqueuedAt \in Nat /\ tasks[k][i].cost \in Nat
  BY <1>3, RowsAt
<1>5. /\ Len(tasks'[k]) \in Nat /\ DOMAIN tasks'[k] = 1 .. Len(tasks'[k])
      /\ \A i \in DOMAIN tasks'[k] : tasks'[k][i].enqueuedAt \in Nat /\ tasks'[k][i].cost \in Nat
  BY <1>3, RowsAt
<1> HIDE DEF o, new
<1> SUFFICES /\ workUnits'[k].flushDeadline = After(new, MaxWait)
             /\ \A i \in DOMAIN tasks'[k] : tasks'[k][i].enqueuedAt <= now'
             /\ new # None => /\ new <= now'
                              /\ \E i \in DOMAIN tasks'[k] : tasks'[k][i].enqueuedAt <= new
             /\ \A i \in DOMAIN tasks'[k] : tasks'[k][i].cost > 0 =>
                  new # None /\ new <= tasks'[k][i].enqueuedAt + Lag
  BY DEF ClockOf, new
<1>6. CASE Kept(k)
  <2>1. /\ new = o /\ workUnits'[k].flushDeadline = workUnits[k].flushDeadline
        /\ now' \in {now, now + 1}
    BY <1>6 DEF Kept, new, o
  <2>2. DOMAIN tasks'[k] = DOMAIN tasks[k]
    BY <1>4, <1>5, <1>6 DEF Kept, Dropped
  <2>3. ASSUME NEW i \in DOMAIN tasks[k]
        PROVE  /\ tasks'[k][i].enqueuedAt = tasks[k][i].enqueuedAt
               /\ tasks'[k][i].cost = tasks[k][i].cost
    <3>1. SameTask(tasks'[k][i], tasks[k][0 + i]) /\ 0 + i = i
      BY <1>4, <1>6 DEF Kept, Dropped
    <3> QED
      BY <3>1 DEF SameTask
  <2>4. \A i \in DOMAIN tasks'[k] : tasks'[k][i].enqueuedAt <= now'
    BY <1>0, <1>2, <1>4, <2>1, <2>2, <2>3
  <2>5. ASSUME new # None
        PROVE  new <= now' /\ \E i \in DOMAIN tasks'[k] : tasks'[k][i].enqueuedAt <= new
    BY <1>0, <1>2, <1>3, <1>4, <2>1, <2>2, <2>3, <2>5
  <2>6. ASSUME NEW i \in DOMAIN tasks'[k], tasks'[k][i].cost > 0
        PROVE  new # None /\ new <= tasks'[k][i].enqueuedAt + Lag
    BY <1>2, <2>1, <2>2, <2>3, <2>6
  <2> QED
    BY <1>2, <2>1, <2>4, <2>5, <2>6
<1>7. ASSUME NEW n \in 0 .. Len(tasks[k]), Shrank(k, n)
      PROVE  /\ workUnits'[k].flushDeadline = After(new, MaxWait)
             /\ \A i \in DOMAIN tasks'[k] : tasks'[k][i].enqueuedAt <= now'
             /\ new # None => /\ new <= now'
                              /\ \E i \in DOMAIN tasks'[k] : tasks'[k][i].enqueuedAt <= new
             /\ \A i \in DOMAIN tasks'[k] : tasks'[k][i].cost > 0 =>
                  new # None /\ new <= tasks'[k][i].enqueuedAt + Lag
  <2>1. /\ Dropped(k, n) /\ now' = now
        /\ new = MinEnqueued(tasks'[k])
        /\ workUnits'[k].flushDeadline = After(new, MaxWait)
    BY <1>7 DEF Shrank, new
  <2>2. ASSUME NEW i \in DOMAIN tasks'[k] PROVE tasks'[k][i].enqueuedAt <= now'
    <3>1. i \in 1 .. (Len(tasks[k]) - n) /\ n + i \in DOMAIN tasks[k]
      BY <1>4, <1>5, <2>1 DEF Dropped
    <3>2. tasks'[k][i].enqueuedAt = tasks[k][n + i].enqueuedAt
      BY <2>1, <3>1 DEF Dropped, SameTask
    <3> QED
      BY <1>2, <2>1, <3>1, <3>2
  <2>3. /\ tasks'[k] = <<>> => new = None
        /\ tasks'[k] # <<>> => /\ new \in Nat
                               /\ \E i \in DOMAIN tasks'[k] : new = tasks'[k][i].enqueuedAt
                               /\ \A i \in DOMAIN tasks'[k] : new <= tasks'[k][i].enqueuedAt
    BY <1>3, <2>1, MinEnqueuedIs
  <2>4. ASSUME new # None
        PROVE  new <= now' /\ \E i \in DOMAIN tasks'[k] : tasks'[k][i].enqueuedAt <= new
    <3>1. PICK i \in DOMAIN tasks'[k] : new = tasks'[k][i].enqueuedAt
      BY <2>3, <2>4
    <3> QED
      BY <1>5, <2>2, <3>1
  <2>5. ASSUME NEW i \in DOMAIN tasks'[k], tasks'[k][i].cost > 0
        PROVE  new # None /\ new <= tasks'[k][i].enqueuedAt + Lag
    <3>1. tasks'[k] # <<>>
      BY <1>5
    <3>2. new \in Nat /\ new <= tasks'[k][i].enqueuedAt
      BY <2>3, <3>1
    <3> QED
      BY <1>0, <1>5, <3>2
  <2> QED
    BY <2>1, <2>2, <2>4, <2>5
<1>8. ASSUME NEW c \in Costs, NEW t \in Clocks, Grew(k, c, t)
      PROVE  /\ workUnits'[k].flushDeadline = After(new, MaxWait)
             /\ \A i \in DOMAIN tasks'[k] : tasks'[k][i].enqueuedAt <= now'
             /\ new # None => /\ new <= now'
                              /\ \E i \in DOMAIN tasks'[k] : tasks'[k][i].enqueuedAt <= new
             /\ \A i \in DOMAIN tasks'[k] : tasks'[k][i].cost > 0 =>
                  new # None /\ new <= tasks'[k][i].enqueuedAt + Lag
  <2> DEFINE row == [seq |-> workUnits[k].nextSeq + 1, payload |-> arrived[k] + 1, cost |-> c,
                     attempts |-> 0, enqueuedAt |-> t]
             m == Len(tasks[k])
  <2>1. /\ tasks'[k] = Append(tasks[k], row) /\ now' = now
        /\ new = IF workUnits[k].pendingCost = 0 THEN t ELSE o
        /\ workUnits'[k].flushDeadline =
             IF workUnits[k].pendingCost = 0 THEN t + MaxWait ELSE workUnits[k].flushDeadline
    BY <1>8 DEF Grew, new, o
  <2>2. t \in Nat /\ t <= now /\ now <= t + Lag
    <3>1. t \in 0 .. now /\ now - t <= Lag
      BY DEF Clocks
    <3> QED
      BY <1>0, <3>1
  <2>3. row.enqueuedAt = t
    OBVIOUS
  <2> HIDE DEF row
  <2>4. /\ DOMAIN tasks'[k] = 1 .. (m + 1) /\ tasks'[k][m + 1] = row
        /\ \A i \in 1 .. m : tasks'[k][i] = tasks[k][i]
    BY <1>3, <1>4, <2>1
  <2>5. (\E i \in DOMAIN tasks[k] : tasks[k][i].cost > 0) <=> workUnits[k].pendingCost # 0
    <3>1. workUnits[k].pendingCost = Cost(tasks[k]) /\ Cost(tasks[k]) \in Nat
      BY <1>3, RowsCost DEF Sums
    <3> QED
      BY <1>3, <3>1, CostlyRow
  <2>6. ASSUME NEW i \in DOMAIN tasks'[k] PROVE tasks'[k][i].enqueuedAt <= now'
    <3>1. CASE i = m + 1
      BY <2>1, <2>2, <2>3, <2>4, <3>1
    <3>2. CASE i # m + 1
      <4>1. i \in DOMAIN tasks[k] /\ tasks'[k][i] = tasks[k][i]
        BY <1>4, <2>4, <3>2
      <4> QED
        BY <1>2, <2>1, <4>1
    <3> QED
      BY <3>1, <3>2
  <2>7. CASE workUnits[k].pendingCost = 0
    <3>1. new = t /\ workUnits'[k].flushDeadline = t + MaxWait /\ new # None
      BY <2>1, <2>2, <2>7
    <3>2. workUnits'[k].flushDeadline = After(new, MaxWait)
      BY <3>1 DEF After
    <3>3. new <= now' /\ \E i \in DOMAIN tasks'[k] : tasks'[k][i].enqueuedAt <= new
      <4>1. m + 1 \in DOMAIN tasks'[k]
        BY <1>4, <2>4
      <4> QED
        BY <2>1, <2>2, <2>3, <2>4, <3>1, <4>1
    <3>4. ASSUME NEW i \in DOMAIN tasks'[k], tasks'[k][i].cost > 0
          PROVE  new <= tasks'[k][i].enqueuedAt + Lag
      <4>1. i = m + 1
        <5>1. i \notin DOMAIN tasks[k]
          BY <1>4, <2>4, <2>5, <2>7, <3>4
        <5> QED
          BY <1>4, <2>4, <5>1
      <4> QED
        BY <1>0, <2>2, <2>3, <2>4, <3>1, <4>1
    <3> QED
      BY <2>6, <3>1, <3>2, <3>3, <3>4
  <2>8. CASE workUnits[k].pendingCost # 0
    <3>1. new = o /\ workUnits'[k].flushDeadline = workUnits[k].flushDeadline
      BY <2>1, <2>8
    <3>2. PICK j \in DOMAIN tasks[k] : tasks[k][j].cost > 0
      BY <2>5, <2>8
    <3>3. o # None /\ o \in Nat /\ o <= now
      BY <1>2, <1>3, <3>2
    <3>4. PICK l \in DOMAIN tasks[k] : tasks[k][l].enqueuedAt <= o
      BY <1>2, <3>3
    <3>5. l \in DOMAIN tasks'[k] /\ tasks'[k][l] = tasks[k][l]
      BY <1>4, <2>4
    <3>6. ASSUME NEW i \in DOMAIN tasks'[k], tasks'[k][i].cost > 0
          PROVE  new <= tasks'[k][i].enqueuedAt + Lag
      <4>1. CASE i = m + 1
        BY <1>0, <2>2, <2>3, <2>4, <3>1, <3>3, <4>1
      <4>2. CASE i # m + 1
        <5>1. i \in DOMAIN tasks[k] /\ tasks'[k][i] = tasks[k][i]
          BY <1>4, <2>4, <4>2
        <5> QED
          BY <1>2, <3>1, <3>6, <5>1
      <4> QED
        BY <4>1, <4>2
    <3> QED
      BY <1>2, <2>1, <2>6, <3>1, <3>3, <3>4, <3>5, <3>6
  <2> QED
    BY <2>7, <2>8
<1> QED
  BY <1>6, <1>7, <1>8, StepUnits

\* Every step keeps the flag that of the gate.
LEMMA GateStep ==
  ASSUME Types, Leases, Arrivals, Sums, Clock, Gate, Next
  PROVE  Gate'
<1>0. Types' /\ Sums'
  BY StepUnits, SumsStep
<1>n. now \in Nat /\ MaxWait \in Nat /\ Threshold \in Nat /\ Threshold > 0
  BY DEF Types, TypeOK
<1> SUFFICES ASSUME NEW k \in Keys PROVE GateOf(k)'
  BY DEF Gate
<1> DEFINE waited == \E i \in DOMAIN tasks[k] : tasks[k][i].enqueuedAt + MaxWait <= now
<1>1. /\ Cost(tasks[k]) >= Threshold => workUnits[k].eligible
      /\ workUnits[k].eligible => Cost(tasks[k]) >= Threshold \/ waited
      /\ workUnits[k].lease # None => workUnits[k].eligible
  BY DEF Gate, GateOf
<1>2. tasks[k] \in Seq(TaskRow) /\ tasks'[k] \in Seq(TaskRow)
  BY <1>0 DEF Types, TypeOK
<1>3. /\ Len(tasks[k]) \in Nat /\ DOMAIN tasks[k] = 1 .. Len(tasks[k])
      /\ \A i \in DOMAIN tasks[k] : tasks[k][i].enqueuedAt \in Nat
  BY <1>2, RowsAt
<1>4. /\ Len(tasks'[k]) \in Nat /\ DOMAIN tasks'[k] = 1 .. Len(tasks'[k])
      /\ \A i \in DOMAIN tasks'[k] : tasks'[k][i].enqueuedAt \in Nat
  BY <1>2, RowsAt
<1>5. workUnits[k].pendingCost = Cost(tasks[k]) /\ workUnits'[k].pendingCost = Cost(tasks'[k])
  BY <1>0 DEF Sums
<1> SUFFICES /\ Cost(tasks'[k]) >= Threshold => workUnits'[k].eligible
             /\ workUnits'[k].eligible =>
                  \/ Cost(tasks'[k]) >= Threshold
                  \/ \E i \in DOMAIN tasks'[k] : tasks'[k][i].enqueuedAt + MaxWait <= now'
             /\ workUnits'[k].lease # None => workUnits'[k].eligible
  BY DEF GateOf
<1>6. CASE Kept(k)
  <2>1. /\ Dropped(k, 0) /\ 0 \in 0 .. Len(tasks[k]) /\ now' \in {now, now + 1}
        /\ workUnits[k].eligible => workUnits'[k].eligible
        /\ workUnits'[k].eligible =>
             workUnits[k].eligible \/ (reap # None /\ Flushable(workUnits[k], reap))
        /\ workUnits'[k].lease # None => workUnits[k].lease # None \/ workUnits'[k].eligible
    BY <1>6 DEF Kept, Dropped
  <2>2. Cost(tasks'[k]) = Cost(tasks[k])
    BY <1>0, <2>1, DroppedCost
  <2>3. ASSUME NEW i \in DOMAIN tasks[k]
        PROVE  i \in DOMAIN tasks'[k] /\ tasks'[k][i].enqueuedAt = tasks[k][i].enqueuedAt
    <3>1. SameTask(tasks'[k][i], tasks[k][0 + i]) /\ 0 + i = i /\ i \in DOMAIN tasks'[k]
      BY <1>3, <1>4, <2>1 DEF Dropped
    <3> QED
      BY <3>1 DEF SameTask
  <2>4. ASSUME reap # None, Flushable(workUnits[k], reap) PROVE waited
    <3> DEFINE o == workUnits[k].oldestPendingAt
               f == workUnits[k].flushDeadline
    <3>1. reap \in Nat /\ reap <= now /\ o \in Nat \cup {None}
      BY <2>4, TypesAt DEF Clock
    <3>2. /\ f = After(o, MaxWait) /\ f # None /\ f <= reap
          /\ o # None => \E i \in DOMAIN tasks[k] : tasks[k][i].enqueuedAt <= o
      BY <2>4 DEF Clock, ClockOf, Flushable
    <3>3. o # None /\ f = o + MaxWait
      BY <3>2 DEF After
    <3> HIDE DEF o, f
    <3>4. PICK i \in DOMAIN tasks[k] : tasks[k][i].enqueuedAt <= o
      BY <3>2, <3>3
    <3> QED
      BY <1>n, <1>3, <3>1, <3>2, <3>3, <3>4
  <2>5. ASSUME waited PROVE \E i \in DOMAIN tasks'[k] : tasks'[k][i].enqueuedAt + MaxWait <= now'
    <3>1. PICK i \in DOMAIN tasks[k] : tasks[k][i].enqueuedAt + MaxWait <= now
      BY <2>5
    <3>2. tasks'[k][i].enqueuedAt + MaxWait <= now'
      BY <1>n, <1>3, <2>1, <2>3, <3>1
    <3> QED
      BY <2>3, <3>2
  <2> HIDE DEF waited
  <2> QED
    BY <1>1, <2>1, <2>2, <2>4, <2>5
<1>7. ASSUME NEW n \in 0 .. Len(tasks[k]), Shrank(k, n)
      PROVE  /\ Cost(tasks'[k]) >= Threshold => workUnits'[k].eligible
             /\ workUnits'[k].eligible =>
                  \/ Cost(tasks'[k]) >= Threshold
                  \/ \E i \in DOMAIN tasks'[k] : tasks'[k][i].enqueuedAt + MaxWait <= now'
             /\ workUnits'[k].lease # None => workUnits'[k].eligible
  <2> DEFINE o == workUnits'[k].oldestPendingAt
  <2>1. /\ tx[k] # None /\ now' = now /\ o = MinEnqueued(tasks'[k])
        /\ (workUnits'[k].eligible <=> \/ workUnits'[k].pendingCost >= Threshold
                                       \/ (o # None /\ o + MaxWait <= tx[k].at))
        /\ workUnits'[k].lease # None => workUnits'[k].eligible
    BY <1>7 DEF Shrank
  <2> HIDE DEF o
  <2>2. tx[k].at \in Nat /\ tx[k].at <= now
    BY <2>1, TypesAt DEF Leases
  <2>3. ASSUME o # None, o + MaxWait <= tx[k].at
        PROVE  \E i \in DOMAIN tasks'[k] : tasks'[k][i].enqueuedAt + MaxWait <= now'
    <3>1. PICK i \in DOMAIN tasks'[k] : o = tasks'[k][i].enqueuedAt
      BY <1>2, <2>1, <2>3, MinEnqueuedIs
    <3>2. tasks'[k][i].enqueuedAt + MaxWait <= now'
      BY <1>n, <1>4, <2>1, <2>2, <2>3, <3>1
    <3> QED
      BY <3>2
  <2> QED
    BY <1>5, <2>1, <2>3
<1>8. ASSUME NEW c \in Costs, NEW t \in Clocks, Grew(k, c, t)
      PROVE  /\ Cost(tasks'[k]) >= Threshold => workUnits'[k].eligible
             /\ workUnits'[k].eligible =>
                  \/ Cost(tasks'[k]) >= Threshold
                  \/ \E i \in DOMAIN tasks'[k] : tasks'[k][i].enqueuedAt + MaxWait <= now'
             /\ workUnits'[k].lease # None => workUnits'[k].eligible
  <2> DEFINE row == [seq |-> workUnits[k].nextSeq + 1, payload |-> arrived[k] + 1, cost |-> c,
                     attempts |-> 0, enqueuedAt |-> t]
  <2>1. /\ tasks'[k] = Append(tasks[k], row) /\ now' = now
        /\ (workUnits'[k].eligible <=>
              workUnits[k].eligible \/ workUnits[k].pendingCost + c >= Threshold)
        /\ workUnits'[k].lease = workUnits[k].lease
    BY <1>8 DEF Grew
  <2>2. Cost(tasks[k]) \in Nat /\ c \in Nat /\ Cost(tasks'[k]) = Cost(tasks[k]) + c
    BY <1>0, <1>8, GrewCost
  <2>3. ASSUME waited PROVE \E i \in DOMAIN tasks'[k] : tasks'[k][i].enqueuedAt + MaxWait <= now'
    <3>1. PICK i \in DOMAIN tasks[k] : tasks[k][i].enqueuedAt + MaxWait <= now
      BY <2>3
    <3> HIDE DEF row
    <3>2. i \in DOMAIN tasks'[k] /\ tasks'[k][i] = tasks[k][i]
      BY <1>2, <1>3, <2>1
    <3> QED
      BY <2>1, <3>1, <3>2
  <2> HIDE DEF waited, row
  <2>4. Cost(tasks'[k]) >= Threshold => workUnits'[k].eligible
    BY <1>n, <1>5, <2>1, <2>2
  <2>5. ASSUME workUnits'[k].eligible
        PROVE  \/ Cost(tasks'[k]) >= Threshold
               \/ \E i \in DOMAIN tasks'[k] : tasks'[k][i].enqueuedAt + MaxWait <= now'
    <3>1. \/ Cost(tasks'[k]) >= Threshold
          \/ waited
      BY <1>n, <1>1, <1>5, <2>1, <2>2, <2>5
    <3> QED
      BY <2>3, <3>1
  <2> QED
    BY <1>1, <2>1, <2>4, <2>5
<1> QED
  BY <1>6, <1>7, <1>8, StepUnits

-----------------------------------------------------------------------------
(* Leases and locks *)

\* Every step keeps what the row lock promises its transaction.
LEMMA LeasesStep ==
  ASSUME Types, Leases, Arrivals, Next
  PROVE  Leases'
<1>0. /\ tx \in [Keys -> [by : ClaimedUnit, at : 0 .. MaxNow] \cup {None}]
      /\ calls \in [LeaseTokens -> CallRecord] /\ handles \subseteq ClaimedUnit
      /\ issued \in Nat /\ now \in Nat
  BY DEF Types, TypeOK
<1>h. ASSUME NEW h \in handles PROVE h.key \in Keys /\ h.lease \in LeaseTokens /\ h.lease <= issued
  BY <1>0 DEF ClaimedUnit, Leases
\* Steps that issue nothing: leases only go, and the locks taken are of leased rows.
<1>1. ASSUME handles' = handles, issued' = issued,
             \A t \in LeaseTokens : t > issued => calls'[t] = Idle,
             \A k \in Keys : workUnits'[k].lease \in {None, workUnits[k].lease},
             \A k \in Keys : tx'[k] # None =>
               /\ tx'[k].by.key = k /\ tx'[k].by.lease = workUnits'[k].lease
               /\ tx'[k].at <= now'
      PROVE  Leases'
  BY <1>1 DEF Leases
\* The locks that a step leaves alone stay with the lease.
<1>2. ASSUME NEW k \in Keys, tx'[k] = tx[k], tx'[k] # None, now' \in {now, now + 1},
             workUnits'[k].lease = workUnits[k].lease
      PROVE  /\ tx'[k].by.key = k /\ tx'[k].by.lease = workUnits'[k].lease
             /\ tx'[k].at <= now'
  <2>1. /\ tx[k].by.key = k /\ tx[k].by.lease = workUnits[k].lease /\ tx[k].at <= now
        /\ tx[k].at \in 0 .. MaxNow
    BY <1>2, TypesAt DEF Leases
  <2> QED
    BY <1>0, <1>2, <2>1
<1>3. \A t \in LeaseTokens : t > issued => calls[t] = Idle
  BY DEF Leases
<1>4. ASSUME NEW k \in Keys, NEW c \in Costs, NEW t \in Clocks, Enqueue(k, c, t) PROVE Leases'
  <2>1. UNCHANGED <<tx, issued, calls, handles, now>>
    BY <1>4 DEF Enqueue
  <2>2. ASSUME NEW j \in Keys PROVE workUnits'[j].lease = workUnits[j].lease
    BY <1>4 DEF Enqueue, Types, TypeOK, Row
  <2> QED
    BY <1>1, <1>2, <1>3, <2>1, <2>2
<1>5. ASSUME NEW k \in Keys, End(k), \A j \in Keys \ {k} : workUnits'[j].lease = workUnits[j].lease,
             workUnits'[k].lease \in {None, workUnits[k].lease}
      PROVE  Leases'
  <2>1. /\ tx[k] # None /\ tx' = [tx EXCEPT ![k] = None]
        /\ calls' = [calls EXCEPT ![tx[k].by.lease] = Idle]
        /\ UNCHANGED <<issued, handles, now>>
    BY <1>5 DEF End
  <2>2. \A t \in LeaseTokens : t > issued => calls'[t] = Idle
    BY <1>0, <1>3, <2>1
  <2>3. ASSUME NEW j \in Keys, tx'[j] # None
        PROVE  /\ tx'[j].by.key = j /\ tx'[j].by.lease = workUnits'[j].lease
               /\ tx'[j].at <= now'
    <3>1. j # k /\ tx'[j] = tx[j]
      BY <1>0, <2>1, <2>3
    <3> QED
      BY <1>2, <1>5, <2>1, <2>3, <3>1
  <2> QED
    BY <1>1, <1>5, <2>1, <2>2, <2>3
<1>6. ASSUME NEW k \in Keys, NEW s \in Seqs, Ack(k, s) PROVE Leases'
  <2>1. End(k)
    BY <1>6 DEF Ack
  <2> QED
    BY <1>5, <1>6, <2>1, StepAck
<1>7. ASSUME NEW k \in Keys, NEW s \in Seqs, Fail(k, s) PROVE Leases'
  <2>1. End(k)
    BY <1>7 DEF Fail
  <2> QED
    BY <1>5, <1>7, <2>1, StepFail
<1>8. ASSUME NEW k \in Keys, NEW d \in LeaseDurs, NEW t \in Clocks, NEW locked \in SUBSET Keys,
             Claim(k, d, t, locked)
      PROVE  Leases'
  <2> DEFINE new == [key |-> k, lease |-> issued + 1]
  <2>1. /\ issued' = issued + 1 /\ handles' = handles \cup {new} /\ tx[k] = None
        /\ UNCHANGED <<tx, calls, now>>
    BY <1>8 DEF Claim, Claimable, Unlocked
  <2>2. /\ workUnits'[k].lease = issued + 1
        /\ \A j \in Keys \ {k} : workUnits'[j] = workUnits[j]
    BY <1>8, StepClaim
  <2>3. new.lease = issued + 1 /\ new.key = k
    OBVIOUS
  <2>4. ASSUME NEW h \in handles' PROVE h.lease <= issued'
    <3>1. CASE h \in handles
      <4>1. h.lease \in Nat /\ h.lease <= issued
        BY <1>h, <3>1, TokensCount
      <4> HIDE DEF new
      <4> QED
        BY <1>0, <2>1, <4>1
    <3>2. CASE h = new
      BY <1>0, <2>1, <2>3, <3>2
    <3> HIDE DEF new
    <3> QED
      BY <2>1, <3>1, <3>2
  <2>5. \A g, h \in handles' : g.lease = h.lease => g = h
    <3> SUFFICES ASSUME NEW g \in handles', NEW h \in handles', g.lease = h.lease PROVE g = h
      OBVIOUS
    <3>1. \A x \in handles : x.lease # new.lease
      BY <1>0, <1>h, <2>3 DEF LeaseTokens
    <3> HIDE DEF new
    <3> QED
      BY <2>1, <3>1 DEF Leases
  <2>6. \A x \in LeaseTokens : x > issued' => calls'[x] = Idle
    BY <1>0, <1>3, <2>1 DEF LeaseTokens
  <2>7. ASSUME NEW j \in Keys, workUnits'[j].lease # None
        PROVE  [key |-> j, lease |-> workUnits'[j].lease] \in handles'
    <3>1. CASE j = k
      BY <2>1, <2>2, <3>1
    <3>2. CASE j # k
      BY <2>1, <2>2, <2>7, <3>2 DEF Leases
    <3> QED
      BY <3>1, <3>2
  <2>8. ASSUME NEW j \in Keys, tx'[j] # None
        PROVE  /\ tx'[j].by.key = j /\ tx'[j].by.lease = workUnits'[j].lease
               /\ tx'[j].at <= now'
    BY <1>2, <2>1, <2>2, <2>8
  <2> QED
    BY <2>4, <2>5, <2>6, <2>7, <2>8 DEF Leases
<1>9. ASSUME Quiet PROVE Leases'
  <2>1. /\ handles' = handles /\ issued' = issued
        /\ \A k \in Keys : /\ workUnits'[k].lease \in {None, workUnits[k].lease}
                           /\ tx[k] # None => workUnits'[k].lease = workUnits[k].lease
    BY <1>9, QuietStep DEF QuietRows
  <2>2. now' \in {now, now + 1}
    BY <1>9 DEF Quiet, Begin, Heartbeat, DrainCheck, DrainRead, Release, Rollback, End, ReapLeases,
                ReapFlush, ReapFlushFails, Tick
  <2>3. \A x \in LeaseTokens : x > issued => calls'[x] = Idle
    <3>1. ASSUME NEW h \in handles, NEW r, calls' = [calls EXCEPT ![h.lease] = r]
          PROVE  \A x \in LeaseTokens : x > issued => calls'[x] = Idle
      BY <1>0, <1>3, <1>h, <3>1 DEF LeaseTokens
    <3>2. ASSUME NEW k \in Keys, Rollback(k)
          PROVE  \A x \in LeaseTokens : x > issued => calls'[x] = Idle
      <4>1. calls' = [calls EXCEPT ![tx[k].by.lease] = Idle]
        BY <3>2 DEF Rollback, End
      <4> QED
        BY <1>0, <1>3, <4>1
    <3>3. CASE calls' = calls
      BY <1>3, <3>3
    <3> QED
      BY <1>9, <3>1, <3>2, <3>3
         DEF Quiet, Begin, Heartbeat, DrainCheck, DrainRead, Release, ReapLeases, ReapFlush,
             ReapFlushFails, Tick
  <2>4. ASSUME NEW j \in Keys, tx'[j] # None
        PROVE  /\ tx'[j].by.key = j /\ tx'[j].by.lease = workUnits'[j].lease
               /\ tx'[j].at <= now'
    <3>1. CASE tx'[j] = tx[j]
      <4>1. tx[j] # None /\ workUnits'[j].lease = workUnits[j].lease
        BY <2>1, <2>4, <3>1
      <4> QED
        BY <1>2, <2>2, <2>4, <3>1, <4>1
    <3>2. CASE \E t \in Clocks, h \in handles : Begin(h, t) /\ h.key = j
      <4>1. PICK t \in Clocks, h \in handles : Begin(h, t) /\ h.key = j
        BY <3>2
      <4>2. /\ tx' = [tx EXCEPT ![h.key] = [by |-> h, at |-> t]]
            /\ workUnits[h.key].lease = h.lease /\ now' = now /\ workUnits' = workUnits
        BY <4>1 DEF Begin, Held, tables
      <4>3. tx'[j] = [by |-> h, at |-> t]
        BY <1>0, <4>1, <4>2
      <4>4. t <= now
        BY <1>0 DEF Clocks
      <4> QED
        BY <4>1, <4>2, <4>3, <4>4
    <3> QED
      <4>1. tx'[j] = tx[j] \/ \E t \in Clocks, h \in handles : Begin(h, t) /\ h.key = j
        <5>1. ASSUME NEW t \in Clocks, NEW h \in handles, Begin(h, t), h.key # j
              PROVE  tx'[j] = tx[j]
          BY <1>0, <5>1 DEF Begin
        <5>2. ASSUME NEW k \in Keys, Rollback(k) PROVE tx'[j] = tx[j]
          BY <1>0, <2>4, <5>2 DEF Rollback, End
        <5> QED
          BY <1>9, <5>1, <5>2
             DEF Quiet, Heartbeat, DrainCheck, DrainRead, Release, ReapLeases, ReapFlush,
                 ReapFlushFails, Tick
      <4> QED
        BY <3>1, <3>2, <4>1
  <2>5. \A k \in Keys : workUnits'[k].lease \in {None, workUnits[k].lease}
    BY <2>1
  <2>6. handles' = handles /\ issued' = issued
    BY <2>1
  <2> QED
    BY <1>1, <2>3, <2>4, <2>5, <2>6
<1> QED
  BY <1>4, <1>6, <1>7, <1>8, <1>9, NextCases

-----------------------------------------------------------------------------
(* Failure counts *)

\* A dead letter is a task of some unit.
LEMMA DeadTypes ==
  ASSUME Types, NEW i \in DOMAIN deadLetters
  PROVE  deadLetters[i].key \in Keys /\ deadLetters[i].task \in TaskRow
<1>1. deadLetters \in Seq([key : Keys, task : TaskRow])
  BY DEF Types, TypeOK
<1>2. i \in 1 .. Len(deadLetters)
  BY <1>1, LenProperties
<1>3. deadLetters[i] \in [key : Keys, task : TaskRow]
  BY <1>1, <1>2, ElementOfSeq
<1> QED
  BY <1>3

\* A dead letter stays one while failures of the tasks that left the unit are not counted.
LEMMA StaysDead ==
  ASSUME Types, NEW d, d.key \in Keys, DeadOf(d), NEW x \in Nat, NEW y \in Nat,
         x = arrived[d.key] - Len(tasks[d.key]), y = arrived'[d.key] - Len(tasks'[d.key]), x <= y,
         \A p \in 1 .. x : failures'[d.key][p] = failures[d.key][p]
  PROVE  DeadOf(d)'
  BY DEF DeadOf

\* What Fail does to the counts: attempts and history agree, and nothing else is counted.
LEMMA FailCounts ==
  ASSUME Types, Arrivals, Attempts, NEW k \in Keys, NEW seq \in Seqs, Fail(k, seq)
  PROVE  /\ \A i \in 1 .. Len(tasks[k]) :
              Counted(tasks[k], seq)[i].attempts = failures'[k][tasks[k][i].payload]
         /\ \A p \in 1 .. MaxTasks :
              p > arrived[k] \/ p <= arrived[k] - Len(tasks[k]) => failures'[k][p] = failures[k][p]
         /\ \A j \in Keys \ {k} : failures'[j] = failures[j]
<1> DEFINE named == {tasks[k][i].payload : i \in {j \in DOMAIN tasks[k] : tasks[k][j].seq = seq}}
<1>1. failures' = [failures EXCEPT ![k] =
        [p \in DOMAIN failures[k] |-> IF p \in named THEN failures[k][p] + 1 ELSE failures[k][p]]]
  BY DEF Fail
<1>2. failures \in [Keys -> [1 .. MaxTasks -> Nat]]
  BY DEF Types
<1>3. \A j \in Keys \ {k} : failures'[j] = failures[j]
  <2> HIDE DEF named
  <2> QED
    BY <1>1, <1>2
<1>4. ASSUME NEW p \in 1 .. MaxTasks
      PROVE  failures'[k][p] = IF p \in named THEN failures[k][p] + 1 ELSE failures[k][p]
  <2> HIDE DEF named
  <2> QED
    BY <1>1, <1>2
<1>5. /\ tasks[k] \in Seq(TaskRow) /\ arrived[k] \in Nat /\ arrived[k] <= MaxTasks /\ seq \in Nat
  BY TypesAt DEF Seqs
<1>6. Len(tasks[k]) \in 0 .. arrived[k] /\ DOMAIN tasks[k] = 1 .. Len(tasks[k])
  BY <1>5, DistinctSeqs, RowsAt
<1>7. \A i \in 1 .. Len(tasks[k]) :
        /\ tasks[k][i].payload = arrived[k] - Len(tasks[k]) + i
        /\ tasks[k][i].seq = arrived[k] - Len(tasks[k]) + i - 1
  BY DistinctSeqs
<1>8. ASSUME NEW p \in Int
      PROVE  p \in named <=> p = seq + 1 /\ p > arrived[k] - Len(tasks[k]) /\ p <= arrived[k]
  <2>1. ASSUME p \in named
        PROVE  p = seq + 1 /\ p > arrived[k] - Len(tasks[k]) /\ p <= arrived[k]
    <3>1. PICK i \in DOMAIN tasks[k] : tasks[k][i].seq = seq /\ p = tasks[k][i].payload
      BY <2>1
    <3>2. /\ i \in 1 .. Len(tasks[k]) /\ p = arrived[k] - Len(tasks[k]) + i
          /\ seq = arrived[k] - Len(tasks[k]) + i - 1
      BY <1>6, <1>7, <3>1
    <3> QED
      BY <1>5, <1>6, <3>2
  <2>2. ASSUME p = seq + 1, p > arrived[k] - Len(tasks[k]), p <= arrived[k]
        PROVE  p \in named
    <3>1. PICK i \in 1 .. Len(tasks[k]) : p = arrived[k] - Len(tasks[k]) + i
      <4> DEFINE a == arrived[k]
                 l == Len(tasks[k])
      <4>1. a \in Nat /\ l \in 0 .. a /\ p > a - l /\ p <= a
        BY <1>5, <1>6, <2>2
      <4> HIDE DEF a, l
      <4>2. p - (a - l) \in 1 .. l /\ p = a - l + (p - (a - l))
        BY <4>1
      <4> QED
        BY <4>2 DEF a, l
    <3>2. tasks[k][i].payload = p /\ tasks[k][i].seq = p - 1
      BY <1>5, <1>6, <1>7, <3>1
    <3>3. tasks[k][i].seq = seq
      BY <1>5, <2>2, <3>2
    <3> QED
      BY <1>6, <3>2, <3>3
  <2> QED
    BY <2>1, <2>2
<1> HIDE DEF named
<1>9. ASSUME NEW p \in 1 .. MaxTasks, p > arrived[k] \/ p <= arrived[k] - Len(tasks[k])
      PROVE  failures'[k][p] = failures[k][p]
  <2>1. p \notin named
    BY <1>5, <1>6, <1>8, <1>9
  <2> QED
    BY <1>4, <2>1
<1>10. ASSUME NEW i \in 1 .. Len(tasks[k])
       PROVE  Counted(tasks[k], seq)[i].attempts = failures'[k][tasks[k][i].payload]
  <2>1. PICK p \in 1 .. MaxTasks : p = tasks[k][i].payload
    <3>1. tasks[k][i].payload = arrived[k] - Len(tasks[k]) + i
      BY <1>7
    <3> QED
      BY <1>5, <1>6, <3>1
  <2>2. p \in named <=> tasks[k][i].seq = seq
    <3>1. /\ p = arrived[k] - Len(tasks[k]) + i
          /\ tasks[k][i].seq = arrived[k] - Len(tasks[k]) + i - 1
      BY <1>7, <2>1
    <3>2. p > arrived[k] - Len(tasks[k]) /\ p <= arrived[k] /\ tasks[k][i].seq = p - 1
      BY <1>5, <1>6, <3>1
    <3> QED
      BY <1>5, <1>8, <3>2
  <2>3. tasks[k][i].attempts = failures[k][p]
    BY <1>6, <2>1 DEF Attempts, AttemptsOf
  <2>4. Counted(tasks[k], seq)[i].attempts =
          IF tasks[k][i].seq = seq THEN tasks[k][i].attempts + 1 ELSE tasks[k][i].attempts
    BY <1>5, CountedRows
  <2> QED
    BY <1>4, <2>1, <2>2, <2>3, <2>4
<1> QED
  BY <1>3, <1>9, <1>10

\* A unit the step leaves alone keeps its counts.
LEMMA StaysCounted ==
  ASSUME NEW j \in Keys, AttemptsOf(j), tasks'[j] = tasks[j], arrived'[j] = arrived[j],
         failures'[j] = failures[j]
  PROVE  AttemptsOf(j)'
  BY DEF AttemptsOf

\* Every step keeps the failures counted on the task that failed.
LEMMA AttemptsStep ==
  ASSUME Types, Leases, Arrivals, Attempts, Next
  PROVE  Attempts'
\* Whatever the step, it is enough to look at each unit and each dead letter.
<1>0. ASSUME NEW j \in Keys
      PROVE  /\ AttemptsOf(j) /\ tasks[j] \in Seq(TaskRow) /\ Len(tasks[j]) \in 0 .. arrived[j]
             /\ arrived[j] \in Nat /\ arrived[j] <= MaxTasks /\ DOMAIN tasks[j] = 1 .. Len(tasks[j])
             /\ failures[j] \in [1 .. MaxTasks -> Nat]
  <2>1. tasks[j] \in Seq(TaskRow) /\ arrived[j] \in Nat /\ arrived[j] <= MaxTasks
    BY TypesAt
  <2>2. DOMAIN tasks[j] = 1 .. Len(tasks[j])
    BY <2>1, RowsAt
  <2> QED
    BY <2>1, <2>2, DistinctSeqs DEF Attempts, Types
<1>1. ASSUME NEW k \in Keys, NEW y \in Nat, y = arrived'[k] - Len(tasks'[k]),
             arrived[k] - Len(tasks[k]) <= y,
             \A p \in 1 .. MaxTasks :
               p <= arrived[k] - Len(tasks[k]) => failures'[k][p] = failures[k][p],
             \A j \in Keys \ {k} :
               tasks'[j] = tasks[j] /\ arrived'[j] = arrived[j] /\ failures'[j] = failures[j],
             NEW i \in DOMAIN deadLetters, NEW d, d = deadLetters[i]
      PROVE  DeadOf(d)'
  <2>1. d.key \in Keys /\ DeadOf(d)
    BY <1>1, DeadTypes DEF Attempts
  <2>2. Len(tasks[d.key]) \in 0 .. arrived[d.key] /\ arrived[d.key] \in Nat /\ arrived[d.key] <= MaxTasks
    BY <1>0, <2>1
  <2>3. PICK x \in Nat : x = arrived[d.key] - Len(tasks[d.key]) /\ x <= MaxTasks
    BY <2>2
  <2>4. CASE d.key = k
    <3>1. \A p \in 1 .. x : failures'[d.key][p] = failures[d.key][p]
      BY <1>1, <2>3, <2>4
    <3>2. y = arrived'[d.key] - Len(tasks'[d.key]) /\ x <= y
      BY <1>1, <2>3, <2>4
    <3> QED
      BY <2>1, <2>3, <3>1, <3>2, StaysDead
  <2>5. CASE d.key # k
    <3>1. tasks'[d.key] = tasks[d.key] /\ arrived'[d.key] = arrived[d.key] /\ failures'[d.key] = failures[d.key]
      BY <1>1, <2>1, <2>5
    <3> QED
      BY <2>1, <2>3, <3>1, StaysDead
  <2> QED
    BY <2>4, <2>5
\* A step that leaves the dead letters.
<1>2. ASSUME NEW k \in Keys, NEW y \in Nat, y = arrived'[k] - Len(tasks'[k]),
             arrived[k] - Len(tasks[k]) <= y,
             \A p \in 1 .. MaxTasks :
               p <= arrived[k] - Len(tasks[k]) => failures'[k][p] = failures[k][p],
             \A j \in Keys \ {k} :
               tasks'[j] = tasks[j] /\ arrived'[j] = arrived[j] /\ failures'[j] = failures[j],
             deadLetters' = deadLetters, AttemptsOf(k)'
      PROVE  Attempts'
  <2>1. ASSUME NEW i \in DOMAIN deadLetters' PROVE DeadOf(deadLetters[i])'
    <3>1. PICK d : d = deadLetters[i]
      OBVIOUS
    <3>2. DeadOf(d)'
      BY <1>1, <1>2, <3>1
    <3> QED
      BY <1>2, <3>1, <3>2 DEF DeadOf
  <2>2. ASSUME NEW j \in Keys PROVE AttemptsOf(j)'
    BY <1>0, <1>2, StaysCounted
  <2> QED
    BY <2>1, <2>2 DEF Attempts
<1>3. ASSUME NEW k \in Keys, NEW c \in Costs, NEW t \in Clocks, Enqueue(k, c, t) PROVE Attempts'
  <2> DEFINE row == [seq |-> workUnits[k].nextSeq + 1, payload |-> arrived[k] + 1, cost |-> c,
                     attempts |-> 0, enqueuedAt |-> t]
  <2>1. /\ arrived[k] < MaxTasks /\ arrived' = [arrived EXCEPT ![k] = arrived[k] + 1]
        /\ tasks' = [tasks EXCEPT ![k] = Append(tasks[k], row)]
        /\ UNCHANGED <<deadLetters, failures>>
    BY <1>3 DEF Enqueue
  <2>2. row.attempts = 0 /\ row.payload = arrived[k] + 1
    OBVIOUS
  <2> HIDE DEF row
  <2>3. /\ arrived'[k] = arrived[k] + 1 /\ tasks'[k] = Append(tasks[k], row)
        /\ \A j \in Keys \ {k} : tasks'[j] = tasks[j] /\ arrived'[j] = arrived[j]
    BY <2>1 DEF Types, TypeOK
  <2>4. /\ Len(tasks'[k]) = Len(tasks[k]) + 1 /\ DOMAIN tasks'[k] = 1 .. (Len(tasks[k]) + 1)
        /\ \A i \in 1 .. Len(tasks[k]) : tasks'[k][i] = tasks[k][i]
        /\ tasks'[k][Len(tasks[k]) + 1] = row
    <3>1. tasks[k] \in Seq(TaskRow)
      BY <1>0
    <3> QED
      BY <2>3, <3>1
  <2>5. arrived'[k] - Len(tasks'[k]) = arrived[k] - Len(tasks[k]) /\ arrived[k] - Len(tasks[k]) \in Nat
    BY <1>0, <2>3, <2>4
  <2>6. AttemptsOf(k)'
    <3>1. ASSUME NEW i \in 1 .. (Len(tasks[k]) + 1)
          PROVE  tasks'[k][i].attempts = failures'[k][tasks'[k][i].payload]
      <4>1. CASE i \in 1 .. Len(tasks[k])
        BY SMTT(30), <1>0, <2>1, <2>4, <4>1 DEF AttemptsOf
      <4>2. CASE i = Len(tasks[k]) + 1
        <5>0. arrived[k] \in Nat /\ arrived[k] < MaxTasks
          BY <1>0, <2>1
        <5>1. arrived[k] + 1 \in 1 .. MaxTasks /\ arrived[k] + 1 > arrived[k]
          BY <5>0
        <5>2. failures[k][arrived[k] + 1] = 0
          BY <1>0, <5>1 DEF AttemptsOf
        <5> QED
          BY <2>1, <2>2, <2>4, <4>2, <5>2
      <4> QED
        BY <1>0, <4>1, <4>2
    <3>2. ASSUME NEW p \in 1 .. MaxTasks, p > arrived'[k] PROVE failures'[k][p] = 0
      <4>1. p > arrived[k]
        BY <1>0, <2>3, <3>2
      <4> QED
        BY <1>0, <2>1, <4>1 DEF AttemptsOf
    <3> QED
      BY <2>4, <3>1, <3>2 DEF AttemptsOf
  <2> QED
    BY <1>2, <2>1, <2>3, <2>5, <2>6
<1>4. ASSUME NEW k \in Keys, NEW s \in Seqs, Ack(k, s) PROVE Attempts'
  <2>1. UNCHANGED <<deadLetters, arrived, failures>>
    BY <1>4 DEF Ack
  <2>2. PICK n \in 0 .. Len(tasks[k]) :
          /\ Shrank(k, n)
          /\ \A i \in 1 .. (Len(tasks[k]) - n) : tasks'[k][i] = tasks[k][n + i]
    BY <1>4, StepAck
  <2>3. /\ \A j \in Keys \ {k} : tasks'[j] = tasks[j]
        /\ DOMAIN tasks'[k] = 1 .. Len(tasks'[k])
    <3>1. Types'
      BY <1>4, StepAck
    <3>2. tasks'[k] \in Seq(TaskRow)
      BY <3>1 DEF Types, TypeOK
    <3> QED
      BY <1>4, <3>2, StepAck, RowsAt
  <2>4. Len(tasks'[k]) = Len(tasks[k]) - n
    BY <2>2 DEF Shrank, Dropped
  <2>5. PICK y \in Nat : y = arrived'[k] - Len(tasks'[k]) /\ arrived[k] - Len(tasks[k]) <= y
    BY SMTT(30), <1>0, <2>1, <2>4
  <2>6. AttemptsOf(k)'
    <3>1. ASSUME NEW i \in 1 .. (Len(tasks[k]) - n)
          PROVE  tasks'[k][i].attempts = failures'[k][tasks'[k][i].payload]
      <4>1. n + i \in 1 .. Len(tasks[k])
        BY <1>0
      <4>2. tasks[k][n + i].attempts = failures[k][tasks[k][n + i].payload]
        BY <1>0, <4>1 DEF AttemptsOf
      <4> QED
        BY <2>1, <2>2, <4>2
    <3>2. \A p \in 1 .. MaxTasks : p > arrived'[k] => failures'[k][p] = 0
      BY <1>0, <2>1 DEF AttemptsOf
    <3> QED
      BY <2>3, <2>4, <3>1, <3>2 DEF AttemptsOf
  <2> QED
    BY <1>2, <2>1, <2>3, <2>5, <2>6
<1>5. ASSUME NEW k \in Keys, NEW seq \in Seqs, Fail(k, seq) PROVE Attempts'
  <2> DEFINE counted == Counted(tasks[k], seq)
  <2>1. arrived' = arrived
    BY <1>5 DEF Fail
  <2>2. /\ \A i \in 1 .. Len(tasks[k]) : counted[i].attempts = failures'[k][tasks[k][i].payload]
        /\ \A p \in 1 .. MaxTasks :
             p > arrived[k] \/ p <= arrived[k] - Len(tasks[k]) => failures'[k][p] = failures[k][p]
        /\ \A j \in Keys \ {k} : failures'[j] = failures[j]
    BY <1>5, FailCounts
  <2>3. /\ counted \in Seq(TaskRow) /\ Len(counted) = Len(tasks[k])
        /\ \A i \in 1 .. Len(tasks[k]) : counted[i].payload = tasks[k][i].payload
    <3>1. tasks[k] \in Seq(TaskRow) /\ seq \in Nat
      BY <1>0 DEF Seqs
    <3> QED
      BY <3>1, CountedRows DEF SameTask
  <2>4. \A j \in Keys \ {k} : tasks'[j] = tasks[j]
    BY <1>5, StepFail
  <2>5. \A p \in 1 .. MaxTasks : p > arrived'[k] => failures'[k][p] = 0
    BY <1>0, <2>1, <2>2 DEF AttemptsOf
  <2>6. CASE tasks'[k] = counted /\ deadLetters' = deadLetters
    <3> HIDE DEF counted
    <3>1. AttemptsOf(k)'
      <4>1. DOMAIN tasks'[k] = 1 .. Len(tasks[k])
        BY <2>3, <2>6, LenProperties
      <4> QED
        BY <2>2, <2>3, <2>5, <2>6, <4>1 DEF AttemptsOf
    <3>2. PICK y \in Nat : y = arrived'[k] - Len(tasks'[k]) /\ arrived[k] - Len(tasks[k]) <= y
      BY <1>0, <2>1, <2>3, <2>6
    <3> QED
      BY <1>2, <2>1, <2>2, <2>4, <2>6, <3>1, <3>2
  <2>7. CASE /\ Shrank(k, 1) /\ tasks'[k] = Suffix(counted, 1) /\ Poison(counted, seq)
             /\ deadLetters' = Append(deadLetters, [key |-> k, task |-> counted[1]])
    <3>0. PICK d : d = [key |-> k, task |-> counted[1]]
      OBVIOUS
    <3>1. 1 \in 0 .. Len(tasks[k]) /\ 1 \in 1 .. Len(tasks[k]) /\ 1 \in 0 .. Len(counted)
      <4>1. 1 \in 0 .. Len(tasks[k])
        BY <2>7 DEF Shrank, Dropped
      <4> HIDE DEF counted
      <4> QED
        BY <1>0, <2>3, <4>1
    <3>2. counted[1].attempts >= MaxAttempts
      BY <2>7 DEF Poison
    <3> HIDE DEF counted
    <3>3. /\ Len(tasks'[k]) = Len(tasks[k]) - 1 /\ DOMAIN tasks'[k] = 1 .. (Len(tasks[k]) - 1)
          /\ \A i \in 1 .. (Len(tasks[k]) - 1) : tasks'[k][i] = counted[1 + i]
      <4>1. /\ Suffix(counted, 1) \in Seq(TaskRow) /\ Len(Suffix(counted, 1)) = Len(counted) - 1
            /\ \A i \in 1 .. (Len(counted) - 1) : Suffix(counted, 1)[i] = counted[1 + i]
        <5>1. counted \in Seq(TaskRow) /\ 1 \in 0 .. Len(counted)
          BY <2>3, <3>1
        <5> QED
          BY ZenonT(60), <5>1, SuffixProperties
      <4>2. DOMAIN Suffix(counted, 1) = 1 .. (Len(counted) - 1)
        BY <4>1, LenProperties
      <4> QED
        BY <2>3, <2>7, <4>1, <4>2
    <3>4. AttemptsOf(k)'
      <4>1. ASSUME NEW i \in 1 .. (Len(tasks[k]) - 1)
            PROVE  tasks'[k][i].attempts = failures'[k][tasks'[k][i].payload]
        <5>1. 1 + i \in 1 .. Len(tasks[k])
          BY <1>0
        <5> QED
          BY <2>2, <2>3, <3>3, <5>1
      <4> QED
        BY <2>5, <3>3, <4>1 DEF AttemptsOf
    <3>5. PICK y \in Nat : /\ y = arrived'[k] - Len(tasks'[k]) /\ arrived[k] - Len(tasks[k]) <= y
                           /\ y = arrived[k] - Len(tasks[k]) + 1
      <4>1. /\ arrived[k] \in Nat /\ Len(tasks[k]) \in 0 .. arrived[k] /\ arrived'[k] = arrived[k]
            /\ Len(tasks'[k]) = Len(tasks[k]) - 1
        BY <1>0, <2>1, <3>3
      <4> QED
        BY <4>1
    <3>6. ASSUME NEW j \in Keys PROVE AttemptsOf(j)'
      BY <1>0, <2>1, <2>2, <2>4, <3>4, StaysCounted
    <3>7. DeadOf(d)'
      <4>1. counted[1].payload = y
        <5>1. counted[1].payload = tasks[k][1].payload
          BY <2>3, <3>1
        <5>2. tasks[k][1].payload = arrived[k] - Len(tasks[k]) + 1
          BY <3>1, DistinctSeqs
        <5> QED
          BY <3>5, <5>1, <5>2
      <4>2. y \in 1 .. (arrived'[k] - Len(tasks'[k]))
        <5>1. y >= 1
          BY <1>0, <3>5
        <5> QED
          BY <3>5, <5>1
      <4>3. failures'[k][counted[1].payload] = counted[1].attempts
        BY <2>2, <2>3, <3>1
      <4>4. d.key = k /\ d.task = counted[1]
        BY <3>0
      <4> QED
        BY <3>2, <4>1, <4>2, <4>3, <4>4 DEF DeadOf
    <3>8. ASSUME NEW i \in DOMAIN deadLetters' PROVE DeadOf(deadLetters[i])'
      <4>1. deadLetters \in Seq([key : Keys, task : TaskRow]) /\ d \in [key : Keys, task : TaskRow]
        <5>1. counted[1] \in TaskRow
          BY <2>3, <3>1, ElementOfSeq
        <5> QED
          BY <3>0, <5>1 DEF Types, TypeOK
      <4>2. deadLetters' = Append(deadLetters, d)
        BY <2>7, <3>0
      <4>3. \/ i \in DOMAIN deadLetters /\ deadLetters'[i] = deadLetters[i]
            \/ deadLetters'[i] = d
        BY <4>1, <4>2
      <4>4. CASE i \in DOMAIN deadLetters /\ deadLetters'[i] = deadLetters[i]
        <5>1. PICK e : e = deadLetters[i]
          OBVIOUS
        <5>2. \A j \in Keys \ {k} :
                tasks'[j] = tasks[j] /\ arrived'[j] = arrived[j] /\ failures'[j] = failures[j]
          BY <2>1, <2>2, <2>4
        <5>3. DeadOf(e)'
          BY <1>1, <2>2, <3>5, <4>4, <5>1, <5>2
        <5> QED
          BY <4>4, <5>1, <5>3 DEF DeadOf
      <4>5. CASE deadLetters'[i] = d
        BY <3>7, <4>5 DEF DeadOf
      <4> QED
        BY <4>3, <4>4, <4>5
    <3> QED
      BY <3>6, <3>8 DEF Attempts
  <2> QED
    BY <1>5, <2>6, <2>7, StepFail
<1>6. ASSUME UNCHANGED <<tasks, arrived, failures, deadLetters>> PROVE Attempts'
  BY <1>6 DEF Attempts, AttemptsOf, DeadOf
<1>7. ASSUME NEW k \in Keys, NEW d \in LeaseDurs, NEW t \in Clocks, NEW locked \in SUBSET Keys,
             Claim(k, d, t, locked)
      PROVE  Attempts'
  BY <1>6, <1>7 DEF Claim
<1>8. ASSUME Quiet PROVE Attempts'
  BY <1>6, <1>8, QuietStep
<1> QED
  BY <1>3, <1>4, <1>5, <1>7, <1>8, NextCases

-----------------------------------------------------------------------------
(* What callers drained *)

AlignedAt(h) ==
  (Held(h) /\ calls[h.lease].step = "idle") =>
    /\ Len(calls[h.lease].got) <= Len(tasks[h.key])
    /\ calls[h.lease].got = Prefix(tasks[h.key], Len(calls[h.lease].got))

\* An append leaves prefixes alone.
LEMMA PrefixAppend ==
  ASSUME NEW ts \in Seq(TaskRow), NEW r \in TaskRow, NEW n \in 0 .. Len(ts)
  PROVE  Prefix(Append(ts, r), n) = Prefix(ts, n)
<1>1. /\ Append(ts, r) \in Seq(TaskRow) /\ n \in 0 .. Len(Append(ts, r))
      /\ \A i \in 1 .. Len(ts) : Append(ts, r)[i] = ts[i]
  BY AppendElements, RowsAt
<1>2. /\ Prefix(ts, n) \in Seq(TaskRow) /\ Len(Prefix(ts, n)) = n
      /\ \A i \in 1 .. n : Prefix(ts, n)[i] = ts[i]
  BY PrefixProperties
<1>3. PICK as \in Seq(TaskRow) : as = Append(ts, r)
  BY <1>1
<1>4. /\ Prefix(as, n) \in Seq(TaskRow) /\ Len(Prefix(as, n)) = n
      /\ \A i \in 1 .. n : Prefix(as, n)[i] = as[i]
  BY <1>1, <1>3, PrefixProperties
<1>5. \A i \in 1 .. n : Prefix(as, n)[i] = Prefix(ts, n)[i]
  BY <1>1, <1>2, <1>3, <1>4, RowsAt
<1>6. Prefix(as, n) = Prefix(ts, n)
  BY <1>2, <1>4, <1>5, SeqEqual
<1> QED
  BY <1>3, <1>6

\* A caller whose batch, unit and claim on it the step leaves alone.
LEMMA StaysAligned ==
  ASSUME NEW h, AlignedAt(h), Held(h)' => Held(h), calls'[h.lease] = calls[h.lease],
         tasks'[h.key] = tasks[h.key]
  PROVE  AlignedAt(h)'
  BY DEF AlignedAt

\* A caller without a batch.
LEMMA IdleAligned ==
  ASSUME NEW h, tasks'[h.key] \in Seq(TaskRow), calls'[h.lease] = Idle
  PROVE  AlignedAt(h)'
<1>1. calls'[h.lease].got = <<>> /\ Len(<<>>) = 0
  BY DEF Idle
<1>2. Len(tasks'[h.key]) \in Nat /\ 0 \in 0 .. Len(tasks'[h.key])
  BY RowsAt
<1>3. Prefix(tasks'[h.key], 0) \in Seq(TaskRow) /\ Len(Prefix(tasks'[h.key], 0)) = 0
  BY <1>2, PrefixProperties
<1>4. Prefix(tasks'[h.key], 0) = <<>>
  BY <1>3, EmptySeq
<1> QED
  BY <1>1, <1>2, <1>4 DEF AlignedAt

\* Every step keeps the holder's batch at the head.
LEMMA AlignedStep ==
  ASSUME Types, Leases, Arrivals, HolderAligned, Next
  PROVE  HolderAligned'
<1>t. tasks' \in [Keys -> Seq(TaskRow)] /\ tasks \in [Keys -> Seq(TaskRow)]
  <2>1. Types'
    BY StepUnits
  <2> QED
    BY <2>1 DEF Types, TypeOK
<1>h. ASSUME NEW h \in handles
      PROVE  /\ AlignedAt(h) /\ h.key \in Keys /\ h.lease \in LeaseTokens /\ h.lease # None
             /\ h.lease \in Nat /\ h.lease <= issued
  <2>1. h \in ClaimedUnit
    BY DEF Types, TypeOK
  <2>2. h.key \in Keys /\ h.lease \in LeaseTokens
    BY <2>1 DEF ClaimedUnit
  <2>3. h.lease \in Nat /\ h.lease # None
    BY <2>2, TokensCount
  <2>4. AlignedAt(h)
    BY DEF HolderAligned, AlignedAt
  <2> QED
    BY <2>2, <2>3, <2>4 DEF Leases
<1>c. calls \in [LeaseTokens -> CallRecord]
  BY DEF Types
<1>0. ASSUME \A h \in handles' : AlignedAt(h)' PROVE HolderAligned'
  BY <1>0 DEF HolderAligned, AlignedAt
<1>1. ASSUME NEW k \in Keys, NEW c \in Costs, NEW t \in Clocks, Enqueue(k, c, t) PROVE HolderAligned'
  <2>1. UNCHANGED <<calls, handles>>
    BY <1>1 DEF Enqueue
  <2>2. ASSUME NEW j \in Keys PROVE workUnits'[j].lease = workUnits[j].lease
    BY <1>1 DEF Enqueue, Types, TypeOK, Row
  <2>3. ASSUME NEW h \in handles PROVE AlignedAt(h)'
    <3>1. h.key \in Keys /\ (Held(h)' <=> Held(h))
      BY <1>h, <2>2 DEF Held
    <3>2. CASE h.key # k
      <4>1. tasks'[h.key] = tasks[h.key]
        BY <1>1, <1>t, <3>1, <3>2 DEF Enqueue
      <4> QED
        BY <1>h, <2>1, <3>1, <4>1, StaysAligned
    <3>3. CASE h.key = k
      <4> DEFINE got == calls[h.lease].got
      <4>1. PICK r \in TaskRow : tasks'[k] = Append(tasks[k], r)
        <5> DEFINE row == [seq |-> workUnits[k].nextSeq + 1, payload |-> arrived[k] + 1, cost |-> c,
                           attempts |-> 0, enqueuedAt |-> t]
        <5>1. tasks' = [tasks EXCEPT ![k] = Append(tasks[k], row)]
          BY <1>1 DEF Enqueue
        <5>2. workUnits[k].nextSeq + 1 \in Nat /\ arrived[k] + 1 \in Nat
          BY DistinctSeqs, TypesAt
        <5>3. c \in Nat /\ t \in Nat
          BY DEF Clocks, Types, TypeOK
        <5>4. row \in TaskRow
          BY <5>2, <5>3 DEF TaskRow
        <5> HIDE DEF row
        <5> QED
          BY <1>t, <5>1, <5>4
      <4>2. Len(tasks'[k]) = Len(tasks[k]) + 1 /\ Len(tasks[k]) \in Nat
        BY <1>t, <4>1, AppendElements, LenProperties
      <4>3. ASSUME Held(h)', calls'[h.lease].step = "idle"
            PROVE  Len(got) <= Len(tasks'[k]) /\ got = Prefix(tasks'[k], Len(got))
        <5>1. Len(got) <= Len(tasks[k]) /\ got = Prefix(tasks[k], Len(got))
          BY <1>h, <2>1, <3>1, <3>3, <4>3 DEF AlignedAt
        <5>2. got \in Seq(TaskRow) /\ Len(got) \in 0 .. Len(tasks[k])
          <6>1. calls[h.lease] \in CallRecord
            BY <1>c, <1>h
          <6>2. got \in Seq(TaskRow)
            BY <6>1 DEF CallRecord
          <6> HIDE DEF got
          <6>3. Len(got) \in Nat
            BY <6>2, LenProperties
          <6> QED
            BY <4>2, <5>1, <6>2, <6>3
        <5>3. Prefix(Append(tasks[k], r), Len(got)) = Prefix(tasks[k], Len(got))
          BY <1>t, <5>2, PrefixAppend
        <5> HIDE DEF got
        <5> QED
          BY <4>1, <4>2, <5>1, <5>2, <5>3
      <4> QED
        BY <2>1, <3>3, <4>3 DEF AlignedAt
    <3> QED
      BY <3>2, <3>3
  <2> QED
    BY <1>0, <2>1, <2>3
\* A transaction on k ends: its caller has no batch, and nobody else held the unit.
<1>2. ASSUME NEW k \in Keys, End(k), \A j \in Keys \ {k} : workUnits'[j] = workUnits[j] /\ tasks'[j] = tasks[j],
             workUnits'[k].lease \in {None, workUnits[k].lease}
      PROVE  HolderAligned'
  <2>1. /\ tx[k] # None /\ handles' = handles
        /\ calls' = [calls EXCEPT ![tx[k].by.lease] = Idle]
    BY <1>2 DEF End
  <2>2. tx[k].by.lease \in LeaseTokens /\ tx[k].by.lease = workUnits[k].lease
    BY <2>1, TypesAt DEF Leases
  <2>3. ASSUME NEW h \in handles PROVE AlignedAt(h)'
    <3>1. CASE h.lease = tx[k].by.lease
      <4>1. calls'[h.lease] = Idle
        BY <1>c, <2>1, <2>2, <3>1
      <4>2. tasks'[h.key] \in Seq(TaskRow)
        BY <1>h, <1>t
      <4> QED
        BY <4>1, <4>2, IdleAligned
    <3>2. CASE h.lease # tx[k].by.lease /\ h.key = k
      <4>1. ~Held(h)'
        BY <1>2, <1>h, <2>2, <3>2 DEF Held
      <4> QED
        BY <4>1 DEF AlignedAt
    <3>3. CASE h.lease # tx[k].by.lease /\ h.key # k
      <4>1. calls'[h.lease] = calls[h.lease]
        BY <1>c, <1>h, <2>1, <2>2, <3>3
      <4>2. tasks'[h.key] = tasks[h.key] /\ (Held(h)' => Held(h))
        BY <1>2, <1>h, <3>3 DEF Held
      <4> QED
        BY <1>h, <4>1, <4>2, StaysAligned
    <3> QED
      BY <3>1, <3>2, <3>3
  <2> QED
    BY <1>0, <2>1, <2>3
<1>3. ASSUME NEW k \in Keys, NEW s \in Seqs, Ack(k, s) PROVE HolderAligned'
  <2>1. End(k)
    BY <1>3 DEF Ack
  <2> QED
    BY <1>2, <1>3, <2>1, StepAck
<1>4. ASSUME NEW k \in Keys, NEW s \in Seqs, Fail(k, s) PROVE HolderAligned'
  <2>1. End(k)
    BY <1>4 DEF Fail
  <2> QED
    BY <1>2, <1>4, <2>1, StepFail
<1>5. ASSUME NEW k \in Keys, NEW d \in LeaseDurs, NEW t \in Clocks, NEW locked \in SUBSET Keys,
             Claim(k, d, t, locked)
      PROVE  HolderAligned'
  <2>1. /\ handles' = handles \cup {[key |-> k, lease |-> issued + 1]}
        /\ UNCHANGED <<calls, tasks>>
    BY <1>5 DEF Claim
  <2>2. /\ issued + 1 \in LeaseTokens /\ workUnits'[k].lease = issued + 1
        /\ \A j \in Keys \ {k} : workUnits'[j] = workUnits[j]
    BY <1>5, StepClaim
  <2>3. issued \in Nat
    BY DEF Types, TypeOK
  <2>4. ASSUME NEW h \in handles PROVE AlignedAt(h)'
    <3>1. h.lease # issued + 1
      BY <1>h, <2>3
    <3>2. Held(h)' => Held(h)
      BY <1>h, <2>2, <3>1 DEF Held
    <3> QED
      BY <1>h, <2>1, <3>2, StaysAligned
  <2>5. ASSUME NEW h, h = [key |-> k, lease |-> issued + 1] PROVE AlignedAt(h)'
    <3>1. h.key = k /\ h.lease = issued + 1
      BY <2>5
    <3>2. calls'[h.lease] = Idle
      BY <2>1, <2>2, <2>3, <3>1 DEF Leases
    <3>3. tasks'[h.key] \in Seq(TaskRow)
      BY <1>t, <3>1
    <3> QED
      BY <3>2, <3>3, IdleAligned
  <2> QED
    BY <1>0, <2>1, <2>4, <2>5
<1>6. ASSUME Quiet PROVE HolderAligned'
  <2>1. tasks' = tasks /\ handles' = handles
    BY <1>6, QuietStep
  <2>2. ASSUME NEW h \in handles PROVE Held(h)' => Held(h)
    <3>1. \A k \in Keys : workUnits'[k].lease \in {None, workUnits[k].lease}
      BY <1>6, QuietStep DEF QuietRows
    <3> QED
      BY <1>h, <3>1 DEF Held
  <2>3. CASE calls' = calls
    <3>1. ASSUME NEW h \in handles PROVE AlignedAt(h)'
      BY <1>h, <2>1, <2>2, <2>3, StaysAligned
    <3> QED
      BY <1>0, <2>1, <3>1
  <2>4. ASSUME NEW g \in handles, NEW r, calls' = [calls EXCEPT ![g.lease] = r],
               r = Idle \/ r.step = "read" \/ DrainRead(g)
        PROVE  HolderAligned'
    <3>1. ASSUME NEW h \in handles PROVE AlignedAt(h)'
      <4>1. CASE h.lease # g.lease
        <5>1. calls'[h.lease] = calls[h.lease]
          BY <1>c, <1>h, <2>4, <4>1
        <5> QED
          BY <1>h, <2>1, <2>2, <5>1, StaysAligned
      <4>2. CASE h.lease = g.lease
        <5>1. h = g /\ calls'[h.lease] = r
          BY <1>c, <1>h, <2>4, <4>2 DEF Leases
        <5>2. CASE r = Idle
          BY <1>h, <1>t, <5>1, <5>2, IdleAligned
        <5>3. CASE r.step = "read"
          BY <5>1, <5>3 DEF AlignedAt
        <5>4. CASE DrainRead(g)
          <6>1. calls' = [calls EXCEPT ![g.lease] = [step |-> "idle", got |-> Drained(tasks[g.key])]]
            BY <5>4 DEF DrainRead
          <6>2. calls'[h.lease] = [step |-> "idle", got |-> Drained(tasks[g.key])]
            BY <1>c, <1>h, <5>1, <6>1
          <6>3. /\ Len(Drained(tasks[g.key])) <= Len(tasks[g.key])
                /\ Drained(tasks[g.key]) = Prefix(tasks[g.key], Len(Drained(tasks[g.key])))
            BY <1>h, <1>t, DrainedRows
          <6> QED
            BY <2>1, <5>1, <6>2, <6>3 DEF AlignedAt
        <5> QED
          BY <2>4, <5>2, <5>3, <5>4
      <4> QED
        BY <4>1, <4>2
    <3> QED
      BY <1>0, <2>1, <3>1
  <2>5. ASSUME NEW k \in Keys, Rollback(k) PROVE HolderAligned'
    <3>1. End(k) /\ workUnits' = workUnits /\ tasks' = tasks
      BY <2>5 DEF Rollback, tables
    <3> QED
      BY <1>2, <3>1
  <2>6. ASSUME NEW h \in handles, DrainCheck(h) \/ DrainRead(h) \/ Release(h) PROVE HolderAligned'
    <3>1. CASE DrainCheck(h)
      <4>1. PICK r : r = [step |-> "read", got |-> <<>>]
        OBVIOUS
      <4>2. calls' = [calls EXCEPT ![h.lease] = r] /\ r.step = "read"
        BY <3>1, <4>1 DEF DrainCheck
      <4> QED
        BY <2>4, <4>2
    <3>2. CASE DrainRead(h)
      <4>1. PICK r : r = [step |-> "idle", got |-> Drained(tasks[h.key])]
        OBVIOUS
      <4>2. calls' = [calls EXCEPT ![h.lease] = r]
        BY <3>2, <4>1 DEF DrainRead
      <4> QED
        BY <2>4, <3>2, <4>2
    <3>3. CASE Release(h)
      BY <2>4, <3>3 DEF Release
    <3> QED
      BY <2>6, <3>1, <3>2, <3>3
  <2> QED
    BY <1>6, <2>3, <2>5, <2>6 DEF Quiet, Begin, Heartbeat, ReapLeases, ReapFlush, ReapFlushFails, Tick
<1> QED
  BY <1>1, <1>3, <1>4, <1>5, <1>6, NextCases

-----------------------------------------------------------------------------
(* The invariant *)

\* The empty tables satisfy the invariant.
LEMMA InvInit ==
  ASSUME Init
  PROVE  PgInv
<1>1. Types
  BY TypesInit
<1>2. Leases
  BY DEF Init, Leases, NoRow
<1>3. ASSUME NEW k \in Keys
      PROVE  /\ workUnits[k] = NoRow /\ tasks[k] = <<>> /\ arrived[k] = 0
             /\ Len(tasks[k]) = 0 /\ DOMAIN tasks[k] = {} /\ Cost(tasks[k]) = 0
  BY CostEmpty DEF Init
<1>4. Arrivals
  BY <1>3 DEF Arrivals, FifoIntact, NoRow
<1>5. Sums
  <2>1. ASSUME NEW k \in Keys PROVE workUnits[k].pendingCost = 0 /\ Cost(tasks[k]) = 0
    BY <1>3 DEF NoRow
  <2> QED
    BY <2>1 DEF Sums
<1>6. Clock
  BY <1>3 DEF Clock, ClockOf, NoRow, After, Init
<1>7. Gate
  <2>1. ASSUME NEW k \in Keys
        PROVE  /\ ~workUnits[k].eligible /\ workUnits[k].lease = None
               /\ ~(Cost(tasks[k]) >= Threshold)
    <3>1. ~workUnits[k].eligible /\ workUnits[k].lease = None
      BY <1>3 DEF NoRow
    <3>2. Cost(tasks[k]) = 0 /\ Threshold \in Nat \ {0}
      BY <1>3
    <3> QED
      BY <3>1, <3>2
  <2>2. ASSUME NEW k \in Keys PROVE GateOf(k)
    BY <2>1 DEF GateOf
  <2> QED
    BY <2>2 DEF Gate
<1>8. Attempts
  <2>1. DOMAIN deadLetters = {}
    BY DEF Init
  <2>2. ASSUME NEW k \in Keys PROVE AttemptsOf(k)
    BY <1>3 DEF AttemptsOf, Init
  <2> QED
    BY <2>1, <2>2 DEF Attempts
<1>9. HolderAligned
  BY DEF HolderAligned, Init
<1> QED
  BY <1>1, <1>2, <1>4, <1>5, <1>6, <1>7, <1>8, <1>9 DEF PgInv

\* Every step keeps the invariant.
LEMMA InvStep ==
  ASSUME PgInv, [Next]_vars
  PROVE  PgInv'
<1>1. CASE Next
  <2>1. Types /\ Leases /\ Arrivals /\ Sums /\ Clock /\ Gate /\ Attempts /\ HolderAligned
    BY DEF PgInv
  <2>2. Types' /\ Leases' /\ Arrivals'
    BY <1>1, <2>1, StepUnits, LeasesStep, ArrivalsStep
  <2>3. Sums' /\ Clock' /\ Gate' /\ Attempts' /\ HolderAligned'
    BY <1>1, <2>1, SumsStep, ClockStep, GateStep, AttemptsStep, AlignedStep
  <2> QED
    BY <2>2, <2>3 DEF PgInv
<1>2. CASE UNCHANGED vars
  <2>1. /\ Types' <=> Types
        /\ Leases' <=> Leases
    BY <1>2 DEF vars, Types, TypeOK, Leases
  <2>2. /\ Arrivals' <=> Arrivals
        /\ Sums' <=> Sums
    BY <1>2 DEF vars, Arrivals, FifoIntact, Sums
  <2>3. /\ Clock' <=> Clock
        /\ Gate' <=> Gate
    BY <1>2 DEF vars, Clock, ClockOf, Gate, GateOf
  <2>4. /\ Attempts' <=> Attempts
        /\ HolderAligned' <=> HolderAligned
    BY <1>2 DEF vars, Attempts, AttemptsOf, DeadOf, HolderAligned, Held
  <2> QED
    BY <2>1, <2>2, <2>3, <2>4 DEF PgInv
<1> QED
  BY <1>1, <1>2

(***************************************************************************)
(* The inductive invariant: what the row's columns, the tasks table, the   *)
(* locks and the callers' batches say of each other holds in every state   *)
(* the statements and transactions of the driver can produce.              *)
(***************************************************************************)
THEOREM PgInvariant == Spec => []PgInv
<1>1. Init => PgInv
  BY InvInit
<1>2. PgInv /\ [Next]_vars => PgInv'
  BY InvStep
<1> QED
  BY <1>1, <1>2, PTL DEF Spec

(***************************************************************************)
(* I1: the tasks table holds a unit's most recent arrivals, in order and   *)
(* without a hole, and no seq is given out twice, for any number of keys,  *)
(* callers and tasks (Enqueue, Ack, Fail).                                 *)
(***************************************************************************)
THEOREM TasksStayInOrder == Spec => []FifoIntact
<1>1. PgInv => FifoIntact
  BY DEF PgInv, Arrivals
<1> QED
  BY <1>1, PgInvariant, PTL

(***************************************************************************)
(* I3: pending_cost, which Enqueue, Ack and Fail adjust by differences, is *)
(* always the sum of the cost column over the unit's tasks.                *)
(***************************************************************************)
THEOREM PendingCostExact == Spec => []CostExact
<1>1. PgInv => CostExact
  BY DEF PgInv, Types, Sums, CostExact
<1> QED
  BY <1>1, PgInvariant, PTL

(***************************************************************************)
(* A dead letter has MaxAttempts failures of its own behind it, committed  *)
(* ones, whatever failed or was rolled back beside it (Fail).              *)
(***************************************************************************)
THEOREM DeadLettersFailed == Spec => []PoisonFailedItself
<1>1. PgInv => PoisonFailedItself
  BY DEF PgInv, Attempts, DeadOf, PoisonFailedItself
<1> QED
  BY <1>1, PgInvariant, PTL

(***************************************************************************)
(* A caller that still holds the lease it drained under acks only what it  *)
(* was given: its batch is the head of the unit (Drain, Ack, Fail).        *)
(***************************************************************************)
THEOREM BatchIsHead == Spec => []HolderAligned
<1>1. PgInv => HolderAligned
  BY DEF PgInv
<1> QED
  BY <1>1, PgInvariant, PTL

\* The invariant bounds the deadline as FlushClock says.
LEMMA FlushClockHolds ==
  ASSUME PgInv
  PROVE  FlushClock
<1> SUFFICES ASSUME NEW k \in Keys, Costly(k) # {}
             PROVE  /\ workUnits[k].flushDeadline # None
                    /\ \A i \in Costly(k) :
                         workUnits[k].flushDeadline <= tasks[k][i].enqueuedAt + MaxWait + Lag
                    /\ workUnits[k].flushDeadline >= MinEnqueued(tasks[k]) + MaxWait
  BY DEF FlushClock
<1> DEFINE o == workUnits[k].oldestPendingAt
<1>1. /\ tasks[k] \in Seq(TaskRow) /\ o \in Nat \cup {None}
  BY TypesAt DEF PgInv
<1>2. \A i \in DOMAIN tasks[k] : tasks[k][i].enqueuedAt \in Nat
  BY <1>1, RowsAt
<1>3. ClockOf(k)
  BY DEF PgInv, Clock
<1>4. \A i \in Costly(k) : i \in DOMAIN tasks[k] /\ o # None /\ o <= tasks[k][i].enqueuedAt + Lag
  BY <1>3 DEF ClockOf, Costly
<1>5. /\ o \in Nat /\ workUnits[k].flushDeadline = o + MaxWait
      /\ \E i \in DOMAIN tasks[k] : tasks[k][i].enqueuedAt <= o
  BY <1>1, <1>3, <1>4 DEF ClockOf, After
<1>6. tasks[k] # <<>>
  BY <1>5
<1>7. MinEnqueued(tasks[k]) \in Nat /\ MinEnqueued(tasks[k]) <= o
  <2>1. /\ MinEnqueued(tasks[k]) \in Nat
        /\ \A i \in DOMAIN tasks[k] : MinEnqueued(tasks[k]) <= tasks[k][i].enqueuedAt
    BY <1>1, <1>6, MinEnqueuedIs
  <2> HIDE DEF o
  <2> QED
    BY <1>2, <1>5, <2>1
<1> HIDE DEF o
<1>8. ASSUME NEW i \in Costly(k)
      PROVE  workUnits[k].flushDeadline <= tasks[k][i].enqueuedAt + MaxWait + Lag
  <2>1. tasks[k][i].enqueuedAt \in Nat /\ o <= tasks[k][i].enqueuedAt + Lag
    BY <1>2, <1>4
  <2> QED
    BY <1>5, <2>1
<1>9. o + MaxWait # None /\ o + MaxWait >= MinEnqueued(tasks[k]) + MaxWait
  BY <1>5, <1>7
<1> QED
  BY <1>5, <1>8, <1>9

(***************************************************************************)
(* The deadline the reaper looks at is no later than max_wait and the      *)
(* length of a statement after any task that costs something, and no       *)
(* earlier than max_wait after the oldest task, whatever order concurrent  *)
(* enqueues committed in (Enqueue, Ack, Fail).                             *)
(***************************************************************************)
THEOREM DeadlineServesAll == Spec => []FlushClock
  BY FlushClockHolds, PgInvariant, PTL

\* The invariant makes the gate exact.
LEMMA GateExactHolds ==
  ASSUME PgInv
  PROVE  GateExact
<1> SUFFICES ASSUME NEW k \in Keys
             PROVE  /\ Cost(tasks[k]) >= Threshold => workUnits[k].eligible
                    /\ workUnits[k].eligible =>
                         /\ tasks[k] # <<>>
                         /\ Cost(tasks[k]) >= Threshold \/ now >= MinEnqueued(tasks[k]) + MaxWait
                    /\ workUnits[k].lease # None => workUnits[k].eligible
  BY DEF GateExact
<1>1. GateOf(k) /\ tasks[k] \in Seq(TaskRow) /\ now \in Nat
  BY TypesAt DEF PgInv, Gate
<1>2. \A i \in DOMAIN tasks[k] : tasks[k][i].enqueuedAt \in Nat
  BY <1>1, RowsAt
<1>3. ASSUME workUnits[k].eligible, Cost(tasks[k]) >= Threshold PROVE tasks[k] # <<>>
  BY <1>3, CostEmpty
<1>4. ASSUME NEW i \in DOMAIN tasks[k], tasks[k][i].enqueuedAt + MaxWait <= now
      PROVE  tasks[k] # <<>> /\ now >= MinEnqueued(tasks[k]) + MaxWait
  <2>1. tasks[k] # <<>>
    OBVIOUS
  <2>2. MinEnqueued(tasks[k]) \in Nat /\ MinEnqueued(tasks[k]) <= tasks[k][i].enqueuedAt
    BY <1>1, <2>1, MinEnqueuedIs
  <2>3. tasks[k][i].enqueuedAt \in Nat
    BY <1>2
  <2> QED
    BY <1>1, <1>4, <2>1, <2>2, <2>3
<1> QED
  BY <1>1, <1>3, <1>4 DEF GateOf

(***************************************************************************)
(* I4: the eligible column that Claim trusts is set on every unit worth the*)
(* threshold and on every leased one, and only on units that are worth it  *)
(* or hold a task that has waited max_wait (Enqueue, Ack, Fail, the reaper)*)
(***************************************************************************)
THEOREM GateIsExact == Spec => []GateExact
  BY GateExactHolds, PgInvariant, PTL

\* A set of instants none of which is later than n has a last one.
LEMMA GreatestOf ==
  ASSUME NEW n \in Nat, NEW S \in SUBSET Nat, S # {}, \A x \in S : x <= n
  PROVE  Max(S) \in S /\ \A x \in S : x <= Max(S)
<1> DEFINE T == {n - x : x \in S}
<1>1. T \in SUBSET Nat /\ T # {}
  OBVIOUS
<1>2. PICK y \in T : \A z \in T : y <= z
  BY <1>1, LeastOf
<1>3. PICK m \in S : y = n - m
  BY <1>2
<1>4. ASSUME NEW x \in S PROVE m >= x
  <2>1. n - x \in T
    OBVIOUS
  <2>2. n - m <= n - x
    BY <1>2, <1>3, <2>1
  <2> HIDE DEF T
  <2> QED
    BY <2>2
<1>5. \E w \in S : \A x \in S : w >= x
  BY <1>4
<1>6. Max(S) \in S /\ \A x \in S : Max(S) >= x
  BY <1>5 DEF Max
<1> QED
  BY <1>6

\* The invariant makes Stats honest.
LEMMA StatsHonestHolds ==
  ASSUME PgInv
  PROVE  StatsHonest
<1> DEFINE below == {k \in Keys : ~workUnits[k].eligible /\ workUnits[k].lease = None}
           timed == {j \in Keys : /\ ~workUnits[j].eligible /\ workUnits[j].lease = None
                                  /\ workUnits[j].oldestPendingAt # None}
           S == {0} \cup {now - workUnits[k].oldestPendingAt : k \in timed}
<1>1. now \in Nat
  BY DEF PgInv, Types, TypeOK
<1>2. ASSUME NEW k \in Keys
      PROVE  /\ ClockOf(k) /\ \A i \in DOMAIN tasks[k] : tasks[k][i].enqueuedAt \in Nat
             /\ workUnits[k].oldestPendingAt # None =>
                  workUnits[k].oldestPendingAt \in Nat /\ workUnits[k].oldestPendingAt <= now
  <2>1. ClockOf(k)
    BY DEF PgInv, Clock
  <2>2. tasks[k] \in Seq(TaskRow) /\ workUnits[k].oldestPendingAt \in Nat \cup {None}
    BY TypesAt DEF PgInv
  <2> QED
    BY <2>1, <2>2, RowsAt DEF ClockOf
<1>3. \A k \in timed : /\ workUnits[k].oldestPendingAt \in Nat
                       /\ workUnits[k].oldestPendingAt <= now /\ k \in below
  BY <1>2
<1>4. S \in SUBSET Nat /\ S # {} /\ \A x \in S : x <= now
  <2> HIDE DEF timed, below
  <2> QED
    BY <1>1, <1>3
<1>5. OldestBelowT = Max(S)
  BY DEF OldestBelowT
<1>6. OldestBelowT \in S /\ \A x \in S : x <= OldestBelowT
  <2> HIDE DEF S
  <2> QED
    BY <1>1, <1>4, <1>5, GreatestOf
<1>7. OldestBelowT \in Nat
  BY <1>4, <1>6
<1>8. ASSUME NEW k \in below, NEW i \in Costly(k)
      PROVE  now - tasks[k][i].enqueuedAt <= OldestBelowT + Lag
  <2>1. /\ k \in timed /\ k \in Keys /\ i \in DOMAIN tasks[k]
        /\ workUnits[k].oldestPendingAt <= tasks[k][i].enqueuedAt + Lag
    BY <1>2 DEF ClockOf, Costly
  <2>2. workUnits[k].oldestPendingAt \in Nat /\ tasks[k][i].enqueuedAt \in Nat
    BY <1>2, <1>3, <2>1
  <2>3. now - workUnits[k].oldestPendingAt \in S
    BY <2>1
  <2>4. now - workUnits[k].oldestPendingAt <= OldestBelowT
    BY <1>6, <2>3
  <2> HIDE DEF below, timed, S
  <2> QED
    BY <1>1, <1>7, <2>1, <2>2, <2>4
<1>9. ASSUME OldestBelowT > 0
      PROVE  \E k \in below : \E i \in DOMAIN tasks[k] :
               now - tasks[k][i].enqueuedAt >= OldestBelowT
  <2>1. PICK k \in timed : OldestBelowT = now - workUnits[k].oldestPendingAt
    <3> HIDE DEF timed
    <3> QED
      BY <1>6, <1>9
  <2>2. k \in below /\ k \in Keys /\ workUnits[k].oldestPendingAt \in Nat
    BY <1>3
  <2>3. PICK i \in DOMAIN tasks[k] : tasks[k][i].enqueuedAt <= workUnits[k].oldestPendingAt
    BY <1>2 DEF ClockOf
  <2>4. tasks[k][i].enqueuedAt \in Nat
    BY <1>2, <2>2
  <2> HIDE DEF below, timed, S
  <2>5. now - tasks[k][i].enqueuedAt >= OldestBelowT
    BY <1>1, <2>1, <2>2, <2>3, <2>4
  <2> QED
    BY <2>2, <2>5
<1>10. \A k \in EligibleUnits : tasks[k] # <<>>
  BY GateExactHolds DEF GateExact, EligibleUnits
<1> QED
  BY <1>8, <1>9, <1>10 DEF StatsHonest

(***************************************************************************)
(* The sample of Stats: OldestBelowT hides no wait of a task that costs    *)
(* something in a free unit below the gate, but for the length of a        *)
(* statement, makes none up, and EligibleUnits counts no unit without work.*)
(***************************************************************************)
THEOREM StatsAreHonest == Spec => []StatsHonest
  BY StatsHonestHolds, PgInvariant, PTL

-----------------------------------------------------------------------------
(***************************************************************************)
(* The driver implements QueueContract.  The contract's variables are given*)
(* names; a first group of lemmas says which facts about them make a step a*)
(* step of the contract.                                                   *)
(***************************************************************************)
Queues == [k \in Keys |-> Stripped(tasks[k])]
Ages == [k \in Keys |-> Aged(tasks[k])]
Holders == [k \in Keys |-> workUnits[k].lease]
Lapsed == {k \in Keys : workUnits[k].lease # None /\ workUnits[k].leaseExpires < now}
Dead == {[key |-> deadLetters[i].key, task |-> TaskOf(deadLetters[i].task)] :
           i \in DOMAIN deadLetters}

-----------------------------------------------------------------------------
(* The contract, in terms of these. *)

\* The instance's own copy of Cardinality is Cardinality.
LEMMA SameCardinality ==
  ASSUME NEW S
  PROVE  Contract!Cardinality(S) = Cardinality(S)
  BY DEF Contract!Cardinality, Cardinality

\* The contract's words for FIFOs are those of WorkUnits.
LEMMA SameWords ==
  ASSUME NEW ts
  PROVE  /\ Contract!Cost(ts) = Cost(ts) /\ Contract!Payloads(ts) = Payloads(ts)
         /\ \A n : Contract!Suffix(ts, n) = Suffix(ts, n)
<1>1. Contract!CostUnits(ts) = CostUnits(ts)
  BY DEF Contract!CostUnits, CostUnits
<1>2. Contract!Cost(ts) = Cost(ts)
  BY <1>1, SameCardinality DEF Contract!Cost, Cost
<1>3. Contract!Payloads(ts) = Payloads(ts)
  BY DEF Contract!Payloads, Payloads
<1>4. ASSUME NEW n PROVE Contract!Suffix(ts, n) = Suffix(ts, n)
  BY DEF Contract!Suffix, Suffix
<1> QED
  BY <1>2, <1>3, <1>4

\* The gate of the contract.
Worth(ts, old) == ts # <<>> /\ (Cost(ts) >= Threshold \/ ts[1].payload \in old)

\* Eligible of the contract is Worth.
LEMMA SameGate ==
  ASSUME NEW ts, NEW old
  PROVE  Contract!Eligible(ts, old) <=> Worth(ts, old)
  BY SameWords DEF Contract!Eligible, Worth

\* What makes a step an Enqueue of the contract.
LEMMA ContractEnqueue ==
  ASSUME NEW k \in Keys, NEW c \in Costs, NEW s \in 0 .. (MaxTasks - 1),
         arrived[k] < MaxTasks,
         \A i \in DOMAIN Queues[k] : Queues[k][i].seq < s,
         arrived' = [arrived EXCEPT ![k] = arrived[k] + 1],
         Queues' = [Queues EXCEPT ![k] =
                     Append(Queues[k], [seq |-> s, payload |-> arrived[k] + 1, cost |-> c])],
         UNCHANGED <<Ages, Holders, Lapsed, handles, Dead>>
  PROVE  Contract!Next
<1>1. Contract!Enqueue(k, c, s)
  BY DEF Contract!Enqueue, Contract!HandlesAmong,
         Queues, Ages, Holders, Lapsed, Dead, Aged, Stripped
<1> QED
  BY <1>1 DEF Contract!Next

\* What makes a step a Claim of the contract.
LEMMA ContractClaim ==
  ASSUME NEW k \in Keys, NEW t \in LeaseTokens,
         Holders[k] = None, Worth(Queues[k], Ages[k]),
         \A j \in Keys : Holders[j] # t, \A h \in handles : h.lease # t,
         Holders' = [Holders EXCEPT ![k] = t],
         handles' = handles \cup {[key |-> k, lease |-> t]},
         UNCHANGED <<Queues, arrived, Ages, Lapsed, Dead>>
  PROVE  Contract!Next
<1>0. Contract!Eligible(Queues[k], Ages[k])
  BY SameGate
<1>1. Contract!Claim(k, t)
  BY <1>0 DEF Contract!Claim, Contract!HandlesAmong,
         Queues, Ages, Holders, Lapsed, Dead, Aged, Stripped
<1> QED
  BY <1>1 DEF Contract!Next

\* The effects Ack, Release and Fail share.
Drops(h, n) ==
  /\ Queues' = [Queues EXCEPT ![h.key] = Suffix(Queues[h.key], n)]
  /\ Ages' = [Ages EXCEPT ![h.key] = Ages[h.key] \cap Payloads(Suffix(Queues[h.key], n))]

Gives(h) == Holders' = [Holders EXCEPT ![h.key] = None] /\ Lapsed' = Lapsed \ {h.key}

\* What makes a step drop the head of a unit.
LEMMA ContractDrop ==
  ASSUME NEW h, NEW n, Drops(h, n)
  PROVE  Contract!DropHead(h, n)
<1> DEFINE rest == Suffix(Queues[h.key], n)
<1>1. Contract!Suffix(Queues[h.key], n) = rest /\ Contract!Payloads(rest) = Payloads(rest)
  BY SameWords
<1>2. /\ Queues' = [Queues EXCEPT ![h.key] = Contract!Suffix(Queues[h.key], n)]
      /\ Ages' = [Ages EXCEPT ![h.key] =
                    Ages[h.key] \cap Contract!Payloads(Contract!Suffix(Queues[h.key], n))]
  BY <1>1 DEF Drops
<1> HIDE DEF rest
<1> QED
  BY <1>2 DEF Contract!DropHead, Queues, Ages, Aged, Stripped

\* What makes a step an Ack of the contract, the lease kept or given up.
LEMMA ContractAck ==
  ASSUME NEW h \in handles, NEW n \in 0 .. MaxTasks,
         Holders[h.key] = h.lease, n <= Len(Queues[h.key]), Drops(h, n),
         \/ /\ Worth(Suffix(Queues[h.key], n), Ages[h.key])
            /\ Lapsed' = Lapsed \ {h.key} /\ UNCHANGED Holders
         \/ ~Worth(Suffix(Queues[h.key], n), {}) /\ Gives(h),
         UNCHANGED <<arrived, handles, Dead>>
  PROVE  Contract!Next
<1>1. Contract!Held(h)
  BY DEF Contract!Held, Holders
<1>2. Contract!DropHead(h, n)
  BY ContractDrop
<1>3. \/ Contract!StillEligible(h, n) /\ Lapsed' = Lapsed \ {h.key} /\ UNCHANGED Holders
      \/ ~Contract!StillWorthT(h, n) /\ Contract!Free(h)
  <2>1. CASE /\ Worth(Suffix(Queues[h.key], n), Ages[h.key])
             /\ Lapsed' = Lapsed \ {h.key} /\ UNCHANGED Holders
    <3>1. Contract!Suffix(Queues[h.key], n) = Suffix(Queues[h.key], n)
      BY SameWords
    <3>2. Contract!Eligible(Suffix(Queues[h.key], n), Ages[h.key])
      BY <2>1, SameGate
    <3>3. Contract!StillEligible(h, n)
      BY <3>1, <3>2 DEF Contract!StillEligible, Queues, Ages, Aged, Stripped
    <3> QED
      BY <2>1, <3>3
  <2>2. CASE ~Worth(Suffix(Queues[h.key], n), {}) /\ Gives(h)
    <3>1. Contract!Suffix(Queues[h.key], n) = Suffix(Queues[h.key], n)
      BY SameWords
    <3>2. ~Contract!Eligible(Suffix(Queues[h.key], n), {})
      BY <2>2, SameGate
    <3>3. ~Contract!StillWorthT(h, n)
      BY <3>1, <3>2 DEF Contract!StillWorthT, Queues, Stripped
    <3>4. Contract!Free(h)
      BY <2>2 DEF Contract!Free, Gives, Holders, Lapsed
    <3> QED
      BY <3>3, <3>4
  <2> QED
    BY <2>1, <2>2
<1>4. Contract!Ack(h, n)
  BY <1>1, <1>2, <1>3 DEF Contract!Ack, Contract!HandlesAmong,
     Queues, Holders, Lapsed, Dead, Stripped
<1> QED
  BY <1>4 DEF Contract!Next

\* What makes a step a Release of the contract.
LEMMA ContractRelease ==
  ASSUME NEW h \in handles, Holders[h.key] = h.lease, Gives(h),
         UNCHANGED <<Queues, arrived, Ages, handles, Dead>>
  PROVE  Contract!Next
<1>1. Contract!Release(h)
  BY DEF Contract!Release, Contract!Held, Contract!Free, Gives, Contract!HandlesAmong,
         Queues, Ages, Holders, Lapsed, Dead, Aged, Stripped
<1> QED
  BY <1>1 DEF Contract!Next

\* What makes a step a Heartbeat of the contract.
LEMMA ContractHeartbeat ==
  ASSUME NEW h \in handles, Holders[h.key] = h.lease, Lapsed' = Lapsed \ {h.key},
         UNCHANGED <<Queues, arrived, Ages, Holders, handles, Dead>>
  PROVE  Contract!Next
<1>1. Contract!Heartbeat(h)
  BY DEF Contract!Heartbeat, Contract!Held, Contract!HandlesAmong,
         Queues, Ages, Holders, Lapsed, Dead, Aged, Stripped
<1> QED
  BY <1>1 DEF Contract!Next

\* What makes a step a dead letter of the contract.
LEMMA ContractDeadLetter ==
  ASSUME NEW h \in handles, Holders[h.key] = h.lease, Queues[h.key] # <<>>,
         Drops(h, 1), Gives(h),
         Dead' = Dead \cup {[key |-> h.key, task |-> Queues[h.key][1]]},
         UNCHANGED <<arrived, handles>>
  PROVE  Contract!Next
<1> USE DEF Queues, Ages, Holders, Lapsed, Dead, Aged, Stripped
<1>1. Contract!DropHead(h, 1)
  BY ContractDrop
<1>2. Contract!DeadLetterHead(h)
  BY <1>1 DEF Contract!DeadLetterHead, Contract!Held, Contract!Free, Gives,
              Contract!HandlesAmong
<1> QED
  BY <1>2 DEF Contract!Next

\* What makes a step reclaim leases that ran out.
LEMMA ContractReclaim ==
  ASSUME NEW S \in SUBSET Keys, S \subseteq Lapsed,
         Holders' = [k \in Keys |-> IF k \in S THEN None ELSE Holders[k]],
         Lapsed' = Lapsed \ S,
         UNCHANGED <<Queues, arrived, Ages, handles, Dead>>
  PROVE  Contract!Next
<1>1. Contract!Reclaim(S)
  BY DEF Contract!Reclaim, Contract!HandlesAmong,
         Queues, Ages, Holders, Lapsed, Dead, Aged, Stripped
<1> QED
  BY <1>1 DEF Contract!Next

\* What makes a step the passing of time.
LEMMA ContractElapse ==
  ASSUME Ages' \in [Keys -> SUBSET (1 .. MaxTasks)],
         \A k \in Keys : Ages[k] \subseteq Ages'[k] /\ Ages'[k] \subseteq Payloads(Queues[k]),
         Lapsed' \in SUBSET {k \in Keys : Holders[k] # None}, Lapsed \subseteq Lapsed',
         UNCHANGED <<Queues, arrived, Holders, handles, Dead>>
  PROVE  Contract!Next
<1>1. Contract!Elapse
  BY ZenonT(60), SameWords DEF Contract!Elapse, Contract!HandlesAmong,
         Queues, Ages, Holders, Lapsed, Dead, Aged, Stripped
<1> QED
  BY <1>1 DEF Contract!Next

-----------------------------------------------------------------------------
(* What the statements do to the contract's variables. *)

(***************************************************************************)
(* Why renewing works: a transaction is young when it commits, and a lease *)
(* was never asked for a shorter time than that.                           *)
(***************************************************************************)
Timely ==
  \A k \in Keys : /\ tx[k] # None => now - tx[k].at <= Lag
                  /\ workUnits[k].lease # None => workUnits[k].leaseMs >= Lag

\* A row whose lease's columns a step leaves alone, or frees.
LEMMA StaysTimely ==
  ASSUME Types, Timely, now' = now, NEW k \in Keys, tx'[k] \in {None, tx[k]},
         workUnits'[k].lease = None \/ /\ workUnits'[k].lease = workUnits[k].lease
                                       /\ workUnits'[k].leaseMs = workUnits[k].leaseMs
  PROVE  /\ tx'[k] # None => now' - tx'[k].at <= Lag
         /\ workUnits'[k].lease # None => workUnits'[k].leaseMs >= Lag
  BY DEF Timely

\* A lease written at t, for d.
LEMMA Written ==
  ASSUME Types, NEW k \in Keys, NEW t \in Clocks, NEW d \in LeaseDurs, NEW l \in LeaseTokens,
         workUnits' = [workUnits EXCEPT ![k] =
           [workUnits[k] EXCEPT !.lease = l, !.leaseMs = d, !.leaseExpires = t + d]]
  PROVE  /\ workUnits'[k].lease = l /\ workUnits'[k].leaseMs = d
         /\ workUnits'[k].leaseExpires = t + d
         /\ d >= Lag /\ ~(t + d < now) /\ now - t <= Lag
         /\ \A j \in Keys \ {k} : workUnits'[j] = workUnits[j]
<1>1. workUnits \in [Keys -> Row] /\ workUnits[k] \in Row /\ now \in Nat
  BY TypesAt DEF Types, TypeOK
<1>2. t \in Nat /\ now - t <= Lag /\ d \in Nat /\ d >= Lag
  BY <1>1, PostgresClock DEF Clocks
<1>3. PICK x \in Nat : x = t + d
  BY <1>2
<1>4. /\ workUnits'[k].lease = l /\ workUnits'[k].leaseMs = d /\ workUnits'[k].leaseExpires = x
  BY <1>1, <1>3 DEF Row
<1>5. \A j \in Keys \ {k} : workUnits'[j] = workUnits[j]
  BY <1>1
<1>6. ~(t + d < now)
  BY <1>1, <1>2
<1> QED
  BY <1>2, <1>3, <1>4, <1>5, <1>6

\* Heartbeat, as a lease written over the one it names.
LEMMA HeartbeatWrites ==
  ASSUME Types, NEW h \in handles, NEW d \in LeaseDurs, NEW t \in Clocks, Heartbeat(h, d, t)
  PROVE  /\ h.key \in Keys /\ h.lease \in LeaseTokens
         /\ workUnits[h.key].lease = h.lease
         /\ workUnits' = [workUnits EXCEPT ![h.key] =
              [workUnits[h.key] EXCEPT !.lease = h.lease, !.leaseMs = d, !.leaseExpires = t + d]]
<1>1. h.key \in Keys /\ h.lease \in LeaseTokens
  BY DEF Types, TypeOK, ClaimedUnit
<1>2. /\ workUnits[h.key].lease = h.lease
      /\ workUnits' = [workUnits EXCEPT ![h.key] =
           [workUnits[h.key] EXCEPT !.leaseMs = d, !.leaseExpires = t + d]]
  BY DEF Heartbeat, Held
<1>3. workUnits[h.key] \in Row
  BY <1>1, TypesAt
<1>4. PICK u \in Row : u = workUnits[h.key]
  BY <1>3
<1>5. PICK x : x = t + d
  OBVIOUS
<1>6. [u EXCEPT !.leaseMs = d, !.leaseExpires = x]
        = [u EXCEPT !.lease = h.lease, !.leaseMs = d, !.leaseExpires = x]
  <2>1. u.lease = h.lease
    BY <1>2, <1>4
  <2> QED
    BY <2>1 DEF Row
<1> QED
  BY <1>1, <1>2, <1>4, <1>5, <1>6

\* No statement or transaction makes a lease shorter than a transaction may be old.
LEMMA TimelyStep ==
  ASSUME PgInv, Timely, Next
  PROVE  Timely'
<1> SUFFICES ASSUME NEW j \in Keys
             PROVE  /\ tx'[j] # None => now' - tx'[j].at <= Lag
                    /\ workUnits'[j].lease # None => workUnits'[j].leaseMs >= Lag
  BY DEF Timely
<1> DEFINE Goal == /\ tx'[j] # None => now' - tx'[j].at <= Lag
                   /\ workUnits'[j].lease # None => workUnits'[j].leaseMs >= Lag
<1>t. /\ Types /\ Leases /\ Arrivals /\ workUnits \in [Keys -> Row] /\ workUnits[j] \in Row
      /\ now \in Nat /\ tx \in [Keys -> [by : ClaimedUnit, at : 0 .. MaxNow] \cup {None}]
  BY TypesAt DEF PgInv, Types, TypeOK
<1>1. ASSUME NEW k \in Keys, NEW c \in Costs, NEW t \in Clocks, Enqueue(k, c, t) PROVE Goal
  <2>1. now' = now /\ tx' = tx
    BY <1>1 DEF Enqueue
  <2>2. workUnits'[j].lease = workUnits[j].lease /\ workUnits'[j].leaseMs = workUnits[j].leaseMs
    BY <1>t, <1>1 DEF Enqueue, Row
  <2> QED
    BY <1>t, <2>1, <2>2, StaysTimely
<1>2. ASSUME NEW k \in Keys, NEW d \in LeaseDurs, NEW t \in Clocks, NEW locked \in SUBSET Keys,
             Claim(k, d, t, locked)
      PROVE  Goal
  <2>1. now' = now /\ tx' = tx /\ issued + 1 \in LeaseTokens
        /\ workUnits' = [workUnits EXCEPT ![k] =
             [workUnits[k] EXCEPT !.lease = issued + 1, !.leaseMs = d, !.leaseExpires = t + d]]
    BY <1>t, <1>2, StepClaim DEF Claim
  <2>2. /\ workUnits'[k].leaseMs = d /\ d >= Lag
        /\ \A i \in Keys \ {k} : workUnits'[i] = workUnits[i]
    BY ZenonT(60), <1>t, <2>1, Written
  <2>3. CASE j = k
    BY <2>1, <2>2, <2>3 DEF Timely
  <2>4. CASE j # k
    BY <1>t, <2>1, <2>2, <2>4, StaysTimely
  <2> QED
    BY <2>3, <2>4
<1>3. ASSUME NEW k \in Keys, NEW s \in Seqs, Ack(k, s) \/ Fail(k, s) PROVE Goal
  <2>1. now' = now /\ tx' = [tx EXCEPT ![k] = None]
    BY <1>3 DEF Ack, Fail, End
  <2>2. /\ workUnits'[k].lease = None \/ /\ workUnits'[k].lease = workUnits[k].lease
                                          /\ workUnits'[k].leaseMs = workUnits[k].leaseMs
        /\ \A i \in Keys \ {k} : workUnits'[i] = workUnits[i]
    BY <1>t, <1>3, StepAck, StepFail
  <2>3. tx'[j] \in {None, tx[j]}
    BY <1>t, <2>1
  <2> QED
    BY <1>t, <2>1, <2>2, <2>3, StaysTimely
<1>4. ASSUME NEW h \in handles, NEW t \in Clocks, Begin(h, t) PROVE Goal
  <2>1. /\ now' = now /\ workUnits' = workUnits /\ h.key \in Keys
        /\ tx' = [tx EXCEPT ![h.key] = [by |-> h, at |-> t]] /\ now - t <= Lag
    BY <1>t, <1>4 DEF Begin, tables, Clocks, Types, TypeOK, ClaimedUnit
  <2>2. CASE j = h.key
    BY <1>t, <2>1, <2>2 DEF Timely
  <2>3. CASE j # h.key
    BY <1>t, <2>1, <2>3, StaysTimely
  <2> QED
    BY <2>2, <2>3
<1>5. ASSUME NEW h \in handles, NEW d \in LeaseDurs, NEW t \in Clocks, Heartbeat(h, d, t)
      PROVE  Goal
  <2>1. now' = now /\ tx' = tx
    BY <1>5 DEF Heartbeat
  <2>2. h.key \in Keys /\ workUnits'[h.key].leaseMs = d /\ d >= Lag
        /\ \A i \in Keys \ {h.key} : workUnits'[i] = workUnits[i]
    <3>1. /\ h.key \in Keys /\ h.lease \in LeaseTokens
          /\ workUnits' = [workUnits EXCEPT ![h.key] =
               [workUnits[h.key] EXCEPT !.lease = h.lease, !.leaseMs = d, !.leaseExpires = t + d]]
      BY <1>t, <1>5, HeartbeatWrites
    <3>2. PICK k \in Keys, l \in LeaseTokens : k = h.key /\ l = h.lease
      BY <3>1
    <3>3. workUnits' = [workUnits EXCEPT ![k] =
            [workUnits[k] EXCEPT !.lease = l, !.leaseMs = d, !.leaseExpires = t + d]]
      BY <3>1, <3>2
    <3>4. /\ workUnits'[k].leaseMs = d /\ d >= Lag
          /\ \A i \in Keys \ {k} : workUnits'[i] = workUnits[i]
      BY ZenonT(60), <1>t, <3>3, Written
    <3> QED
      BY <3>2, <3>4
  <2>3. CASE j = h.key
    BY <2>1, <2>2, <2>3 DEF Timely
  <2>4. CASE j # h.key
    BY <1>t, <2>1, <2>2, <2>4, StaysTimely
  <2> QED
    BY <2>3, <2>4
<1>6. ASSUME NEW h \in handles, Release(h) PROVE Goal
  <2>1. now' = now /\ tx' = tx
        /\ workUnits' = [workUnits EXCEPT ![h.key] = Freed(workUnits[h.key])]
    BY <1>6 DEF Release
  <2>2. workUnits'[j] = workUnits[j] \/ workUnits'[j] = Freed(workUnits[j])
    BY <1>t, <2>1
  <2>3. Freed(workUnits[j]).lease = None
    BY <1>t, FreedRow
  <2> QED
    BY <1>t, <2>1, <2>2, <2>3, StaysTimely
<1>7. ASSUME NEW t \in 0 .. now, ReapLeases(t) PROVE Goal
  <2>1. now' = now /\ tx' = tx
    BY <1>7 DEF ReapLeases
  <2>2. workUnits'[j] = workUnits[j] \/ workUnits'[j] = Freed(workUnits[j])
    BY <1>7 DEF ReapLeases
  <2>3. Freed(workUnits[j]).lease = None
    BY <1>t, FreedRow
  <2> QED
    BY <1>t, <2>1, <2>2, <2>3, StaysTimely
<1>8. CASE ReapFlush
  <2>1. now' = now /\ tx' = tx
    BY <1>8 DEF ReapFlush
  <2>2. workUnits'[j].lease = workUnits[j].lease /\ workUnits'[j].leaseMs = workUnits[j].leaseMs
    BY <1>t, <1>8 DEF ReapFlush, Row
  <2> QED
    BY <1>t, <2>1, <2>2, StaysTimely
<1>9. ASSUME NEW k \in Keys, Rollback(k) PROVE Goal
  <2>1. now' = now /\ tx' = [tx EXCEPT ![k] = None] /\ workUnits' = workUnits
    BY <1>9 DEF Rollback, End, tables
  <2>2. tx'[j] \in {None, tx[j]}
    BY <1>t, <2>1
  <2> QED
    BY <1>t, <2>1, <2>2, StaysTimely
<1>10. CASE Tick
  <2>1. /\ now' = now + 1 /\ tx' = tx /\ workUnits' = workUnits
        /\ tx[j] # None => now - tx[j].at < Lag
    BY <1>10 DEF Tick, tables
  <2>2. tx[j] # None => tx[j].at \in Nat
    BY <1>t, TypesAt
  <2> QED
    BY <1>t, <2>1, <2>2 DEF Timely
<1>11. CASE \/ ReapFlushFails
            \/ \E h \in handles : DrainCheck(h) \/ DrainRead(h)
  <2>1. now' = now /\ tx' = tx /\ workUnits' = workUnits
    BY <1>11 DEF ReapFlushFails, DrainCheck, DrainRead, tables
  <2> QED
    BY <1>t, <2>1, StaysTimely
<1> QED
  BY <1>1, <1>2, <1>3, <1>4, <1>5, <1>6, <1>7, <1>8, <1>9, <1>10, <1>11 DEF Next

\* Timely holds throughout.
LEMMA TimelyInvariant == Spec => [](PgInv /\ Timely)
<1>1. Init => Timely
  BY DEF Init, Timely, NoRow
<1>2. PgInv /\ Timely /\ [Next]_vars => Timely'
  <2>1. ASSUME Timely, UNCHANGED vars PROVE Timely'
    BY <2>1 DEF vars, Timely
  <2> QED
    BY <2>1, TimelyStep
<1> QED
  BY <1>1, <1>2, PgInvariant, PTL DEF Spec

\* The i-th task, or one behind it, has aged.
HasAged(ts, i) == \E n \in i .. Len(ts) : now >= ts[n].enqueuedAt + MaxWait

\* Payloads being distinct, a task's age can be read off its payload.
LEMMA AgedAt ==
  ASSUME NEW ts \in Seq(TaskRow), NEW a \in Nat,
         \A i \in 1 .. Len(ts) : ts[i].payload = a - Len(ts) + i,
         NEW i \in 1 .. Len(ts)
  PROVE  ts[i].payload \in Aged(ts) <=> HasAged(ts, i)
<1>1. Len(ts) \in Nat /\ DOMAIN ts = 1 .. Len(ts)
  BY RowsAt
<1>2. ASSUME ts[i].payload \in Aged(ts) PROVE HasAged(ts, i)
  <2>1. PICK j \in 1 .. Len(ts) : HasAged(ts, j) /\ ts[i].payload = ts[j].payload
    BY <1>1, <1>2 DEF Aged, HasAged
  <2>2. a - Len(ts) + i = a - Len(ts) + j
    BY <2>1
  <2>3. i = j
    BY <1>1, <2>2
  <2> QED
    BY <2>1, <2>3
<1>3. ASSUME HasAged(ts, i) PROVE ts[i].payload \in Aged(ts)
  BY <1>1, <1>3 DEF Aged, HasAged
<1> QED
  BY <1>2, <1>3

\* Aged, in terms of HasAged.
LEMMA AgedIs ==
  ASSUME NEW ts \in Seq(TaskRow)
  PROVE  Aged(ts) = {ts[i].payload : i \in {j \in 1 .. Len(ts) : HasAged(ts, j)}}
<1>1. DOMAIN ts = 1 .. Len(ts)
  BY RowsAt
<1> QED
  BY <1>1 DEF Aged, HasAged

\* The first n rows go, the others stay but for their attempts.
LEMMA AgedDrop ==
  ASSUME NEW ts \in Seq(TaskRow), NEW us \in Seq(TaskRow), NEW a \in Nat, now \in Nat,
         NEW n \in 0 .. Len(ts), Len(us) = Len(ts) - n,
         \A i \in 1 .. Len(ts) : ts[i].payload = a - Len(ts) + i,
         \A i \in 1 .. (Len(ts) - n) : SameTask(us[i], ts[n + i])
  PROVE  /\ Stripped(us) = Suffix(Stripped(ts), n)
         /\ Aged(us) = Aged(ts) \cap Payloads(Stripped(us))
<1>1. /\ Len(ts) \in Nat /\ Len(us) \in Nat
      /\ DOMAIN us = 1 .. Len(us) /\ \A i \in DOMAIN us : us[i].enqueuedAt \in Nat
  BY RowsAt
<1>2. /\ Stripped(ts) \in Seq(Task) /\ Len(Stripped(ts)) = Len(ts)
      /\ \A i \in 1 .. Len(ts) : Stripped(ts)[i] = TaskOf(ts[i])
  BY StrippedRows
<1>3. /\ Stripped(us) \in Seq(Task) /\ Len(Stripped(us)) = Len(us)
      /\ \A i \in 1 .. Len(us) : Stripped(us)[i] = TaskOf(us[i])
  BY StrippedRows
<1>4. /\ Suffix(Stripped(ts), n) \in Seq(Task) /\ Len(Suffix(Stripped(ts), n)) = Len(ts) - n
      /\ \A i \in 1 .. Len(ts) - n : Suffix(Stripped(ts), n)[i] = Stripped(ts)[n + i]
  BY <1>2, SuffixProperties
<1>5. \A i \in 1 .. Len(us) : n + i \in 1 .. Len(ts) /\ SameTask(us[i], ts[n + i])
  BY <1>1
<1>6. \A i \in 1 .. Len(us) : Stripped(us)[i] = Suffix(Stripped(ts), n)[i]
  <2> SUFFICES ASSUME NEW i \in 1 .. Len(us) PROVE Stripped(us)[i] = Suffix(Stripped(ts), n)[i]
    OBVIOUS
  <2>1. TaskOf(us[i]) = TaskOf(ts[n + i])
    BY <1>5 DEF SameTask, TaskOf
  <2> QED
    BY <1>2, <1>3, <1>4, <1>5, <2>1
<1>7. Stripped(us) = Suffix(Stripped(ts), n)
  BY <1>3, <1>4, <1>6, SeqEqual
<1>8. \A i \in 1 .. Len(us) : HasAged(us, i) <=> HasAged(ts, n + i)
  <2> SUFFICES ASSUME NEW i \in 1 .. Len(us) PROVE HasAged(us, i) <=> HasAged(ts, n + i)
    OBVIOUS
  <2>1. ASSUME NEW m \in i .. Len(us), now >= us[m].enqueuedAt + MaxWait PROVE HasAged(ts, n + i)
    <3>1. m \in 1 .. Len(us) /\ n + m \in (n + i) .. Len(ts)
      BY <1>1
    <3>2. us[m].enqueuedAt = ts[n + m].enqueuedAt
      BY <1>5, <3>1 DEF SameTask
    <3> QED
      BY <2>1, <3>1, <3>2 DEF HasAged
  <2>2. ASSUME NEW m \in (n + i) .. Len(ts), now >= ts[m].enqueuedAt + MaxWait PROVE HasAged(us, i)
    <3>1. m - n \in i .. Len(us) /\ m - n \in 1 .. Len(us) /\ n + (m - n) = m
      BY <1>1
    <3>2. us[m - n].enqueuedAt = ts[m].enqueuedAt
      BY <1>5, <3>1 DEF SameTask
    <3> QED
      BY <2>2, <3>1, <3>2 DEF HasAged
  <2> QED
    BY <2>1, <2>2 DEF HasAged
<1>9. \A i \in 1 .. Len(us) : us[i].payload \in Aged(ts) <=> HasAged(us, i)
  <2> SUFFICES ASSUME NEW i \in 1 .. Len(us) PROVE us[i].payload \in Aged(ts) <=> HasAged(us, i)
    OBVIOUS
  <2>1. n + i \in 1 .. Len(ts) /\ us[i].payload = ts[n + i].payload
    BY <1>5 DEF SameTask
  <2>2. ts[n + i].payload \in Aged(ts) <=> HasAged(ts, n + i)
    BY <2>1, AgedAt
  <2> QED
    BY <1>8, <2>1, <2>2
<1>10. Payloads(Stripped(us)) = {us[i].payload : i \in 1 .. Len(us)}
  <2>1. DOMAIN Stripped(us) = 1 .. Len(us)
    BY <1>3, LenProperties
  <2>2. ASSUME NEW i \in 1 .. Len(us) PROVE Stripped(us)[i].payload = us[i].payload
    <3>1. Stripped(us)[i] = TaskOf(us[i])
      BY <1>3
    <3>2. TaskOf(us[i]).payload = us[i].payload
      BY DEF TaskOf
    <3> QED
      BY <3>1, <3>2
  <2> QED
    BY <2>1, <2>2 DEF Payloads
<1>11. Aged(us) = {us[i].payload : i \in {j \in 1 .. Len(us) : HasAged(us, j)}}
  BY AgedIs
<1>12. Aged(us) = Aged(ts) \cap Payloads(Stripped(us))
  BY <1>9, <1>10, <1>11
<1> QED
  BY <1>7, <1>12

\* A row that just joined has not aged.
LEMMA AgedAppend ==
  ASSUME NEW ts \in Seq(TaskRow), NEW r \in TaskRow, now \in Nat, ~(now >= r.enqueuedAt + MaxWait)
  PROVE  /\ Stripped(Append(ts, r)) = Append(Stripped(ts), TaskOf(r))
         /\ Aged(Append(ts, r)) = Aged(ts)
<1> DEFINE us == Append(ts, r)
           len == Len(ts)
<1>1. len \in Nat /\ DOMAIN ts = 1 .. len
  BY RowsAt
<1>2. /\ us \in Seq(TaskRow) /\ Len(us) = len + 1
      /\ us[len + 1] = r /\ \A i \in 1 .. len : us[i] = ts[i]
  BY AppendElements
<1>3. /\ Stripped(ts) \in Seq(Task) /\ Len(Stripped(ts)) = len
      /\ \A i \in 1 .. len : Stripped(ts)[i] = TaskOf(ts[i])
  BY StrippedRows
<1> HIDE DEF us, len
<1>4. /\ Stripped(us) \in Seq(Task) /\ Len(Stripped(us)) = len + 1
      /\ \A i \in 1 .. len + 1 : Stripped(us)[i] = TaskOf(us[i])
  BY <1>2, StrippedRows
<1>5. TaskOf(r) \in Task
  BY DEF TaskOf, TaskRow, Task
<1>6. /\ Append(Stripped(ts), TaskOf(r)) \in Seq(Task)
      /\ Len(Append(Stripped(ts), TaskOf(r))) = len + 1
      /\ Append(Stripped(ts), TaskOf(r))[len + 1] = TaskOf(r)
      /\ \A i \in 1 .. len : Append(Stripped(ts), TaskOf(r))[i] = Stripped(ts)[i]
  BY <1>3, <1>5, AppendElements
<1>7. \A i \in 1 .. len + 1 : i \in 1 .. len \/ i = len + 1
  BY <1>1
<1>8. Stripped(us) = Append(Stripped(ts), TaskOf(r))
  <2>1. \A i \in 1 .. len + 1 : Stripped(us)[i] = Append(Stripped(ts), TaskOf(r))[i]
    BY <1>2, <1>3, <1>4, <1>6, <1>7
  <2> QED
    BY <1>4, <1>6, <2>1, SeqEqual
<1>9. ~HasAged(us, len + 1)
  <2>1. \A n \in (len + 1) .. (len + 1) : n = len + 1
    BY <1>1
  <2> QED
    BY <1>2, <2>1 DEF HasAged
<1>10. \A i \in 1 .. len : HasAged(us, i) <=> HasAged(ts, i)
  <2> SUFFICES ASSUME NEW i \in 1 .. len PROVE HasAged(us, i) <=> HasAged(ts, i)
    OBVIOUS
  <2>1. i .. (len + 1) = (i .. len) \cup {len + 1} /\ i .. len \subseteq 1 .. len
    BY <1>1
  <2> QED
    BY <1>2, <2>1 DEF HasAged, len
<1>11. {j \in 1 .. len + 1 : HasAged(us, j)} = {j \in 1 .. len : HasAged(ts, j)}
  <2>1. 1 .. len \subseteq 1 .. len + 1
    BY <1>1
  <2> QED
    BY <1>7, <1>9, <1>10, <2>1
<1>12. Aged(us) = Aged(ts)
  <2>1. Aged(us) = {us[i].payload : i \in {j \in 1 .. len + 1 : HasAged(us, j)}}
    BY <1>2, AgedIs
  <2>2. Aged(ts) = {ts[i].payload : i \in {j \in 1 .. len : HasAged(ts, j)}}
    BY AgedIs DEF len
  <2>3. \A i \in {j \in 1 .. len : HasAged(ts, j)} : us[i].payload = ts[i].payload
    BY <1>2
  <2> QED
    BY <1>11, <2>1, <2>2, <2>3
<1> QED
  BY <1>8, <1>12 DEF us

\* The gate of the contract, on what the rows say.
LEMMA WorthIs ==
  ASSUME NEW ts \in Seq(TaskRow), now \in Nat,
         Cost(ts) >= Threshold \/ \E i \in 1 .. Len(ts) : ts[i].enqueuedAt + MaxWait <= now
  PROVE  Worth(Stripped(ts), Aged(ts))
<1>1. /\ Len(ts) \in Nat /\ DOMAIN ts = 1 .. Len(ts)
      /\ \A i \in 1 .. Len(ts) : ts[i].enqueuedAt \in Nat
  BY RowsAt
<1>2. /\ Stripped(ts) \in Seq(Task) /\ Len(Stripped(ts)) = Len(ts)
      /\ Cost(Stripped(ts)) = Cost(ts)
      /\ \A i \in 1 .. Len(ts) : Stripped(ts)[i] = TaskOf(ts[i])
  BY StrippedRows
<1>3. CASE Cost(ts) >= Threshold
  <2>1. Stripped(ts) # <<>>
    BY <1>2, <1>3, CostEmpty
  <2> QED
    BY <1>2, <1>3, <2>1 DEF Worth
<1>4. ASSUME NEW i \in 1 .. Len(ts), ts[i].enqueuedAt + MaxWait <= now
      PROVE  Worth(Stripped(ts), Aged(ts))
  <2>1. 1 \in 1 .. Len(ts) /\ i \in 1 .. Len(ts) /\ now >= ts[i].enqueuedAt + MaxWait
    BY <1>1, <1>4
  <2>2. ts[1].payload \in Aged(ts)
    BY <2>1, AgedIs DEF HasAged
  <2>3. Stripped(ts)[1].payload = ts[1].payload
    <3>1. Stripped(ts)[1] = TaskOf(ts[1])
      BY <1>2, <2>1
    <3>2. TaskOf(ts[1]).payload = ts[1].payload
      BY DEF TaskOf
    <3> QED
      BY <3>1, <3>2
  <2>4. Stripped(ts) # <<>>
    BY <1>2, <2>1, EmptySeq
  <2> QED
    BY <2>2, <2>3, <2>4 DEF Worth
<1> QED
  BY <1>3, <1>4

\* n tasks leave the head of k, the rest of the table stays.
LEMMA UnitDropped ==
  ASSUME Types, Types', Arrivals, now' = now, NEW k \in Keys, NEW n, Dropped(k, n),
         \A j \in Keys \ {k} : tasks'[j] = tasks[j]
  PROVE  /\ n \in 0 .. MaxTasks /\ n <= Len(Queues[k])
         /\ Queues' = [Queues EXCEPT ![k] = Suffix(Queues[k], n)]
         /\ Ages' = [Ages EXCEPT ![k] = Ages[k] \cap Payloads(Suffix(Queues[k], n))]
         /\ Suffix(Queues[k], n) = Stripped(tasks'[k])
         /\ Aged(tasks'[k]) \subseteq Ages[k]
<1>1. PICK ts \in Seq(TaskRow) : ts = tasks[k]
  BY DEF Types, TypeOK
<1>2. PICK us \in Seq(TaskRow) : us = tasks'[k]
  BY DEF Types, TypeOK
<1>3. PICK a \in Nat : a = arrived[k] /\ a <= MaxTasks /\ now \in Nat
  BY TypesAt
<1>4. Len(ts) <= a /\ \A i \in 1 .. Len(ts) : ts[i].payload = a - Len(ts) + i
  BY <1>1, <1>3 DEF Arrivals, FifoIntact
<1>5. /\ n \in 0 .. Len(ts) /\ Len(us) = Len(ts) - n
      /\ \A i \in 1 .. (Len(ts) - n) : SameTask(us[i], ts[n + i])
  BY <1>1, <1>2 DEF Dropped
<1>6. /\ Stripped(us) = Suffix(Stripped(ts), n)
      /\ Aged(us) = Aged(ts) \cap Payloads(Stripped(us))
  BY <1>3, <1>4, <1>5, AgedDrop
<1>7. Len(Stripped(ts)) = Len(ts) /\ Len(ts) \in Nat
  BY StrippedRows, RowsAt
<1>8. Queues[k] = Stripped(ts) /\ Ages[k] = Aged(ts)
  BY <1>1 DEF Queues, Ages
<1>9. n \in 0 .. MaxTasks /\ n <= Len(Queues[k])
  BY <1>3, <1>4, <1>5, <1>7, <1>8
<1>10. Queues' = [Queues EXCEPT ![k] = Stripped(us)]
  <2>1. Queues' = [j \in Keys |-> Stripped(tasks'[j])]
    BY DEF Queues, Stripped
  <2>2. \A j \in Keys : Stripped(tasks'[j]) = IF j = k THEN Stripped(us) ELSE Stripped(tasks[j])
    BY <1>2
  <2> QED
    BY <2>1, <2>2 DEF Queues
<1>11. Ages' = [Ages EXCEPT ![k] = Aged(us)]
  <2>1. Ages' = [j \in Keys |-> Aged(tasks'[j])]
    BY DEF Ages, Aged
  <2>2. \A j \in Keys : Aged(tasks'[j]) = IF j = k THEN Aged(us) ELSE Aged(tasks[j])
    BY <1>2
  <2> QED
    BY <2>1, <2>2 DEF Ages
<1> QED
  BY <1>2, <1>6, <1>8, <1>9, <1>10, <1>11

\* Nothing leaves k: at most a task's attempts change.
LEMMA UnitStays ==
  ASSUME Types, Types', Arrivals, now' = now, NEW k \in Keys, Dropped(k, 0),
         \A j \in Keys \ {k} : tasks'[j] = tasks[j]
  PROVE  Queues' = Queues /\ Ages' = Ages
<1>1. PICK ts \in Seq(TaskRow) : ts = tasks[k]
  BY DEF Types, TypeOK
<1>2. Queues[k] = Stripped(ts) /\ Ages[k] = Aged(ts)
  BY <1>1 DEF Queues, Ages
<1>3. /\ Stripped(ts) \in Seq(Task) /\ Len(Stripped(ts)) = Len(ts) /\ Len(ts) \in Nat
      /\ DOMAIN ts = 1 .. Len(ts)
      /\ \A i \in 1 .. Len(ts) : Stripped(ts)[i] = TaskOf(ts[i])
  BY StrippedRows, RowsAt
<1>4. Suffix(Stripped(ts), 0) = Stripped(ts)
  <2>1. /\ Suffix(Stripped(ts), 0) \in Seq(Task) /\ Len(Suffix(Stripped(ts), 0)) = Len(ts) - 0
        /\ \A i \in 1 .. Len(ts) - 0 : Suffix(Stripped(ts), 0)[i] = Stripped(ts)[0 + i]
    BY <1>3, SuffixProperties
  <2>2. Len(ts) - 0 = Len(ts) /\ \A i \in 1 .. Len(ts) : 0 + i = i
    BY <1>3
  <2> QED
    BY <1>3, <2>1, <2>2, SeqEqual
<1>5. Aged(ts) \subseteq Payloads(Stripped(ts))
  <2>1. Aged(ts) = {ts[i].payload : i \in {j \in 1 .. Len(ts) : HasAged(ts, j)}}
    BY AgedIs
  <2>2. DOMAIN Stripped(ts) = 1 .. Len(ts)
    BY <1>3 DEF Stripped
  <2>3. \A i \in 1 .. Len(ts) : Stripped(ts)[i].payload = ts[i].payload
    BY <1>3 DEF Stripped, TaskOf
  <2> QED
    BY <2>1, <2>2, <2>3 DEF Payloads
<1>6. /\ Queues' = [Queues EXCEPT ![k] = Suffix(Queues[k], 0)]
      /\ Ages' = [Ages EXCEPT ![k] = Ages[k] \cap Payloads(Suffix(Queues[k], 0))]
  BY UnitDropped
<1>7. /\ Suffix(Queues[k], 0) = Queues[k]
      /\ Ages[k] \cap Payloads(Suffix(Queues[k], 0)) = Ages[k]
  BY <1>2, <1>4, <1>5
<1> QED
  BY <1>6, <1>7 DEF Queues, Ages

\* The table of tasks stays, and the clock.
LEMMA TasksStay ==
  ASSUME tasks' = tasks, now' = now
  PROVE  Queues' = Queues /\ Ages' = Ages
  BY DEF Queues, Ages, Stripped, Aged

\* A row joins the table under the next seq, too young to have aged.
LEMMA EnqueueStep ==
  ASSUME PgInv, NEW k \in Keys, NEW c \in Costs, NEW t \in Clocks, Enqueue(k, c, t)
  PROVE  Contract!Next
<1>t. /\ Types /\ workUnits \in [Keys -> Row] /\ workUnits[k] \in Row /\ now \in Nat
      /\ tasks \in [Keys -> Seq(TaskRow)] /\ arrived \in [Keys -> 0 .. MaxTasks]
      /\ tasks[k] \in Seq(TaskRow)
  BY TypesAt DEF PgInv, Types, TypeOK
<1>1. PICK a \in Nat : a = arrived[k] /\ a < MaxTasks
  BY <1>t DEF Enqueue
<1>2. /\ workUnits[k].nextSeq = a - 1
      /\ \A i \in 1 .. Len(tasks[k]) : /\ tasks[k][i].payload = a - Len(tasks[k]) + i
                                       /\ tasks[k][i].seq = tasks[k][i].payload - 1
  BY <1>1 DEF PgInv, Arrivals, FifoIntact
<1>3. a - 1 + 1 = a /\ a \in 0 .. (MaxTasks - 1)
  BY <1>1
<1> DEFINE r == [seq |-> a, payload |-> a + 1, cost |-> c, attempts |-> 0, enqueuedAt |-> t]
<1>4. /\ tasks' = [tasks EXCEPT ![k] = Append(tasks[k], r)]
      /\ arrived' = [arrived EXCEPT ![k] = a + 1]
      /\ UNCHANGED <<deadLetters, handles, now>>
  BY <1>1, <1>2, <1>3 DEF Enqueue
<1>5. t \in Nat /\ now - t <= Lag /\ ~(now >= t + MaxWait)
  BY <1>t, PostgresClock DEF Clocks
<1>6. /\ r \in TaskRow /\ r.enqueuedAt = t
      /\ TaskOf(r) = [seq |-> a, payload |-> a + 1, cost |-> c]
  BY <1>1, <1>5 DEF TaskRow, TaskOf
<1> HIDE DEF r
<1>7. /\ Stripped(Append(tasks[k], r)) = Append(Stripped(tasks[k]), TaskOf(r))
      /\ Aged(Append(tasks[k], r)) = Aged(tasks[k])
  BY <1>t, <1>5, <1>6, AgedAppend
<1>8. \A j \in Keys : tasks'[j] = IF j = k THEN Append(tasks[k], r) ELSE tasks[j]
  BY <1>t, <1>4
<1>9. Queues' = [Queues EXCEPT ![k] = Append(Queues[k], [seq |-> a, payload |-> a + 1, cost |-> c])]
  <2>1. Queues' = [j \in Keys |-> Stripped(tasks'[j])]
    BY DEF Queues, Stripped
  <2>2. \A j \in Keys : Stripped(tasks'[j]) =
          IF j = k THEN Append(Stripped(tasks[k]), TaskOf(r)) ELSE Stripped(tasks[j])
    BY <1>7, <1>8
  <2> QED
    BY <1>6, <2>1, <2>2 DEF Queues
<1>10. Ages' = Ages
  <2>1. Ages' = [j \in Keys |-> Aged(tasks'[j])]
    BY <1>4 DEF Ages, Aged
  <2>2. \A j \in Keys : Aged(tasks'[j]) = Aged(tasks[j])
    BY <1>7, <1>8
  <2> QED
    BY <2>1, <2>2 DEF Ages
<1>11. \A i \in DOMAIN Queues[k] : Queues[k][i].seq < a
  <2>1. Queues[k] = Stripped(tasks[k])
    BY DEF Queues
  <2>2. /\ DOMAIN Stripped(tasks[k]) = 1 .. Len(tasks[k]) /\ Len(tasks[k]) \in Nat
        /\ \A i \in 1 .. Len(tasks[k]) : Stripped(tasks[k])[i].seq = tasks[k][i].seq
    BY <1>t, RowsAt, StrippedRows DEF Stripped
  <2>3. ASSUME NEW i \in 1 .. Len(tasks[k]) PROVE Stripped(tasks[k])[i].seq < a
    <3>1. /\ tasks[k][i].seq = tasks[k][i].payload - 1
          /\ tasks[k][i].payload = a - Len(tasks[k]) + i
      BY <1>2
    <3>2. tasks[k][i].seq < a
      BY <1>1, <2>2, <3>1
    <3>3. Stripped(tasks[k])[i].seq = tasks[k][i].seq
      BY <2>2
    <3> QED
      BY <3>2, <3>3
  <2> QED
    BY <2>1, <2>2, <2>3
<1>12. \A j \in Keys : /\ workUnits'[j].lease = workUnits[j].lease
                       /\ workUnits'[j].leaseExpires = workUnits[j].leaseExpires
  BY <1>t DEF Enqueue, Row
<1>13. UNCHANGED <<Holders, Lapsed, handles, Dead>>
  BY <1>4, <1>12 DEF Holders, Lapsed, Dead
<1> QED
  BY <1>1, <1>3, <1>4, <1>9, <1>10, <1>11, <1>13, ContractEnqueue

\* The row that Claim leases is worth it, and its token is new.
LEMMA ClaimStep ==
  ASSUME PgInv, NEW k \in Keys, NEW d \in LeaseDurs, NEW t \in Clocks, NEW locked \in SUBSET Keys,
         Claim(k, d, t, locked)
  PROVE  Contract!Next
<1>t. Types /\ now \in Nat /\ tasks[k] \in Seq(TaskRow) /\ workUnits[k] \in Row
  BY TypesAt DEF PgInv
<1>1. issued + 1 \in LeaseTokens /\ issued \in Nat
  <2>1. issued + 1 \in LeaseTokens
    BY <1>t, StepClaim
  <2> QED
    BY <1>t, <2>1 DEF Types, TypeOK
<1>2. PICK l \in LeaseTokens : l = issued + 1
  BY <1>1
<1>w. workUnits' = [workUnits EXCEPT ![k] =
        [workUnits[k] EXCEPT !.lease = l, !.leaseMs = d, !.leaseExpires = t + d]]
  BY <1>2 DEF Claim
<1>3. /\ workUnits'[k].lease = l /\ ~(workUnits'[k].leaseExpires < now)
      /\ \A j \in Keys \ {k} : workUnits'[j] = workUnits[j]
  <2>1. /\ workUnits'[k].lease = l /\ workUnits'[k].leaseMs = d
        /\ workUnits'[k].leaseExpires = t + d
        /\ d >= Lag /\ ~(t + d < now) /\ now - t <= Lag
        /\ \A j \in Keys \ {k} : workUnits'[j] = workUnits[j]
    BY <1>t, <1>w, Written
  <2> QED
    BY <2>1
<1>4. /\ workUnits[k].lease = None /\ workUnits[k].eligible
      /\ handles' = handles \cup {[key |-> k, lease |-> l]}
      /\ UNCHANGED <<tasks, deadLetters, now, arrived>>
  BY <1>2 DEF Claim, Claimable
<1>5. Worth(Queues[k], Ages[k])
  <2>1. \/ Cost(tasks[k]) >= Threshold
        \/ \E i \in DOMAIN tasks[k] : tasks[k][i].enqueuedAt + MaxWait <= now
    BY <1>4 DEF PgInv, Gate, GateOf
  <2>2. DOMAIN tasks[k] = 1 .. Len(tasks[k])
    BY <1>t, RowsAt
  <2> QED
    BY <1>t, <2>1, <2>2, WorthIs DEF Queues, Ages
<1>6. \A h \in handles : h.lease # l
  <2>1. \A h \in handles : h.lease <= issued /\ h.lease \in Nat
    BY ZenonT(60), <1>t, TokensCount DEF PgInv, Leases, Types, TypeOK, ClaimedUnit
  <2> QED
    BY <1>1, <1>2, <2>1
<1>7. \A j \in Keys : Holders[j] # l
  <2>1. ASSUME NEW j \in Keys, workUnits[j].lease = l PROVE FALSE
    <3>1. [key |-> j, lease |-> workUnits[j].lease] \in handles
      BY <2>1, TokensCount DEF PgInv, Leases
    <3> QED
      BY <1>6, <2>1, <3>1
  <2> QED
    BY <2>1 DEF Holders
<1>8. Holders' = [Holders EXCEPT ![k] = l]
  BY <1>3 DEF Holders
<1>9. Lapsed' = Lapsed
  BY <1>3, <1>4 DEF Lapsed
<1>10. Holders[k] = None /\ UNCHANGED <<Queues, arrived, Ages, Dead>>
  BY <1>4, TasksStay DEF Holders, Dead
<1> QED
  BY <1>4, <1>5, <1>6, <1>7, <1>8, <1>9, <1>10, ContractClaim

\* The lease of the row a transaction has locked, as a handle.
LEMMA LockedHandle ==
  ASSUME Types, Leases, NEW k \in Keys, tx[k] # None
  PROVE  /\ [key |-> k, lease |-> workUnits[k].lease] \in handles
         /\ workUnits[k].lease # None
<1>1. tx[k].by.lease \in LeaseTokens /\ tx[k].by.lease = workUnits[k].lease
  BY TypesAt DEF Leases
<1> QED
  BY <1>1, TokensCount DEF Leases

\* The lease of k is given up, everybody else's stays.
LEMMA LeaseGiven ==
  ASSUME NEW k \in Keys, NEW h, h.key = k, now' = now, workUnits'[k].lease = None,
         \A j \in Keys \ {k} : /\ workUnits'[j].lease = workUnits[j].lease
                               /\ workUnits'[j].leaseExpires = workUnits[j].leaseExpires
  PROVE  Gives(h)
<1>1. Holders' = [Holders EXCEPT ![k] = None]
  BY DEF Holders
<1>2. Lapsed' = Lapsed \ {k}
  BY DEF Lapsed
<1> QED
  BY <1>1, <1>2 DEF Gives

\* What Ack's transaction commits: a prefix is gone, the lease renewed or given up.
LEMMA AckStep ==
  ASSUME PgInv, PgInv', Timely, NEW k \in Keys, NEW through \in Seqs, Ack(k, through)
  PROVE  Contract!Next
<1>t. /\ Types /\ Types' /\ Leases /\ Arrivals /\ Gate' /\ now \in Nat
      /\ workUnits[k].leaseMs \in Nat /\ (tx[k] # None => tx[k].at \in Nat)
      /\ tasks'[k] \in Seq(TaskRow)
  <2>1. Types /\ Types' /\ Leases /\ Arrivals /\ Gate'
    BY DEF PgInv
  <2>2. /\ now \in Nat /\ workUnits[k].leaseMs \in Nat
        /\ (tx[k] # None => tx[k].at \in 0 .. MaxNow)
    BY <2>1, TypesAt
  <2>3. tasks'[k] \in Seq(TaskRow)
    BY <2>1 DEF Types, TypeOK
  <2> QED
    BY <2>1, <2>2, <2>3
<1>1. PICK n \in 0 .. Len(tasks[k]) : Shrank(k, n)
  BY <1>t, StepAck
<1>2. /\ workUnits'[k].lease \in {None, workUnits[k].lease}
      /\ workUnits'[k].eligible => workUnits'[k].lease # None
      /\ workUnits'[k].lease # None =>
           workUnits'[k].leaseExpires = tx[k].at + workUnits[k].leaseMs
      /\ \A j \in Keys \ {k} : workUnits'[j] = workUnits[j] /\ tasks'[j] = tasks[j]
  BY <1>t, StepAck
<1>3. Dropped(k, n) /\ tx[k] # None /\ (workUnits'[k].lease # None => workUnits'[k].eligible)
  BY <1>1 DEF Shrank
<1>4. UNCHANGED <<deadLetters, arrived, handles, now>>
  BY DEF Ack, End
<1>5. PICK h \in handles : h = [key |-> k, lease |-> workUnits[k].lease]
  BY <1>t, <1>3, LockedHandle
<1>6. h.key = k /\ h.lease = workUnits[k].lease /\ workUnits[k].lease # None
  BY <1>t, <1>3, <1>5, LockedHandle
<1>7. /\ n \in 0 .. MaxTasks /\ n <= Len(Queues[k])
      /\ Queues' = [Queues EXCEPT ![k] = Suffix(Queues[k], n)]
      /\ Ages' = [Ages EXCEPT ![k] = Ages[k] \cap Payloads(Suffix(Queues[k], n))]
      /\ Suffix(Queues[k], n) = Stripped(tasks'[k])
      /\ Aged(tasks'[k]) \subseteq Ages[k]
  BY <1>t, <1>2, <1>3, <1>4, UnitDropped
<1>8. PICK us \in Seq(TaskRow) : us = tasks'[k]
  BY <1>t
<1>9. CASE workUnits'[k].eligible
  <2>1. Cost(us) >= Threshold \/ \E i \in DOMAIN us : us[i].enqueuedAt + MaxWait <= now
    BY <1>t, <1>4, <1>8, <1>9 DEF Gate, GateOf
  <2>2. DOMAIN us = 1 .. Len(us)
    BY RowsAt
  <2>3. Worth(Stripped(us), Aged(us))
    BY <1>t, <2>1, <2>2, WorthIs
  <2>4. Worth(Suffix(Queues[k], n), Ages[k])
    BY <1>7, <1>8, <2>3 DEF Worth
  <2>5. /\ workUnits'[k].lease = workUnits[k].lease
        /\ workUnits'[k].leaseExpires = tx[k].at + workUnits[k].leaseMs
    BY <1>2, <1>9
  <2>6. ~(tx[k].at + workUnits[k].leaseMs < now)
    <3>1. now - tx[k].at <= Lag /\ workUnits[k].leaseMs >= Lag
      BY <1>3, <1>6 DEF Timely
    <3> QED
      BY <1>t, <1>3, <3>1
  <2>7. Lapsed' = Lapsed \ {k}
    BY <1>2, <1>4, <2>5, <2>6 DEF Lapsed
  <2>8. Holders' = Holders
    BY <1>2, <2>5 DEF Holders
  <2>9. UNCHANGED <<arrived, handles, Dead>>
    BY <1>4 DEF Dead
  <2>10. Drops(h, n) /\ Holders[k] = h.lease
    BY <1>6, <1>7 DEF Drops, Holders
  <2> QED
    BY <1>6, <1>7, <2>4, <2>7, <2>8, <2>9, <2>10, ContractAck
<1>10. CASE ~workUnits'[k].eligible
  <2>1. ~(Cost(us) >= Threshold)
    BY <1>t, <1>8, <1>10 DEF Gate, GateOf
  <2>2. Cost(Stripped(us)) = Cost(us)
    BY StrippedRows
  <2>3. ~Worth(Suffix(Queues[k], n), {})
    BY <1>7, <1>8, <2>1, <2>2 DEF Worth
  <2>4. workUnits'[k].lease = None
    BY <1>3, <1>10
  <2>5. Gives(h)
    BY <1>2, <1>4, <1>6, <2>4, LeaseGiven
  <2>6. UNCHANGED <<arrived, handles, Dead>>
    BY <1>4 DEF Dead
  <2>7. Drops(h, n) /\ Holders[k] = h.lease
    BY <1>6, <1>7 DEF Drops, Holders
  <2> QED
    BY <1>6, <1>7, <2>3, <2>5, <2>6, <2>7, ContractAck
<1> QED
  BY <1>9, <1>10

\* What Fail's transaction commits: a dead letter or only the lease given up.
LEMMA FailStep ==
  ASSUME PgInv, NEW k \in Keys, NEW seq \in Seqs, Fail(k, seq)
  PROVE  Contract!Next
<1>t. /\ Types /\ Leases /\ Arrivals /\ tasks[k] \in Seq(TaskRow)
      /\ deadLetters \in Seq([key : Keys, task : TaskRow])
  BY TypesAt DEF PgInv, Types, TypeOK
<1>1. /\ Types' /\ workUnits'[k].lease = None
      /\ \A j \in Keys \ {k} : workUnits'[j] = workUnits[j] /\ tasks'[j] = tasks[j]
  BY <1>t, StepFail
<1>2. tx[k] # None /\ UNCHANGED <<arrived, handles, now>>
  BY DEF Fail, End
<1>3. PICK h \in handles : h = [key |-> k, lease |-> workUnits[k].lease]
  BY <1>t, <1>2, LockedHandle
<1>4. h.key = k /\ h.lease = workUnits[k].lease
  BY <1>3
<1>5. Gives(h) /\ Holders[k] = h.lease
  <2>1. Gives(h)
    BY <1>1, <1>2, <1>4, LeaseGiven
  <2> QED
    BY <1>4, <2>1 DEF Holders
<1>6. CASE Kept(k) /\ deadLetters' = deadLetters
  <2>1. Dropped(k, 0)
    BY <1>6 DEF Kept
  <2>2. Queues' = Queues /\ Ages' = Ages
    BY <1>t, <1>1, <1>2, <2>1, UnitStays
  <2>3. Dead' = Dead
    BY <1>6 DEF Dead
  <2> QED
    BY <1>2, <1>4, <1>5, <2>2, <2>3, ContractRelease
<1>7. CASE /\ Shrank(k, 1) /\ Poison(Counted(tasks[k], seq), seq)
           /\ deadLetters' = Append(deadLetters, [key |-> k, task |-> Counted(tasks[k], seq)[1]])
  <2>1. Dropped(k, 1)
    BY <1>7 DEF Shrank
  <2>2. /\ Queues' = [Queues EXCEPT ![k] = Suffix(Queues[k], 1)]
        /\ Ages' = [Ages EXCEPT ![k] = Ages[k] \cap Payloads(Suffix(Queues[k], 1))]
    BY <1>t, <1>1, <1>2, <2>1, UnitDropped
  <2>3. Drops(h, 1)
    BY <1>4, <2>2 DEF Drops
  <2>4. PICK ts \in Seq(TaskRow) : ts = tasks[k]
    BY <1>t
  <2>5. Len(ts) \in Nat /\ 1 \in 1 .. Len(ts)
    BY <2>1, <2>4, RowsAt DEF Dropped
  <2>6. seq \in Nat
    BY DEF Seqs
  <2>7. PICK q \in TaskRow : q = Counted(ts, seq)[1]
    <3>1. Counted(ts, seq) \in Seq(TaskRow) /\ Len(Counted(ts, seq)) = Len(ts)
      BY <2>6, CountedRows
    <3> QED
      BY <2>5, <3>1, RowsAt
  <2>8. SameTask(q, ts[1])
    BY <2>5, <2>6, <2>7, CountedRows
  <2>9. TaskOf(q) = TaskOf(ts[1])
    BY <2>8 DEF SameTask, TaskOf
  <2>10. /\ Stripped(ts) \in Seq(Task) /\ Len(Stripped(ts)) = Len(ts)
         /\ Stripped(ts)[1] = TaskOf(ts[1])
    BY <2>5, StrippedRows
  <2>11. Queues[k] = Stripped(ts)
    BY <2>4 DEF Queues
  <2>12. Queues[k] # <<>> /\ Queues[k][1] = TaskOf(q)
    BY <2>5, <2>9, <2>10, <2>11, EmptySeq
  <2>13. deadLetters' = Append(deadLetters, [key |-> k, task |-> q])
    BY <1>7, <2>4, <2>7
  <2>14. Dead' = Dead \cup {[key |-> k, task |-> TaskOf(q)]}
    <3>1. PICK e \in [key : Keys, task : TaskRow] : e = [key |-> k, task |-> q]
      OBVIOUS
    <3>2. e.key = k /\ e.task = q
      BY <3>1
    <3>3. PICK m \in Nat : m = Len(deadLetters) /\ DOMAIN deadLetters = 1 .. m
      BY <1>t, LenProperties
    <3>4. /\ DOMAIN deadLetters' = 1 .. (m + 1) /\ deadLetters'[m + 1] = e
          /\ \A i \in 1 .. m : deadLetters'[i] = deadLetters[i]
      <4>1. /\ Append(deadLetters, e) \in Seq([key : Keys, task : TaskRow])
            /\ Len(Append(deadLetters, e)) = Len(deadLetters) + 1
            /\ \A i \in 1 .. Len(deadLetters) : Append(deadLetters, e)[i] = deadLetters[i]
            /\ Append(deadLetters, e)[Len(deadLetters) + 1] = e
        BY <1>t, AppendElements
      <4>2. DOMAIN Append(deadLetters, e) = 1 .. Len(Append(deadLetters, e))
        BY <4>1, LenProperties
      <4> QED
        BY <2>13, <3>1, <3>3, <4>1, <4>2
    <3>5. 1 .. (m + 1) = (1 .. m) \cup {m + 1}
      BY <3>3
    <3>6. Dead' = {[key |-> deadLetters'[i].key, task |-> TaskOf(deadLetters'[i].task)] :
                     i \in DOMAIN deadLetters'}
      BY DEF Dead, TaskOf
    <3>7. Dead' = {[key |-> deadLetters[i].key, task |-> TaskOf(deadLetters[i].task)] : i \in 1 .. m}
                    \cup {[key |-> e.key, task |-> TaskOf(e.task)]}
      BY <3>4, <3>5, <3>6
    <3> QED
      BY <3>2, <3>3, <3>7 DEF Dead
  <2> QED
    BY <1>2, <1>4, <1>5, <2>3, <2>12, <2>14, ContractDeadLetter
<1> QED
  BY <1>t, <1>6, <1>7, StepFail

\* Release gives the lease up.
LEMMA ReleaseStep ==
  ASSUME PgInv, NEW h \in handles, Release(h)
  PROVE  Contract!Next
<1>1. PICK k \in Keys : k = h.key
  BY DEF PgInv, Types, TypeOK, ClaimedUnit
<1>2. workUnits \in [Keys -> Row] /\ workUnits[k] \in Row
  BY DEF PgInv, Types, TypeOK
<1>3. /\ workUnits[k].lease = h.lease
      /\ workUnits' = [workUnits EXCEPT ![k] = Freed(workUnits[k])]
      /\ UNCHANGED <<tasks, deadLetters, handles, now, arrived>>
  BY <1>1 DEF Release, Held
<1>4. workUnits'[k].lease = None /\ \A j \in Keys \ {k} : workUnits'[j] = workUnits[j]
  BY <1>2, <1>3, FreedRow
<1>5. Gives(h)
  BY <1>1, <1>3, <1>4, LeaseGiven
<1>6. UNCHANGED <<Queues, arrived, Ages, handles, Dead>>
  BY <1>3, TasksStay DEF Dead
<1>7. Holders[h.key] = h.lease
  BY <1>1, <1>3 DEF Holders
<1> QED
  BY <1>5, <1>6, <1>7, ContractRelease

\* Heartbeat's UPDATE renews the lease.
LEMMA HeartbeatStep ==
  ASSUME PgInv, NEW h \in handles, NEW d \in LeaseDurs, NEW t \in Clocks, Heartbeat(h, d, t)
  PROVE  Contract!Next
<1>t. Types
  BY DEF PgInv
<1>1. /\ h.key \in Keys /\ h.lease \in LeaseTokens /\ workUnits[h.key].lease = h.lease
      /\ workUnits' = [workUnits EXCEPT ![h.key] =
           [workUnits[h.key] EXCEPT !.lease = h.lease, !.leaseMs = d, !.leaseExpires = t + d]]
  BY <1>t, HeartbeatWrites
<1>2. PICK k \in Keys, l \in LeaseTokens : k = h.key /\ l = h.lease
  BY <1>1
<1>3. workUnits[k].lease = l
  BY <1>1, <1>2
<1>w. workUnits' = [workUnits EXCEPT ![k] =
        [workUnits[k] EXCEPT !.lease = l, !.leaseMs = d, !.leaseExpires = t + d]]
  BY <1>1, <1>2
<1>4. /\ workUnits'[k].lease = l /\ workUnits'[k].leaseMs = d
      /\ workUnits'[k].leaseExpires = t + d
      /\ d >= Lag /\ ~(t + d < now) /\ now - t <= Lag
      /\ \A j \in Keys \ {k} : workUnits'[j] = workUnits[j]
  BY <1>t, <1>w, Written
<1>5. UNCHANGED <<tasks, deadLetters, handles, now, arrived>>
  BY DEF Heartbeat
<1>6. UNCHANGED <<Queues, arrived, Ages, handles, Dead>>
  BY <1>5, TasksStay DEF Dead
<1>7. Holders' = Holders
  BY <1>3, <1>4 DEF Holders
<1>8. Lapsed' = Lapsed \ {k}
  BY <1>4, <1>5 DEF Lapsed
<1>9. Holders[h.key] = h.lease
  BY <1>1 DEF Holders
<1> QED
  BY <1>2, <1>6, <1>7, <1>8, <1>9, ContractHeartbeat

\* The reaper's first UPDATE frees leases that have run out, and only those.
LEMMA ReapStep ==
  ASSUME PgInv, NEW t \in 0 .. now, ReapLeases(t)
  PROVE  Contract!Next
<1>t. /\ now \in Nat /\ workUnits \in [Keys -> Row]
      /\ \A k \in Keys : workUnits[k].lease # None => workUnits[k].leaseExpires \in Nat
  BY DEF PgInv, Types, TypeOK, Row
<1>1. UNCHANGED <<tasks, deadLetters, handles, now, arrived>>
  BY DEF ReapLeases
<1> DEFINE S == {k \in Keys : Expired(workUnits[k], t)}
<1>2. \A k \in Keys : workUnits'[k] = IF k \in S THEN Freed(workUnits[k]) ELSE workUnits[k]
  BY DEF ReapLeases
<1>3. S \in SUBSET Keys /\ S \subseteq Lapsed
  <2>1. ASSUME NEW k \in S PROVE k \in Lapsed
    <3>1. k \in Keys /\ workUnits[k].lease # None /\ workUnits[k].leaseExpires < t
      BY DEF Expired
    <3>2. workUnits[k].leaseExpires \in Nat
      BY <1>t, <3>1
    <3>3. workUnits[k].leaseExpires < now
      BY <1>t, <3>1, <3>2
    <3> QED
      BY <3>1, <3>3 DEF Lapsed
  <2> QED
    BY <2>1
<1>4. \A k \in Keys : Freed(workUnits[k]).lease = None
  BY <1>t, FreedRow
<1> HIDE DEF S
<1>5. Holders' = [k \in Keys |-> IF k \in S THEN None ELSE Holders[k]]
  BY <1>2, <1>4 DEF Holders
<1>6. Lapsed' = Lapsed \ S
  BY <1>1, <1>2, <1>4 DEF Lapsed
<1>7. UNCHANGED <<Queues, arrived, Ages, handles, Dead>>
  BY <1>1, TasksStay DEF Dead
<1> QED
  BY <1>3, <1>5, <1>6, <1>7, ContractReclaim

\* A task that has aged stays aged, and is one of the pending ones.
LEMMA AgesGrow ==
  ASSUME Types, Arrivals, tasks' = tasks, now' = now + 1, NEW k \in Keys
  PROVE  /\ Ages[k] \subseteq Ages'[k] /\ Ages'[k] \subseteq Payloads(Queues[k])
         /\ Ages'[k] \subseteq 1 .. MaxTasks
<1>1. PICK ts \in Seq(TaskRow) : ts = tasks[k]
  BY DEF Types, TypeOK
<1>2. PICK len \in Nat : /\ len = Len(ts) /\ DOMAIN ts = 1 .. len
                         /\ \A i \in 1 .. len : ts[i].enqueuedAt \in Nat
  BY RowsAt
<1>3. PICK a \in Nat : a = arrived[k] /\ a <= MaxTasks /\ now \in Nat
  BY TypesAt
<1>4. len <= a /\ \A i \in 1 .. len : ts[i].payload = a - len + i
  BY <1>1, <1>2, <1>3 DEF Arrivals, FifoIntact
<1> DEFINE Old(m, i) == \E n \in i .. len : m >= ts[n].enqueuedAt + MaxWait
<1>5. Ages[k] = {ts[i].payload : i \in {j \in 1 .. len : Old(now, j)}}
  BY <1>1, <1>2 DEF Ages, Aged
<1>6. Ages'[k] = {ts[i].payload : i \in {j \in 1 .. len : Old(now + 1, j)}}
  <2>1. Ages'[k] = Aged(tasks[k])'
    BY DEF Ages
  <2>2. Aged(tasks[k])' = {ts[i].payload : i \in {j \in 1 .. len : Old(now + 1, j)}}
    BY <1>1, <1>2 DEF Aged
  <2> QED
    BY <2>1, <2>2
<1>7. \A j \in 1 .. len : Old(now, j) => Old(now + 1, j)
  <2> SUFFICES ASSUME NEW j \in 1 .. len, NEW n \in j .. len, now >= ts[n].enqueuedAt + MaxWait
               PROVE  now + 1 >= ts[n].enqueuedAt + MaxWait
    OBVIOUS
  <2>1. n \in 1 .. len
    OBVIOUS
  <2>2. ts[n].enqueuedAt \in Nat
    BY <1>2, <2>1
  <2> QED
    BY <1>3, <2>2
<1>8. Payloads(Queues[k]) = {ts[i].payload : i \in 1 .. len}
  <2>1. Queues[k] = Stripped(ts)
    BY <1>1 DEF Queues
  <2>2. DOMAIN Stripped(ts) = 1 .. len /\ \A i \in 1 .. len : Stripped(ts)[i].payload = ts[i].payload
    BY <1>2 DEF Stripped, TaskOf
  <2> QED
    BY <2>1, <2>2 DEF Payloads
<1> HIDE DEF Old
<1>9. \A i \in 1 .. len : ts[i].payload \in 1 .. MaxTasks
  BY <1>3, <1>4
<1> QED
  BY <1>5, <1>6, <1>7, <1>8, <1>9

\* The clock moves on.
LEMMA TickStep ==
  ASSUME PgInv, Tick
  PROVE  Contract!Next
<1>t. /\ Types /\ Arrivals /\ now \in Nat
      /\ \A k \in Keys : workUnits[k].lease # None => workUnits[k].leaseExpires \in Nat
  BY DEF PgInv, Types, TypeOK, Row
<1>1. now' = now + 1 /\ UNCHANGED <<workUnits, tasks, deadLetters, handles, arrived>>
  BY DEF Tick, tables
<1>2. UNCHANGED <<Queues, arrived, Holders, handles, Dead>>
  BY <1>1 DEF Queues, Stripped, Holders, Dead
<1>3. \A k \in Keys : /\ Ages[k] \subseteq Ages'[k] /\ Ages'[k] \subseteq Payloads(Queues[k])
                      /\ Ages'[k] \subseteq 1 .. MaxTasks
  BY <1>t, <1>1, AgesGrow
<1>4. Ages' \in [Keys -> SUBSET (1 .. MaxTasks)]
  <2>1. Ages' = [k \in Keys |-> Ages'[k]]
    BY DEF Ages
  <2> QED
    BY <1>3, <2>1
<1>5. Lapsed' = {k \in Keys : workUnits[k].lease # None /\ workUnits[k].leaseExpires < now + 1}
  BY <1>1 DEF Lapsed
<1>6. Lapsed' \in SUBSET {k \in Keys : Holders[k] # None}
  BY <1>5 DEF Holders
<1>7. Lapsed \subseteq Lapsed'
  <2>1. ASSUME NEW k \in Lapsed PROVE k \in Lapsed'
    <3>1. k \in Keys /\ workUnits[k].lease # None /\ workUnits[k].leaseExpires < now
      BY DEF Lapsed
    <3>2. workUnits[k].leaseExpires \in Nat
      BY <1>t, <3>1
    <3>3. workUnits[k].leaseExpires < now + 1
      BY <1>t, <3>1, <3>2
    <3> QED
      BY <1>5, <3>1, <3>3
  <2> QED
    BY <2>1
<1> QED
  BY <1>2, <1>3, <1>4, <1>6, <1>7, ContractElapse

-----------------------------------------------------------------------------
(* The refinement. *)

\* Empty tables are the contract's initial state.
LEMMA ContractInit ==
  ASSUME Init
  PROVE  Contract!Init
<1>1. \A k \in Keys : tasks[k] = <<>> /\ workUnits[k].lease = None
  BY DEF Init, NoRow
<1>2. \A k \in Keys : Aged(tasks[k]) = {} /\ [i \in DOMAIN tasks[k] |-> TaskOf(tasks[k][i])] = <<>>
  BY <1>1 DEF Aged
<1>3. {[key |-> deadLetters[i].key, task |-> TaskOf(deadLetters[i].task)] :
         i \in DOMAIN deadLetters} = {}
  BY DEF Init
<1> QED
  BY <1>1, <1>2, <1>3 DEF Init, Contract!Init

\* What Drain, BEGIN, a rollback and the flush UPDATE do, the contract does not see.
Unseen == UNCHANGED <<Queues, arrived, Ages, Holders, Lapsed, handles, Dead>>

\* A step that changes nothing the contract sees is a stutter of it.
LEMMA UnseenStutters ==
  ASSUME Unseen
  PROVE  UNCHANGED Contract!vars
  BY DEF Unseen, Contract!vars, Queues, Ages, Aged, Holders, Lapsed, Dead, Stripped

\* What happens outside of commits is such a step.
LEMMA UnseenSteps ==
  ASSUME PgInv,
         \/ \E h \in handles, t \in Clocks : Begin(h, t)
         \/ \E h \in handles : DrainCheck(h) \/ DrainRead(h)
         \/ \E k \in Keys : Rollback(k)
         \/ ReapFlush \/ ReapFlushFails \/ UNCHANGED vars
  PROVE  Unseen
<1>1. UNCHANGED <<tasks, deadLetters, handles, now, arrived>>
  BY DEF Begin, DrainCheck, DrainRead, Rollback, End, ReapFlush, ReapFlushFails, tables, vars
<1>2. \A k \in Keys : /\ workUnits'[k].lease = workUnits[k].lease
                      /\ workUnits'[k].leaseExpires = workUnits[k].leaseExpires
  <2>1. CASE ReapFlush
    <3>1. workUnits \in [Keys -> Row]
      BY DEF PgInv, Types, TypeOK
    <3> QED
      BY <2>1, <3>1 DEF ReapFlush, Row
  <2>2. CASE ~ReapFlush
    <3>1. workUnits' = workUnits
      BY <2>2 DEF Begin, DrainCheck, DrainRead, Rollback, ReapFlushFails, tables, vars
    <3> QED
      BY <3>1
  <2> QED
    BY <2>1, <2>2
<1>3. Queues' = Queues /\ Ages' = Ages
  BY <1>1, TasksStay
<1>4. Holders' = Holders /\ Lapsed' = Lapsed /\ Dead' = Dead
  BY <1>1, <1>2 DEF Holders, Lapsed, Dead
<1> QED
  BY <1>1, <1>3, <1>4 DEF Unseen

\* Every step of the driver is a step of the contract, or one it does not see.
LEMMA ContractStep ==
  ASSUME PgInv, PgInv', Timely, [Next]_vars
  PROVE  [Contract!Next]_Contract!vars
<1>1. CASE \/ \E h \in handles, t \in Clocks : Begin(h, t)
           \/ \E h \in handles : DrainCheck(h) \/ DrainRead(h)
           \/ \E k \in Keys : Rollback(k)
           \/ ReapFlush \/ ReapFlushFails \/ UNCHANGED vars
  BY <1>1, UnseenSteps, UnseenStutters
<1>2. CASE \/ \E t \in Clocks, k \in Keys, c \in Costs : Enqueue(k, c, t)
           \/ \E t \in Clocks, k \in Keys, d \in LeaseDurs, locked \in SUBSET Keys :
                Claim(k, d, t, locked)
           \/ \E t \in Clocks, h \in handles, d \in LeaseDurs : Heartbeat(h, d, t)
           \/ \E h \in handles : Release(h)
           \/ \E k \in Keys, s \in Seqs : Ack(k, s) \/ Fail(k, s)
           \/ \E t \in 0 .. now : ReapLeases(t)
           \/ Tick
  <2>1. Contract!Next
    BY <1>2, EnqueueStep, ClaimStep, HeartbeatStep, ReleaseStep, AckStep, FailStep, ReapStep,
       TickStep
  <2> QED
    BY <2>1
<1> QED
  BY <1>1, <1>2 DEF Next

(***************************************************************************)
(* The Postgres driver implements the contract of queue.Backend for every  *)
(* set of keys, every option and every bound, its statements, transactions *)
(* and reaper interleaved in any way, as long as no transaction outlives a *)
(* lease or the flush cap: each commit does what QueueContract allows at   *)
(* that point, and everything else is invisible (backend.go).              *)
(***************************************************************************)
THEOREM PostgresImplements == Spec => ImplementsContract
<1>1. Init => Contract!Init
  BY ContractInit
<1>2. PgInv /\ PgInv' /\ Timely /\ [Next]_vars => [Contract!Next]_Contract!vars
  BY ContractStep
<1> QED
  BY <1>1, <1>2, TimelyInvariant, PTL DEF Spec, ImplementsContract, Contract!Spec
=============================================================================
