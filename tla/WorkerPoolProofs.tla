-------------------------- MODULE WorkerPoolProofs --------------------------
(***************************************************************************)
(* Proofs about the worker loop over the contract, for any number of       *)
(* workers, keys, tasks and faults.                                        *)
(***************************************************************************)
EXTENDS WorkerPool, WorkUnitLemmas

\* A FIFO of the contract: the most recent arrivals, under growing seqs.
QueueInv(ts, a) ==
  /\ Len(ts) <= a
  /\ \A i \in 1 .. Len(ts) : ts[i].payload = a - Len(ts) + i
  /\ \A i, j \in 1 .. Len(ts) : i < j => ts[i].seq < ts[j].seq

TypeInv ==
  /\ PoolTypeOK
  /\ queue \in [Keys -> Seq(Task)] /\ arrived \in [Keys -> 0 .. MaxTasks]
  /\ holder \in [Keys -> LeaseTokens \cup {NoToken}]
  /\ batch \in [Workers -> Seq(Task)] /\ at \in [Workers -> Nat]

\* No two workers have the same handle.
OwnHandles ==
  \A v, w \in Workers : unit[v] = unit[w] /\ unit[v] # NoHandle => v = w

\* Everything that left k's FIFO was processed.
Acked(k) == \A p \in 1 .. (arrived[k] - Len(queue[k])) : processed[k][p] > 0

Working(w) == pc[w] \in {"process", "ack"}

(***************************************************************************)
(* A batch is a run of consecutive arrivals, and every task before the one *)
(* its worker is to process next has been processed by somebody.  This     *)
(* holds of a worker whose lease is gone, too.                             *)
(***************************************************************************)
BatchInv(w) ==
  LET b == batch[w]
      k == unit[w].key
  IN  /\ Len(b) >= 1 /\ at[w] \in 1 .. (Len(b) + 1)
      /\ pc[w] = "ack" => at[w] = Len(b) + 1
      /\ \A i \in 1 .. Len(b) : /\ b[i].payload = b[1].payload + i - 1
                                /\ b[i].payload \in 1 .. arrived[k]
      /\ \A p \in 1 .. (b[1].payload + at[w] - 2) : processed[k][p] > 0

\* While the lease holds, the batch is the head of the unit.
Aligned(w) ==
  Held(unit[w]) =>
    /\ Len(batch[w]) <= Len(queue[unit[w].key])
    /\ \A i \in 1 .. Len(batch[w]) : batch[w][i] = queue[unit[w].key][i]

PoolInv ==
  /\ TypeInv
  /\ \A k \in Keys : QueueInv(queue[k], arrived[k]) /\ Acked(k)
  /\ InOrder
  /\ OwnHandles
  /\ \A w \in Workers : Working(w) => BatchInv(w) /\ Aligned(w)

-----------------------------------------------------------------------------
(***************************************************************************)
(* Deliveries.  Pending(k, p): p has not left k's FIFO (it may yet arrive).*)
(* Ahead(w, p): p is in w's batch and w has not come to it.  MayProcess:   *)
(* the workers that may still process p without another claim.  AtRisk: the*)
(* unit is free, or its lease is bound to run out, so that somebody may    *)
(* claim it and process p again without a further fault.                   *)
(***************************************************************************)
Pending(k, p) == p > arrived[k] - Len(queue[k])

Ahead(w, p) == pc[w] = "process" /\ \E i \in at[w] .. Len(batch[w]) : batch[w][i].payload = p

Reaches(w, p) ==
  \/ pc[w] = "read"
  \/ /\ Held(unit[w])
     /\ \/ pc[w] \in {"drain", "release"}
        \/ Working(w) /\ \A i \in 1 .. Len(batch[w]) : batch[w][i].payload # p

MayProcess(k, p) ==
  {w \in Workers : /\ unit[w] # NoHandle /\ unit[w].key = k
                   /\ Ahead(w, p) \/ (Pending(k, p) /\ Reaches(w, p))}

Doomed(k) ==
  \/ holder[k] = NoToken \/ k \in expired
  \/ \A w \in Workers : unit[w] = [key |-> k, lease |-> holder[k]] => w \in stopping

AtRisk(k, p) == IF Pending(k, p) /\ Doomed(k) THEN 1 ELSE 0

DeliveryInv ==
  /\ faults \in Nat
  /\ expired \subseteq {k \in Keys : holder[k] # NoToken}
  /\ \A k \in Keys : \A p \in 1 .. MaxTasks :
       processed[k][p] + Cardinality(MayProcess(k, p)) + AtRisk(k, p) <= 1 + faults

-----------------------------------------------------------------------------
\* The initial state.
LEMMA InitPoolInv == PoolInit => PoolInv
<1> SUFFICES ASSUME PoolInit PROVE PoolInv
  OBVIOUS
<1>1. TypeInv
  <2>1. <<>> \in Seq(Task)
    BY EmptySeq
  <2> QED
    BY <2>1, TasksAssumption DEF PoolInit, Init, TypeInv, PoolTypeOK
<1>2. \A k \in Keys : QueueInv(queue[k], arrived[k]) /\ Acked(k)
  BY EmptySeq DEF PoolInit, Init, QueueInv, Acked
<1> QED
  BY <1>1, <1>2 DEF PoolInit, PoolInv, InOrder, OwnHandles, Working

\* A handle in use.
LEMMA UnitInUse ==
  ASSUME TypeInv, NEW w \in Workers, pc[w] \notin {"claim", "down"}
  PROVE  /\ unit[w] \in Handle /\ unit[w] \in handles /\ unit[w] # NoHandle
         /\ unit[w].key \in Keys /\ unit[w].lease \in LeaseTokens
<1>1. unit[w] # NoHandle
  BY DEF TypeInv, PoolTypeOK
<1>2. unit[w] \in Handle
  BY <1>1 DEF TypeInv, PoolTypeOK
<1>3. unit[w] \in handles
  BY <1>1 DEF TypeInv, PoolTypeOK
<1> QED
  BY <1>1, <1>2, <1>3 DEF Handle

\* The contract's calls leave the queue's types alone.
LEMMA AckTypes ==
  ASSUME TypeInv, NEW h \in Handle, NEW n \in 0 .. Len(queue[h.key]), Ack(h, n)
  PROVE  /\ queue' \in [Keys -> Seq(Task)] /\ arrived' = arrived
         /\ holder' \in [Keys -> LeaseTokens \cup {NoToken}]
<1>1. h.key \in Keys /\ queue[h.key] \in Seq(Task)
  BY DEF Handle, TypeInv
<1>2. Suffix(queue[h.key], n) \in Seq(Task)
  BY <1>1, SuffixProperties
<1>3. queue' = [queue EXCEPT ![h.key] = Suffix(queue[h.key], n)] /\ arrived' = arrived
  BY DEF Ack, DropHead
<1>4. holder' \in [Keys -> LeaseTokens \cup {NoToken}]
  BY DEF Ack, Free, TypeInv
<1> QED
  BY <1>1, <1>2, <1>3, <1>4 DEF TypeInv


\* Seqs continue the FIFO's, or start over when it is empty.
LEMMA NextSeqType ==
  ASSUME TypeInv, NEW k \in Keys, NEW s \in NextSeqs(k)
  PROVE  s \in Nat
<1>1. queue[k] \in Seq(Task) /\ arrived[k] \in Nat
  BY TasksAssumption DEF TypeInv
<1>2. CASE queue[k] = <<>>
  BY <1>1, <1>2 DEF NextSeqs
<1>3. CASE queue[k] # <<>>
  <2>1. Len(queue[k]) \in 1 .. Len(queue[k])
    BY <1>1, <1>3, LenProperties, EmptySeq
  <2>2. queue[k][Len(queue[k])] \in Task
    BY <1>1, <2>1, ElementOfSeq
  <2>3. queue[k][Len(queue[k])].seq \in Nat
    BY <2>2 DEF Task
  <2> QED
    BY <1>3, <2>3 DEF NextSeqs
<1> QED
  BY <1>2, <1>3

\* What a worker drains is a batch of tasks, at the head of the unit.
LEMMA DrainedPrefix ==
  ASSUME NEW ts \in Seq(Task)
  PROVE  /\ Drained(ts) \in Seq(Task)
         /\ Len(Drained(ts)) \in 0 .. Len(ts)
         /\ \A i \in 1 .. Len(Drained(ts)) : Drained(ts)[i] = ts[i]
<1> DEFINE n == IF Batch < Len(ts) THEN Batch ELSE Len(ts)
<1>1. n \in 0 .. Len(ts)
  BY LoopAssumption, LenProperties
<1> HIDE DEF n
<1>2. Prefix(ts, n) \in Seq(Task) /\ Len(Prefix(ts, n)) = n
      /\ \A i \in 1 .. n : Prefix(ts, n)[i] = ts[i]
  BY <1>1, PrefixProperties
<1> QED
  BY <1>1, <1>2 DEF Drained, n

\* Ack's count of tasks is a number of tasks.
LEMMA AckRunType ==
  ASSUME TypeInv, NEW w \in Workers, pc[w] = "ack", BatchInv(w)
  PROVE  AckRun(w) \in 0 .. Len(queue[unit[w].key])
<1>1. batch[w] \in Seq(Task) /\ Len(batch[w]) \in 1 .. Len(batch[w])
  BY LenProperties DEF TypeInv, BatchInv
<1>2. batch[w][Len(batch[w])] \in Task
  BY <1>1, ElementOfSeq
<1>3. batch[w][Len(batch[w])].seq \in Int
  BY <1>2 DEF Task
<1>4. queue[unit[w].key] \in Seq(Task)
  BY UnitInUse DEF TypeInv
<1> QED
  BY <1>3, <1>4, LeadingRunType DEF AckRun

\* Counting one more.
LEMMA CountUp ==
  ASSUME NEW S, NEW f \in [S -> Nat], NEW p
  PROVE  [f EXCEPT ![p] = f[p] + 1] \in [S -> Nat]
<1> DEFINE g == [f EXCEPT ![p] = f[p] + 1]
<1>1. ASSUME NEW i \in S PROVE g[i] \in Nat
  <2>1. f[i] \in Nat /\ g[i] = IF i = p THEN f[i] + 1 ELSE f[i]
    OBVIOUS
  <2> QED
    BY <2>1
<1>2. g = [i \in S |-> g[i]]
  OBVIOUS
<1> QED
  BY <1>1, <1>2

\* Every step keeps the types.
LEMMA NextTypeInv ==
  ASSUME PoolInv, [PoolNext]_poolVars
  PROVE  TypeInv'
<1>e. <<>> \in Seq(Task)
  BY EmptySeq
<1>t. TypeInv
  BY DEF PoolInv
<1>r. ASSUME NEW w \in Workers, Return(w), TrackHandles, UNCHANGED <<queue, arrived, beats, processed>>,
              holder' \in [Keys -> LeaseTokens \cup {NoToken}]
       PROVE  TypeInv'
  BY <1>r, <1>t, <1>e DEF TypeInv, PoolTypeOK, TrackHandles, Goto, Return
<1>1. ASSUME NEW k \in Keys, NEW c \in Costs, Produce(k, c) PROVE TypeInv'
  <2>1. PICK s \in NextSeqs(k) : Enqueue(k, c, s)
    BY <1>1 DEF Produce
  <2>2. s \in Nat
    BY <1>t, NextSeqType
  <2> QED
    BY <1>1, <1>t, <2>1, <2>2, TasksAssumption
       DEF Produce, Enqueue, TypeInv, PoolTypeOK, TrackHandles, Task, local
<1>2. ASSUME NEW w \in Workers, NEW k \in Keys, ClaimUnit(w, k) PROVE TypeInv'
  BY <1>2, <1>t, LoopAssumption
     DEF ClaimUnit, Claim, TypeInv, PoolTypeOK, TrackHandles, FreshToken, Goto, Handle
<1>3. ASSUME NEW w \in Workers, NEW k \in Keys, ClaimReplyLost(w, k) PROVE TypeInv'
  BY <1>3, <1>t, LoopAssumption
     DEF ClaimReplyLost, Claim, TypeInv, PoolTypeOK, TrackHandles, FreshToken, local
<1>4. ASSUME NEW w \in Workers, DrainCheck(w) PROVE TypeInv'
  <2>1. CASE Held(unit[w])
    BY <1>4, <2>1, <1>t DEF DrainCheck, TypeInv, PoolTypeOK, TrackHandles, Goto, Continue
  <2>2. CASE ~Held(unit[w])
    BY <1>4, <2>2, <1>t, <1>r DEF DrainCheck, TypeInv
  <2> QED
    BY <2>1, <2>2
<1>5. ASSUME NEW w \in Workers, DrainRead(w) PROVE TypeInv'
  <2> DEFINE ts == Drained(queue[unit[w].key])
  <2>1. unit[w] \in Handle /\ unit[w].key \in Keys
    BY <1>5, <1>t, UnitInUse DEF DrainRead
  <2>2. ts \in Seq(Task)
    BY <1>t, <2>1, DrainedPrefix DEF TypeInv
  <2>3. CASE ts = <<>>
    BY <1>5, <2>3, <1>t DEF DrainRead, TypeInv, PoolTypeOK, TrackHandles, Goto, Continue
  <2>4. CASE ts # <<>>
    <3>1. /\ pc[w] = "read" /\ pc' = [pc EXCEPT ![w] = "process"]
          /\ batch' = [batch EXCEPT ![w] = ts] /\ at' = [at EXCEPT ![w] = 1]
          /\ beats' = beats \cup {unit[w]}
          /\ UNCHANGED <<unit, stopping, queue, arrived, holder, processed>>
          /\ TrackHandles
      BY <1>5, <2>4 DEF DrainRead, Goto
    <3>2. 1 \in DOMAIN ts
      BY <2>2, <2>4, LenProperties, EmptySeq
    <3> HIDE DEF ts
    <3> QED
      BY <1>t, <2>1, <2>2, <3>1, <3>2 DEF TypeInv, PoolTypeOK, TrackHandles
  <2> QED
    BY <2>3, <2>4
<1>6. ASSUME NEW w \in Workers, Process(w) PROVE TypeInv'
  <2> DEFINE k == unit[w].key
             p == batch[w][at[w]].payload
  <2>1. /\ pc[w] = "process" /\ processed' = [processed EXCEPT ![k][p] = processed[k][p] + 1]
        /\ at' = [at EXCEPT ![w] = at[w] + 1]
        /\ pc' = [pc EXCEPT ![w] = IF at[w] = Len(batch[w]) THEN "ack" ELSE "process"]
        /\ UNCHANGED <<unit, batch, stopping, beats, queue, arrived, holder>>
        /\ TrackHandles
    BY <1>6 DEF Process, Goto
  <2>2. processed' \in [Keys -> [1 .. MaxTasks -> Nat]]
    <3> HIDE DEF k, p
    <3>1. processed \in [Keys -> [1 .. MaxTasks -> Nat]]
      BY <1>t DEF TypeInv, PoolTypeOK
    <3>2. ASSUME NEW j \in Keys PROVE processed'[j] \in [1 .. MaxTasks -> Nat]
      <4>1. processed'[j] = IF j = k THEN [processed[j] EXCEPT ![p] = processed[j][p] + 1] ELSE processed[j]
        BY <2>1, <3>1
      <4>2. processed[j] \in [1 .. MaxTasks -> Nat]
        BY <3>1
      <4>3. [processed[j] EXCEPT ![p] = processed[j][p] + 1] \in [1 .. MaxTasks -> Nat]
        BY <4>2, CountUp
      <4> QED
        BY <4>1, <4>2, <4>3
    <3>3. processed' = [j \in Keys |-> processed'[j]]
      BY <2>1, <3>1
    <3> QED
      BY <3>2, <3>3
  <2>3. at[w] \in DOMAIN batch[w] /\ DOMAIN batch[w] = 1 .. Len(batch[w]) /\ Len(batch[w]) \in Nat
    BY <1>t, <2>1, LenProperties DEF TypeInv, PoolTypeOK
  <2>4. UNCHANGED <<unit, batch, stopping, beats, queue, arrived, holder>> /\ TrackHandles
    BY <2>1
  <2>5. /\ pc' \in [Workers -> {"claim", "drain", "read", "process", "ack", "release", "down"}]
        /\ at' \in [Workers -> Nat]
        /\ \A v \in Workers : (pc'[v] \in {"claim", "down"}) <=> (pc[v] \in {"claim", "down"})
        /\ \A v \in Workers : pc'[v] = "process" => at'[v] \in DOMAIN batch[v]
    <3> HIDE DEF k, p
    <3> QED
      BY <1>t, <2>1, <2>3 DEF TypeInv, PoolTypeOK
  <2> HIDE DEF k, p
  <2> QED
    BY <1>t, <2>2, <2>4, <2>5 DEF TypeInv, PoolTypeOK, TrackHandles
<1>7. ASSUME NEW w \in Workers, pc[w] = "ack", Ack(unit[w], AckRun(w)), Return(w), TrackHandles,
             UNCHANGED <<beats, processed>>
      PROVE  TypeInv'
  <2>1. unit[w] \in Handle
    BY <1>7, <1>t, UnitInUse
  <2>2. AckRun(w) \in 0 .. Len(queue[unit[w].key])
    BY <1>7, <1>t, AckRunType DEF PoolInv, Working
  <2>3. /\ queue' \in [Keys -> Seq(Task)] /\ arrived' = arrived
        /\ holder' \in [Keys -> LeaseTokens \cup {NoToken}]
    BY <1>7, <1>t, <2>1, <2>2, AckTypes
  <2> QED
    BY <1>7, <1>t, <1>e, <2>3 DEF TypeInv, PoolTypeOK, TrackHandles, Goto, Return
<1>8. ASSUME NEW w \in Workers, AckBatch(w) PROVE TypeInv'
  <2>1. CASE holder'[unit[w].key] # NoToken
    <3>1. unit[w] \in Handle
      BY <1>8, <1>t, UnitInUse DEF AckBatch
    <3>2. AckRun(w) \in 0 .. Len(queue[unit[w].key])
      BY <1>8, <1>t, AckRunType DEF PoolInv, Working, AckBatch
    <3>3. /\ queue' \in [Keys -> Seq(Task)] /\ arrived' = arrived
          /\ holder' \in [Keys -> LeaseTokens \cup {NoToken}]
      BY <1>8, <1>t, <3>1, <3>2, AckTypes DEF AckBatch
    <3>4. /\ pc[w] = "ack" /\ pc' = [pc EXCEPT ![w] = "drain"] /\ TrackHandles
          /\ batch' = [batch EXCEPT ![w] = <<>>] /\ at' = [at EXCEPT ![w] = 0]
          /\ UNCHANGED <<unit, stopping, beats, processed>>
      BY <1>8, <2>1 DEF AckBatch, Goto
    <3> QED
      BY <1>t, <1>e, <3>3, <3>4 DEF TypeInv, PoolTypeOK, TrackHandles
  <2>2. CASE holder'[unit[w].key] = NoToken
    BY <1>7, <1>8, <2>2 DEF AckBatch
  <2> QED
    BY <2>1, <2>2
<1>9. ASSUME NEW w \in Workers, AckReplyLost(w) PROVE TypeInv'
  BY <1>7, <1>9 DEF AckReplyLost
<1>11. ASSUME NEW w \in Workers, AckLeaseLost(w) \/ ReleaseUnit(w) \/ CallFails(w) PROVE TypeInv'
  <2>1. holder' \in [Keys -> LeaseTokens \cup {NoToken}]
    BY <1>11, <1>t DEF AckLeaseLost, ReleaseUnit, CallFails, Release, Free, TypeInv
  <2> QED
    BY <1>r, <1>11, <2>1 DEF AckLeaseLost, ReleaseUnit, CallFails, Release
<1>12. ASSUME NEW w \in Workers, Crash(w) PROVE TypeInv'
  BY <1>12, <1>t, <1>e DEF Crash, TypeInv, PoolTypeOK, TrackHandles, Goto
<1>13. ASSUME NEW w \in Workers, Shutdown(w) PROVE TypeInv'
  BY <1>13, <1>t DEF Shutdown, TypeInv, PoolTypeOK, TrackHandles
<1>14. ASSUME NEW w \in Workers, Exit(w) \/ Restart(w) PROVE TypeInv'
  BY <1>14, <1>t DEF Exit, Restart, TypeInv, PoolTypeOK, TrackHandles, Goto
<1>15. ASSUME NEW h \in beats, Beat(h) \/ BeatExits(h) PROVE TypeInv'
  BY <1>15, <1>t DEF Beat, Heartbeat, BeatExits, TypeInv, PoolTypeOK, TrackHandles, local
<1>16. ASSUME NEW k \in Keys, Age(k) \/ LeaseRunsOut(k) PROVE TypeInv'
  BY <1>16, <1>t DEF Age, LeaseRunsOut, Elapse, TypeInv, PoolTypeOK, TrackHandles, local
<1>17. CASE Reap
  BY <1>17, <1>t DEF Reap, Reclaim, TypeInv, PoolTypeOK, TrackHandles, local
<1>18. CASE UNCHANGED poolVars
  BY <1>18, <1>t DEF poolVars, vars, local, TypeInv, PoolTypeOK
<1> QED
  BY <1>1, <1>2, <1>3, <1>4, <1>5, <1>6, <1>8, <1>9, <1>11, <1>12, <1>13, <1>14, <1>15,
     <1>16, <1>17, <1>18 DEF PoolNext, WorkerStep

-----------------------------------------------------------------------------
(* What a step can be, as far as the FIFOs and the batches go. *)

Idle(w) ==
  /\ pc'[w] = pc[w] /\ unit'[w] = unit[w] /\ batch'[w] = batch[w] /\ at'[w] = at[w]

\* No FIFO, count or batch changes, except that a worker may drop its batch.
Quiet ==
  /\ UNCHANGED <<queue, arrived, processed>>
  /\ \A w \in Workers : Working(w)' => Idle(w)

\* w's Ack took effect.
AckStep(w) ==
  /\ pc[w] = "ack" /\ Ack(unit[w], AckRun(w))
  /\ UNCHANGED processed
  /\ ~Working(w)'
  /\ \A v \in Workers \ {w} : Idle(v)

\* A step adds, processes, acks or reads tasks, or leaves them alone.
LEMMA StepKinds ==
  ASSUME TypeInv, [PoolNext]_poolVars
  PROVE  \/ \E k \in Keys, c \in Costs : Produce(k, c)
         \/ \E w \in Workers : Process(w) \/ AckStep(w)
         \/ \E w \in Workers : DrainRead(w) /\ Drained(queue[unit[w].key]) # <<>>
         \/ Quiet
<1>1. ASSUME NEW w \in Workers, NEW k \in Keys, ClaimUnit(w, k) PROVE Quiet
  BY <1>1 DEF ClaimUnit, Claim, TypeInv, PoolTypeOK, Goto, Quiet, Working, Idle
<1>2. ASSUME NEW w \in Workers, NEW k \in Keys, ClaimReplyLost(w, k) PROVE Quiet
  BY <1>2 DEF ClaimReplyLost, Claim, local, Quiet, Idle
<1>3. ASSUME NEW w \in Workers, Return(w), UNCHANGED <<queue, arrived, processed>> PROVE Quiet
  BY <1>3 DEF Return, TypeInv, PoolTypeOK, Goto, Quiet, Working, Idle
<1>4. ASSUME NEW w \in Workers, DrainCheck(w) PROVE Quiet
  <2>1. CASE Held(unit[w])
    BY <1>4, <2>1 DEF DrainCheck, Continue, TypeInv, PoolTypeOK, Goto, Quiet, Working, Idle
  <2>2. CASE ~Held(unit[w])
    BY <1>4, <2>2, <1>3 DEF DrainCheck
  <2> QED
    BY <2>1, <2>2
<1>5. ASSUME NEW w \in Workers, DrainRead(w), Drained(queue[unit[w].key]) = <<>> PROVE Quiet
  BY <1>5 DEF DrainRead, Continue, TypeInv, PoolTypeOK, Goto, Quiet, Working, Idle
<1>6. ASSUME NEW w \in Workers, AckBatch(w) PROVE AckStep(w)
  <2>1. CASE holder'[unit[w].key] # NoToken
    BY <1>6, <2>1 DEF AckBatch, AckStep, TypeInv, PoolTypeOK, Goto, Working, Idle
  <2>2. CASE holder'[unit[w].key] = NoToken
    BY <1>6, <2>2 DEF AckBatch, AckStep, Return, TypeInv, PoolTypeOK, Goto, Working, Idle
  <2> QED
    BY <2>1, <2>2
<1>7. ASSUME NEW w \in Workers, AckReplyLost(w) PROVE AckStep(w)
  BY <1>7 DEF AckReplyLost, AckStep, Return, TypeInv, PoolTypeOK, Goto, Working, Idle
<1>8. ASSUME NEW w \in Workers, AckLeaseLost(w) \/ ReleaseUnit(w) \/ CallFails(w) PROVE Quiet
  BY <1>3, <1>8 DEF AckLeaseLost, ReleaseUnit, CallFails, Release
<1>9. ASSUME NEW w \in Workers, Crash(w) PROVE Quiet
  BY <1>9 DEF Crash, TypeInv, PoolTypeOK, Goto, Quiet, Working, Idle
<1>10. ASSUME NEW w \in Workers, Shutdown(w) PROVE Quiet
  BY <1>10 DEF Shutdown, Quiet, Idle
<1>11. ASSUME NEW w \in Workers, Exit(w) \/ Restart(w) PROVE Quiet
  BY <1>11 DEF Exit, Restart, TypeInv, PoolTypeOK, Goto, Quiet, Working, Idle
<1>12. ASSUME NEW h \in beats, Beat(h) \/ BeatExits(h) PROVE Quiet
  BY <1>12 DEF Beat, Heartbeat, BeatExits, local, Quiet, Idle
<1>13. ASSUME NEW k \in Keys, Age(k) \/ LeaseRunsOut(k) PROVE Quiet
  BY <1>13 DEF Age, LeaseRunsOut, Elapse, local, Quiet, Idle
<1>14. CASE Reap
  BY <1>14 DEF Reap, Reclaim, local, Quiet, Idle
<1>15. CASE UNCHANGED poolVars
  BY <1>15 DEF poolVars, vars, local, Quiet, Idle
<1> QED
  BY <1>1, <1>2, <1>4, <1>5, <1>6, <1>7, <1>8, <1>9, <1>10, <1>11, <1>12, <1>13, <1>14, <1>15
     DEF PoolNext, WorkerStep

\* A lease changes hands only to nobody or to a token no handle carries.
LEMMA HolderStep ==
  ASSUME TypeInv, [PoolNext]_poolVars, NEW k \in Keys
  PROVE  \/ holder'[k] = holder[k]
         \/ holder'[k] = NoToken
         \/ holder[k] = NoToken /\ \A h \in handles : h.lease # holder'[k]
<1>1. ASSUME NEW c \in Costs, NEW j \in Keys, Produce(j, c) PROVE holder' = holder
  BY <1>1 DEF Produce, Enqueue
<1>2. ASSUME NEW w \in Workers, NEW j \in Keys, ClaimUnit(w, j) \/ ClaimReplyLost(w, j)
      PROVE  \/ holder'[k] = holder[k]
             \/ holder[k] = NoToken /\ \A h \in handles : h.lease # holder'[k]
  BY <1>2 DEF ClaimUnit, ClaimReplyLost, Claim, TypeInv
<1>3. ASSUME NEW w \in Workers,
             DrainCheck(w) \/ DrainRead(w) \/ Process(w) \/ AckLeaseLost(w) \/ CallFails(w)
             \/ Crash(w) \/ Shutdown(w) \/ Exit(w) \/ Restart(w)
      PROVE  holder' = holder
  BY <1>3 DEF DrainCheck, DrainRead, Process, AckLeaseLost, CallFails, Crash, Shutdown, Exit, Restart
<1>4. ASSUME NEW w \in Workers, AckBatch(w) \/ AckReplyLost(w) \/ ReleaseUnit(w)
      PROVE  holder'[k] = holder[k] \/ holder'[k] = NoToken
  BY <1>4 DEF AckBatch, AckReplyLost, ReleaseUnit, Ack, Release, Free, TypeInv
<1>5. ASSUME NEW h \in beats, Beat(h) \/ BeatExits(h) PROVE holder' = holder
  BY <1>5 DEF Beat, BeatExits, Heartbeat
<1>6. ASSUME NEW j \in Keys, Age(j) \/ LeaseRunsOut(j) PROVE holder' = holder
  BY <1>6 DEF Age, LeaseRunsOut, Elapse
<1>7. CASE Reap
  BY <1>7 DEF Reap, Reclaim
<1>8. CASE UNCHANGED poolVars
  BY <1>8 DEF poolVars, vars
<1> QED
  BY <1>1, <1>2, <1>3, <1>4, <1>5, <1>6, <1>7, <1>8 DEF PoolNext, WorkerStep

\* A worker that keeps its unit never gets a lost lease back.
LEMMA LostStaysLost ==
  ASSUME TypeInv, [PoolNext]_poolVars, NEW w \in Workers,
         pc[w] \notin {"claim", "down"}, unit'[w] = unit[w], Held(unit[w])'
  PROVE  Held(unit[w])
<1>1. unit[w] \in handles /\ unit[w].key \in Keys /\ unit[w].lease \in LeaseTokens
  BY UnitInUse
<1>2. holder'[unit[w].key] = unit[w].lease
  BY DEF Held
<1> QED
  BY <1>1, <1>2, HolderStep, LoopAssumption DEF Held

-----------------------------------------------------------------------------
\* The held batch is the head of the unit, so Ack drops just that.
LEMMA AckRunIsBatch ==
  ASSUME PoolInv, NEW w \in Workers, pc[w] = "ack", Held(unit[w])
  PROVE  AckRun(w) = Len(batch[w])
<1> DEFINE ts == queue[unit[w].key]
           m == Len(batch[w])
<1>1. unit[w].key \in Keys
  BY UnitInUse DEF PoolInv
<1>2. ts \in Seq(Task) /\ QueueInv(ts, arrived[unit[w].key])
  BY <1>1 DEF PoolInv, TypeInv
<1>3. BatchInv(w) /\ Aligned(w)
  BY DEF PoolInv, Working
<1>4. Len(ts) \in Nat /\ m \in Nat
  BY <1>2, LenProperties DEF PoolInv, TypeInv
<1>5. m \in 1 .. Len(ts) /\ batch[w][m] = ts[m]
  BY <1>3, <1>4 DEF BatchInv, Aligned
<1> HIDE DEF m, ts
<1>6. LeadingRun(ts, ts[m].seq) = m
  BY <1>2, <1>5, LeadingRunThrough DEF QueueInv
<1> QED
  BY <1>5, <1>6 DEF AckRun, ts, m

\* Processing only ever adds to the count.
LEMMA ProcessedGrows ==
  ASSUME TypeInv, [PoolNext]_poolVars, NEW k \in Keys, NEW p \in 1 .. MaxTasks
  PROVE  processed'[k][p] \in Nat /\ processed[k][p] \in Nat /\ processed'[k][p] >= processed[k][p]
<1>1. processed \in [Keys -> [1 .. MaxTasks -> Nat]]
  BY DEF TypeInv, PoolTypeOK
<1>2. processed[k] \in [1 .. MaxTasks -> Nat] /\ processed[k][p] \in Nat
  <2>1. processed[k] \in [1 .. MaxTasks -> Nat]
    BY <1>1
  <2> QED
    BY <2>1
<1>3. ASSUME NEW w \in Workers, Process(w)
      PROVE  processed'[k][p] = processed[k][p] \/ processed'[k][p] = processed[k][p] + 1
  <2> DEFINE j == unit[w].key
             q == batch[w][at[w]].payload
  <2>1. processed' = [processed EXCEPT ![j][q] = processed[j][q] + 1]
    BY <1>3 DEF Process
  <2> HIDE DEF j, q
  <2>2. processed'[k] = IF k = j THEN [processed[k] EXCEPT ![q] = processed[k][q] + 1] ELSE processed[k]
    BY <1>1, <2>1
  <2>3. processed[k] \in [1 .. MaxTasks -> Nat]
    BY <1>1
  <2> QED
    BY <2>2, <2>3
<1>4. processed' = processed \/ \E w \in Workers : Process(w)
  BY StepKinds DEF Produce, AckStep, DrainRead, Quiet
<1>5. processed'[k][p] = processed[k][p] \/ processed'[k][p] = processed[k][p] + 1
  BY <1>3, <1>4
<1> QED
  BY <1>2, <1>5

\* Nor does a step take back an arrival.
LEMMA ArrivedGrows ==
  ASSUME TypeInv, [PoolNext]_poolVars, NEW k \in Keys
  PROVE  arrived'[k] \in Nat /\ arrived[k] \in Nat /\ arrived'[k] >= arrived[k]
<1>1. arrived[k] \in Nat
  BY TasksAssumption DEF TypeInv
<1>2. ASSUME NEW j \in Keys, NEW c \in Costs, Produce(j, c) PROVE arrived'[k] \in {arrived[k], arrived[k] + 1}
  BY <1>2, <1>1 DEF Produce, Enqueue, TypeInv
<1>3. arrived' = arrived \/ \E j \in Keys, c \in Costs : Produce(j, c)
  BY StepKinds DEF Ack, AckStep, DrainRead, Process, Quiet
<1> QED
  BY <1>1, <1>2, <1>3

\* What is known of a batch survives the steps that leave it alone.
LEMMA BatchKept ==
  ASSUME PoolInv, [PoolNext]_poolVars, NEW w \in Workers, Working(w), Idle(w)
  PROVE  BatchInv(w)'
<1> DEFINE k == unit[w].key
           b == batch[w]
<1>1. k \in Keys /\ unit'[w].key = k /\ batch'[w] = b /\ at'[w] = at[w] /\ pc'[w] = pc[w]
  BY UnitInUse DEF PoolInv, Working, Idle
<1>2. BatchInv(w) /\ TypeInv
  BY DEF PoolInv
<1>3. arrived'[k] \in Nat /\ arrived[k] \in Nat /\ arrived'[k] >= arrived[k] /\ arrived[k] <= MaxTasks
  BY <1>1, <1>2, ArrivedGrows DEF TypeInv
<1>4. b[1].payload \in 1 .. MaxTasks /\ b[1].payload + at[w] - 2 <= MaxTasks
  <2>1. Len(b) \in Nat /\ at[w] \in Nat
    BY <1>2, LenProperties DEF TypeInv
  <2>2. 1 \in 1 .. Len(b) /\ Len(b) \in 1 .. Len(b)
    BY <1>2, <2>1 DEF BatchInv
  <2>3. b[1].payload \in 1 .. arrived[k] /\ b[Len(b)].payload \in 1 .. arrived[k]
        /\ b[Len(b)].payload = b[1].payload + Len(b) - 1
    BY <1>2, <2>2 DEF BatchInv
  <2>4. at[w] <= Len(b) + 1
    BY <1>2, <2>1 DEF BatchInv
  <2>5. b[1].payload \in Nat /\ MaxTasks \in Nat
    BY <2>3, TasksAssumption
  <2>6. b[1].payload + Len(b) - 1 <= arrived[k]
    BY <2>3
  <2> HIDE DEF b, k
  <2> QED
    BY SMTT(30), <1>3, <2>1, <2>3, <2>4, <2>5, <2>6
<1>5. \A p \in 1 .. (b[1].payload + at[w] - 2) : processed'[k][p] > 0
  <2> SUFFICES ASSUME NEW p \in 1 .. (b[1].payload + at[w] - 2) PROVE processed'[k][p] > 0
    OBVIOUS
  <2>1. at[w] \in Nat
    BY <1>2 DEF TypeInv
  <2>2. p \in 1 .. MaxTasks
    BY <1>4, <2>1, TasksAssumption
  <2>3. processed[k][p] > 0
    BY <1>2 DEF BatchInv
  <2>4. processed'[k][p] \in Nat /\ processed[k][p] \in Nat /\ processed'[k][p] >= processed[k][p]
    BY <1>1, <1>2, <2>2, ProcessedGrows
  <2> QED
    BY <2>3, <2>4
<1>6. \A i \in 1 .. Len(b) : b[i].payload = b[1].payload + i - 1 /\ b[i].payload \in 1 .. arrived'[k]
  <2>1. \A i \in 1 .. Len(b) : b[i].payload = b[1].payload + i - 1 /\ b[i].payload \in 1 .. arrived[k]
    BY <1>2 DEF BatchInv
  <2> QED
    BY <1>3, <2>1
<1>7. Len(b) >= 1 /\ at[w] \in 1 .. (Len(b) + 1) /\ (pc[w] = "ack" => at[w] = Len(b) + 1)
  BY <1>2 DEF BatchInv
<1> HIDE DEF k, b
<1> QED
  BY <1>1, <1>5, <1>6, <1>7 DEF BatchInv

\* A validated Ack drops the worker's batch off the head of its unit.
LEMMA AckEffect ==
  ASSUME PoolInv, NEW w \in Workers, AckStep(w)
  PROVE  /\ unit[w].key \in Keys /\ Held(unit[w])
         /\ Len(batch[w]) \in 1 .. Len(queue[unit[w].key])
         /\ queue' = [queue EXCEPT ![unit[w].key] = Suffix(queue[unit[w].key], Len(batch[w]))]
         /\ arrived' = arrived /\ processed' = processed
         /\ Aligned(w) /\ BatchInv(w) /\ at[w] = Len(batch[w]) + 1
<1>1. pc[w] = "ack" /\ Held(unit[w]) /\ AckRun(w) = Len(batch[w])
  BY AckRunIsBatch DEF AckStep, Ack
<1>2. unit[w].key \in Keys /\ batch[w] \in Seq(Task) /\ queue[unit[w].key] \in Seq(Task)
  BY <1>1, UnitInUse DEF PoolInv, TypeInv
<1>3. BatchInv(w) /\ Aligned(w)
  BY <1>1 DEF PoolInv, Working
<1>4. Len(batch[w]) \in 1 .. Len(queue[unit[w].key])
  BY <1>1, <1>2, <1>3, LenProperties DEF BatchInv, Aligned
<1> QED
  BY <1>1, <1>2, <1>3, <1>4 DEF AckStep, Ack, DropHead, BatchInv

\* What an Enqueue by a producer does to a FIFO.
LEMMA ProduceEffect ==
  ASSUME TypeInv, NEW k \in Keys, NEW c \in Costs, Produce(k, c)
  PROVE  \E s \in Nat :
           /\ \A i \in 1 .. Len(queue[k]) : queue[k][i].seq < s
           /\ queue' = [queue EXCEPT ![k] = Append(queue[k], [seq |-> s, payload |-> arrived[k] + 1, cost |-> c])]
           /\ arrived' = [arrived EXCEPT ![k] = arrived[k] + 1]
           /\ arrived[k] < MaxTasks /\ arrived[k] \in Nat
           /\ [seq |-> s, payload |-> arrived[k] + 1, cost |-> c] \in Task
<1>1. PICK s \in NextSeqs(k) : Enqueue(k, c, s)
  BY DEF Produce
<1>2. s \in Nat /\ arrived[k] \in Nat /\ c \in Nat
  BY NextSeqType, TasksAssumption DEF TypeInv
<1>3. \A i \in 1 .. Len(queue[k]) : queue[k][i].seq < s
  BY <1>1, LenProperties DEF Enqueue, TypeInv
<1>4. [seq |-> s, payload |-> arrived[k] + 1, cost |-> c] \in Task
  BY <1>2 DEF Task
<1>5. /\ queue' = [queue EXCEPT ![k] = Append(queue[k], [seq |-> s, payload |-> arrived[k] + 1, cost |-> c])]
      /\ arrived' = [arrived EXCEPT ![k] = arrived[k] + 1] /\ arrived[k] < MaxTasks
  BY <1>1 DEF Enqueue
<1> QED
  BY <1>2, <1>3, <1>4, <1>5

\* A FIFO and its next arrival.
LEMMA QueueAppend ==
  ASSUME NEW ts \in Seq(Task), NEW a \in Nat, QueueInv(ts, a), NEW e \in Task,
         e.payload = a + 1, \A i \in 1 .. Len(ts) : ts[i].seq < e.seq
  PROVE  QueueInv(Append(ts, e), a + 1) /\ Len(Append(ts, e)) = Len(ts) + 1
<1> DEFINE us == Append(ts, e)
<1>1. /\ Len(us) = Len(ts) + 1 /\ Len(ts) \in Nat
      /\ \A i \in 1 .. Len(ts) : us[i] = ts[i]
      /\ us[Len(ts) + 1] = e
  BY AppendElements, LenProperties
<1> HIDE DEF us
<1>2. \A i \in 1 .. Len(us) : i \in 1 .. Len(ts) \/ i = Len(ts) + 1
  BY <1>1
<1>3. ASSUME NEW i \in 1 .. Len(us) PROVE us[i].payload = a + 1 - Len(us) + i
  <2>1. CASE i \in 1 .. Len(ts)
    <3>1. us[i] = ts[i] /\ ts[i].payload = a - Len(ts) + i
      BY <1>1, <2>1 DEF QueueInv
    <3> QED
      BY <1>1, <2>1, <3>1
  <2>2. CASE i = Len(ts) + 1
    BY <1>1, <2>2
  <2> QED
    BY <1>2, <2>1, <2>2
<1>4. ASSUME NEW i \in 1 .. Len(us), NEW j \in 1 .. Len(us), i < j PROVE us[i].seq < us[j].seq
  <2>1. i \in 1 .. Len(ts)
    BY <1>1, <1>4
  <2>2. CASE j \in 1 .. Len(ts)
    BY <1>1, <1>4, <2>1, <2>2 DEF QueueInv
  <2>3. CASE j = Len(ts) + 1
    BY <1>1, <2>1, <2>3
  <2> QED
    BY <1>2, <2>2, <2>3
<1>5. Len(us) <= a + 1
  BY <1>1 DEF QueueInv
<1> QED
  BY <1>1, <1>3, <1>4, <1>5 DEF QueueInv, us

\* A FIFO whose first n tasks are gone.
LEMMA QueueSuffix ==
  ASSUME NEW ts \in Seq(Task), NEW a \in Nat, QueueInv(ts, a), NEW n \in 0 .. Len(ts)
  PROVE  QueueInv(Suffix(ts, n), a) /\ Len(Suffix(ts, n)) = Len(ts) - n
<1> DEFINE us == Suffix(ts, n)
<1>0. Len(ts) \in Nat
  BY LenProperties
<1>1. /\ Len(us) = Len(ts) - n /\ Len(ts) \in Nat /\ n \in Nat /\ n <= Len(ts)
      /\ \A i \in 1 .. Len(ts) - n : us[i] = ts[n + i]
  BY <1>0, SuffixProperties
<1> HIDE DEF us
<1>2. \A i \in 1 .. Len(us) : us[i] = ts[n + i] /\ n + i \in 1 .. Len(ts)
  BY <1>1
<1>3. ASSUME NEW i \in 1 .. Len(us) PROVE us[i].payload = a - Len(us) + i
  <2>1. ts[n + i].payload = a - Len(ts) + (n + i)
    BY <1>2 DEF QueueInv
  <2> QED
    BY <1>1, <1>2, <2>1
<1>4. ASSUME NEW i \in 1 .. Len(us), NEW j \in 1 .. Len(us), i < j PROVE us[i].seq < us[j].seq
  <2>1. n + i < n + j
    BY <1>1, <1>4
  <2> QED
    BY <1>2, <2>1 DEF QueueInv
<1>5. Len(us) <= a
  BY <1>1 DEF QueueInv
<1> QED
  BY <1>1, <1>3, <1>4, <1>5 DEF QueueInv, us

\* FIFOs stay the latest arrivals in order, and what leaves them was processed.
LEMMA NextQueueInv ==
  ASSUME PoolInv, [PoolNext]_poolVars, NEW k \in Keys
  PROVE  QueueInv(queue[k], arrived[k])' /\ Acked(k)'
<1> DEFINE ts == queue[k]
           a == arrived[k]
<1>1. /\ ts \in Seq(Task) /\ Len(ts) \in Nat /\ a \in 0 .. MaxTasks /\ a \in Nat
      /\ QueueInv(ts, a) /\ Acked(k) /\ TypeInv /\ MaxTasks \in Nat
  BY TasksAssumption, LenProperties DEF PoolInv, TypeInv
<1>2. ASSUME NEW p \in 1 .. (a - Len(ts)) PROVE processed'[k][p] > 0
  <2>1. p \in 1 .. MaxTasks /\ processed[k][p] > 0
    BY <1>1 DEF Acked
  <2>2. processed'[k][p] \in Nat /\ processed[k][p] \in Nat /\ processed'[k][p] >= processed[k][p]
    BY <1>1, <2>1, ProcessedGrows
  <2> QED
    BY <2>1, <2>2
<1>3. CASE queue'[k] = ts /\ arrived'[k] = a
  BY <1>1, <1>2, <1>3 DEF QueueInv, Acked
<1>4. ASSUME NEW j \in Keys, NEW c \in Costs, Produce(j, c)
      PROVE  QueueInv(queue[k], arrived[k])' /\ Acked(k)'
  <2>1. PICK s \in Nat :
           /\ \A i \in 1 .. Len(queue[j]) : queue[j][i].seq < s
           /\ queue' = [queue EXCEPT ![j] = Append(queue[j], [seq |-> s, payload |-> arrived[j] + 1, cost |-> c])]
           /\ arrived' = [arrived EXCEPT ![j] = arrived[j] + 1]
           /\ arrived[j] < MaxTasks /\ arrived[j] \in Nat
           /\ [seq |-> s, payload |-> arrived[j] + 1, cost |-> c] \in Task
    BY <1>1, <1>4, ProduceEffect
  <2>2. CASE j # k
    BY <1>1, <1>3, <2>1, <2>2 DEF TypeInv
  <2>3. CASE j = k
    <3> DEFINE e == [seq |-> s, payload |-> a + 1, cost |-> c]
    <3>1. queue'[k] = Append(ts, e) /\ arrived'[k] = a + 1 /\ e \in Task /\ e.seq = s /\ e.payload = a + 1
      BY <1>1, <2>1, <2>3 DEF TypeInv
    <3>2. \A i \in 1 .. Len(ts) : ts[i].seq < e.seq
      BY <2>1, <2>3, <3>1
    <3> HIDE DEF e, ts, a
    <3>3. QueueInv(Append(ts, e), a + 1) /\ Len(Append(ts, e)) = Len(ts) + 1
      BY <1>1, <3>1, <3>2, QueueAppend
    <3>4. arrived'[k] - Len(queue'[k]) = a - Len(ts)
      BY <1>1, <3>1, <3>3
    <3>5. QueueInv(queue'[k], arrived'[k])
      BY <3>1, <3>3
    <3> QED
      BY <1>2, <3>4, <3>5 DEF QueueInv, Acked
  <2> QED
    BY <2>2, <2>3
<1>5. ASSUME NEW w \in Workers, AckStep(w)
      PROVE  QueueInv(queue[k], arrived[k])' /\ Acked(k)'
  <2> DEFINE n == Len(batch[w])
  <2>1. /\ unit[w].key \in Keys /\ Held(unit[w])
        /\ n \in 1 .. Len(queue[unit[w].key])
        /\ queue' = [queue EXCEPT ![unit[w].key] = Suffix(queue[unit[w].key], n)]
        /\ arrived' = arrived /\ processed' = processed
        /\ Aligned(w) /\ BatchInv(w) /\ at[w] = n + 1
    BY <1>5, AckEffect
  <2>2. CASE unit[w].key # k
    BY <1>1, <1>3, <2>1, <2>2 DEF TypeInv
  <2>3. CASE unit[w].key = k
    <3>1. queue'[k] = Suffix(ts, n) /\ n \in 1 .. Len(ts)
      BY <1>1, <2>1, <2>3 DEF TypeInv
    <3>2. n \in Nat /\ 1 \in 1 .. n /\ 1 \in 1 .. Len(ts)
      BY <1>1, <3>1
    <3>3. batch[w][1] = ts[1] /\ ts[1].payload = a - Len(ts) + 1
      BY <1>1, <2>1, <2>3, <3>2 DEF Aligned, QueueInv
    <3>4. \A p \in 1 .. (batch[w][1].payload + (n + 1) - 2) : processed'[k][p] > 0
      BY <2>1, <2>3 DEF BatchInv
    <3> HIDE DEF n, ts, a
    <3>5. QueueInv(Suffix(ts, n), a) /\ Len(Suffix(ts, n)) = Len(ts) - n
      BY <1>1, <3>1, <3>2, QueueSuffix
    <3>6. arrived'[k] = a
      BY <2>1 DEF a
    <3>7. arrived'[k] - Len(queue'[k]) = batch[w][1].payload + (n + 1) - 2
      BY <1>1, <3>1, <3>2, <3>3, <3>5, <3>6
    <3>8. QueueInv(queue'[k], arrived'[k])
      BY <3>1, <3>5, <3>6
    <3> QED
      BY <3>4, <3>7, <3>8 DEF QueueInv, Acked
  <2> QED
    BY <2>2, <2>3
<1>6. ASSUME UNCHANGED <<queue, arrived>> PROVE QueueInv(queue[k], arrived[k])' /\ Acked(k)'
  BY <1>3, <1>6
<1>7. \/ \E j \in Keys, c \in Costs : Produce(j, c)
      \/ \E w \in Workers : AckStep(w)
      \/ UNCHANGED <<queue, arrived>>
  BY <1>1, StepKinds DEF DrainRead, Process, Quiet
<1> QED
  BY <1>4, <1>5, <1>6, <1>7

\* The task a worker is at, and what its turn counts.
LEMMA ProcessEffect ==
  ASSUME PoolInv, NEW w \in Workers, Process(w)
  PROVE  LET k == unit[w].key
             p == batch[w][at[w]].payload
         IN  /\ k \in Keys /\ pc[w] = "process" /\ BatchInv(w) /\ Aligned(w)
             /\ at[w] \in 1 .. Len(batch[w])
             /\ p = batch[w][1].payload + at[w] - 1 /\ p \in 1 .. arrived[k] /\ p \in 1 .. MaxTasks
             /\ processed'[k][p] = processed[k][p] + 1
             /\ \A j \in Keys, q \in 1 .. MaxTasks :
                  j # k \/ q # p => processed'[j][q] = processed[j][q]
<1> DEFINE k == unit[w].key
           p == batch[w][at[w]].payload
<1>1. pc[w] = "process" /\ processed' = [processed EXCEPT ![k][p] = processed[k][p] + 1]
  BY DEF Process
<1>2. k \in Keys /\ BatchInv(w) /\ Aligned(w) /\ TypeInv
  BY <1>1, UnitInUse DEF PoolInv, Working
<1>3. at[w] \in 1 .. Len(batch[w])
  BY <1>1, <1>2, LenProperties DEF TypeInv, PoolTypeOK
<1>4. p = batch[w][1].payload + at[w] - 1 /\ p \in 1 .. arrived[k]
  BY <1>2, <1>3 DEF BatchInv
<1>5. p \in 1 .. MaxTasks
  BY <1>2, <1>4, TasksAssumption DEF TypeInv
<1>6. processed \in [Keys -> [1 .. MaxTasks -> Nat]]
  BY <1>2 DEF TypeInv, PoolTypeOK
<1> HIDE DEF k, p
<1>7. processed'[k][p] = processed[k][p] + 1
  BY <1>1, <1>2, <1>5, <1>6
<1>8. ASSUME NEW j \in Keys, NEW q \in 1 .. MaxTasks, j # k \/ q # p
      PROVE  processed'[j][q] = processed[j][q]
  BY <1>1, <1>2, <1>5, <1>6, <1>8
<1> QED
  BY <1>1, <1>2, <1>3, <1>4, <1>5, <1>7, <1>8 DEF k, p

\* Nobody processes a task before every earlier one of its unit.
LEMMA NextInOrder ==
  ASSUME PoolInv, [PoolNext]_poolVars
  PROVE  InOrder'
<1>1. InOrder /\ TypeInv
  BY DEF PoolInv
<1>2. CASE processed' = processed
  BY <1>1, <1>2 DEF InOrder
<1>3. ASSUME NEW w \in Workers, Process(w) PROVE InOrder'
  <2> DEFINE k == unit[w].key
             p == batch[w][at[w]].payload
  <2>1. /\ k \in Keys /\ BatchInv(w) /\ at[w] \in 1 .. Len(batch[w])
        /\ p = batch[w][1].payload + at[w] - 1 /\ p \in 1 .. MaxTasks
        /\ processed'[k][p] = processed[k][p] + 1
        /\ \A j \in Keys, q \in 1 .. MaxTasks : j # k \/ q # p => processed'[j][q] = processed[j][q]
    BY <1>3, ProcessEffect
  <2>2. \A q \in 1 .. (batch[w][1].payload + at[w] - 2) : processed[k][q] > 0
    BY <2>1 DEF BatchInv
  <2>3. batch[w][1].payload + at[w] - 2 = p - 1
    <3>1. batch[w][1].payload \in Int /\ at[w] \in Int
      <4>1. batch[w] \in Seq(Task) /\ Len(batch[w]) \in Nat /\ at[w] \in Nat
        BY <1>1, LenProperties DEF TypeInv
      <4>2. 1 \in 1 .. Len(batch[w])
        BY <2>1, <4>1
      <4>3. batch[w][1] \in Task
        BY <4>1, <4>2, ElementOfSeq
      <4> QED
        BY <4>1, <4>3 DEF Task
    <3> QED
      BY <2>1, <3>1
  <2>4. \A q \in 1 .. (p - 1) : processed[k][q] > 0
    BY <2>2, <2>3
  <2> HIDE DEF k, p
  <2>5. ASSUME NEW j \in Keys, NEW r \in 1 .. MaxTasks, processed'[j][r] > 0, NEW q \in 1 .. r
        PROVE  processed'[j][q] > 0
    <3>1. q \in 1 .. MaxTasks
      BY TasksAssumption
    <3>2. processed[j][q] \in Nat /\ processed'[j][q] \in Nat /\ processed'[j][q] >= processed[j][q]
      BY <1>1, <3>1, ProcessedGrows
    <3>3. CASE j = k /\ r = p
      <4>1. CASE q = p
        BY <2>1, <3>2, <3>3, <4>1
      <4>2. CASE q # p
        BY <2>1, <2>4, <3>2, <3>3, <4>2
      <4> QED
        BY <4>1, <4>2
    <3>4. CASE j # k \/ r # p
      <4>1. processed[j][r] > 0
        BY <2>1, <2>5, <3>4
      <4>2. processed[j][q] > 0
        BY <1>1, <4>1 DEF InOrder
      <4> QED
        BY <3>2, <4>2
    <3> QED
      BY <3>3, <3>4
  <2> QED
    BY <2>5 DEF InOrder
<1>4. processed' = processed \/ \E w \in Workers : Process(w)
  BY <1>1, StepKinds DEF Produce, AckStep, DrainRead, Quiet
<1> QED
  BY <1>2, <1>3, <1>4

\* Units are dropped, kept, or new under a token nobody has.
LEMMA UnitStep ==
  ASSUME TypeInv, [PoolNext]_poolVars
  PROVE  \/ \A w \in Workers : unit'[w] \in {unit[w], NoHandle}
         \/ \E w \in Workers : /\ \A v \in Workers \ {w} : unit'[v] = unit[v]
                               /\ unit'[w] \notin handles /\ unit'[w] \in Handle
<1>1. ASSUME NEW w \in Workers, NEW k \in Keys, ClaimUnit(w, k)
      PROVE  /\ \A v \in Workers \ {w} : unit'[v] = unit[v]
             /\ unit'[w] \notin handles /\ unit'[w] \in Handle
  BY <1>1 DEF ClaimUnit, Claim, FreshToken, Handle, TypeInv, PoolTypeOK
<1>2. ASSUME NEW w \in Workers, Return(w) PROVE \A v \in Workers : unit'[v] \in {unit[v], NoHandle}
  BY <1>2 DEF Return, TypeInv, PoolTypeOK
<1>3. ASSUME NEW w \in Workers, DrainCheck(w) \/ AckBatch(w)
      PROVE  \A v \in Workers : unit'[v] \in {unit[v], NoHandle}
  BY <1>2, <1>3 DEF DrainCheck, AckBatch, Continue
<1>4. ASSUME NEW w \in Workers, Crash(w) PROVE \A v \in Workers : unit'[v] \in {unit[v], NoHandle}
  BY <1>4 DEF Crash, TypeInv, PoolTypeOK
<1>5. ASSUME NEW w \in Workers, DrainRead(w) \/ Process(w) \/ Shutdown(w) \/ Exit(w) \/ Restart(w)
      PROVE  unit' = unit
  BY <1>5 DEF DrainRead, Process, Shutdown, Exit, Restart, Continue
<1>6. ASSUME NEW w \in Workers, AckReplyLost(w) \/ AckLeaseLost(w) \/ ReleaseUnit(w) \/ CallFails(w)
      PROVE  \A v \in Workers : unit'[v] \in {unit[v], NoHandle}
  BY <1>2, <1>6 DEF AckReplyLost, AckLeaseLost, ReleaseUnit, CallFails
<1>7. ASSUME NEW w \in Workers, NEW k \in Keys, ClaimReplyLost(w, k) PROVE unit' = unit
  BY <1>7 DEF ClaimReplyLost, local
<1>8. ASSUME NEW k \in Keys, NEW c \in Costs, Produce(k, c) PROVE unit' = unit
  BY <1>8 DEF Produce, local
<1>9. ASSUME NEW h \in beats, Beat(h) \/ BeatExits(h) PROVE unit' = unit
  BY <1>9 DEF Beat, BeatExits, local
<1>10. ASSUME NEW k \in Keys, Age(k) \/ LeaseRunsOut(k) PROVE unit' = unit
  BY <1>10 DEF Age, LeaseRunsOut, local
<1>11. CASE Reap
  BY <1>11 DEF Reap, local
<1>12. CASE UNCHANGED poolVars
  BY <1>12 DEF poolVars, local
<1> QED
  BY <1>1, <1>3, <1>4, <1>5, <1>6, <1>7, <1>8, <1>9, <1>10, <1>11, <1>12 DEF PoolNext, WorkerStep

\* So no two workers ever share a handle.
LEMMA NextOwnHandles ==
  ASSUME PoolInv, [PoolNext]_poolVars
  PROVE  OwnHandles'
<1>1. TypeInv /\ OwnHandles
  BY DEF PoolInv
<1>2. CASE \A w \in Workers : unit'[w] \in {unit[w], NoHandle}
  BY <1>1, <1>2 DEF OwnHandles
<1>3. ASSUME NEW w \in Workers, \A v \in Workers \ {w} : unit'[v] = unit[v],
             unit'[w] \notin handles, unit'[w] \in Handle
      PROVE  OwnHandles'
  <2>1. \A v \in Workers : unit[v] \in handles \/ unit[v] = NoHandle
    BY <1>1 DEF TypeInv, PoolTypeOK
  <2>2. unit'[w] # NoHandle
    BY <1>3, LoopAssumption
  <2> QED
    BY <1>1, <1>3, <2>1, <2>2 DEF OwnHandles
<1> QED
  BY <1>1, <1>2, <1>3, UnitStep

\* The head a holder works on moves under nobody's hands but its own.
LEMMA AlignedKept ==
  ASSUME PoolInv, [PoolNext]_poolVars, NEW w \in Workers, Working(w), Working(w)', Idle(w)
  PROVE  Aligned(w)'
<1> DEFINE k == unit[w].key
           b == batch[w]
<1>1. k \in Keys /\ unit'[w] = unit[w] /\ batch'[w] = b /\ unit[w] # NoHandle /\ unit[w] \in Handle
  BY UnitInUse DEF PoolInv, Working, Idle
<1>2. TypeInv /\ OwnHandles
  BY DEF PoolInv
<1> SUFFICES ASSUME Held(unit[w])'
             PROVE  Len(b) <= Len(queue'[k]) /\ \A i \in 1 .. Len(b) : b[i] = queue'[k][i]
  BY <1>1 DEF Aligned
<1>3. Held(unit[w])
  BY <1>1, <1>2, LostStaysLost DEF Working
<1>4. Len(b) <= Len(queue[k]) /\ \A i \in 1 .. Len(b) : b[i] = queue[k][i]
  BY <1>3 DEF PoolInv, Aligned
<1>5. queue[k] \in Seq(Task) /\ Len(queue[k]) \in Nat /\ Len(b) \in Nat
  BY <1>1, <1>2, LenProperties DEF TypeInv
<1>6. CASE queue'[k] = queue[k]
  BY <1>4, <1>6
<1>7. ASSUME NEW e \in Task, queue'[k] = Append(queue[k], e)
      PROVE  Len(b) <= Len(queue'[k]) /\ \A i \in 1 .. Len(b) : b[i] = queue'[k][i]
  <2> HIDE DEF k, b
  <2>1. /\ Len(queue'[k]) = Len(queue[k]) + 1
        /\ \A i \in 1 .. Len(queue[k]) : queue'[k][i] = queue[k][i]
    BY <1>5, <1>7, AppendElements
  <2> QED
    BY <1>4, <1>5, <2>1
<1>8. ASSUME NEW j \in Keys, NEW c \in Costs, Produce(j, c)
      PROVE  queue'[k] = queue[k] \/ \E e \in Task : queue'[k] = Append(queue[k], e)
  <2>1. PICK e \in Task : queue' = [queue EXCEPT ![j] = Append(queue[j], e)]
    BY <1>2, <1>8, ProduceEffect
  <2> QED
    BY <1>1, <1>2, <2>1 DEF TypeInv
<1>9. ASSUME NEW v \in Workers, AckStep(v) PROVE queue'[k] = queue[k]
  <2>1. /\ unit[v].key \in Keys /\ Held(unit[v])
        /\ queue' = [queue EXCEPT ![unit[v].key] = Suffix(queue[unit[v].key], Len(batch[v]))]
    BY <1>9, AckEffect
  <2>2. v # w
    BY <1>9 DEF AckStep
  <2>3. unit[v].key # k
    <3>1. unit[v] \in Handle
      BY <1>2, <1>9, UnitInUse DEF AckStep
    <3>2. unit[v].key = k => unit[v] = unit[w]
      BY <1>1, <1>3, <2>1, <3>1 DEF Held, Handle
    <3> QED
      BY <1>1, <1>2, <2>2, <3>2 DEF OwnHandles
  <2> QED
    BY <1>1, <1>2, <2>1, <2>3 DEF TypeInv
<1>10. \/ \E j \in Keys, c \in Costs : Produce(j, c)
       \/ \E v \in Workers : AckStep(v)
       \/ queue' = queue
  BY <1>2, StepKinds DEF DrainRead, Process, Quiet
<1> QED
  BY <1>6, <1>7, <1>8, <1>9, <1>10

\* A batch just drained.
LEMMA DrainedBatch ==
  ASSUME PoolInv, [PoolNext]_poolVars, NEW w \in Workers, DrainRead(w),
         Drained(queue[unit[w].key]) # <<>>
  PROVE  BatchInv(w)' /\ Aligned(w)'
<1> DEFINE k == unit[w].key
           ts == queue[k]
           b == Drained(ts)
           a == arrived[k]
<1>1. k \in Keys /\ TypeInv
  BY UnitInUse DEF PoolInv, DrainRead
<1>2. /\ ts \in Seq(Task) /\ Len(ts) \in Nat /\ a \in Nat
      /\ QueueInv(ts, a) /\ Acked(k)
  BY <1>1, TasksAssumption, LenProperties DEF PoolInv, TypeInv
<1>3. /\ batch'[w] = b /\ at'[w] = 1 /\ pc'[w] = "process"
      /\ UNCHANGED <<unit, queue, arrived, processed>>
  BY <1>1 DEF DrainRead, Goto, TypeInv, PoolTypeOK
<1>4. b \in Seq(Task) /\ Len(b) \in 0 .. Len(ts) /\ \A i \in 1 .. Len(b) : b[i] = ts[i]
  BY <1>2, DrainedPrefix
<1>5. Len(b) \in 1 .. Len(ts)
  BY <1>2, <1>4, EmptySeq
<1> HIDE DEF b, ts, a, k
<1>6. \A i \in 1 .. Len(b) : b[i].payload = a - Len(ts) + i
  BY <1>2, <1>4, <1>5 DEF QueueInv
<1>7. \A i \in 1 .. Len(b) : b[i].payload = b[1].payload + i - 1 /\ b[i].payload \in 1 .. a
  BY <1>2, <1>5, <1>6 DEF QueueInv
<1>8. b[1].payload + 1 - 2 = a - Len(ts)
  BY <1>2, <1>5, <1>6
<1>9. \A p \in 1 .. (b[1].payload + 1 - 2) : processed'[k][p] > 0
  BY <1>2, <1>3, <1>8 DEF Acked, ts, a
<1>10. unit'[w].key = k /\ arrived'[k] = a /\ queue'[k] = ts
  BY <1>3 DEF k, a, ts
<1>11. BatchInv(w)'
  BY <1>2, <1>3, <1>5, <1>7, <1>9, <1>10 DEF BatchInv
<1>12. Aligned(w)'
  BY <1>2, <1>3, <1>4, <1>5, <1>10 DEF Aligned
<1> QED
  BY <1>11, <1>12

\* A batch with one more task processed.
LEMMA AdvancedBatch ==
  ASSUME PoolInv, [PoolNext]_poolVars, NEW w \in Workers, Process(w)
  PROVE  BatchInv(w)' /\ Aligned(w)'
<1> DEFINE k == unit[w].key
           b == batch[w]
           p == b[at[w]].payload
<1>1. /\ k \in Keys /\ pc[w] = "process" /\ BatchInv(w) /\ Aligned(w)
      /\ at[w] \in 1 .. Len(b)
      /\ p = b[1].payload + at[w] - 1 /\ p \in 1 .. arrived[k] /\ p \in 1 .. MaxTasks
      /\ processed'[k][p] = processed[k][p] + 1
  BY ProcessEffect
<1>2. TypeInv /\ Len(b) \in Nat /\ at[w] \in Nat /\ b[1].payload \in Nat
  <2>1. TypeInv /\ b \in Seq(Task) /\ Len(b) \in Nat /\ at[w] \in Nat
    BY LenProperties DEF PoolInv, TypeInv
  <2>2. 1 \in 1 .. Len(b)
    BY <1>1, <2>1
  <2>3. b[1] \in Task
    BY <2>1, <2>2, ElementOfSeq
  <2> QED
    BY <2>1, <2>3 DEF Task
<1>3. /\ at'[w] = at[w] + 1 /\ pc'[w] = (IF at[w] = Len(b) THEN "ack" ELSE "process")
      /\ UNCHANGED <<unit, batch, queue, arrived, holder>>
  BY <1>2 DEF Process, Goto, TypeInv, PoolTypeOK
<1>4. \A q \in 1 .. (b[1].payload + at[w] - 2) : processed[k][q] > 0
  BY <1>1 DEF BatchInv
<1>5. ASSUME NEW q \in 1 .. (b[1].payload + at'[w] - 2) PROVE processed'[k][q] > 0
  <2> HIDE DEF k, b, p
  <2>1. q \in 1 .. MaxTasks /\ (q = p \/ q \in 1 .. (b[1].payload + at[w] - 2))
    BY <1>1, <1>2, <1>3, TasksAssumption
  <2>2. processed'[k][q] \in Nat /\ processed[k][q] \in Nat /\ processed'[k][q] >= processed[k][q]
    BY <1>1, <1>2, <2>1, ProcessedGrows
  <2> QED
    BY <1>1, <1>4, <2>1, <2>2
<1>6. /\ Len(b) >= 1
      /\ \A i \in 1 .. Len(b) : b[i].payload = b[1].payload + i - 1 /\ b[i].payload \in 1 .. arrived[k]
  BY <1>1 DEF BatchInv
<1>7. at'[w] \in 1 .. (Len(b) + 1) /\ (pc'[w] = "ack" => at'[w] = Len(b) + 1)
  BY SMTT(30), <1>1, <1>2, <1>3
<1>8. unit'[w].key = k /\ batch'[w] = b /\ arrived'[k] = arrived[k]
  BY <1>3
<1> HIDE DEF k, b, p
<1>9. BatchInv(w)'
  BY <1>5, <1>6, <1>7, <1>8 DEF BatchInv
<1>10. Aligned(w)'
  BY <1>1, <1>3 DEF Aligned, Held
<1> QED
  BY <1>9, <1>10

\* Every step keeps a batch consecutive, and aligned while its lease lasts.
LEMMA NextBatchInv ==
  ASSUME PoolInv, [PoolNext]_poolVars, NEW w \in Workers, Working(w)'
  PROVE  BatchInv(w)' /\ Aligned(w)'
<1>1. TypeInv
  BY DEF PoolInv
<1>2. CASE Idle(w)
  <2>1. Working(w)
    BY <1>2 DEF Idle, Working
  <2> QED
    BY <1>2, <2>1, BatchKept, AlignedKept
<1>3. ASSUME ~Idle(w) PROVE Process(w) \/ (DrainRead(w) /\ Drained(queue[unit[w].key]) # <<>>)
  <2>1. ASSUME NEW k \in Keys, NEW c \in Costs, Produce(k, c) PROVE Idle(w)
    BY <2>1 DEF Produce, local, Idle
  <2>2. ASSUME NEW v \in Workers \ {w}, Process(v) PROVE Idle(w)
    BY <1>1, <2>2 DEF Process, Goto, Idle, TypeInv, PoolTypeOK
  <2>3. ASSUME NEW v \in Workers \ {w}, DrainRead(v), Drained(queue[unit[v].key]) # <<>> PROVE Idle(w)
    BY <1>1, <2>3 DEF DrainRead, Goto, Idle, TypeInv, PoolTypeOK
  <2>4. ASSUME NEW v \in Workers, AckStep(v) PROVE Idle(w)
    BY <2>4 DEF AckStep
  <2>5. CASE Quiet
    BY <1>3, <2>5 DEF Quiet
  <2> QED
    BY <1>1, <1>3, <2>1, <2>2, <2>3, <2>4, <2>5, StepKinds
<1> QED
  BY <1>2, <1>3, DrainedBatch, AdvancedBatch

\* Together: every step keeps the invariant.
LEMMA NextPoolInv ==
  ASSUME PoolInv, [PoolNext]_poolVars
  PROVE  PoolInv'
<1>1. TypeInv' /\ InOrder' /\ OwnHandles'
  BY NextTypeInv, NextInOrder, NextOwnHandles
<1>2. \A k \in Keys : QueueInv(queue[k], arrived[k])' /\ Acked(k)'
  BY NextQueueInv
<1>3. \A w \in Workers : Working(w)' => BatchInv(w)' /\ Aligned(w)'
  BY NextBatchInv
<1> QED
  BY <1>1, <1>2, <1>3 DEF PoolInv

-----------------------------------------------------------------------------
(***************************************************************************)
(* The worker loop keeps its invariant, whatever workers crash, stall, lose*)
(* replies or are told to stop, and however leases change hands meanwhile. *)
(***************************************************************************)
THEOREM PoolInvariant == PoolSpec => []PoolInv
<1>1. PoolInit => PoolInv
  BY InitPoolInv
<1>2. PoolInv /\ [PoolNext]_poolVars => PoolInv'
  BY NextPoolInv
<1> QED
  BY <1>1, <1>2, PTL DEF PoolSpec

(***************************************************************************)
(* The loop's state keeps its types: a worker has a unit exactly while it  *)
(* is inside runOnce, and its next task is one of its batch.               *)
(***************************************************************************)
THEOREM PoolTypeCorrect == PoolSpec => []PoolTypeOK
<1>1. PoolInv => PoolTypeOK
  BY DEF PoolInv, TypeInv
<1> QED
  BY <1>1, PoolInvariant, PTL

(***************************************************************************)
(* I1 for the consumer: no task is processed before every earlier task of  *)
(* its unit (runOnce over Drain), for any number of workers and faults.    *)
(***************************************************************************)
THEOREM ProcessedInOrder == PoolSpec => []InOrder
<1>1. PoolInv => InOrder
  BY DEF PoolInv
<1> QED
  BY <1>1, PoolInvariant, PTL

(***************************************************************************)
(* At-least-once: a task that is no longer pending was processed, however  *)
(* late, repeated or misplaced the Acks (worker.go:135).                   *)
(***************************************************************************)
THEOREM NothingForgotten == PoolSpec => []AckedWasProcessed
<1>1. ASSUME PoolInv, NEW k \in Keys, NEW p \in 1 .. arrived[k], p \notin Payloads(queue[k])
      PROVE  processed[k][p] > 0
  <2> DEFINE ts == queue[k]
             a == arrived[k]
  <2>1. /\ a \in Nat /\ Len(ts) \in Nat /\ DOMAIN ts = 1 .. Len(ts)
        /\ QueueInv(ts, a) /\ Acked(k)
    BY <1>1, TasksAssumption, LenProperties DEF PoolInv, TypeInv
  <2>2. \A i \in 1 .. Len(ts) : p # ts[i].payload
    BY <1>1, <2>1 DEF Payloads
  <2> HIDE DEF ts
  <2>3. ~(p > a - Len(ts))
    <3> SUFFICES ASSUME p > a - Len(ts) PROVE FALSE
      OBVIOUS
    <3>1. p - (a - Len(ts)) \in 1 .. Len(ts)
      BY <2>1
    <3>2. ts[p - (a - Len(ts))].payload = a - Len(ts) + (p - (a - Len(ts)))
      BY <2>1, <3>1 DEF QueueInv
    <3> QED
      BY <2>1, <2>2, <3>1, <3>2
  <2> QED
    BY <2>1, <2>3 DEF Acked, ts
<1>2. PoolInv => AckedWasProcessed
  BY <1>1 DEF AckedWasProcessed
<1> QED
  BY <1>2, PoolInvariant, PTL

(***************************************************************************)
(* While its lease holds, a worker's batch is the head of its unit and its *)
(* Ack drops that batch and nothing else.                                  *)
(***************************************************************************)
THEOREM AckDropsOwnBatch == PoolSpec => []HolderAligned
<1>1. ASSUME PoolInv, NEW w \in Workers, pc[w] \in {"process", "ack"}, Held(unit[w])
      PROVE  LET ts == queue[unit[w].key]
             IN  /\ Len(batch[w]) <= Len(ts)
                 /\ batch[w] = Prefix(ts, Len(batch[w]))
                 /\ pc[w] = "ack" => AckRun(w) = Len(batch[w])
  <2> DEFINE b == batch[w]
             ts == queue[unit[w].key]
  <2>1. unit[w].key \in Keys /\ TypeInv
    BY <1>1, UnitInUse DEF PoolInv
  <2>2. b \in Seq(Task) /\ ts \in Seq(Task) /\ Len(b) \in Nat /\ Len(ts) \in Nat
    BY <2>1, LenProperties DEF TypeInv
  <2>3. Len(b) <= Len(ts) /\ \A i \in 1 .. Len(b) : b[i] = ts[i]
    BY <1>1 DEF PoolInv, Working, Aligned
  <2>4. pc[w] = "ack" => AckRun(w) = Len(b)
    BY <1>1, AckRunIsBatch
  <2> HIDE DEF b, ts
  <2>5. /\ Prefix(ts, Len(b)) \in Seq(Task) /\ Len(Prefix(ts, Len(b))) = Len(b)
        /\ \A i \in 1 .. Len(b) : Prefix(ts, Len(b))[i] = ts[i]
    BY <2>2, <2>3, PrefixProperties
  <2>6. b = Prefix(ts, Len(b))
    BY <2>2, <2>3, <2>5, SeqEqual
  <2> QED
    BY <2>3, <2>4, <2>6 DEF b, ts
<1>2. PoolInv => HolderAligned
  BY <1>1 DEF HolderAligned
<1> QED
  BY <1>2, PoolInvariant, PTL

-----------------------------------------------------------------------------
(* Redelivery. *)

\* Sets of workers shrink and grow by the elements they lose and gain.
LEMMA WorkerSets ==
  ASSUME NEW S \in SUBSET Workers, NEW T \in SUBSET Workers
  PROVE  /\ Cardinality(S) \in Nat /\ Cardinality(T) \in Nat
         /\ T \subseteq S => Cardinality(T) <= Cardinality(S)
         /\ T \subseteq S /\ T # S => Cardinality(T) <= Cardinality(S) - 1
         /\ \A w \in Workers : T \subseteq S \cup {w} => Cardinality(T) <= Cardinality(S) + 1
<1>1. IsFiniteSet(S) /\ IsFiniteSet(T)
  BY LoopAssumption, FS_Subset
<1>2. Cardinality(S) \in Nat /\ Cardinality(T) \in Nat
  BY <1>1, FS_CardinalityType
<1>3. T \subseteq S => Cardinality(T) <= Cardinality(S) /\ (Cardinality(T) = Cardinality(S) => T = S)
  BY <1>1, FS_Subset
<1>4. ASSUME NEW w \in Workers, T \subseteq S \cup {w} PROVE Cardinality(T) <= Cardinality(S) + 1
  <2>1. IsFiniteSet(S \cup {w}) /\ Cardinality(S \cup {w}) \in {Cardinality(S), Cardinality(S) + 1}
    BY <1>1, FS_AddElement
  <2>2. Cardinality(T) <= Cardinality(S \cup {w})
    BY <1>4, <2>1, FS_Subset
  <2> QED
    BY <1>2, <2>1, <2>2
<1> QED
  BY <1>2, <1>3, <1>4

\* What has left a FIFO is not pending again.
LEMMA PendingKept ==
  ASSUME PoolInv, [PoolNext]_poolVars, NEW k \in Keys, NEW p \in 1 .. MaxTasks, Pending(k, p)'
  PROVE  Pending(k, p)
<1>1. queue[k] \in Seq(Task) /\ Len(queue[k]) \in Nat /\ arrived[k] \in Nat /\ TypeInv /\ p \in Nat
  BY TasksAssumption, LenProperties DEF PoolInv, TypeInv
<1>2. CASE queue'[k] = queue[k] /\ arrived'[k] = arrived[k]
  BY <1>2 DEF Pending
<1>3. ASSUME NEW j \in Keys, NEW c \in Costs, Produce(j, c) PROVE Pending(k, p)
  <2>1. PICK e \in Task : /\ queue' = [queue EXCEPT ![j] = Append(queue[j], e)]
                          /\ arrived' = [arrived EXCEPT ![j] = arrived[j] + 1]
    BY <1>1, <1>3, ProduceEffect
  <2>2. CASE j # k
    BY <1>1, <1>2, <2>1, <2>2 DEF TypeInv
  <2>3. CASE j = k
    <3>1. queue'[k] = Append(queue[k], e) /\ arrived'[k] = arrived[k] + 1
      BY <1>1, <2>1, <2>3 DEF TypeInv
    <3>2. Len(queue'[k]) = Len(queue[k]) + 1
      BY <1>1, <3>1, AppendElements
    <3> QED
      BY <1>1, <3>1, <3>2 DEF Pending
  <2> QED
    BY <2>2, <2>3
<1>4. ASSUME NEW w \in Workers, AckStep(w) PROVE Pending(k, p)
  <2> DEFINE j == unit[w].key
             n == Len(batch[w])
  <2>1. /\ j \in Keys /\ n \in 1 .. Len(queue[j])
        /\ queue' = [queue EXCEPT ![j] = Suffix(queue[j], n)]
        /\ arrived' = arrived
    BY <1>4, AckEffect
  <2>2. CASE j # k
    BY <1>1, <1>2, <2>1, <2>2 DEF TypeInv
  <2>3. CASE j = k
    <3>1. queue'[k] = Suffix(queue[k], n) /\ n \in 1 .. Len(queue[k])
      BY <1>1, <2>1, <2>3 DEF TypeInv
    <3> HIDE DEF n
    <3>2. n \in 0 .. Len(queue[k]) /\ n \in Nat
      BY <1>1, <3>1
    <3>3. Len(queue'[k]) = Len(queue[k]) - n
      BY <1>1, <3>1, <3>2, SuffixProperties
    <3> QED
      BY <1>1, <2>1, <3>2, <3>3 DEF Pending
  <2> QED
    BY <2>2, <2>3
<1>5. \/ \E j \in Keys, c \in Costs : Produce(j, c)
      \/ \E w \in Workers : AckStep(w)
      \/ UNCHANGED <<queue, arrived>>
  BY <1>1, StepKinds DEF DrainRead, Process, Quiet
<1> QED
  BY <1>2, <1>3, <1>4, <1>5

\* A worker that does nothing gets no new chance to process a task.
LEMMA IdleMay ==
  ASSUME PoolInv, [PoolNext]_poolVars, NEW k \in Keys, NEW p \in 1 .. MaxTasks,
         NEW v \in Workers, Idle(v), v \in MayProcess(k, p)'
  PROVE  v \in MayProcess(k, p)
<1>1. TypeInv
  BY DEF PoolInv
<1>2. pc'[v] = pc[v] /\ unit'[v] = unit[v] /\ batch'[v] = batch[v] /\ at'[v] = at[v]
  BY DEF Idle
<1>3. unit[v] # NoHandle /\ unit[v].key = k
  BY <1>2 DEF MayProcess
<1>4. pc[v] \notin {"claim", "down"}
  BY <1>1, <1>3 DEF TypeInv, PoolTypeOK
<1>5. Held(unit[v])' => Held(unit[v])
  BY <1>1, <1>2, <1>4, LostStaysLost
<1>6. Ahead(v, p)' => Ahead(v, p)
  BY <1>2 DEF Ahead
<1>7. Reaches(v, p)' => Reaches(v, p)
  BY <1>2, <1>5 DEF Reaches, Working
<1>8. Pending(k, p)' => Pending(k, p)
  BY PendingKept
<1>9. Ahead(v, p)' \/ (Pending(k, p)' /\ Reaches(v, p)')
  BY DEF MayProcess
<1> QED
  BY <1>3, <1>6, <1>7, <1>8, <1>9 DEF MayProcess

\* Unless a worker gets a new unit, only it can get a new chance.
LEMMA OthersMay ==
  ASSUME PoolInv, [PoolNext]_poolVars, NEW k \in Keys, NEW p \in 1 .. MaxTasks,
         NEW w \in Workers, \A v \in Workers \ {w} : Idle(v)
  PROVE  /\ MayProcess(k, p)' \subseteq MayProcess(k, p) \cup {w}
         /\ w \notin MayProcess(k, p)' => MayProcess(k, p)' \subseteq MayProcess(k, p)
         /\ (w \in MayProcess(k, p)' => w \in MayProcess(k, p)) => MayProcess(k, p)' \subseteq MayProcess(k, p)
<1>1. MayProcess(k, p)' \subseteq Workers
  BY DEF MayProcess
<1>2. \A v \in Workers \ {w} : v \in MayProcess(k, p)' => v \in MayProcess(k, p)
  BY IdleMay
<1> QED
  BY <1>1, <1>2

(***************************************************************************)
(* How a step moves the balance of deliveries of task p of k: it leaves it *)
(* alone, pays for a new risk with a fault, turns a worker's chance into a *)
(* free unit or a free unit into a worker's chance, or uses a chance up.   *)
(***************************************************************************)
Fewer(k, p) == MayProcess(k, p)' \subseteq MayProcess(k, p)
SameCount(k, p) == processed'[k][p] = processed[k][p]

Steady(k, p) ==
  Fewer(k, p) /\ SameCount(k, p) /\ faults' = faults /\ (Doomed(k)' => Doomed(k))
Paid(k, p) == Fewer(k, p) /\ SameCount(k, p) /\ faults' = faults + 1
HandsBack(k, p) ==
  /\ Fewer(k, p) /\ SameCount(k, p) /\ faults' = faults
  /\ Pending(k, p)' => MayProcess(k, p)' # MayProcess(k, p)
Claims(k, p) ==
  /\ SameCount(k, p) /\ faults' = faults /\ Doomed(k) /\ ~Doomed(k)'
  /\ Pending(k, p) => \E w \in Workers : MayProcess(k, p)' \subseteq MayProcess(k, p) \cup {w}
  /\ ~Pending(k, p) => Fewer(k, p)
Delivers(k, p) ==
  /\ Fewer(k, p) /\ MayProcess(k, p)' # MayProcess(k, p) /\ faults' = faults
  /\ processed'[k][p] = processed[k][p] + 1 /\ (Doomed(k)' => Doomed(k))

\* No such step overdraws the balance.
LEMMA BalanceKept ==
  ASSUME PoolInv, DeliveryInv, [PoolNext]_poolVars, NEW k \in Keys, NEW p \in 1 .. MaxTasks,
         Steady(k, p) \/ Paid(k, p) \/ HandsBack(k, p) \/ Claims(k, p) \/ Delivers(k, p)
  PROVE  processed'[k][p] + Cardinality(MayProcess(k, p)') + AtRisk(k, p)' <= 1 + faults'
<1> DEFINE S == MayProcess(k, p)
           T == MayProcess(k, p)'
           r == AtRisk(k, p)
           q == AtRisk(k, p)'
           n == processed[k][p]
<1>1. S \in SUBSET Workers /\ T \in SUBSET Workers
  BY DEF MayProcess
<1>2. n \in Nat /\ faults \in Nat /\ n + Cardinality(S) + r <= 1 + faults
  BY ProcessedGrows DEF DeliveryInv, PoolInv
<1>3. /\ Cardinality(S) \in Nat /\ Cardinality(T) \in Nat
      /\ T \subseteq S => Cardinality(T) <= Cardinality(S)
      /\ T \subseteq S /\ T # S => Cardinality(T) <= Cardinality(S) - 1
      /\ \A w \in Workers : T \subseteq S \cup {w} => Cardinality(T) <= Cardinality(S) + 1
  BY <1>1, WorkerSets
<1>4. r \in {0, 1} /\ q \in {0, 1} /\ (Pending(k, p)' => Pending(k, p))
  BY PendingKept DEF AtRisk
<1>5. CASE Steady(k, p)
  <2>1. T \subseteq S /\ processed'[k][p] = n /\ faults' = faults
    BY <1>5 DEF Steady, Fewer, SameCount
  <2>2. q <= r
    BY <1>4, <1>5 DEF Steady, AtRisk
  <2> HIDE DEF S, T, r, q, n
  <2> QED
    BY <1>2, <1>3, <1>4, <2>1, <2>2 DEF T, q
<1>6. CASE Paid(k, p)
  <2>1. T \subseteq S /\ processed'[k][p] = n /\ faults' = faults + 1
    BY <1>6 DEF Paid, Fewer, SameCount
  <2> HIDE DEF S, T, r, q, n
  <2> QED
    BY <1>2, <1>3, <1>4, <2>1 DEF T, q
<1>7. CASE HandsBack(k, p)
  <2>1. T \subseteq S /\ processed'[k][p] = n /\ faults' = faults
    BY <1>7 DEF HandsBack, Fewer, SameCount
  <2>2. q = 0 \/ T # S
    BY <1>7 DEF HandsBack, AtRisk
  <2> HIDE DEF S, T, r, q, n
  <2> QED
    BY <1>2, <1>3, <1>4, <2>1, <2>2 DEF T, q
<1>8. CASE Claims(k, p)
  <2>1. processed'[k][p] = n /\ faults' = faults /\ q = 0
    BY <1>8 DEF Claims, SameCount, AtRisk
  <2>2. CASE Pending(k, p)
    <3>1. r = 1 /\ Cardinality(T) <= Cardinality(S) + 1
      BY <1>3, <1>8, <2>2 DEF Claims, AtRisk
    <3> HIDE DEF S, T, r, q, n
    <3> QED
      BY <1>2, <1>3, <1>4, <2>1, <3>1 DEF T, q
  <2>3. CASE ~Pending(k, p)
    <3>1. T \subseteq S
      BY <1>8, <2>3 DEF Claims, Fewer
    <3> HIDE DEF S, T, r, q, n
    <3> QED
      BY <1>2, <1>3, <1>4, <2>1, <3>1 DEF T, q
  <2> QED
    BY <2>2, <2>3
<1>9. CASE Delivers(k, p)
  <2>1. T \subseteq S /\ T # S /\ processed'[k][p] = n + 1 /\ faults' = faults
    BY <1>9 DEF Delivers, Fewer
  <2>2. q <= r
    BY <1>4, <1>9 DEF Delivers, AtRisk
  <2> HIDE DEF S, T, r, q, n
  <2> QED
    BY <1>2, <1>3, <1>4, <2>1, <2>2 DEF T, q
<1> QED
  BY <1>5, <1>6, <1>7, <1>8, <1>9

\* Steps of producers, heartbeats, the clock and the reaper, and faults at large.
LEMMA OutsideSteps ==
  ASSUME PoolInv, [PoolNext]_poolVars, NEW k \in Keys, NEW p \in 1 .. MaxTasks
  PROVE  /\ \A j \in Keys, c \in Costs : Produce(j, c) => Steady(k, p)
         /\ \A w \in Workers, j \in Keys : ClaimReplyLost(w, j) => Paid(k, p)
         /\ \A h \in beats : Beat(h) \/ BeatExits(h) => Steady(k, p)
         /\ \A j \in Keys : Age(j) => Steady(k, p)
         /\ \A j \in Keys : LeaseRunsOut(j) => Steady(k, p) \/ Paid(k, p)
         /\ Reap => Steady(k, p)
         /\ \A w \in Workers : Shutdown(w) => Paid(k, p)
         /\ UNCHANGED poolVars => Steady(k, p)
<1>1. ASSUME UNCHANGED <<pc, unit, batch, at>> PROVE Fewer(k, p)
  <2>1. \A v \in Workers : Idle(v)
    BY <1>1 DEF Idle
  <2>2. MayProcess(k, p)' \subseteq Workers
    BY DEF MayProcess
  <2> QED
    BY <2>1, <2>2, IdleMay DEF Fewer
<1>2. ASSUME NEW j \in Keys, NEW c \in Costs, Produce(j, c) PROVE Steady(k, p)
  BY <1>1, <1>2 DEF Produce, Enqueue, local, Steady, SameCount, Doomed
<1>3. ASSUME NEW w \in Workers, NEW j \in Keys, ClaimReplyLost(w, j) PROVE Paid(k, p)
  BY <1>1, <1>3 DEF ClaimReplyLost, Fault, local, Paid, SameCount
<1>4. ASSUME NEW h \in beats, Beat(h) \/ BeatExits(h) PROVE Steady(k, p)
  BY <1>1, <1>4 DEF Beat, BeatExits, Heartbeat, local, Steady, SameCount, Doomed
<1>5. ASSUME NEW j \in Keys, Age(j) PROVE Steady(k, p)
  BY <1>1, <1>5 DEF Age, Elapse, local, Steady, SameCount, Doomed
<1>6. ASSUME NEW j \in Keys, LeaseRunsOut(j) PROVE Steady(k, p) \/ Paid(k, p)
  <2>1. Fewer(k, p) /\ SameCount(k, p) /\ holder' = holder /\ expired' = expired \cup {j}
        /\ UNCHANGED <<unit, stopping>>
    BY <1>1, <1>6 DEF LeaseRunsOut, Elapse, local, SameCount
  <2>2. CASE Abandoned(j)
    <3>1. faults' = faults
      BY <1>6, <2>2 DEF LeaseRunsOut
    <3>2. Doomed(k)' => Doomed(k)
      BY <2>1, <2>2 DEF Doomed, Abandoned
    <3> QED
      BY <2>1, <3>1, <3>2 DEF Steady
  <2>3. CASE ~Abandoned(j)
    BY <1>6, <2>1, <2>3 DEF LeaseRunsOut, Fault, Paid
  <2> QED
    BY <2>2, <2>3
<1>7. ASSUME Reap PROVE Steady(k, p)
  <2>1. PICK S \in SUBSET expired : Reclaim(S)
    BY <1>7 DEF Reap
  <2>2. Fewer(k, p) /\ SameCount(k, p) /\ faults' = faults /\ UNCHANGED <<unit, stopping>>
    BY <1>1, <1>7 DEF Reap, local, SameCount
  <2>3. holder'[k] = (IF k \in S THEN NoToken ELSE holder[k]) /\ expired' = expired \ S
    BY <2>1 DEF Reclaim
  <2>4. Doomed(k)' => Doomed(k)
    BY <2>2, <2>3 DEF Doomed
  <2> QED
    BY <2>2, <2>4 DEF Steady
<1>8. ASSUME NEW w \in Workers, Shutdown(w) PROVE Paid(k, p)
  BY <1>1, <1>8 DEF Shutdown, Fault, Paid, SameCount
<1>9. ASSUME UNCHANGED poolVars PROVE Steady(k, p)
  BY <1>1, <1>9 DEF poolVars, vars, local, Steady, SameCount, Doomed
<1> QED
  BY <1>2, <1>3, <1>4, <1>5, <1>6, <1>7, <1>8, <1>9

\* A worker that leaves runOnce: its error is a fault, or its lease was lost.
LEMMA LeavingSteps ==
  ASSUME PoolInv, [PoolNext]_poolVars, NEW k \in Keys, NEW p \in 1 .. MaxTasks, NEW w \in Workers
  PROVE  /\ DrainCheck(w) /\ ~Held(unit[w]) => Steady(k, p)
         /\ AckReplyLost(w) => Paid(k, p)
         /\ AckLeaseLost(w) => Steady(k, p)
         /\ ReleaseUnit(w) => Steady(k, p) \/ HandsBack(k, p)
         /\ CallFails(w) => Steady(k, p) \/ Paid(k, p)
         /\ Crash(w) => Paid(k, p)
         /\ Exit(w) \/ Restart(w) => Steady(k, p)
<1>0. TypeInv
  BY DEF PoolInv
<1>1. ASSUME \A v \in Workers \ {w} : Idle(v), unit'[w] = NoHandle PROVE Fewer(k, p) /\ w \notin MayProcess(k, p)'
  <2>1. w \notin MayProcess(k, p)'
    BY <1>1 DEF MayProcess
  <2> QED
    BY <1>1, <2>1, OthersMay DEF Fewer
<1>2. ASSUME Return(w)
      PROVE  /\ Fewer(k, p) /\ w \notin MayProcess(k, p)' /\ stopping' = stopping
             /\ unit' = [unit EXCEPT ![w] = NoHandle]
  <2>1. unit'[w] = NoHandle /\ \A v \in Workers \ {w} : Idle(v)
    BY <1>0, <1>2 DEF Return, Goto, Idle, TypeInv, PoolTypeOK
  <2> QED
    BY <1>1, <1>2, <2>1 DEF Return
<1>3. ASSUME Return(w), ~Held(unit[w]) \/ w \in stopping, UNCHANGED <<holder, expired>>
      PROVE  Doomed(k)' => Doomed(k)
  <2> SUFFICES ASSUME Doomed(k)' PROVE Doomed(k)
    OBVIOUS
  <2>1. \/ holder[k] = NoToken \/ k \in expired
        \/ \A v \in Workers : unit'[v] = [key |-> k, lease |-> holder[k]] => v \in stopping
    BY <1>2, <1>3 DEF Doomed
  <2>2. unit[w] = [key |-> k, lease |-> holder[k]] => w \in stopping
    BY <1>3 DEF Held
  <2>3. \A v \in Workers \ {w} : unit'[v] = unit[v]
    BY <1>0, <1>2, <1>3 DEF TypeInv, PoolTypeOK
  <2> QED
    BY <2>1, <2>2, <2>3 DEF Doomed
<1>4. ASSUME DrainCheck(w), ~Held(unit[w]) PROVE Steady(k, p)
  BY <1>2, <1>3, <1>4 DEF DrainCheck, Steady, SameCount
<1>5. ASSUME AckReplyLost(w) PROVE Paid(k, p)
  BY <1>2, <1>5 DEF AckReplyLost, Fault, Paid, SameCount
<1>6. ASSUME AckLeaseLost(w) PROVE Steady(k, p)
  BY <1>2, <1>3, <1>6 DEF AckLeaseLost, Steady, SameCount
<1>7. ASSUME ReleaseUnit(w) PROVE Steady(k, p) \/ HandsBack(k, p)
  <2>1. Return(w) /\ faults' = faults /\ SameCount(k, p) /\ pc[w] = "release"
    BY <1>7 DEF ReleaseUnit, SameCount
  <2>2. CASE Release(unit[w]) /\ unit[w].key = k
    <3>1. Held(unit[w]) /\ unit[w] # NoHandle /\ Fewer(k, p) /\ w \notin MayProcess(k, p)'
      BY <1>0, <1>2, <2>1, <2>2, UnitInUse DEF Release
    <3>2. Pending(k, p)' => w \in MayProcess(k, p)
      BY <2>1, <2>2, <3>1, PendingKept DEF MayProcess, Reaches
    <3> QED
      BY <2>1, <3>1, <3>2 DEF HandsBack
  <2>3. CASE Release(unit[w]) /\ unit[w].key # k
    <3>1. holder'[k] = holder[k] /\ (k \in expired' => k \in expired)
      BY <1>0, <2>3 DEF Release, Free, TypeInv
    <3>2. unit[w] # [key |-> k, lease |-> holder[k]]
      BY <2>3
    <3>3. \A v \in Workers \ {w} : unit'[v] = unit[v]
      BY <1>0, <1>2, <2>1 DEF TypeInv, PoolTypeOK
    <3>4. Doomed(k)' => Doomed(k)
      BY <1>2, <2>1, <3>1, <3>2, <3>3 DEF Doomed
    <3> QED
      BY <1>2, <2>1, <3>4 DEF Steady
  <2>4. CASE ~Held(unit[w]) /\ UNCHANGED <<queue, arrived, aged, holder, expired, dead>>
    BY <1>2, <1>3, <2>1, <2>4 DEF Steady
  <2> QED
    BY <1>7, <2>2, <2>3, <2>4 DEF ReleaseUnit
<1>8. ASSUME CallFails(w) PROVE Steady(k, p) \/ Paid(k, p)
  BY <1>2, <1>3, <1>8 DEF CallFails, Fault, Steady, Paid, SameCount
<1>9. ASSUME Crash(w) PROVE Paid(k, p)
  <2>1. unit'[w] = NoHandle /\ \A v \in Workers \ {w} : Idle(v)
    BY <1>0, <1>9 DEF Crash, Goto, Idle, TypeInv, PoolTypeOK
  <2> QED
    BY <1>1, <1>9, <2>1 DEF Crash, Fault, Paid, SameCount
<1>10. ASSUME Exit(w) \/ Restart(w) PROVE Steady(k, p)
  <2>1. unit'[w] = NoHandle /\ \A v \in Workers \ {w} : Idle(v)
    BY <1>0, <1>10 DEF Exit, Restart, Goto, Idle, TypeInv, PoolTypeOK
  <2>2. faults' = faults /\ SameCount(k, p) /\ UNCHANGED <<unit, holder, expired>> /\ stopping' \subseteq stopping
    BY <1>10 DEF Exit, Restart, SameCount
  <2>3. Doomed(k)' => Doomed(k)
    BY <2>2 DEF Doomed
  <2> QED
    BY <1>1, <2>1, <2>2, <2>3 DEF Steady
<1> QED
  BY <1>4, <1>5, <1>6, <1>7, <1>8, <1>9, <1>10

\* A claim turns the free unit into its worker's chance.
LEMMA ClaimSteps ==
  ASSUME PoolInv, DeliveryInv, [PoolNext]_poolVars, NEW k \in Keys, NEW p \in 1 .. MaxTasks,
         NEW w \in Workers, NEW j \in Keys, ClaimUnit(w, j)
  PROVE  Steady(k, p) \/ Claims(k, p)
<1>0. TypeInv
  BY DEF PoolInv
<1>1. /\ faults' = faults /\ SameCount(k, p) /\ holder[j] = NoToken /\ w \notin stopping
      /\ UNCHANGED <<stopping, expired>> /\ unit[w] = NoHandle /\ pc'[w] = "drain"
      /\ unit'[w] = [key |-> j, lease |-> holder'[j]]
      /\ \A i \in Keys \ {j} : holder'[i] = holder[i]
      /\ \A v \in Workers \ {w} : unit'[v] = unit[v] /\ Idle(v)
      /\ unit'[w] # NoHandle /\ holder'[j] # NoToken
  <2>1. unit'[w] \in Handle
    BY <1>0 DEF ClaimUnit, FreshToken, Handle, TypeInv, PoolTypeOK
  <2> QED
    BY <1>0, <2>1, LoopAssumption DEF ClaimUnit, Claim, Goto, Handle, SameCount, Idle, TypeInv, PoolTypeOK
<1>2. CASE j # k
  <2>1. w \notin MayProcess(k, p)'
    BY <1>1, <1>2 DEF MayProcess
  <2>2. Fewer(k, p)
    BY <1>1, <2>1, OthersMay DEF Fewer
  <2>3. holder[k] = NoToken \/ unit[w] # [key |-> k, lease |-> holder[k]]
    <3>1. holder[k] \in LeaseTokens => [key |-> k, lease |-> holder[k]] # NoHandle
      BY LoopAssumption DEF Handle
    <3> QED
      BY <1>0, <1>1, <3>1 DEF TypeInv
  <2>4. Doomed(k)' => Doomed(k)
    BY <1>1, <1>2, <2>3 DEF Doomed
  <2> QED
    BY <1>1, <2>2, <2>4 DEF Steady
<1>3. CASE j = k
  <2>1. Doomed(k)
    BY <1>1, <1>3 DEF Doomed
  <2>2. ~Doomed(k)'
    BY <1>1, <1>3 DEF Doomed, DeliveryInv
  <2>3. MayProcess(k, p)' \subseteq MayProcess(k, p) \cup {w}
    BY <1>1, OthersMay
  <2>4. ~Pending(k, p) => Fewer(k, p)
    <3>1. ~Pending(k, p) => w \notin MayProcess(k, p)'
      BY <1>1, PendingKept DEF MayProcess, Ahead
    <3> QED
      BY <1>1, <3>1, OthersMay DEF Fewer
  <2> QED
    BY <1>1, <2>1, <2>2, <2>3, <2>4 DEF Claims
<1> QED
  BY <1>2, <1>3

\* Drain reads what is pending: its worker gets no chance it did not have.
LEMMA DrainSteps ==
  ASSUME PoolInv, [PoolNext]_poolVars, NEW k \in Keys, NEW p \in 1 .. MaxTasks, NEW w \in Workers,
         (DrainCheck(w) /\ Held(unit[w])) \/ DrainRead(w)
  PROVE  Steady(k, p)
<1>0. TypeInv
  BY DEF PoolInv
<1>1. /\ faults' = faults /\ SameCount(k, p) /\ UNCHANGED <<unit, stopping, queue, arrived, holder, expired>>
  BY DEF DrainCheck, DrainRead, Continue, SameCount
<1>2. \A v \in Workers \ {w} : Idle(v)
  <2>1. CASE DrainCheck(w) /\ Held(unit[w])
    BY <1>0, <2>1 DEF DrainCheck, Continue, Goto, Idle, TypeInv, PoolTypeOK
  <2>2. CASE DrainRead(w)
    BY <1>0, <2>2 DEF DrainRead, Continue, Goto, Idle, TypeInv, PoolTypeOK
  <2> QED
    BY <2>1, <2>2
<1>3. ASSUME w \in MayProcess(k, p)' PROVE w \in MayProcess(k, p)
  <2>1. unit[w] # NoHandle /\ unit[w].key = k
    BY <1>1, <1>3 DEF MayProcess
  <2>2. CASE DrainCheck(w) /\ Held(unit[w])
    <3>1. pc[w] = "drain" /\ pc'[w] = "read"
      BY <1>0, <2>2 DEF DrainCheck, Continue, Goto, TypeInv, PoolTypeOK
    <3>2. Pending(k, p)
      BY <1>1, <1>3, <3>1 DEF MayProcess, Ahead, Pending
    <3> QED
      BY <2>1, <2>2, <3>1, <3>2 DEF MayProcess, Reaches
  <2>3. CASE DrainRead(w)
    <3>1. pc[w] = "read"
      BY <2>3 DEF DrainRead
    <3>2. Pending(k, p)
      <4>1. CASE Pending(k, p)'
        BY <4>1, PendingKept
      <4>2. CASE Ahead(w, p)'
        <5> DEFINE ts == queue[k]
                   b == Drained(ts)
                   a == arrived[k]
        <5>1. b # <<>>
          BY <1>0, <2>1, <2>3, <4>2 DEF Ahead, DrainRead, Continue, Goto, TypeInv, PoolTypeOK
        <5>2. batch'[w] = b /\ at'[w] = 1
          BY <1>0, <2>1, <2>3, <5>1 DEF DrainRead, TypeInv
        <5>3. /\ ts \in Seq(Task) /\ Len(ts) \in Nat /\ a \in Nat /\ QueueInv(ts, a)
              /\ Len(b) \in 0 .. Len(ts) /\ \A i \in 1 .. Len(b) : b[i] = ts[i]
          BY <1>0, TasksAssumption, LenProperties, DrainedPrefix DEF PoolInv, TypeInv
        <5>4. PICK i \in 1 .. Len(b) : b[i].payload = p
          BY <4>2, <5>2 DEF Ahead
        <5> HIDE DEF b, ts, a
        <5>5. i \in 1 .. Len(ts) /\ ts[i].payload = p /\ ts[i].payload = a - Len(ts) + i
          BY <5>3, <5>4 DEF QueueInv
        <5>6. p > a - Len(ts)
          BY <5>3, <5>5
        <5> QED
          BY <5>6 DEF Pending, ts, a
      <4> QED
        BY <1>3, <4>1, <4>2 DEF MayProcess
    <3> QED
      BY <2>1, <3>1, <3>2 DEF MayProcess, Reaches
  <2> QED
    BY <2>2, <2>3
<1>4. Fewer(k, p)
  BY <1>2, <1>3, OthersMay DEF Fewer
<1> QED
  BY <1>1, <1>4 DEF Steady, Doomed

\* Processing a task uses up its worker's chance.
LEMMA ProcessSteps ==
  ASSUME PoolInv, [PoolNext]_poolVars, NEW k \in Keys, NEW p \in 1 .. MaxTasks, NEW w \in Workers,
         Process(w)
  PROVE  Steady(k, p) \/ Delivers(k, p)
<1> DEFINE j == unit[w].key
           b == batch[w]
           n == at[w]
           q == b[n].payload
<1>0. TypeInv
  BY DEF PoolInv
<1>1. /\ j \in Keys /\ pc[w] = "process" /\ n \in 1 .. Len(b) /\ BatchInv(w)
      /\ q \in 1 .. MaxTasks /\ processed'[j][q] = processed[j][q] + 1
      /\ j # k \/ p # q => SameCount(k, p)
  BY ProcessEffect DEF SameCount
<1>2. /\ faults' = faults /\ UNCHANGED <<unit, batch, stopping, queue, arrived, holder, expired>>
      /\ at'[w] = n + 1 /\ pc'[w] \in {"process", "ack"}
      /\ \A v \in Workers \ {w} : Idle(v)
  BY <1>0 DEF Process, Goto, Idle, TypeInv, PoolTypeOK
<1>3. unit[w] # NoHandle /\ Len(b) \in Nat /\ n \in Nat
  BY <1>0, <1>1, UnitInUse, LenProperties DEF TypeInv
<1>4. Doomed(k)' => Doomed(k)
  BY <1>2 DEF Doomed
<1>5. \A i \in 1 .. Len(b) : b[i].payload = b[1].payload + i - 1 /\ b[i].payload \in 1 .. arrived[j]
  BY <1>1 DEF BatchInv
<1>6. w \in MayProcess(k, p)' => w \in MayProcess(k, p)
  <2>1. Ahead(w, p)' => Ahead(w, p)
    BY <1>1, <1>2, <1>3 DEF Ahead
  <2>2. Reaches(w, p)' => Reaches(w, p)
    BY <1>1, <1>2 DEF Reaches, Working, Held
  <2>3. Pending(k, p)' => Pending(k, p)
    BY PendingKept
  <2> QED
    BY <1>2, <2>1, <2>2, <2>3 DEF MayProcess
<1>7. Fewer(k, p)
  BY <1>2, <1>6, OthersMay DEF Fewer
<1>8. CASE j # k \/ p # q
  BY <1>1, <1>2, <1>4, <1>7, <1>8 DEF Steady
<1>9. CASE j = k /\ p = q
  <2>1. w \in MayProcess(k, p)
    BY <1>1, <1>3, <1>9 DEF MayProcess, Ahead
  <2>2. ~Ahead(w, p)'
    <3> SUFFICES ASSUME Ahead(w, p)' PROVE FALSE
      OBVIOUS
    <3>1. PICK i \in (n + 1) .. Len(b) : b[i].payload = p
      BY <1>2 DEF Ahead
    <3>2. i \in 1 .. Len(b) /\ 1 \in 1 .. Len(b) /\ i \in Int /\ i > n
      BY <1>1, <1>3
    <3>3. b[n].payload = p
      BY <1>9
    <3> HIDE DEF b, n, j
    <3>4. b[i].payload = b[1].payload + i - 1 /\ b[n].payload = b[1].payload + n - 1
      BY <1>1, <1>5, <3>2
    <3>5. b[1].payload \in Int
      <4>1. b[1].payload \in 1 .. arrived[j]
        BY <1>5, <3>2
      <4> QED
        BY <4>1
    <3> QED
      BY <1>3, <3>1, <3>2, <3>3, <3>4, <3>5
  <2>3. ~Reaches(w, p)'
    BY <1>1, <1>2, <1>9 DEF Reaches, Working
  <2>4. w \notin MayProcess(k, p)'
    BY <2>2, <2>3 DEF MayProcess
  <2> QED
    BY <1>1, <1>2, <1>4, <1>7, <1>9, <2>1, <2>4 DEF Delivers
<1> QED
  BY <1>8, <1>9

\* An Ack ends the chances of its batch and keeps or hands back the others.
LEMMA AckSteps ==
  ASSUME PoolInv, [PoolNext]_poolVars, NEW k \in Keys, NEW p \in 1 .. MaxTasks, NEW w \in Workers,
         AckBatch(w)
  PROVE  Steady(k, p) \/ HandsBack(k, p)
<1> DEFINE j == unit[w].key
           b == batch[w]
           n == Len(b)
<1>0. TypeInv
  BY DEF PoolInv
<1>1. faults' = faults /\ SameCount(k, p) /\ pc[w] = "ack" /\ Ack(unit[w], AckRun(w)) /\ stopping' = stopping
  BY DEF AckBatch, Return, SameCount
<1>2. AckStep(w) /\ \A v \in Workers \ {w} : Idle(v) /\ unit'[v] = unit[v]
  <2>1. CASE holder'[unit[w].key] # NoToken
    BY <1>0, <2>1 DEF AckBatch, AckStep, TypeInv, PoolTypeOK, Goto, Working, Idle
  <2>2. CASE holder'[unit[w].key] = NoToken
    BY <1>0, <2>2 DEF AckBatch, AckStep, Return, TypeInv, PoolTypeOK, Goto, Working, Idle
  <2> QED
    BY <2>1, <2>2
<1>3. /\ j \in Keys /\ Held(unit[w]) /\ n \in 1 .. Len(queue[j])
      /\ queue' = [queue EXCEPT ![j] = Suffix(queue[j], n)]
      /\ arrived' = arrived /\ Aligned(w)
  BY <1>2, AckEffect
<1>4. unit[w] # NoHandle
  BY <1>0, <1>1, UnitInUse
<1>5. expired' \subseteq expired
  BY <1>1 DEF Ack, Free
<1>6. ASSUME j = k, Pending(k, p)' PROVE w \in MayProcess(k, p)
  <2> DEFINE ts == queue[k]
             a == arrived[k]
  <2>1. ts \in Seq(Task) /\ Len(ts) \in Nat /\ a \in Nat /\ QueueInv(ts, a) /\ n \in 0 .. Len(ts) /\ n \in Nat
    BY <1>0, <1>3, <1>6, TasksAssumption, LenProperties DEF PoolInv, TypeInv
  <2>2. Len(queue'[k]) = Len(ts) - n
    <3>1. queue'[k] = Suffix(ts, n)
      BY <1>0, <1>3, <1>6 DEF TypeInv
    <3> HIDE DEF ts, n
    <3> QED
      BY <2>1, <3>1, SuffixProperties
  <2>3. p > a - (Len(ts) - n)
    BY <1>3, <1>6, <2>2 DEF Pending
  <2>4. \A i \in 1 .. n : b[i].payload = a - Len(ts) + i
    <3>1. n <= Len(ts) /\ \A i \in 1 .. n : b[i] = ts[i]
      BY <1>3, <1>6 DEF Aligned
    <3> HIDE DEF ts, n, a, b
    <3>2. ASSUME NEW i \in 1 .. n PROVE b[i].payload = a - Len(ts) + i
      <4>1. i \in 1 .. Len(ts) /\ b[i] = ts[i]
        BY <2>1, <3>1
      <4> QED
        BY <2>1, <4>1 DEF QueueInv
    <3> QED
      BY <3>2
  <2> HIDE DEF ts, n, a
  <2>5. \A i \in 1 .. n : b[i].payload # p
    BY <2>1, <2>3, <2>4
  <2>6. Reaches(w, p)
    BY <1>1, <1>3, <2>5 DEF Reaches, Working, n
  <2> QED
    BY <1>4, <1>6, <2>6, PendingKept DEF MayProcess
<1>7. CASE j # k
  <2>1. holder'[k] = holder[k] /\ unit[w] # [key |-> k, lease |-> holder[k]]
    BY <1>0, <1>1, <1>7 DEF Ack, Free, TypeInv
  <2>2. unit'[w] = NoHandle \/ unit'[w] = unit[w]
    BY <1>0 DEF AckBatch, Return, TypeInv, PoolTypeOK
  <2>3. w \notin MayProcess(k, p)'
    BY <1>7, <2>2 DEF MayProcess
  <2>4. Doomed(k)' => Doomed(k)
    BY <1>1, <1>2, <1>5, <2>1 DEF Doomed
  <2> QED
    BY <1>1, <1>2, <2>3, <2>4, OthersMay DEF Steady, Fewer
<1>8. CASE j = k /\ holder'[j] # NoToken
  <2>1. unit' = unit /\ holder' = holder /\ pc'[w] = "drain"
    BY <1>0, <1>1, <1>3, <1>8 DEF AckBatch, Ack, Free, Goto, TypeInv, PoolTypeOK
  <2>2. w \in MayProcess(k, p)' => w \in MayProcess(k, p)
    BY <1>6, <1>8, <2>1 DEF MayProcess, Ahead
  <2>3. Doomed(k)' => Doomed(k)
    BY <1>1, <1>5, <2>1 DEF Doomed
  <2> QED
    BY <1>1, <1>2, <2>2, <2>3, OthersMay DEF Steady, Fewer
<1>9. CASE j = k /\ holder'[j] = NoToken
  <2>1. unit'[w] = NoHandle
    BY <1>0, <1>9 DEF AckBatch, Return, TypeInv, PoolTypeOK
  <2>2. w \notin MayProcess(k, p)'
    BY <2>1 DEF MayProcess
  <2>3. Pending(k, p)' => MayProcess(k, p)' # MayProcess(k, p)
    BY <1>6, <1>9, <2>2
  <2> QED
    BY <1>1, <1>2, <2>2, <2>3, OthersMay DEF HandsBack, Fewer
<1> QED
  BY <1>7, <1>8, <1>9

\* An expired lease is a live one.
LEMMA NextExpired ==
  ASSUME TypeInv, DeliveryInv, [PoolNext]_poolVars
  PROVE  expired' \subseteq {k \in Keys : holder'[k] # NoToken} /\ faults' \in Nat
<1>0. expired \subseteq {k \in Keys : holder[k] # NoToken} /\ faults \in Nat
  BY DEF DeliveryInv
<1>1. ASSUME UNCHANGED <<holder, expired>> PROVE expired' \subseteq {k \in Keys : holder'[k] # NoToken}
  BY <1>0, <1>1
<1>2. ASSUME NEW j \in Keys, NEW c \in Costs, Produce(j, c) PROVE expired' \subseteq {k \in Keys : holder'[k] # NoToken}
  BY <1>1, <1>2 DEF Produce, Enqueue
<1>3. ASSUME NEW w \in Workers, NEW j \in Keys, ClaimUnit(w, j) \/ ClaimReplyLost(w, j)
      PROVE  expired' \subseteq {k \in Keys : holder'[k] # NoToken}
  BY <1>0, <1>3 DEF ClaimUnit, ClaimReplyLost, Claim, TypeInv
<1>4. ASSUME NEW w \in Workers,
             DrainCheck(w) \/ DrainRead(w) \/ Process(w) \/ AckLeaseLost(w) \/ CallFails(w)
             \/ Crash(w) \/ Shutdown(w) \/ Exit(w) \/ Restart(w)
      PROVE  UNCHANGED <<holder, expired>>
  BY <1>4 DEF DrainCheck, DrainRead, Process, AckLeaseLost, CallFails, Crash, Shutdown, Exit, Restart
<1>5. ASSUME NEW w \in Workers, AckBatch(w) \/ AckReplyLost(w) \/ ReleaseUnit(w)
      PROVE  expired' \subseteq {k \in Keys : holder'[k] # NoToken}
  BY <1>0, <1>5 DEF AckBatch, AckReplyLost, ReleaseUnit, Ack, Release, Free, TypeInv
<1>6. ASSUME NEW h \in beats, Beat(h) \/ BeatExits(h) PROVE expired' \subseteq {k \in Keys : holder'[k] # NoToken}
  BY <1>0, <1>6 DEF Beat, BeatExits, Heartbeat
<1>7. ASSUME NEW j \in Keys, Age(j) \/ LeaseRunsOut(j) PROVE expired' \subseteq {k \in Keys : holder'[k] # NoToken}
  BY <1>0, <1>7 DEF Age, LeaseRunsOut, Elapse
<1>8. ASSUME Reap PROVE expired' \subseteq {k \in Keys : holder'[k] # NoToken}
  BY <1>0, <1>8 DEF Reap, Reclaim
<1>9. ASSUME UNCHANGED poolVars PROVE UNCHANGED <<holder, expired>>
  BY <1>9 DEF poolVars, vars
<1>10. expired' \subseteq {k \in Keys : holder'[k] # NoToken}
  BY <1>1, <1>2, <1>3, <1>4, <1>5, <1>6, <1>7, <1>8, <1>9 DEF PoolNext, WorkerStep
<1>11. faults' \in {faults, faults + 1}
  <2>1. ASSUME NEW w \in Workers, WorkerStep(w) PROVE faults' = faults
    BY <2>1 DEF WorkerStep, ClaimUnit, DrainCheck, DrainRead, Process, AckBatch, AckLeaseLost,
                ReleaseUnit, Exit
  <2>2. ASSUME NEW w \in Workers, \/ \E k \in Keys : ClaimReplyLost(w, k)
                                  \/ AckReplyLost(w) \/ CallFails(w) \/ Crash(w) \/ Shutdown(w) \/ Restart(w)
        PROVE  faults' \in {faults, faults + 1}
    BY <2>2 DEF ClaimReplyLost, AckReplyLost, CallFails, Crash, Shutdown, Restart, Fault
  <2>3. CASE \/ \E k \in Keys, c \in Costs : Produce(k, c)
             \/ \E h \in beats : Beat(h) \/ BeatExits(h)
             \/ \E k \in Keys : Age(k) \/ LeaseRunsOut(k)
             \/ Reap
             \/ UNCHANGED poolVars
    BY <2>3 DEF Produce, Beat, BeatExits, Age, LeaseRunsOut, Reap, Fault, poolVars
  <2> QED
    BY <2>1, <2>2, <2>3 DEF PoolNext
<1> QED
  BY <1>0, <1>10, <1>11

\* Every step keeps the balance of deliveries.
LEMMA NextDeliveryInv ==
  ASSUME PoolInv, DeliveryInv, [PoolNext]_poolVars
  PROVE  DeliveryInv'
<1>1. ASSUME NEW k \in Keys, NEW p \in 1 .. MaxTasks
      PROVE  Steady(k, p) \/ Paid(k, p) \/ HandsBack(k, p) \/ Claims(k, p) \/ Delivers(k, p)
  <2>1. ASSUME NEW w \in Workers, WorkerStep(w)
        PROVE  Steady(k, p) \/ HandsBack(k, p) \/ Claims(k, p) \/ Delivers(k, p)
    <3>1. ASSUME NEW j \in Keys, ClaimUnit(w, j) PROVE Steady(k, p) \/ Claims(k, p)
      BY <3>1, ClaimSteps
    <3>2. DrainCheck(w) \/ DrainRead(w) => Steady(k, p)
      BY DrainSteps, LeavingSteps
    <3>3. Process(w) => Steady(k, p) \/ Delivers(k, p)
      BY ProcessSteps
    <3>4. AckBatch(w) => Steady(k, p) \/ HandsBack(k, p)
      BY AckSteps
    <3>5. AckLeaseLost(w) \/ ReleaseUnit(w) \/ Exit(w) => Steady(k, p) \/ HandsBack(k, p)
      BY LeavingSteps
    <3> QED
      BY <2>1, <3>1, <3>2, <3>3, <3>4, <3>5 DEF WorkerStep
  <2>2. ASSUME NEW w \in Workers, AckReplyLost(w) \/ CallFails(w) \/ Crash(w) \/ Restart(w)
        PROVE  Steady(k, p) \/ Paid(k, p)
    BY <2>2, LeavingSteps
  <2> QED
    BY <2>1, <2>2, OutsideSteps DEF PoolNext
<1>2. \A k \in Keys : \A p \in 1 .. MaxTasks :
        processed'[k][p] + Cardinality(MayProcess(k, p)') + AtRisk(k, p)' <= 1 + faults'
  BY <1>1, BalanceKept
<1>3. expired' \subseteq {k \in Keys : holder'[k] # NoToken} /\ faults' \in Nat
  BY NextExpired DEF PoolInv
<1> QED
  BY <1>2, <1>3 DEF DeliveryInv

(***************************************************************************)
(* Redelivery is paid for by faults: whatever the number of workers, leases*)
(* and tasks, no task is processed more often than once plus the number of *)
(* stalls, lost calls, crashes and shutdowns so far (runOnce, Reap).       *)
(***************************************************************************)
THEOREM RedeliveryIsPaidFor == PoolSpec => []RedeliveryBounded
<1>1. PoolInit => DeliveryInv
  <2> SUFFICES ASSUME PoolInit PROVE DeliveryInv
    OBVIOUS
  <2>1. ASSUME NEW k \in Keys, NEW p \in 1 .. MaxTasks
        PROVE  processed[k][p] + Cardinality(MayProcess(k, p)) + AtRisk(k, p) <= 1 + faults
    <3>1. MayProcess(k, p) = {}
      BY DEF PoolInit, MayProcess
    <3>2. Cardinality(MayProcess(k, p)) = 0 /\ processed[k][p] = 0 /\ faults = 0
      BY <3>1, FS_EmptySet DEF PoolInit
    <3>3. AtRisk(k, p) \in {0, 1}
      BY DEF AtRisk
    <3> QED
      BY <3>2, <3>3
  <2>2. expired = {} /\ faults \in Nat
    BY DEF PoolInit, Init
  <2> QED
    BY <2>1, <2>2 DEF DeliveryInv
<1>2. PoolInv /\ DeliveryInv /\ [PoolNext]_poolVars => DeliveryInv'
  BY NextDeliveryInv
<1>3. PoolInv /\ DeliveryInv => RedeliveryBounded
  <2> SUFFICES ASSUME PoolInv, DeliveryInv, NEW k \in Keys, NEW p \in 1 .. MaxTasks
               PROVE  processed[k][p] <= 1 + faults
    BY DEF RedeliveryBounded
  <2> DEFINE m == Cardinality(MayProcess(k, p))
             r == AtRisk(k, p)
             n == processed[k][p]
  <2>1. m \in Nat
    <3>1. MayProcess(k, p) \in SUBSET Workers
      BY DEF MayProcess
    <3> QED
      BY <3>1, WorkerSets
  <2>2. r \in {0, 1} /\ n + m + r <= 1 + faults /\ faults \in Nat
    BY DEF AtRisk, DeliveryInv
  <2>3. n \in Nat
    <3>1. processed[k] \in [1 .. MaxTasks -> Nat]
      BY DEF PoolInv, TypeInv, PoolTypeOK
    <3> QED
      BY <3>1
  <2> HIDE DEF m, r, n
  <2>4. n <= 1 + faults
    BY <2>1, <2>2, <2>3
  <2> QED
    BY <2>4 DEF n
<1> QED
  BY <1>1, <1>2, <1>3, PoolInvariant, PTL DEF PoolSpec
=============================================================================
