----------------------------- MODULE WorkerPool -----------------------------
(***************************************************************************)
(* The shared worker loop (internal/queue/worker.go) and the reaper loop   *)
(* (cmd/plq/main.go) against any driver that keeps the contract.  Each     *)
(* backend call takes effect at one instant; between two calls every other *)
(* worker, heartbeat goroutine, producer and reaper may run.  Replies may  *)
(* be lost, leases may run out under a stalled worker, workers may crash   *)
(* or be told to stop.  Drain is two steps, its lease check and its read,  *)
(* as in the Postgres and Valkey drivers; the in-memory driver merely does *)
(* the two without a break.                                                *)
(***************************************************************************)
EXTENDS QueueContract

CONSTANTS
  Workers,    \* worker ids
  NoHandle,   \* a worker without a unit
  Batch,      \* WorkerConfig.Batch
  MaxFaults,  \* bound: stalls, lost calls, crashes and shutdowns
  MinUp       \* at least this many workers are up and not told to stop

ASSUME LoopAssumption ==
  /\ Batch \in Nat \ {0} /\ MaxFaults \in Nat /\ MinUp \in Nat
  /\ IsFiniteSet(Workers)
  /\ NoHandle \notin Handle /\ NoToken \notin LeaseTokens
ASSUME TasksAssumption == Costs \subseteq Nat /\ MaxTasks \in Nat

VARIABLES
  pc,         \* pc[w]: the call w makes next, or "down"
  unit,       \* unit[w]: the ClaimedUnit w works on, or NoHandle
  batch,      \* batch[w]: the tasks w drained and has not yet acked
  at,         \* at[w]: index in batch[w] of the task w processes next
  beats,      \* handles some heartbeat goroutine is still renewing
  stopping,   \* workers whose context was cancelled
  processed,  \* history: processed[k][p], how often task p of k was processed
  faults      \* how many faults have happened

local == <<pc, unit, batch, at, stopping>>
poolVars == <<vars, local, beats, processed, faults>>

-----------------------------------------------------------------------------
InUse(t) == (\E k \in Keys : holder[k] = t) \/ (\E h \in handles : h.lease = t)

\* A token nobody has a copy of: drivers never issue the same one twice.
FreshToken == CHOOSE t \in LeaseTokens : ~InUse(t)

\* The handles of the next state are the ones workers and heartbeats refer to.
TrackHandles == handles' = ({unit'[w] : w \in Workers} \cup beats') \ {NoHandle}

Up(w) == pc[w] # "down" /\ w \notin stopping

Fault == faults < MaxFaults /\ faults' = faults + 1

Goto(w, label) == pc' = [pc EXCEPT ![w] = label]

(***************************************************************************)
(* Deliberately wrong variants of the definitions they name, to show that  *)
(* the properties below can fail.  No specification uses them.             *)
(***************************************************************************)
\* Return, keeping the unit
ReturnKeepsUnit(w) == Goto(w, "claim") /\ UNCHANGED <<unit, batch, at, stopping>>

\* Drained, newest first
DrainedFromTail(ts) == IF Batch < Len(ts) THEN Suffix(ts, Len(ts) - Batch) ELSE ts

\* AckRun, dropping everything pending
AckRunAll(w) == Len(queue[unit[w].key])

\* AckRun, stopping before the last task
AckRunShort(w) == LeadingRun(queue[unit[w].key], batch[w][Len(batch[w])].seq - 1)

\* BeatExits, with the pool's context in place of the batch's
BeatsUntilPoolStops(h) ==
  /\ h \in beats
  /\ \A w \in Workers : ~Up(w)
  /\ beats' = beats \ {h}
  /\ UNCHANGED <<queue, arrived, aged, holder, expired, dead>>
  /\ UNCHANGED <<local, processed, faults>>
  /\ TrackHandles

\* runOnce returns: the unit is forgotten, Run looks at ctx before going on.
Return(w) ==
  /\ Goto(w, "claim")
  /\ unit' = [unit EXCEPT ![w] = NoHandle]
  /\ batch' = [batch EXCEPT ![w] = <<>>]
  /\ at' = [at EXCEPT ![w] = 0]
  /\ UNCHANGED stopping

\* runOnce carries on with the same unit.
Continue(w, label) == Goto(w, label) /\ UNCHANGED <<unit, batch, at, stopping>>

-----------------------------------------------------------------------------
PoolInit ==
  /\ Init
  /\ pc = [w \in Workers |-> "claim"]
  /\ unit = [w \in Workers |-> NoHandle]
  /\ batch = [w \in Workers |-> <<>>]
  /\ at = [w \in Workers |-> 0]
  /\ beats = {}
  /\ stopping = {}
  /\ processed = [k \in Keys |-> [p \in 1 .. MaxTasks |-> 0]]
  /\ faults = 0

(***************************************************************************)
(* Drivers number tasks on from the last pending one; a key with nothing   *)
(* pending starts over at 0 (memory, Valkey) or carries on (Postgres).     *)
(***************************************************************************)
NextSeqs(k) ==
  IF queue[k] = <<>> THEN {0, arrived[k]} ELSE {queue[k][Len(queue[k])].seq + 1}

Produce(k, c) ==
  /\ \E s \in NextSeqs(k) : Enqueue(k, c, s)
  /\ UNCHANGED <<local, beats, processed, faults>>
  /\ TrackHandles

\* be.Claim found unit k; with nothing eligible the worker backs off.
ClaimUnit(w, k) ==
  /\ pc[w] = "claim" /\ w \notin stopping
  /\ \E t \in LeaseTokens : ~InUse(t)
  /\ Claim(k, FreshToken)
  /\ unit' = [unit EXCEPT ![w] = [key |-> k, lease |-> FreshToken]]
  /\ Goto(w, "drain")
  /\ UNCHANGED <<batch, at, stopping, beats, processed, faults>>
  /\ TrackHandles

\* The claim took effect but its reply never came: a lease nobody knows of.
ClaimReplyLost(w, k) ==
  /\ pc[w] = "claim" /\ w \notin stopping
  /\ Fault
  /\ \E t \in LeaseTokens : ~InUse(t)
  /\ Claim(k, FreshToken)
  /\ UNCHANGED <<local, beats, processed>>
  /\ TrackHandles

\* Drain's lease check: ErrLeaseLost ends runOnce, without a Release.
DrainCheck(w) ==
  /\ pc[w] = "drain"
  /\ IF Held(unit[w]) THEN Continue(w, "read") ELSE Return(w)
  /\ UNCHANGED <<queue, arrived, aged, holder, expired, dead>>
  /\ UNCHANGED <<beats, processed, faults>>
  /\ TrackHandles

Drained(ts) == Prefix(ts, IF Batch < Len(ts) THEN Batch ELSE Len(ts))

\* Drain's read, then go w.heartbeat; an empty batch leads to Release.
DrainRead(w) ==
  LET tasks == Drained(queue[unit[w].key])
  IN  /\ pc[w] = "read"
      /\ IF tasks = <<>>
         THEN Continue(w, "release") /\ UNCHANGED beats
         ELSE /\ Goto(w, "process")
              /\ batch' = [batch EXCEPT ![w] = tasks]
              /\ at' = [at EXCEPT ![w] = 1]
              /\ beats' = beats \cup {unit[w]}
              /\ UNCHANGED <<unit, stopping>>
      /\ UNCHANGED <<queue, arrived, aged, holder, expired, dead>>
      /\ UNCHANGED <<processed, faults>>
      /\ TrackHandles

\* OnProcess and work for one task; after the last one stop() and Ack.
Process(w) ==
  LET k == unit[w].key
      p == batch[w][at[w]].payload
  IN  /\ pc[w] = "process"
      /\ processed' = [processed EXCEPT ![k][p] = @ + 1]
      /\ at' = [at EXCEPT ![w] = @ + 1]
      /\ Goto(w, IF at[w] = Len(batch[w]) THEN "ack" ELSE "process")
      /\ UNCHANGED <<unit, batch, stopping, beats, faults>>
      /\ UNCHANGED <<queue, arrived, aged, holder, expired, dead>>
      /\ TrackHandles

\* How much of the unit the worker's Ack, through its last task's seq, drops.
AckRun(w) ==
  LeadingRun(queue[unit[w].key], batch[w][Len(batch[w])].seq)

\* Ack validated: on with the next batch while the unit is still held.
AckBatch(w) ==
  /\ pc[w] = "ack"
  /\ Ack(unit[w], AckRun(w))
  /\ IF holder'[unit[w].key] # NoToken
     THEN /\ Goto(w, "drain")
          /\ batch' = [batch EXCEPT ![w] = <<>>]
          /\ at' = [at EXCEPT ![w] = 0]
          /\ UNCHANGED <<unit, stopping>>
     ELSE Return(w)
  /\ UNCHANGED <<beats, processed, faults>>
  /\ TrackHandles

\* The ack took effect but its reply was lost: runOnce returns the error.
AckReplyLost(w) ==
  /\ pc[w] = "ack"
  /\ Fault
  /\ Ack(unit[w], AckRun(w))
  /\ Return(w)
  /\ UNCHANGED <<beats, processed>>
  /\ TrackHandles

\* The unit was reclaimed meanwhile: ErrLeaseLost, the batch's work is wasted.
AckLeaseLost(w) ==
  /\ pc[w] = "ack"
  /\ ~Held(unit[w])
  /\ Return(w)
  /\ UNCHANGED <<queue, arrived, aged, holder, expired, dead>>
  /\ UNCHANGED <<beats, processed, faults>>
  /\ TrackHandles

ReleaseUnit(w) ==
  /\ pc[w] = "release"
  /\ \/ Release(unit[w])
     \/ ~Held(unit[w]) /\ UNCHANGED <<queue, arrived, aged, holder, expired, dead>>
  /\ Return(w)
  /\ UNCHANGED <<beats, processed, faults>>
  /\ TrackHandles

\* Drain, Ack or Release failed without effect: the lease is left behind.
CallFails(w) ==
  /\ pc[w] \in {"drain", "read", "ack", "release"}
  /\ Fault \/ (w \in stopping /\ UNCHANGED faults)
  /\ Return(w)
  /\ UNCHANGED <<queue, arrived, aged, holder, expired, dead>>
  /\ UNCHANGED <<beats, processed>>
  /\ TrackHandles

-----------------------------------------------------------------------------
\* A tick of the heartbeat goroutine; its error is ignored.
Beat(h) ==
  /\ h \in beats
  /\ Heartbeat(h)
  /\ UNCHANGED <<local, beats, processed, faults>>
  /\ TrackHandles

(***************************************************************************)
(* The goroutine sees ctx.Done(): after stop(), or at once when the pool's *)
(* context was cancelled in the middle of the batch.  Until it does, a tick*)
(* can still renew the lease.                                              *)
(***************************************************************************)
Beating(h) == \E w \in Workers : pc[w] = "process" /\ unit[w] = h /\ w \notin stopping

BeatExits(h) ==
  /\ h \in beats
  /\ ~Beating(h)
  /\ beats' = beats \ {h}
  /\ UNCHANGED <<queue, arrived, aged, holder, expired, dead>>
  /\ UNCHANGED <<local, processed, faults>>
  /\ TrackHandles

\* The worker's process dies where it stands; requests already sent may land.
Crash(w) ==
  /\ pc[w] # "down"
  /\ Cardinality({v \in Workers \ {w} : Up(v)}) >= MinUp
  /\ Fault
  /\ Goto(w, "down")
  /\ unit' = [unit EXCEPT ![w] = NoHandle]
  /\ batch' = [batch EXCEPT ![w] = <<>>]
  /\ at' = [at EXCEPT ![w] = 0]
  /\ stopping' = stopping \ {w}
  /\ UNCHANGED <<queue, arrived, aged, holder, expired, dead>>
  /\ UNCHANGED <<beats, processed>>
  /\ TrackHandles

\* The context is cancelled; the batch in progress runs to its end.
Shutdown(w) ==
  /\ Up(w)
  /\ Cardinality({v \in Workers \ {w} : Up(v)}) >= MinUp
  /\ Fault
  /\ stopping' = stopping \cup {w}
  /\ UNCHANGED <<pc, unit, batch, at, beats, processed>>
  /\ UNCHANGED <<queue, arrived, aged, holder, expired, dead>>
  /\ TrackHandles

\* Run returns at the top of its loop once ctx is cancelled.
Exit(w) ==
  /\ pc[w] = "claim" /\ w \in stopping
  /\ Goto(w, "down")
  /\ stopping' = stopping \ {w}
  /\ UNCHANGED <<unit, batch, at, beats, processed, faults>>
  /\ UNCHANGED <<queue, arrived, aged, holder, expired, dead>>
  /\ TrackHandles

Restart(w) ==
  /\ pc[w] = "down"
  /\ Goto(w, "claim")
  /\ UNCHANGED <<unit, batch, at, stopping, beats, processed, faults>>
  /\ UNCHANGED <<queue, arrived, aged, holder, expired, dead>>
  /\ TrackHandles

-----------------------------------------------------------------------------
\* Everything pending in k grows older than max_wait.
Age(k) ==
  /\ aged[k] # Payloads(queue[k])
  /\ aged' = [aged EXCEPT ![k] = Payloads(queue[k])]
  /\ UNCHANGED <<expired, local, beats, processed, faults>>
  /\ Elapse
  /\ TrackHandles

(***************************************************************************)
(* A lease runs out.  One whose worker is gone, or was told to stop and no *)
(* longer renews it, does so in the normal course of things; under a worker*)
(* that is still going it takes a stall longer than the lease.             *)
(***************************************************************************)
Abandoned(k) ==
  LET h == [key |-> k, lease |-> holder[k]]
  IN  h \notin beats /\ \A w \in Workers : unit[w] = h => w \in stopping

LeaseRunsOut(k) ==
  /\ holder[k] # NoToken /\ k \notin expired
  /\ IF Abandoned(k) THEN UNCHANGED faults ELSE Fault
  /\ expired' = expired \cup {k}
  /\ UNCHANGED <<aged, local, beats, processed>>
  /\ Elapse
  /\ TrackHandles

\* reapLoopM: the tick may be stale and see only some of the expired leases.
Reap ==
  /\ \E S \in SUBSET expired : Reclaim(S)
  /\ UNCHANGED <<local, beats, processed, faults>>
  /\ TrackHandles

WorkerStep(w) ==
  \/ \E k \in Keys : ClaimUnit(w, k)
  \/ DrainCheck(w)
  \/ DrainRead(w)
  \/ Process(w)
  \/ AckBatch(w)
  \/ AckLeaseLost(w)
  \/ ReleaseUnit(w)
  \/ Exit(w)

PoolNext ==
  \/ \E k \in Keys, c \in Costs : Produce(k, c)
  \/ \E w \in Workers :
       \/ WorkerStep(w)
       \/ \E k \in Keys : ClaimReplyLost(w, k)
       \/ AckReplyLost(w)
       \/ CallFails(w)
       \/ Crash(w)
       \/ Shutdown(w)
       \/ Restart(w)
  \/ \E h \in beats : Beat(h) \/ BeatExits(h)
  \/ \E k \in Keys : Age(k) \/ LeaseRunsOut(k)
  \/ Reap

PoolSpec == PoolInit /\ [][PoolNext]_poolVars

(***************************************************************************)
(* Scheduling the code gives: a worker that is up keeps looping and its    *)
(* batches end (Run, runOnce), a goroutine whose context is done returns,  *)
(* the clock moves (tasks age, abandoned leases run out), and the reaper's *)
(* ticker keeps firing (reapLoopM).  Nothing is assumed of producers,      *)
(* heartbeats, faults or restarts.                                         *)
(***************************************************************************)
AbandonedRunsOut(k) == Abandoned(k) /\ LeaseRunsOut(k)

FullReap ==
  /\ expired # {}
  /\ Reclaim(expired)
  /\ UNCHANGED <<local, beats, processed, faults>>
  /\ TrackHandles

Fairness ==
  /\ \A w \in Workers : WF_poolVars(WorkerStep(w))
  /\ \A h \in Handle : WF_poolVars(BeatExits(h))
  /\ \A k \in Keys : WF_poolVars(Age(k)) /\ WF_poolVars(AbandonedRunsOut(k))
  /\ WF_poolVars(FullReap)

FairSpec == PoolSpec /\ Fairness

-----------------------------------------------------------------------------
(* Properties. *)

\* The types of the loop's state, and that handles are the ones in use.
PoolTypeOK ==
  /\ pc \in [Workers -> {"claim", "drain", "read", "process", "ack", "release", "down"}]
  /\ unit \in [Workers -> Handle \cup {NoHandle}]
  /\ \A w \in Workers : (unit[w] = NoHandle) <=> (pc[w] \in {"claim", "down"})
  /\ \A w \in Workers : pc[w] = "process" => at[w] \in DOMAIN batch[w]
  /\ beats \subseteq Handle /\ stopping \subseteq Workers
  /\ handles = ({unit[w] : w \in Workers} \cup beats) \ {NoHandle}
  /\ processed \in [Keys -> [1 .. MaxTasks -> Nat]]

(***************************************************************************)
(* I1 for the consumer: however leases expire, change hands and come back  *)
(* late, no task is ever processed before every earlier task of its unit   *)
(* has been processed (runOnce over Drain).                                *)
(***************************************************************************)
InOrder ==
  \A k \in Keys : \A p \in 1 .. MaxTasks :
    processed[k][p] > 0 => \A q \in 1 .. p : processed[k][q] > 0

(***************************************************************************)
(* At-least-once: a task that is no longer pending was processed.  No stale*)
(* or repeated Ack, and no reclaim, makes the queue forget unprocessed work*)
(* (Ack through the last drained seq, worker.go:135).                      *)
(***************************************************************************)
AckedWasProcessed ==
  \A k \in Keys : \A p \in 1 .. arrived[k] :
    p \notin Payloads(queue[k]) => processed[k][p] > 0

(***************************************************************************)
(* While its lease holds, what a worker processes is what is at the head of*)
(* its unit, so its Ack drops its own batch and nothing else, whatever was *)
(* enqueued or reclaimed since it drained.                                 *)
(***************************************************************************)
HolderAligned ==
  \A w \in Workers :
    (pc[w] \in {"process", "ack"} /\ Held(unit[w])) =>
      LET ts == queue[unit[w].key]
      IN  /\ Len(batch[w]) <= Len(ts)
          /\ batch[w] = Prefix(ts, Len(batch[w]))
          /\ pc[w] = "ack" => AckRun(w) = Len(batch[w])

(***************************************************************************)
(* Redelivery is paid for by faults: a task is processed once, plus at most*)
(* once for every stall, lost call, crash or shutdown so far.              *)
(***************************************************************************)
RedeliveryBounded ==
  \A k \in Keys : \A p \in 1 .. MaxTasks : processed[k][p] <= 1 + faults

(***************************************************************************)
(* I5 and the flush cap together: what has arrived is eventually processed *)
(* and acked to the last task, even if it stays alone below T, its worker  *)
(* crashes, a reply is lost, or its lease runs out, as long as a worker is *)
(* left.  Arrivals end at MaxTasks, so no task hides behind later ones.    *)
(***************************************************************************)
EveryTaskDrained ==
  \A k \in Keys : (queue[k] # <<>>) ~> (queue[k] = <<>>)
=============================================================================
