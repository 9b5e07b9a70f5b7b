-------------------------- MODULE PostgresBackend --------------------------
(***************************************************************************)
(* The Postgres driver (internal/postgres): the tables work_units, tasks   *)
(* and dead_letters of one primary under READ COMMITTED.  A call that is a *)
(* single statement (Enqueue, Claim, Release, Heartbeat) takes effect in   *)
(* one step, once it has the row's lock; Ack and Fail are transactions that*)
(* lock the unit's row first, so other calls fit in between, and the client*)
(* may go away before the commit; Drain is a check and a read, and the     *)
(* reaper is two UPDATEs.  now() is when a transaction began, so a         *)
(* statement that had to wait writes an instant of the past.               *)
(*                                                                         *)
(* Calls that return ErrLeaseLost, or find nothing, change nothing and are *)
(* not steps.  Routing to the primaries and the tenant cache are in        *)
(* Primaries.                                                              *)
(***************************************************************************)
EXTENDS WorkUnits, FiniteSetsExt

CONSTANTS
  Keys,         \* work unit keys, numbered in the order of (ws, sess, peer)
  None,         \* NULL
  Threshold,    \* work_units.threshold
  MaxWait,      \* work_units.max_wait_ms
  MaxAttempts,  \* Options.MaxAttempts
  LeaseDurs,    \* lease and heartbeat durations callers pass
  Costs,        \* task costs producers pass
  Batch,        \* the max callers pass to Drain
  Lag,          \* the longest a statement or a transaction takes
  MaxTasks,     \* bound: tasks ever enqueued per key
  MaxClaims,    \* bound: leases ever issued
  MaxNow        \* bound: the last instant of the clock

ASSUME PostgresKeys == Keys \subseteq Nat
ASSUME PostgresNull == None \notin Int
ASSUME PostgresOptions ==
  /\ Threshold \in Nat \ {0} /\ MaxAttempts \in Nat \ {0} /\ Batch \in Nat \ {0}
  /\ MaxWait \in Nat /\ LeaseDurs \subseteq Nat /\ Costs \subseteq Nat
\* No transaction outlives a lease or the flush cap.
ASSUME PostgresClock == Lag < MaxWait /\ \A d \in LeaseDurs : Lag <= d
ASSUME PostgresBounds ==
  Lag \in Nat /\ MaxTasks \in Nat /\ MaxClaims \in Nat /\ MaxNow \in Nat

VARIABLES
  workUnits,    \* workUnits[k]: the row of k; rows are never deleted
  tasks,        \* tasks[k]: the rows of k's tasks, by seq
  deadLetters,  \* the rows of dead_letters
  tx,           \* tx[k]: the open transaction that locked k's row, or None
  reap,         \* the instant a reaper between its two UPDATEs works with, or None
  issued,       \* how many lease tokens have been generated
  calls,        \* calls[t]: what the caller with lease token t has drained
  handles,      \* the ClaimedUnits returned by Claim so far
  now,          \* the database's clock
  arrived,      \* history: how many tasks were ever enqueued per key
  failures      \* history: failures[k][p], the Fails committed for task p of k

vars == <<workUnits, tasks, deadLetters, tx, reap, issued, calls, handles, now,
          arrived, failures>>

tables == <<workUnits, tasks, deadLetters, arrived, failures>>

-----------------------------------------------------------------------------
LeaseTokens == 1 .. MaxClaims

ClaimedUnit == [key : Keys, lease : LeaseTokens]

TaskRow == [seq : Nat, payload : Nat, cost : Nat, attempts : Nat, enqueuedAt : Nat]

(***************************************************************************)
(* claimed_by and lease_token are set and cleared together, and a token is *)
(* a fresh UUID, so lease stands for both.                                 *)
(***************************************************************************)
Row ==
  [pendingCost : Int, nextSeq : Int, eligible : BOOLEAN,
   lease : LeaseTokens \cup {None}, leaseMs : Nat, leaseExpires : Nat \cup {None},
   oldestPendingAt : Nat \cup {None}, flushDeadline : Nat \cup {None}]

\* No row yet: what the INSERT of Enqueue writes is an update of this one.
NoRow ==
  [pendingCost |-> 0, nextSeq |-> -1, eligible |-> FALSE, lease |-> None, leaseMs |-> 0,
   leaseExpires |-> None, oldestPendingAt |-> None, flushDeadline |-> None]

Idle == [step |-> "idle", got |-> <<>>]

Held(h) == workUnits[h.key].lease = h.lease

\* What now() can be in a statement that takes effect at this instant.
Clocks == {t \in 0 .. now : now - t <= Lag}

\* An instant a wait later, NULL if there is no instant.
After(at, wait) == IF at = None THEN None ELSE at + wait

\* min(enqueued_at), NULL over no rows.
MinEnqueued(ts) ==
  IF ts = <<>> THEN None ELSE Min({ts[i].enqueuedAt : i \in DOMAIN ts})

-----------------------------------------------------------------------------
(***************************************************************************)
(* Deliberately wrong variants of the definitions they name, to show that  *)
(* the properties below can fail.  No specification uses them.             *)
(***************************************************************************)
\* Unlocked, as after a plain SELECT in checkLeaseForUpdate
NeverLocked(k) == TRUE

\* Left, with = for <=
LeftButOne(ts, through) == SelectSeq(ts, LAMBDA x : x.seq # through)

\* Drained, newest first
DrainedFromTail(ts) == IF Batch < Len(ts) THEN Suffix(ts, Len(ts) - Batch) ELSE ts

\* Counted, on every task of the unit
CountedOnAll(ts, seq) == [i \in DOMAIN ts |-> [ts[i] EXCEPT !.attempts = @ + 1]]

\* Recomputed, leaving one column alone
RecomputedBut(u, gone, left, at) ==
  LET oldest == MinEnqueued(left)
  IN  [u EXCEPT
         !.pendingCost = @ - gone,
         !.oldestPendingAt = oldest,
         !.flushDeadline = After(oldest, MaxWait),
         !.eligible = u.pendingCost - gone >= Threshold
                        \/ (oldest # None /\ oldest + MaxWait <= at)]
RecomputedKeepsCost(u, gone, left, at) ==
  [RecomputedBut(u, gone, left, at) EXCEPT !.pendingCost = u.pendingCost]
RecomputedKeepsDeadline(u, gone, left, at) ==
  [RecomputedBut(u, gone, left, at) EXCEPT !.flushDeadline = u.flushDeadline]
RecomputedKeepsOldest(u, gone, left, at) ==
  [RecomputedBut(u, gone, left, at) EXCEPT !.oldestPendingAt = u.oldestPendingAt]
RecomputedKeepsFlag(u, gone, left, at) ==
  [RecomputedBut(u, gone, left, at) EXCEPT !.eligible = u.eligible]

-----------------------------------------------------------------------------
(* What the statements share. *)

\* No other transaction has k's row locked: an UPDATE of it need not wait.
Unlocked(k) == tx[k] = None

Freed(u) == [u EXCEPT !.lease = None, !.leaseExpires = None]

\* What is left of a unit's tasks, which are in order, once those up to a seq are deleted.
Left(ts, through) == Suffix(ts, Cardinality({i \in DOMAIN ts : ts[i].seq <= through}))

(***************************************************************************)
(* The row once tasks that cost gone are deleted and the tasks left stay:  *)
(* aggregate, flush clock, and the gate as of now() = at.                  *)
(***************************************************************************)
Recomputed(u, gone, left, at) ==
  LET cost == u.pendingCost - gone
      oldest == MinEnqueued(left)
  IN  [u EXCEPT
         !.pendingCost = cost,
         !.oldestPendingAt = oldest,
         !.flushDeadline = After(oldest, MaxWait),
         !.eligible = cost >= Threshold \/ (oldest # None /\ oldest + MaxWait <= at)]

Init ==
  /\ workUnits = [k \in Keys |-> NoRow]
  /\ tasks = [k \in Keys |-> <<>>]
  /\ deadLetters = <<>>
  /\ tx = [k \in Keys |-> None]
  /\ reap = None
  /\ issued = 0
  /\ calls = [t \in LeaseTokens |-> Idle]
  /\ handles = {}
  /\ now = 0
  /\ arrived = [k \in Keys |-> 0]
  /\ failures = [k \in Keys |-> [p \in 1 .. MaxTasks |-> 0]]

(***************************************************************************)
(* Enqueue: the upsert, and the task under the next_seq it returns.  A     *)
(* pending_cost of 0 is taken to mean that nothing is pending.             *)
(***************************************************************************)
Enqueue(k, c, t) ==
  LET old == workUnits[k]
      restarts == old.pendingCost = 0
  IN  /\ arrived[k] < MaxTasks
      /\ Unlocked(k)
      /\ arrived' = [arrived EXCEPT ![k] = @ + 1]
      /\ workUnits' = [workUnits EXCEPT ![k] =
           [old EXCEPT
              !.pendingCost = @ + c,
              !.nextSeq = @ + 1,
              !.eligible = @ \/ old.pendingCost + c >= Threshold,
              !.oldestPendingAt = IF restarts THEN t ELSE @,
              !.flushDeadline = IF restarts THEN t + MaxWait ELSE @]]
      /\ tasks' = [tasks EXCEPT ![k] =
           Append(@, [seq |-> old.nextSeq + 1, payload |-> arrived[k] + 1, cost |-> c,
                      attempts |-> 0, enqueuedAt |-> t])]
      /\ UNCHANGED <<deadLetters, tx, reap, issued, calls, handles, now, failures>>

(***************************************************************************)
(* Claim: ORDER BY flush_deadline NULLS LAST, ws, sess, peer; SKIP LOCKED  *)
(* passes over the rows some statement in flight has locked.               *)
(***************************************************************************)
Claimable(k) == workUnits[k].eligible /\ workUnits[k].lease = None /\ Unlocked(k)

ClaimsBefore(j, k) ==
  LET a == workUnits[j].flushDeadline
      b == workUnits[k].flushDeadline
  IN  \/ a # None /\ b = None
      \/ a # None /\ b # None /\ a < b
      \/ a = b /\ j < k

Claim(k, d, t, locked) ==
  /\ issued < MaxClaims
  /\ k \notin locked /\ Claimable(k)
  /\ \A j \in Keys \ (locked \cup {k}) : Claimable(j) => ClaimsBefore(k, j)
  /\ issued' = issued + 1
  /\ workUnits' = [workUnits EXCEPT ![k] =
       [@ EXCEPT !.lease = issued + 1, !.leaseMs = d, !.leaseExpires = t + d]]
  /\ handles' = handles \cup {[key |-> k, lease |-> issued + 1]}
  /\ UNCHANGED <<tasks, deadLetters, tx, reap, calls, now, arrived, failures>>

\* The caller that holds h is in no other call.
Ready(h) ==
  /\ calls[h.lease].step = "idle"
  /\ \A k \in Keys : tx[k] # None => tx[k].by # h

\* Drain: checkLease, which waits for nobody ...
DrainCheck(h) ==
  /\ Ready(h)
  /\ Held(h)
  /\ calls' = [calls EXCEPT ![h.lease] = [step |-> "read", got |-> <<>>]]
  /\ UNCHANGED <<tables, tx, reap, issued, handles, now>>

Drained(ts) == Prefix(ts, IF Batch < Len(ts) THEN Batch ELSE Len(ts))

\* ... and the SELECT, whoever has the lease by then.
DrainRead(h) ==
  /\ calls[h.lease].step = "read"
  /\ calls' = [calls EXCEPT ![h.lease] = [step |-> "idle", got |-> Drained(tasks[h.key])]]
  /\ UNCHANGED <<tables, tx, reap, issued, handles, now>>

\* Ack and Fail begin alike: BEGIN, then checkLeaseForUpdate locks the row.
Begin(h, t) ==
  /\ Ready(h)
  /\ Unlocked(h.key)
  /\ Held(h)
  /\ tx' = [tx EXCEPT ![h.key] = [by |-> h, at |-> t]]
  /\ UNCHANGED <<tables, reap, issued, calls, handles, now>>

\* The transaction on k's row ends, and with it the caller's batch.
End(k) ==
  /\ tx[k] # None
  /\ tx' = [tx EXCEPT ![k] = None]
  /\ calls' = [calls EXCEPT ![tx[k].by.lease] = Idle]
  /\ UNCHANGED <<reap, issued, handles, now>>

\* Ack keeps the lease it came with, renewed, exactly if the unit stays eligible.
Ack(k, through) ==
  LET left == Left(tasks[k], through)
      gone == Cost(tasks[k]) - Cost(left)
      u == Recomputed(workUnits[k], gone, left, tx[k].at)
  IN  /\ End(k)
      /\ tasks' = [tasks EXCEPT ![k] = left]
      /\ workUnits' = [workUnits EXCEPT ![k] =
           IF u.eligible
           THEN [u EXCEPT !.lease = tx[k].by.lease, !.leaseExpires = tx[k].at + u.leaseMs]
           ELSE Freed(u)]
      /\ UNCHANGED <<deadLetters, arrived, failures>>

\* UPDATE tasks SET attempts = attempts + 1 of the one row the caller names.
Counted(ts, seq) ==
  [i \in DOMAIN ts |-> IF ts[i].seq = seq THEN [ts[i] EXCEPT !.attempts = @ + 1] ELSE ts[i]]

Poison(ts, seq) == ts # <<>> /\ ts[1].seq = seq /\ ts[1].attempts >= MaxAttempts

Fail(k, seq) ==
  LET counted == Counted(tasks[k], seq)
      named == {tasks[k][i].payload : i \in {j \in DOMAIN tasks[k] : tasks[k][j].seq = seq}}
      left == Suffix(counted, 1)
  IN  /\ End(k)
      /\ \/ /\ Poison(counted, seq)
            /\ tasks' = [tasks EXCEPT ![k] = left]
            /\ deadLetters' = Append(deadLetters, [key |-> k, task |-> counted[1]])
            /\ workUnits' = [workUnits EXCEPT ![k] =
                 Freed(Recomputed(@, counted[1].cost, left, tx[k].at))]
         \/ /\ ~Poison(counted, seq)
            /\ tasks' = [tasks EXCEPT ![k] = counted]
            /\ workUnits' = [workUnits EXCEPT ![k] = Freed(@)]
            /\ UNCHANGED deadLetters
      /\ failures' = [failures EXCEPT ![k] =
           [p \in DOMAIN @ |-> IF p \in named THEN @[p] + 1 ELSE @[p]]]
      /\ UNCHANGED arrived

\* A statement fails, the context is cancelled or the client is gone.
Rollback(k) == End(k) /\ UNCHANGED tables

Release(h) ==
  /\ Ready(h)
  /\ Unlocked(h.key)
  /\ Held(h)
  /\ workUnits' = [workUnits EXCEPT ![h.key] = Freed(@)]
  /\ calls' = [calls EXCEPT ![h.lease] = Idle]
  /\ UNCHANGED <<tasks, deadLetters, tx, reap, issued, handles, now, arrived, failures>>

\* Comes from a goroutine of its own, so in the middle of anything.
Heartbeat(h, d, t) ==
  /\ Unlocked(h.key)
  /\ Held(h)
  /\ workUnits' = [workUnits EXCEPT ![h.key] =
       [@ EXCEPT !.leaseMs = d, !.leaseExpires = t + d]]
  /\ UNCHANGED <<tasks, deadLetters, tx, reap, issued, calls, handles, now, arrived, failures>>

Expired(u, t) == u.lease # None /\ u.leaseExpires < t

\* ReapExpired(t), its first UPDATE; it waits for the locks on rows it is to free.
ReapLeases(t) ==
  /\ reap = None
  /\ \A k \in Keys : Expired(workUnits[k], t) => Unlocked(k)
  /\ reap' = t
  /\ workUnits' = [k \in Keys |->
       IF Expired(workUnits[k], t) THEN Freed(workUnits[k]) ELSE workUnits[k]]
  /\ UNCHANGED <<tasks, deadLetters, tx, issued, calls, handles, now, arrived, failures>>

Flushable(u, t) ==
  /\ ~u.eligible /\ u.lease = None
  /\ u.flushDeadline # None /\ u.flushDeadline <= t
  /\ u.pendingCost > 0

\* Its second UPDATE, with the same instant, whatever happened in between.
ReapFlush ==
  /\ reap # None
  /\ reap' = None
  /\ workUnits' = [k \in Keys |->
       [workUnits[k] EXCEPT !.eligible = @ \/ Flushable(workUnits[k], reap)]]
  /\ UNCHANGED <<tasks, deadLetters, tx, issued, calls, handles, now, arrived, failures>>

\* The second UPDATE fails: the leases freed by the first stay free.
ReapFlushFails ==
  /\ reap # None
  /\ reap' = None
  /\ UNCHANGED <<tables, tx, issued, calls, handles, now>>

Tick ==
  /\ now < MaxNow
  /\ \A k \in Keys : tx[k] # None => now - tx[k].at < Lag
  /\ now' = now + 1
  /\ UNCHANGED <<tables, tx, reap, issued, calls, handles>>

Seqs == 0 .. (MaxTasks - 1)

Next ==
  \/ \E t \in Clocks :
       \/ \E k \in Keys, c \in Costs : Enqueue(k, c, t)
       \/ \E k \in Keys, d \in LeaseDurs, locked \in SUBSET Keys : Claim(k, d, t, locked)
       \/ \E h \in handles : Begin(h, t)
       \/ \E h \in handles, d \in LeaseDurs : Heartbeat(h, d, t)
  \/ \E h \in handles : DrainCheck(h) \/ DrainRead(h) \/ Release(h)
  \/ \E k \in Keys, s \in Seqs : Ack(k, s) \/ Fail(k, s)
  \/ \E k \in Keys : Rollback(k)
  \/ \E t \in 0 .. now : ReapLeases(t)
  \/ ReapFlush
  \/ ReapFlushFails
  \/ Tick

Spec == Init /\ [][Next]_vars

-----------------------------------------------------------------------------
(* Stats. *)

EligibleUnits == {k \in Keys : workUnits[k].eligible /\ workUnits[k].lease = None}

\* The time since the lowest oldest_pending_at of the free rows below the gate.
OldestBelowT ==
  Max({0} \cup {now - workUnits[k].oldestPendingAt :
                  k \in {j \in Keys : /\ ~workUnits[j].eligible /\ workUnits[j].lease = None
                                      /\ workUnits[j].oldestPendingAt # None}})

-----------------------------------------------------------------------------
(* Properties. *)

\* The types of the tables; a lease's token and its expiry are set together.
TypeOK ==
  /\ workUnits \in [Keys -> Row]
  /\ \A k \in Keys : workUnits[k].lease = None <=> workUnits[k].leaseExpires = None
  /\ tasks \in [Keys -> Seq(TaskRow)]
  /\ deadLetters \in Seq([key : Keys, task : TaskRow])
  /\ tx \in [Keys -> [by : ClaimedUnit, at : 0 .. MaxNow] \cup {None}]
  /\ reap \in 0 .. MaxNow \cup {None}
  /\ handles \subseteq ClaimedUnit
  /\ now \in 0 .. MaxNow /\ issued \in 0 .. MaxClaims
  /\ arrived \in [Keys -> 0 .. MaxTasks]

(***************************************************************************)
(* I1: with acks, dead letters and rollbacks in any order, the tasks table *)
(* holds the unit's most recent arrivals and no hole, and because the row  *)
(* stays when it empties, a seq is never used twice (Enqueue, Ack, Fail).  *)
(***************************************************************************)
FifoIntact ==
  \A k \in Keys :
    LET n == Len(tasks[k])
    IN  /\ workUnits[k].nextSeq = arrived[k] - 1
        /\ \A i \in 1 .. n : /\ tasks[k][i].payload = arrived[k] - n + i
                             /\ tasks[k][i].seq = tasks[k][i].payload - 1

(***************************************************************************)
(* I3 across two tables: the row's pending_cost, adjusted by differences,  *)
(* is what the tasks rows add up to, and all tables keep their types.      *)
(***************************************************************************)
CostExact == TypeOK /\ \A k \in Keys : workUnits[k].pendingCost = Cost(tasks[k])

\* Tasks the flush clock has to serve: a task of cost 0 alone does not start it.
Costly(k) == {i \in DOMAIN tasks[k] : tasks[k][i].cost > 0}

(***************************************************************************)
(* The flush cap: whatever order concurrent enqueues committed in, and with*)
(* tasks of cost 0 among them, the deadline the reaper looks at is at most *)
(* max_wait (and the length of a statement) after any task that costs      *)
(* something was enqueued, and never before the first one has waited that  *)
(* long.                                                                   *)
(***************************************************************************)
FlushClock ==
  \A k \in Keys : Costly(k) # {} =>
    LET d == workUnits[k].flushDeadline
    IN  /\ d # None
        /\ \A i \in Costly(k) : d <= tasks[k][i].enqueuedAt + MaxWait + Lag
        /\ d >= MinEnqueued(tasks[k]) + MaxWait

(***************************************************************************)
(* I4: the flag Claim trusts is set on every unit worth T, on no unit that *)
(* is below T unless a task has waited max_wait, on no empty one, and on   *)
(* every leased one (Enqueue, Ack, Fail, the flush UPDATE).                *)
(***************************************************************************)
GateExact ==
  \A k \in Keys :
    /\ Cost(tasks[k]) >= Threshold => workUnits[k].eligible
    /\ workUnits[k].eligible =>
         /\ tasks[k] # <<>>
         /\ Cost(tasks[k]) >= Threshold \/ now >= MinEnqueued(tasks[k]) + MaxWait
    /\ workUnits[k].lease # None => workUnits[k].eligible

(***************************************************************************)
(* What the once-a-second sample tells the operator: OldestBelowT does not *)
(* hide the wait of any task that costs something in a free unit below the *)
(* gate (but for the length of a statement), nor make a longer one up, and *)
(* EligibleUnits counts no unit without work.                              *)
(***************************************************************************)
StatsHonest ==
  LET below == {k \in Keys : ~workUnits[k].eligible /\ workUnits[k].lease = None}
  IN  /\ \A k \in below : \A i \in Costly(k) :
           now - tasks[k][i].enqueuedAt <= OldestBelowT + Lag
      /\ OldestBelowT > 0 =>
           \E k \in below : \E i \in DOMAIN tasks[k] :
             now - tasks[k][i].enqueuedAt >= OldestBelowT
      /\ \A k \in EligibleUnits : tasks[k] # <<>>

(***************************************************************************)
(* A task is dead-lettered only for failures of its own, MaxAttempts of    *)
(* them, however often other tasks of its unit failed or transactions that *)
(* counted a failure were rolled back (Fail).                              *)
(***************************************************************************)
PoisonFailedItself ==
  \A i \in DOMAIN deadLetters :
    LET d == deadLetters[i]
    IN  d.task.attempts >= MaxAttempts /\ failures[d.key][d.task.payload] = d.task.attempts

(***************************************************************************)
(* What a caller drained under a lease that is still its own is what is at *)
(* the head of the unit, although the lease may have changed hands between *)
(* Drain's check and its read: its Ack deletes nothing it was not given.   *)
(***************************************************************************)
HolderAligned ==
  \A h \in handles :
    (Held(h) /\ calls[h.lease].step = "idle") =>
      LET got == calls[h.lease].got
      IN  Len(got) <= Len(tasks[h.key]) /\ got = Prefix(tasks[h.key], Len(got))

-----------------------------------------------------------------------------
TaskOf(r) == [seq |-> r.seq, payload |-> r.payload, cost |-> r.cost]

\* Enqueue times may run against the order: a task is as old as any behind it.
Aged(ts) ==
  {ts[i].payload : i \in {j \in DOMAIN ts :
     \E n \in j .. Len(ts) : now >= ts[n].enqueuedAt + MaxWait}}

Contract == INSTANCE QueueContract WITH
  NoToken <- None,
  queue <- [k \in Keys |-> [i \in DOMAIN tasks[k] |-> TaskOf(tasks[k][i])]],
  aged <- [k \in Keys |-> Aged(tasks[k])],
  holder <- [k \in Keys |-> workUnits[k].lease],
  expired <- {k \in Keys : workUnits[k].lease # None /\ workUnits[k].leaseExpires < now},
  dead <- {[key |-> deadLetters[i].key, task |-> TaskOf(deadLetters[i].task)] :
             i \in DOMAIN deadLetters}

(***************************************************************************)
(* The driver keeps the contract, lease checks, reads, rollbacks and the   *)
(* reaper's two statements interleaved in any way and clocks behind by as  *)
(* much as a transaction takes.  In particular a lease that was lost never *)
(* comes back, although Ack writes the token it was given into the row:    *)
(* that rests on the lock held from checkLeaseForUpdate to the commit.     *)
(***************************************************************************)
ImplementsContract == Contract!Spec
=============================================================================
