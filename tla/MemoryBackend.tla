--------------------------- MODULE MemoryBackend ---------------------------
(***************************************************************************)
(* The in-process driver (internal/memory/backend.go), the oracle the other*)
(* drivers must match.  One mutex guards all state, so every method is one *)
(* step; any caller may invoke any method through any ClaimedUnit it was   *)
(* ever given, live or stale, at any time.  A call through a handle that is*)
(* not held returns ErrLeaseLost and changes nothing, as do Drain and a    *)
(* Claim that finds nothing: none of these is a step.                      *)
(***************************************************************************)
EXTENDS WorkUnits

CONSTANTS
  Keys,         \* work unit keys, numbered in key.String() order
  Workers,      \* worker ids
  None,         \* Go's "" for a worker id or a lease token
  Threshold,    \* Options.DefaultThreshold
  MaxWait,      \* Options.DefaultMaxWait
  MaxAttempts,  \* Options.MaxAttempts
  LeaseDurs,    \* lease and heartbeat durations callers pass
  Costs,        \* task costs producers pass
  MaxTasks,     \* bound: tasks ever enqueued per key
  MaxClaims,    \* bound: leases ever issued
  MaxNow        \* bound: the last instant of the clock

ASSUME KeysAssumption == Keys \subseteq Nat
ASSUME WorkersAssumption == None \notin Workers /\ None \notin Workers \X Nat
ASSUME OptionsAssumption ==
  Threshold \in Nat /\ MaxWait \in Nat \ {0} /\ MaxAttempts \in Nat \ {0}
ASSUME InputsAssumption == LeaseDurs \subseteq Nat /\ Costs \subseteq Nat
ASSUME BoundsAssumption == MaxTasks \in Nat /\ MaxClaims \in Nat /\ MaxNow \in Nat

VARIABLES
  units,         \* Backend.units; a key that is not in the map has NoUnit
  dlq,           \* Backend.dlq
  leaseCounter,  \* Backend.leaseCounter
  now,           \* time.Now()
  handles,       \* the ClaimedUnits returned by Claim so far
  arrived        \* history: how many tasks were ever enqueued per key

vars == <<units, dlq, leaseCounter, now, handles, arrived>>

-----------------------------------------------------------------------------
(***************************************************************************)
(* Lease tokens are fmt.Sprintf("%s-%d", worker, leaseCounter): as the     *)
(* counter is all digits, the pair and its rendering determine each other. *)
(***************************************************************************)
LeaseTokens == Workers \X (1 .. MaxClaims)

ClaimedUnit == [key : Keys, worker : Workers, lease : LeaseTokens]

\* type unit; oldestPending always equals enqAt[1] and is not kept apart.
Unit ==
  [tasks : Seq(Task), enqAt : Seq(Nat), nextSeq : Nat, pendingCost : Int,
   flushDeadline : Nat, eligible : BOOLEAN,
   claimedBy : Workers \cup {None}, lease : LeaseTokens \cup {None},
   leaseDur : Nat, leaseExpires : Nat, attempts : Nat]

\* &unit{}: the zero value a first Enqueue starts from.
NoUnit ==
  [tasks |-> <<>>, enqAt |-> <<>>, nextSeq |-> 0, pendingCost |-> 0,
   flushDeadline |-> 0, eligible |-> FALSE, claimedBy |-> None, lease |-> None,
   leaseDur |-> 0, leaseExpires |-> 0, attempts |-> 0]

Held(c) ==
  units[c.key].claimedBy = c.worker /\ units[c.key].lease = c.lease

-----------------------------------------------------------------------------
(***************************************************************************)
(* Deliberately wrong variants, each standing for a plausible slip in the  *)
(* code: substituted for the definition they name, they show that the      *)
(* properties below can fail.  No specification uses them.                 *)
(***************************************************************************)
\* NextToken, rendered before the counter is incremented
TokenBeforeIncrement(w) == <<w, leaseCounter>>

\* NextToken, without the counter
TokenPerWorker(w) == <<w, 1>>

\* DropHead, leaving enqAt alone
DropKeepsTimes(u, n) ==
  [u EXCEPT !.tasks = Suffix(@, n), !.attempts = 0,
            !.pendingCost = @ - Cost(Prefix(u.tasks, n))]

\* DropHead, leaving pendingCost alone
DropKeepsCost(u, n) ==
  [u EXCEPT !.tasks = Suffix(@, n), !.enqAt = Suffix(@, n), !.attempts = 0]

\* Recompute, leaving flushDeadline alone
RecomputeOldDeadline(u) ==
  [u EXCEPT !.eligible = u.pendingCost >= Threshold \/ now >= u.flushDeadline]

\* Recompute with a sticky flag
RecomputeSticky(u) ==
  [u EXCEPT !.flushDeadline = u.enqAt[1] + MaxWait,
            !.eligible = @ \/ u.pendingCost >= Threshold]

\* Renewed, doing nothing
NotRenewed(u) == u

-----------------------------------------------------------------------------
(* What the methods do to one unit. *)

Freed(u) == [u EXCEPT !.claimedBy = None, !.lease = None]

EnqueueUnit(u, task) ==
  [u EXCEPT
     !.nextSeq = @ + 1,
     !.flushDeadline = IF u.tasks = <<>> THEN now + MaxWait ELSE @,
     !.tasks = Append(@, task),
     !.enqAt = Append(@, now),
     !.pendingCost = @ + task.cost,
     !.eligible = @ \/ u.pendingCost + task.cost >= Threshold]

\* The head and the n - 1 tasks behind it leave; the retry count starts over.
DropHead(u, n) ==
  [u EXCEPT
     !.tasks = Suffix(@, n),
     !.enqAt = Suffix(@, n),
     !.pendingCost = @ - Cost(Prefix(u.tasks, n)),
     !.attempts = 0]

\* Flush deadline and eligibility follow the new head, never a sticky flag.
Recompute(u) ==
  [u EXCEPT
     !.flushDeadline = u.enqAt[1] + MaxWait,
     !.eligible = u.pendingCost >= Threshold \/ now >= u.enqAt[1] + MaxWait]

Renewed(u) == [u EXCEPT !.leaseExpires = now + u.leaseDur]

AckUnit(u, throughSeq) ==
  LET rest  == DropHead(u, LeadingRun(u.tasks, throughSeq))
      fresh == Recompute(rest)
  IN  IF rest.tasks = <<>> THEN NoUnit
      ELSE IF fresh.eligible THEN Renewed(fresh)
      ELSE Freed(fresh)

\* Fail's test for a poison head, made after attempts was incremented.
Poison(u, seq) ==
  u.attempts + 1 >= MaxAttempts /\ u.tasks # <<>> /\ u.tasks[1].seq = seq

FailUnit(u, seq) ==
  LET rest == DropHead(u, 1)
  IN  IF ~Poison(u, seq) THEN Freed([u EXCEPT !.attempts = @ + 1])
      ELSE IF rest.tasks = <<>> THEN NoUnit
      ELSE Freed(Recompute(rest))

\* One turn of the reaper's loop, at the instant t the caller passed in.
ReapUnit(u, t) ==
  LET v == IF u.claimedBy # None /\ t > u.leaseExpires THEN Freed(u) ELSE u
  IN  IF v.claimedBy = None /\ ~v.eligible /\ v.tasks # <<>> /\ t >= v.flushDeadline
      THEN [v EXCEPT !.eligible = TRUE]
      ELSE v

-----------------------------------------------------------------------------
(* The methods. *)

Init ==
  /\ units = [k \in Keys |-> NoUnit]
  /\ dlq = <<>>
  /\ leaseCounter = 0
  /\ now = 0
  /\ handles = {}
  /\ arrived = [k \in Keys |-> 0]

Enqueue(k, c) ==
  /\ arrived[k] < MaxTasks
  /\ arrived' = [arrived EXCEPT ![k] = @ + 1]
  /\ units' = [units EXCEPT ![k] =
       EnqueueUnit(@, [seq |-> @.nextSeq, payload |-> arrived[k] + 1, cost |-> c])]
  /\ UNCHANGED <<dlq, leaseCounter, now, handles>>

Claimable(k) ==
  units[k].eligible /\ units[k].claimedBy = None /\ units[k].tasks # <<>>

\* Age-fair: the lowest flush deadline first, ties broken by key.
ClaimsBefore(j, k) ==
  \/ units[j].flushDeadline < units[k].flushDeadline
  \/ units[j].flushDeadline = units[k].flushDeadline /\ j < k

Best(k) ==
  Claimable(k) /\ \A j \in Keys \ {k} : Claimable(j) => ClaimsBefore(k, j)

NextToken(w) == <<w, leaseCounter + 1>>

ClaimUnit(u, w, d) ==
  [u EXCEPT !.claimedBy = w, !.lease = NextToken(w), !.leaseDur = d,
            !.leaseExpires = now + d]

Claim(w, d, k) ==
  /\ leaseCounter < MaxClaims
  /\ Best(k)
  /\ leaseCounter' = leaseCounter + 1
  /\ units' = [units EXCEPT ![k] = ClaimUnit(@, w, d)]
  /\ handles' = handles \cup {[key |-> k, worker |-> w, lease |-> NextToken(w)]}
  /\ UNCHANGED <<dlq, now, arrived>>

Ack(c, throughSeq) ==
  /\ Held(c)
  /\ units' = [units EXCEPT ![c.key] = AckUnit(@, throughSeq)]
  /\ UNCHANGED <<dlq, leaseCounter, now, handles, arrived>>

Release(c) ==
  /\ Held(c)
  /\ units' = [units EXCEPT ![c.key] = Freed(@)]
  /\ UNCHANGED <<dlq, leaseCounter, now, handles, arrived>>

Heartbeat(c, extend) ==
  /\ Held(c)
  /\ units' = [units EXCEPT ![c.key].leaseExpires = now + extend]
  /\ UNCHANGED <<dlq, leaseCounter, now, handles, arrived>>

Fail(c, seq) ==
  /\ Held(c)
  /\ dlq' = IF Poison(units[c.key], seq)
            THEN Append(dlq, [key |-> c.key, task |-> units[c.key].tasks[1]])
            ELSE dlq
  /\ units' = [units EXCEPT ![c.key] = FailUnit(@, seq)]
  /\ UNCHANGED <<leaseCounter, now, handles, arrived>>

\* The instant comes from a ticker, so it may lag behind the clock.
ReapExpired(t) ==
  /\ t <= now
  /\ units' = [k \in Keys |-> ReapUnit(units[k], t)]
  /\ UNCHANGED <<dlq, leaseCounter, now, handles, arrived>>

Tick ==
  /\ now < MaxNow
  /\ now' = now + 1
  /\ UNCHANGED <<units, dlq, leaseCounter, handles, arrived>>

Seqs == 0 .. (MaxTasks - 1)

NextButFail ==
  \/ \E k \in Keys, c \in Costs : Enqueue(k, c)
  \/ \E w \in Workers, d \in LeaseDurs, k \in Keys : Claim(w, d, k)
  \/ \E c \in handles :
       \/ \E s \in Seqs : Ack(c, s)
       \/ Release(c)
       \/ \E d \in LeaseDurs : Heartbeat(c, d)
  \/ \E t \in 0 .. MaxNow : ReapExpired(t)
  \/ Tick

Next == NextButFail \/ \E c \in handles, s \in Seqs : Fail(c, s)

Spec == Init /\ [][Next]_vars

-----------------------------------------------------------------------------
(* Properties. *)

\* The types of the state, and of every handle and dead letter issued.
TypeOK ==
  /\ units \in [Keys -> Unit]
  /\ dlq \in Seq([key : Keys, task : Task])
  /\ leaseCounter \in 0 .. MaxClaims
  /\ now \in 0 .. MaxNow
  /\ handles \subseteq ClaimedUnit
  /\ arrived \in [Keys -> 0 .. MaxTasks]

(***************************************************************************)
(* I1: after any mix of enqueues, acks, dead letters, tombstones and       *)
(* revivals, what is pending for a key is exactly its most recent arrivals *)
(* in arrival order, under consecutive seqs that end just below nextSeq,   *)
(* with an enqueue time each; a key with nothing pending is not in the map *)
(* (Enqueue, Ack and Fail in internal/memory/backend.go).                  *)
(***************************************************************************)
UnitFifo(u, a) ==
  LET n == Len(u.tasks)
  IN  /\ n <= u.nextSeq /\ u.nextSeq <= a
      /\ Len(u.enqAt) = n
      /\ \A i \in 1 .. n : /\ u.tasks[i].payload = a - n + i
                           /\ u.tasks[i].seq = u.nextSeq - n + i - 1
      /\ n = 0 => u = NoUnit

FifoIntact == \A k \in Keys : UnitFifo(units[k], arrived[k])

(***************************************************************************)
(* I3: the running aggregate pendingCost, adjusted task by task in Enqueue,*)
(* Ack and Fail, never drifts from the cost of what is pending.            *)
(***************************************************************************)
AggregateExact ==
  \A k \in Keys : units[k].pendingCost = Cost(units[k].tasks)

(***************************************************************************)
(* The flush clock of a unit is its head's: flushDeadline is the head's own*)
(* enqueue time plus max_wait whichever of Enqueue, Ack or Fail made it the*)
(* head, and enqueue times never decrease along the FIFO.                  *)
(***************************************************************************)
UnitClock(u, t) ==
  /\ u.tasks # <<>> => u.flushDeadline = u.enqAt[1] + MaxWait
  /\ \A i \in 1 .. Len(u.enqAt) : u.enqAt[i] <= t
  /\ \A i, j \in 1 .. Len(u.enqAt) : i <= j => u.enqAt[i] <= u.enqAt[j]

FlushClock == \A k \in Keys : UnitClock(units[k], now)

(***************************************************************************)
(* I4, the gate: the cached eligible flag that Claim trusts is never set on*)
(* a unit below T whose head has not aged out, and never clear on a unit   *)
(* worth T (Enqueue, recompute, ReapExpired).                              *)
(***************************************************************************)
UnitGate(u, t) ==
  u.tasks # <<>> =>
    /\ u.eligible => Cost(u.tasks) >= Threshold \/ t >= u.enqAt[1] + MaxWait
    /\ Cost(u.tasks) >= Threshold => u.eligible

GateExact == \A k \in Keys : UnitGate(units[k], now)

(***************************************************************************)
(* I2: leases are never confused.  A live lease names its own holder, was  *)
(* handed out through a handle for that very unit, and no other unit has   *)
(* the same token (Claim, held).                                           *)
(***************************************************************************)
LeaseExclusive ==
  \A k \in Keys :
    LET u == units[k]
    IN  u.claimedBy # None =>
          /\ [key |-> k, worker |-> u.claimedBy, lease |-> u.lease] \in handles
          /\ \A j \in Keys \ {k} : units[j].lease # u.lease

(***************************************************************************)
(* A lease once lost stays lost: a handle that has stopped being valid     *)
(* (acked out, released, failed, reclaimed, its unit tombstoned and        *)
(* revived) is never accepted by held again.                               *)
(***************************************************************************)
LostStaysLost == [][\A c \in handles : ~Held(c) => ~Held(c)']_vars

-----------------------------------------------------------------------------
(* The driver implements the contract. *)

HeadsAged(u) ==
  {u.tasks[i].payload : i \in {j \in DOMAIN u.tasks : now >= u.enqAt[j] + MaxWait}}

Contract == INSTANCE QueueContract WITH
  LeaseTokens <- LeaseTokens,
  NoToken <- None,
  queue <- [k \in Keys |-> units[k].tasks],
  aged <- [k \in Keys |-> HeadsAged(units[k])],
  holder <- [k \in Keys |-> units[k].lease],
  expired <- {k \in Keys : units[k].claimedBy # None /\ now > units[k].leaseExpires},
  handles <- {[key |-> c.key, lease |-> c.lease] : c \in handles},
  dead <- {dlq[i] : i \in DOMAIN dlq}

(***************************************************************************)
(* Every method of the in-memory driver does what the contract allows: the *)
(* gate decided from the cached flag is the gate on the pending cost and   *)
(* the head's age, Ack keeps no lease on work that is not eligible, and    *)
(* only leases that ran out are reclaimed.                                 *)
(***************************************************************************)
ImplementsContract == Contract!Spec
=============================================================================
