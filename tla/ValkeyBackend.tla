--------------------------- MODULE ValkeyBackend ---------------------------
(***************************************************************************)
(* The Valkey driver (internal/valkey): one primary, whose state only the  *)
(* Lua scripts of scripts.go and the three commands of Drain change.  A    *)
(* script runs to completion on the server's single thread, so each is one *)
(* step; Drain is a lease check, an XAUTOCLAIM and an XREADGROUP, three    *)
(* steps between which any other caller's script may run.  Keys are routed *)
(* to a primary by workspace and primaries share nothing, so what holds of *)
(* one holds of each.                                                      *)
(*                                                                         *)
(* A caller is a worker of a process: it makes one call at a time (only    *)
(* Heartbeat comes from a goroutine of its own).  Calls that answer        *)
(* LEASELOST, or a Claim that finds nothing, change nothing on the server  *)
(* and are not steps.                                                      *)
(***************************************************************************)
EXTENDS WorkUnits, Functions

CONSTANTS
  Keys,         \* work unit keys, numbered in the order of their members
  Procs,        \* plq processes, each with a token counter of its own
  Ids,          \* worker ids in use within every process ("w0", "w1", ...)
  None,         \* a hash field that is not there; no drain in progress
  Threshold,    \* Options.DefaultThreshold
  MaxWait,      \* Options.DefaultMaxWait
  MaxAttempts,  \* Options.MaxAttempts
  LeaseDurs,    \* lease and heartbeat durations callers pass
  Costs,        \* task costs producers pass
  Batch,        \* the max callers pass to Drain
  Lag,          \* how old the now_ms in a script's arguments can be
  MaxTasks,     \* bound: tasks ever enqueued per key
  MaxClaims,    \* bound: leases ever issued by each process
  MaxNow,       \* bound: the last instant of the clock
  MaxFaults     \* bound: commands of Drain that fail

ASSUME ValkeyKeys == Keys \subseteq Nat
ASSUME ValkeyOptions ==
  /\ Threshold \in Nat /\ MaxWait \in Nat /\ MaxAttempts \in Nat \ {0}
  /\ LeaseDurs \subseteq Nat /\ Costs \subseteq Nat /\ Batch \in Nat \ {0}
ASSUME ValkeyBounds ==
  /\ Lag \in Nat /\ MaxTasks \in Nat /\ MaxClaims \in Nat
  /\ MaxNow \in Nat /\ MaxFaults \in Nat

VARIABLES
  units,         \* units[k]: hash wu:k, stream s:k and its group; NoUnit after DEL
  eligible,      \* the ZSETs: from their members to their scores
  pendingFlush,
  leases,
  pendingTasks,  \* the pending_tasks counter
  dlq,           \* the dlq stream
  tokens,        \* tokens[p]: process p's Backend.tokens
  now,           \* the wall clock, in units of a millisecond
  handles,       \* the ClaimedUnits returned by Claim so far
  calls,         \* calls[c]: the Drain that c has in progress, or its result
  faults,        \* how many commands have failed
  arrived        \* history: how many tasks were ever enqueued per key

vars == <<units, eligible, pendingFlush, leases, pendingTasks, dlq, tokens, now,
          handles, calls, faults, arrived>>

-----------------------------------------------------------------------------
Callers == Procs \X Ids

\* strconv.FormatInt(counter) + "-" + worker: the digits end at the first "-".
LeaseTokens == (1 .. MaxClaims) \X Ids

ASSUME ValkeyNone == None \notin LeaseTokens

ClaimedUnit == [key : Keys, by : Callers, lease : LeaseTokens]

\* A stream entry.  IDs grow along the stream, as payloads do.
Entry == [seq : Nat, payload : Nat, cost : Nat, ts : Nat]

(***************************************************************************)
(* claimed_by and lease_token are set and deleted together, so lease stands*)
(* for both; lease_exp and oldest_ms are never read, threshold and         *)
(* max_wait_ms are the process's defaults.  pel and last are the consumer  *)
(* group's pending entries and last-delivered id; which consumer owns an   *)
(* entry makes no difference to XAUTOCLAIM with min-idle 0 or XPENDING.    *)
(***************************************************************************)
Unit ==
  [tasks : Seq(Entry), pel : SUBSET (1 .. MaxTasks), last : 0 .. MaxTasks,
   pendingCost : Int, nextSeq : Nat, flush : Nat,
   lease : LeaseTokens \cup {None}, leaseMs : Nat, attempts : Nat]

NoUnit ==
  [tasks |-> <<>>, pel |-> {}, last |-> 0, pendingCost |-> 0, nextSeq |-> 0,
   flush |-> 0, lease |-> None, leaseMs |-> 0, attempts |-> 0]

Idle == [by |-> None, step |-> "idle", got |-> <<>>]

\* ZADD of members with their scores, of one member; ZREM likewise.
ZAddAll(z, scores) ==
  [k \in DOMAIN z \cup DOMAIN scores |->
     IF k \in DOMAIN scores THEN scores[k] ELSE z[k]]
ZAdd(z, k, score) == ZAddAll(z, [j \in {k} |-> score])
ZRemAll(z, S) == Restrict(z, DOMAIN z \ S)
ZRem(z, k) == ZRemAll(z, {k})

\* What s holds at the positions in S, in the order of s.
Nth(S, i) == CHOOSE p \in S : Cardinality({q \in S : q <= p}) = i
At(s, S) == [i \in 1 .. Cardinality(S) |-> s[Nth(S, i)]]

\* The clock as a script sees it, read by the caller before the call.
Clocks == {t \in 0 .. now : now - t <= Lag}

Held(h) == units[h.key].lease = h.lease

(***************************************************************************)
(* Deliberately wrong variants of the definitions they name, to show that  *)
(* the properties below can fail.  No specification uses them.             *)
(***************************************************************************)
\* First, by member alone
FirstByMember(k) ==
  k \in DOMAIN eligible /\ \A j \in DOMAIN eligible \ {k} : k < j

\* Token, rendered before the counter is incremented
TokenBeforeIncrement(c) == <<tokens[c[1]], c[2]>>

\* HeadClock, leaving flush_ms alone
OldClock(u) == u

\* Gone, passing over the first pending entry
GoneButFirst(u, through) ==
  {i \in DOMAIN u.tasks : /\ u.tasks[i].payload \in u.pel
                          /\ u.tasks[i].seq \in 1 .. through}

\* Dropped, leaving pending_cost alone
DroppedKeepsCost(u, S) ==
  [u EXCEPT !.tasks = At(@, DOMAIN @ \ S),
            !.pel = @ \ Payloads(At(u.tasks, S)), !.attempts = 0]

\* Dropped, without the XACK
DroppedStaysPending(u, S) ==
  [u EXCEPT !.tasks = At(@, DOMAIN @ \ S), !.attempts = 0,
            !.pendingCost = @ - Cost(At(u.tasks, S))]

\* Due, an instant early
DueEarly(u, t) == u.pendingCost >= Threshold \/ u.flush <= t + 1

\* Unindexed, leaving the lease behind
UnindexedButLease(k) ==
  /\ eligible' = ZRem(eligible, k)
  /\ pendingFlush' = ZRem(pendingFlush, k)
  /\ UNCHANGED leases

\* Reindexed, without the ZADDs
ReindexedNowhere(k, u, t) ==
  /\ leases' = ZRem(leases, k)
  /\ UNCHANGED <<eligible, pendingFlush>>

-----------------------------------------------------------------------------
(* What the scripts share. *)

Free(u) == u.lease = None

Freed(u) == [u EXCEPT !.lease = None]

Retried(u) == [u EXCEPT !.attempts = @ + 1]

Leased(u, token, d) == [u EXCEPT !.lease = token, !.leaseMs = d]

Token(c) == <<tokens[c[1]] + 1, c[2]>>

\* The positions of pending entries: delivered and not yet acknowledged.
Pending(u) == {i \in DOMAIN u.tasks : u.tasks[i].payload \in u.pel}

\* Where the entries are that an Ack deletes: pending, up to the given seq.
Gone(u, through) == {i \in Pending(u) : u.tasks[i].seq <= through}

\* XACK and XDEL of the entries at S; the retry count starts over.
Dropped(u, S) ==
  [u EXCEPT
     !.tasks = At(@, DOMAIN @ \ S),
     !.pel = @ \ Payloads(At(u.tasks, S)),
     !.pendingCost = @ - Cost(At(u.tasks, S)),
     !.attempts = 0]

\* The flush clock follows the head.
HeadClock(u) == [u EXCEPT !.flush = u.tasks[1].ts + MaxWait]

Due(u, t) == u.pendingCost >= Threshold \/ u.flush <= t

\* DEL of hash and stream: the unit leaves every index.
Unindexed(k) ==
  /\ eligible' = ZRem(eligible, k)
  /\ pendingFlush' = ZRem(pendingFlush, k)
  /\ leases' = ZRem(leases, k)

\* The unit, now free, enters one index; it is not taken out of the other.
Reindexed(k, u, t) ==
  /\ leases' = ZRem(leases, k)
  /\ eligible' = IF Due(u, t) THEN ZAdd(eligible, k, u.flush) ELSE eligible
  /\ pendingFlush' = IF Due(u, t) THEN pendingFlush ELSE ZAdd(pendingFlush, k, u.flush)

-----------------------------------------------------------------------------
Init ==
  /\ units = [k \in Keys |-> NoUnit]
  /\ eligible = <<>> /\ pendingFlush = <<>> /\ leases = <<>>
  /\ pendingTasks = 0
  /\ dlq = <<>>
  /\ tokens = [p \in Procs |-> 0]
  /\ now = 0
  /\ handles = {}
  /\ calls = [c \in Callers |-> Idle]
  /\ faults = 0
  /\ arrived = [k \in Keys |-> 0]

\* A total equal to the new task's cost is taken to mean an empty unit.
Added(u, e) ==
  [u EXCEPT
     !.pendingCost = @ + e.cost,
     !.nextSeq = @ + 1,
     !.tasks = Append(@, e),
     !.flush = IF u.pendingCost + e.cost = e.cost THEN e.ts + MaxWait ELSE @]

\* luaEnqueue.  A claimed unit is not indexed.
Enqueue(k, c, t) ==
  LET e == [seq |-> units[k].nextSeq, payload |-> arrived[k] + 1, cost |-> c, ts |-> t]
      u == Added(units[k], e)
  IN  /\ arrived[k] < MaxTasks
      /\ arrived' = [arrived EXCEPT ![k] = @ + 1]
      /\ units' = [units EXCEPT ![k] = u]
      /\ pendingTasks' = pendingTasks + 1
      /\ \/ ~Free(u) /\ UNCHANGED <<eligible, pendingFlush>>
         \/ /\ Free(u) /\ u.pendingCost >= Threshold
            /\ eligible' = ZAdd(eligible, k, u.flush)
            /\ pendingFlush' = ZRem(pendingFlush, k)
         \/ /\ Free(u) /\ u.pendingCost < Threshold
            /\ pendingFlush' = ZAdd(pendingFlush, k, u.flush)
            /\ UNCHANGED eligible
      /\ UNCHANGED <<leases, dlq, tokens, now, handles, calls, faults>>

\* ZPOPMIN: the lowest score first, ties broken by member.
First(k) ==
  /\ k \in DOMAIN eligible
  /\ \A j \in DOMAIN eligible \ {k} :
       eligible[k] < eligible[j] \/ (eligible[k] = eligible[j] /\ k < j)

\* luaClaim, with the token that Claim rendered from its process's counter.
Claim(c, d, t, k) ==
  /\ calls[c].step = "idle"
  /\ tokens[c[1]] < MaxClaims
  /\ First(k)
  /\ tokens' = [tokens EXCEPT ![c[1]] = @ + 1]
  /\ units' = [units EXCEPT ![k] = Leased(@, Token(c), d)]
  /\ eligible' = ZRem(eligible, k)
  /\ leases' = ZAdd(leases, k, t + d)
  /\ handles' = handles \cup {[key |-> k, by |-> c, lease |-> Token(c)]}
  /\ calls' = [calls EXCEPT ![c] = Idle]
  /\ UNCHANGED <<pendingFlush, pendingTasks, dlq, now, faults, arrived>>

\* Ack, Release and Fail begin alike: the caller is done with its last batch.
Closing(h) ==
  /\ calls[h.by].step = "idle"
  /\ Held(h)
  /\ calls' = [calls EXCEPT ![h.by] = Idle]

\* luaAck: keep and renew while work is left that is due, else re-buffer.
Ack(h, through, t) ==
  LET k == h.key
      gone == Gone(units[k], through)
      rest == Dropped(units[k], gone)
      u == HeadClock(rest)
  IN  /\ Closing(h)
      /\ pendingTasks' = pendingTasks - Cardinality(gone)
      /\ \/ /\ rest.tasks = <<>>
            /\ units' = [units EXCEPT ![k] = NoUnit]
            /\ Unindexed(k)
         \/ /\ rest.tasks # <<>> /\ Due(u, t)
            /\ units' = [units EXCEPT ![k] = u]
            /\ leases' = ZAdd(leases, k, t + u.leaseMs)
            /\ UNCHANGED <<eligible, pendingFlush>>
         \/ /\ rest.tasks # <<>> /\ ~Due(u, t)
            /\ units' = [units EXCEPT ![k] = Freed(u)]
            /\ Reindexed(k, u, t)
      /\ UNCHANGED <<dlq, tokens, now, handles, faults, arrived>>

Release(h, t) ==
  LET k == h.key
      u == Freed(units[k])
  IN  /\ Closing(h)
      /\ \/ /\ u.tasks = <<>>
            /\ units' = [units EXCEPT ![k] = NoUnit]
            /\ Unindexed(k)
         \/ /\ u.tasks # <<>>
            /\ units' = [units EXCEPT ![k] = u]
            /\ Reindexed(k, u, t)
      /\ UNCHANGED <<pendingTasks, dlq, tokens, now, handles, faults, arrived>>

Heartbeat(h, extend, t) ==
  /\ Held(h)
  /\ leases' = ZAdd(leases, h.key, t + extend)
  /\ UNCHANGED <<units, eligible, pendingFlush, pendingTasks, dlq, tokens, now,
                 handles, calls, faults, arrived>>

\* luaFail's test for a poison head, after it incremented attempts.
Poison(u, seq) ==
  u.attempts + 1 >= MaxAttempts /\ u.tasks # <<>> /\ u.tasks[1].seq = seq

Fail(h, seq, t) ==
  LET k == h.key
      poison == Poison(units[k], seq)
      head == units[k].tasks[1]
      rest == IF poison THEN Dropped(units[k], {1})
              ELSE Retried(units[k])
      u == Freed(HeadClock(rest))
  IN  /\ Closing(h)
      /\ dlq' = IF poison THEN Append(dlq, [key |-> k, task |-> head]) ELSE dlq
      /\ pendingTasks' = IF poison THEN pendingTasks - 1 ELSE pendingTasks
      /\ \/ /\ rest.tasks = <<>>
            /\ units' = [units EXCEPT ![k] = NoUnit]
            /\ Unindexed(k)
         \/ /\ rest.tasks # <<>>
            /\ units' = [units EXCEPT ![k] = u]
            /\ Reindexed(k, u, t)
      /\ UNCHANGED <<tokens, now, handles, faults, arrived>>

(***************************************************************************)
(* luaReap, at the instant t of a possibly stale tick: leases that ran out *)
(* are freed and indexed, then pending_flush is swept, the ones just added *)
(* to it included.                                                         *)
(***************************************************************************)
ReapExpired(t) ==
  LET expired == {k \in DOMAIN leases : leases[k] <= t}
      ready == {k \in expired : Due(units[k], t)}
      flushOf(S) == [k \in S |-> units[k].flush]
      pending == ZAddAll(pendingFlush, flushOf(expired \ ready))
      due == {k \in DOMAIN pending : pending[k] <= t}
  IN  /\ t <= now
      /\ units' = [k \in Keys |-> IF k \in expired THEN Freed(units[k]) ELSE units[k]]
      /\ leases' = ZRemAll(leases, expired)
      /\ pendingFlush' = ZRemAll(pending, due)
      /\ eligible' = ZAddAll(ZAddAll(eligible, flushOf(ready)), Restrict(pending, due))
      /\ UNCHANGED <<pendingTasks, dlq, tokens, now, handles, calls, faults, arrived>>

Tick ==
  /\ now < MaxNow
  /\ now' = now + 1
  /\ UNCHANGED <<units, eligible, pendingFlush, leases, pendingTasks, dlq, tokens,
                 handles, calls, faults, arrived>>

-----------------------------------------------------------------------------
(* Drain. *)

others == <<eligible, pendingFlush, leases, pendingTasks, dlq, tokens, now, handles, arrived>>

\* COUNT n: the first n of the entries at S, in stream order.
Oldest(s, S, n) ==
  LET es == At(s, S)
  IN  Prefix(es, IF n < Len(es) THEN n ELSE Len(es))

\* sort.Slice: the i-th has i elements up to it; equal seqs, which only two
\* lives of a unit can have, stay in the order they were read.
BySeq(s) ==
  LET upTo(i) == {j \in DOMAIN s : s[j].seq < s[i].seq \/ (s[j].seq = s[i].seq /\ j <= i)}
  IN  [n \in DOMAIN s |-> s[CHOOSE i \in DOMAIN s : Cardinality(upTo(i)) = n]]

Goes(c, step, got) ==
  calls' = [calls EXCEPT ![c] = [by |-> calls[c].by, step |-> step, got |-> got]]

\* HGET lease_token; another token ends the call with ErrLeaseLost.
DrainCheck(h) ==
  /\ calls[h.by].step = "idle"
  /\ Held(h)
  /\ calls' = [calls EXCEPT ![h.by] = [by |-> h, step |-> "autoclaim", got |-> <<>>]]
  /\ UNCHANGED <<units, faults, others>>

\* XAUTOCLAIM: delivered but unacked entries; a missing stream has none.
Autoclaim(c) ==
  LET u == units[calls[c].by.key]
      got == Oldest(u.tasks, Pending(u), Batch)
  IN  /\ calls[c].step = "autoclaim"
      /\ Goes(c, IF Len(got) < Batch THEN "read" ELSE "idle", got)
      /\ UNCHANGED <<units, faults, others>>

\* Its error is ignored: Drain goes on to read new messages.
AutoclaimFails(c) ==
  /\ calls[c].step = "autoclaim"
  /\ faults < MaxFaults /\ faults' = faults + 1
  /\ Goes(c, "read", <<>>)
  /\ UNCHANGED <<units, others>>

\* XREADGROUP >: what was never delivered; it becomes pending.
Undelivered(u) == {i \in DOMAIN u.tasks : u.tasks[i].payload > u.last}

Fresh(c) ==
  LET u == units[calls[c].by.key]
  IN  Oldest(u.tasks, Undelivered(u), Batch - Len(calls[c].got))

Delivered(u, es) ==
  IF es = <<>> THEN u
  ELSE [u EXCEPT !.pel = @ \cup Payloads(es), !.last = es[Len(es)].payload]

Deliver(k, es) == units' = [units EXCEPT ![k] = Delivered(@, es)]

ReadGroup(c) ==
  /\ calls[c].step = "read"
  /\ Deliver(calls[c].by.key, Fresh(c))
  /\ Goes(c, "idle", BySeq(calls[c].got \o Fresh(c)))
  /\ UNCHANGED <<faults, others>>

\* Its error is ignored too, whether or not the server served it.
ReadGroupFails(c) ==
  /\ calls[c].step = "read"
  /\ faults < MaxFaults /\ faults' = faults + 1
  /\ Deliver(calls[c].by.key, Fresh(c)) \/ UNCHANGED units
  /\ Goes(c, "idle", BySeq(calls[c].got))
  /\ UNCHANGED others

Seqs == 0 .. (MaxTasks - 1)

Next ==
  \/ \E t \in Clocks :
       \/ \E k \in Keys, c \in Costs : Enqueue(k, c, t)
       \/ \E c \in Callers, d \in LeaseDurs, k \in Keys : Claim(c, d, t, k)
       \/ \E h \in handles :
            \/ \E s \in Seqs : Ack(h, s, t) \/ Fail(h, s, t)
            \/ Release(h, t)
            \/ \E d \in LeaseDurs : Heartbeat(h, d, t)
  \/ \E h \in handles : DrainCheck(h)
  \/ \E c \in Callers :
       Autoclaim(c) \/ AutoclaimFails(c) \/ ReadGroup(c) \/ ReadGroupFails(c)
  \/ \E t \in 0 .. MaxNow : ReapExpired(t)
  \/ Tick

Spec == Init /\ [][Next]_vars

(***************************************************************************)
(* A producer adds to a free unit that the reaper promoted and that stays  *)
(* below T: luaEnqueue then lists the unit in both indexes.                *)
(***************************************************************************)
TopsUpPromoted ==
  \E k \in Keys : /\ arrived'[k] > arrived[k]
                  /\ units[k].lease = None
                  /\ k \in DOMAIN eligible \cap DOMAIN pendingFlush'

\* The driver while no producer does that.
SpecNoTopUp == Init /\ [][Next /\ ~TopsUpPromoted]_vars

-----------------------------------------------------------------------------
(* Properties. *)

ZSet(z) == DOMAIN z \subseteq Keys /\ \A k \in DOMAIN z : z[k] \in Nat

\* The types of the server's and the callers' state.
TypeOK ==
  /\ units \in [Keys -> Unit]
  /\ ZSet(eligible) /\ ZSet(pendingFlush) /\ ZSet(leases)
  /\ pendingTasks \in Nat
  /\ dlq \in Seq([key : Keys, task : Entry])
  /\ tokens \in [Procs -> 0 .. MaxClaims]
  /\ handles \subseteq ClaimedUnit
  /\ calls \in [Callers -> [by : ClaimedUnit \cup {None},
                            step : {"idle", "autoclaim", "read"}, got : Seq(Entry)]]
  /\ now \in 0 .. MaxNow /\ faults \in 0 .. MaxFaults
  /\ arrived \in [Keys -> 0 .. MaxTasks]

(***************************************************************************)
(* I1 on the server: although Ack deletes whatever the group's PEL holds   *)
(* below the mark, and any number of Drains and takeovers moved the PEL,   *)
(* a stream never has a hole: it is the unit's most recent arrivals, in    *)
(* order, under consecutive seqs; an empty unit has left no hash behind.   *)
(***************************************************************************)
StreamFifo ==
  \A k \in Keys :
    LET u == units[k]
        n == Len(u.tasks)
    IN  /\ \A i \in 1 .. n : /\ u.tasks[i].payload = arrived[k] - n + i
                             /\ u.tasks[i].seq = u.nextSeq - n + i - 1
        /\ n = 0 => u = NoUnit

(***************************************************************************)
(* What Ack's scan and Drain's XAUTOCLAIM rest on: the pending entries are *)
(* exactly the stream's entries up to the last one delivered, across acks, *)
(* dead letters, DEL and revival in the middle of somebody's Drain.        *)
(***************************************************************************)
PelIsDeliveredPrefix ==
  \A k \in Keys :
    units[k].pel = {p \in Payloads(units[k].tasks) : p <= units[k].last}

\* Every pending task, by unit and position.
Backlog == UNION {{k} \X DOMAIN units[k].tasks : k \in Keys}

(***************************************************************************)
(* I3: pending_cost is what is pending, and pending_tasks, which Stats     *)
(* reports, counts it, over all units.                                     *)
(***************************************************************************)
CountersExact ==
  /\ \A k \in Keys : units[k].pendingCost = Cost(units[k].tasks)
  /\ pendingTasks = Cardinality(Backlog)

(***************************************************************************)
(* No work is stranded: a free unit with tasks is in an index that Claim or*)
(* the reaper looks at, in eligible if it is worth T, and a unit without   *)
(* tasks is in none.                                                       *)
(***************************************************************************)
NeverStranded ==
  \A k \in Keys :
    /\ (units[k].tasks # <<>> /\ units[k].lease = None) =>
         /\ k \in DOMAIN eligible \cup DOMAIN pendingFlush
         /\ Cost(units[k].tasks) >= Threshold => k \in DOMAIN eligible
    /\ units[k].tasks = <<>> => k \notin DOMAIN eligible \cup DOMAIN pendingFlush

(***************************************************************************)
(* I5: the reaper finds every lease a dead worker left, and none that is   *)
(* not there: leases lists exactly the units whose hash has a token.       *)
(***************************************************************************)
LeasesListed == DOMAIN leases = {k \in Keys : units[k].lease # None}

(***************************************************************************)
(* The flush clock is the head's: flush_ms is its ts plus max_wait.        *)
(***************************************************************************)
FlushClock ==
  \A k \in Keys : units[k].tasks # <<>> => units[k].flush = units[k].tasks[1].ts + MaxWait

(***************************************************************************)
(* I2: a lease is granted only on a unit nobody holds (luaClaim).          *)
(***************************************************************************)
ClaimTakesFree ==
  [][\A k \in Keys : units[k].lease # None =>
       units'[k].lease \in {None, units[k].lease}]_vars

(***************************************************************************)
(* Age-fair claim: the unit a claim takes has the oldest head of all free  *)
(* units worth T.  The scores that ZPOPMIN compares were written when each *)
(* unit was last indexed, and stay right whatever acks, failures and reaps *)
(* moved the heads since.                                                  *)
(***************************************************************************)
AgeFairClaim ==
  [][\A k \in Keys :
       (units[k].lease = None /\ units'[k].lease # None) =>
         \A j \in Keys :
           (units[j].lease = None /\ units[j].tasks # <<>> /\ Cost(units[j].tasks) >= Threshold)
             => units[k].tasks[1].ts <= units[j].tasks[1].ts]_vars

(***************************************************************************)
(* A handle that stopped being valid is never accepted again (the lease    *)
(* check of every script).                                                 *)
(***************************************************************************)
LostStaysLost == [][\A h \in handles : ~Held(h) => ~Held(h)']_vars

(***************************************************************************)
(* What a caller has drained under a lease that is still its own is what is*)
(* at the head of the unit: nothing skipped, so that its Ack deletes only  *)
(* what it was given (Drain, luaAck).                                      *)
(***************************************************************************)
HolderAligned ==
  \A c \in Callers :
    (calls[c].by # None /\ calls[c].step = "idle" /\ Held(calls[c].by)) =>
      LET ts == units[calls[c].by.key].tasks
          got == calls[c].got
      IN  Len(got) <= Len(ts) /\ got = Prefix(ts, Len(got))

-----------------------------------------------------------------------------
TaskOf(e) == [seq |-> e.seq, payload |-> e.payload, cost |-> e.cost]

\* A stream as the contract sees it, and what of it is older than max_wait.
Stripped(ts) == [i \in DOMAIN ts |-> TaskOf(ts[i])]
Aged(ts) == {ts[i].payload : i \in {j \in DOMAIN ts : now >= ts[j].ts + MaxWait}}

Contract == INSTANCE QueueContract WITH
  NoToken <- None,
  queue <- [k \in Keys |-> Stripped(units[k].tasks)],
  aged <- [k \in Keys |-> Aged(units[k].tasks)],
  holder <- [k \in Keys |-> units[k].lease],
  expired <- {k \in DOMAIN leases : leases[k] <= now},
  handles <- {[key |-> h.key, lease |-> h.lease] : h \in handles},
  dead <- {[key |-> dlq[i].key, task |-> TaskOf(dlq[i].task)] : i \in DOMAIN dlq}

(***************************************************************************)
(* Every script does what the contract allows, and Drain, in whatever order*)
(* its commands interleave with scripts, changes nothing the contract      *)
(* speaks of.                                                              *)
(***************************************************************************)
ImplementsContract == Contract!Spec
=============================================================================
