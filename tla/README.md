# A TLA+ verification of the work-unit queue

The repository is a queue of *work units*: a unit is the FIFO of one
(workspace, session, peer) key; a worker leases a whole unit, drains and
processes its tasks in order, and acks a prefix. A unit may be claimed only once
its pending cost reaches a threshold T or its head has waited for `max_wait`.
Three drivers implement the same Go interface, `queue.Backend`. This directory
models the contract, the three drivers, the worker loop, several primaries behind one
driver and the binary's commands, checks the models with TLC
on small instances, and proves with TLAPS, for every instance, the safety of the three
drivers, the worker loop, the routing and the run, and that each driver implements the
contract: the in-memory and the Postgres driver always, the Valkey driver under conditions
that section 4 names.

The designs call the guarantees I1 (FIFO order within a unit), I2 (one worker
owns a unit at a time), I3 (the cost aggregate is exact), I4 (the buffering gate)
and I5 (crash recovery without loss). The names are used below.

## 1. Inventory

| Part | Source | State | Operations | Talks to | What makes it correct |
|---|---|---|---|---|---|
| Contract | `internal/queue/backend.go`, `types.go` | that of a driver | Enqueue, Claim, Drain, Ack, Release, Heartbeat, Fail, ReapExpired | — | I1–I5 as one abstract machine |
| Worker loop | `internal/queue/worker.go` | unit, batch, heartbeat goroutine, backoff | Run, runOnce, heartbeat, Pool.Run | the driver, by calls | in-order processing, nothing acked unprocessed, everything eventually drained |
| Reaper loop | `cmd/plq/main.go` `reapLoopM` | a ticker | ReapExpired(tick) | the driver | abandoned leases come back, aged units are flushed |
| In-memory driver | `internal/memory/backend.go` | map of units, DLQ, lease counter, one mutex | all methods | — | it is the oracle: I1–I5 exactly |
| Valkey driver | `internal/valkey` | per unit a hash, a stream, a consumer group; ZSETs `eligible`, `pending_flush`, `leases`; a counter | seven Lua scripts; Drain as three commands | the server | the ZSETs agree with the hashes; the pending list agrees with the stream |
| Postgres driver | `internal/postgres` | rows of `work_units`, `tasks`, `dead_letters`; tenant cache | single statements; Ack and Fail as transactions with a row lock; the reaper as two UPDATEs | the server | row, tasks and lease agree under every interleaving of statements |
| Primaries | both remote drivers | a cursor shared by the workers, the cached gate of each tenant | `hash(workspace) % N`, Claim's rotation, the loops of ReapExpired and Reset | N primaries | a key always meets the same primary; nobody is forgotten |
| Load generator | `internal/loadgen/producer.go`, `workload.go`, `chaos.go` | sliding key window | producers, chaos workers | driver, worker loop | — |
| Harness and metrics | `internal/loadgen/harness.go`, `metrics.go` | counters and histograms shared by all goroutines; the sampler's window | Run, sample, finalize, quantile | driver (Stats), pool, producers, reaper | the numbers are those of the window; shutdown is orderly |
| Configuration, commands | `internal/config`, `cmd/plq` | the context | read the environment, start the parts, wait, Close | all | every command ends, and closes last |

What is hard in this code, and hard to reach with a test: a lease that runs out
while its worker is still processing; a handle used long after it was lost; a
reply that never arrives; a Drain whose commands interleave with somebody else's; an
Ack that writes its lease back; a primary that is silent; a shutdown in mid-batch;
a reaper tick that is older than the state it meets; indexes and aggregates
maintained by hand in every path; zero as "empty". `PROJECT.json` lists each
hazard at its line with the properties that would catch it.

## 2. Modules

```
WorkUnits            tasks, FIFO prefixes, cost
  QueueContract      the contract, as an abstract specification
    WorkerPool       worker loop + heartbeats + reaper + faults, over the contract
  MemoryBackend      the in-memory driver      (implements QueueContract)
  ValkeyBackend      the Valkey driver         (implements QueueContract, see below)
  PostgresBackend    the Postgres driver       (implements QueueContract)
Primaries            N primaries behind one driver: routing, rotation, tenant cache
LoadRun              one run of the binary: goroutines, sampler, metrics, shutdown
WorkUnitLemmas       what the operators of WorkUnits return (proofs)
MemoryBackendProofs  the theorems about MemoryBackend
  MemoryContractProofs  ... and that it implements QueueContract
WorkerPoolProofs, PostgresBackendProofs, ValkeyBackendProofs, PrimariesProofs,
LoadRunProofs        the theorems about the module each is named after
MC*                  what the configurations instantiate
```

**WorkUnits.** A payload is opaque, so it is the running number of the task among
those enqueued for its key. `Cost` counts pairs (seq, 1..cost) rather than adding
recursively: seqs are distinct within a unit, so the count is the sum, and
cardinality is within the provers' reach where a recursive sum is not.

**QueueContract.** Seven variables: the FIFO, the arrivals so far, which tasks
have aged, the live lease, which leases have run out, the handles in circulation
and the dead letters. Time is abstracted to `Elapse`, which may age tasks and run
leases out. Tokens are fresh; callers may forget handles. It leaves open how seqs
restart after a unit was emptied, because the drivers differ there. For the same
reason an Ack may free the lease of a unit that stays eligible by age alone: a driver
whose clock lags does not see yet that the head has aged. It may never free one that
is still worth T, nor keep one that is not eligible. `DeadLetterHead` leaves the number of
attempts open too: the drivers count differently (per unit or per task), so the refinements
say which task may be dead-lettered, and `PoisonFailedItself` after how many failures.

**MemoryBackend.** One mutex, so one action per method. The fields of `unit` are
kept by their names; `oldestPending` always equals `enqAt[1]` and is not a field
of its own. A key that is not in the map is the zero value `NoUnit`, which is what
Enqueue starts from. Handles are never forgotten: any caller may use any handle it
was ever given. ReapExpired takes any instant up to the present, since it comes
from a ticker's channel.

**WorkerPool.** `pc[w]` is the backend call worker *w* makes next. Drain is a
check and a read that changes nothing, as it is in the Postgres driver; Valkey's Drain also
delivers, in three commands, so `InOrder` and `HolderAligned` do not carry over to it
(`valkey_drain_race`). A heartbeat goroutine lives in
`beats` from the start of a batch until it notices that its context is done, and
may renew the lease once more before that. Faults, at most `MaxFaults` of them:
a claim or ack whose reply is lost, a failed call, a stall longer than the lease,
a crash, a cancelled context (`loadgen/chaos.go` does just that). A lease that
nobody renews runs out without a fault.

**ValkeyBackend.** One primary. A script is one action, since the server runs it
without a break. `units[k]` holds what is under `wu:k` and `s:k`; the consumer
group is its pending entries and its last-delivered id. Commands that pick entries
(XPENDING, XDEL, XREADGROUP) pick positions of the stream, and `At` reads them off in
stream order. The three ZSETs are functions from members to scores. Drain is `DrainCheck`, `Autoclaim`, `ReadGroup`;
failures of the last two are ignored, as in the code. Every script is given a
clock its caller read up to `Lag` earlier. Left out of the hash: fields that are
never read (`oldest_ms`, `lease_exp`) and fields that are constant (`threshold`,
`max_wait_ms`); the defaults in the reaper for a missing hash never apply, as
`LeasesListed` shows. Claims that find nothing also use up a token number, which
makes no difference to any property and is not a step. `Spec` is the driver as it is;
`SpecNoTopUp` is the driver while no producer adds to a unit that the reaper promoted and
leaves it below T, the enqueue behind the double claim of section 3.

**PostgresBackend.** One primary. A single statement is one action; Ack and Fail
are `Begin` (BEGIN and the SELECT … FOR UPDATE of `checkLeaseForUpdate`) and a step
that ends the transaction, between which the row is locked and everybody else's
UPDATE of it waits, Claim's SKIP LOCKED passes it by, and Drain's SELECTs do not
care. `now()` is the start of the transaction, up to `Lag` behind. The reaper's two
UPDATEs share one instant and the second may fail. That instant comes from
the client's clock, while leases and deadlines come from the server's. A client behind the
server is an old tick, and any instant up to the present is allowed; a client ahead of it is
a server that lags, so the skew is part of `Lag` and must stay below it. A row is never deleted, so
`next_seq` carries on. `Ack` writes the caller's token back, as the code does:
that this resurrects nothing rests on the lock, and the variant without it
(`NeverLocked`) breaks the refinement. Workers are told apart by their uuid tokens.
Left out: `threshold` and `max_wait_ms` of a row (constant here, see Primaries).

**Primaries.** What both remote drivers do around the primaries. A call does one
step per primary; between two, primaries fail and recover and others run. A row keeps
only what routing and progress depend on: its gate, the flag, the lease, whether its
head has aged and its lease has run out. All tasks cost 1. The Postgres driver's
`tenantCache` is included; the Valkey driver has no tenants, only the defaults.

**LoadRun.** A command starts its goroutines; `Awaited` is what it waits for before
main runs `stop()` and `be.Close()`. The sampler reads the clock and `Acked`
(`TakesTick`), calls Stats, and only then judges, opens the window or ends the run
(`TakesSample`), so acks and signals fall in between. Workers look at the context at the head
of their loop and while they sleep, never inside a held unit. Recorder.Ack and
Recorder.Loop are separate steps. Durations come from the environment, with defaults
for what is missing or malformed; `loadrun` hard-codes its backoff.

Each module has a type invariant, `TypeOK` (`PoolTypeOK`); in the last three modules
it is a conjunct of `CostExact`, `OneHome` and `QuantileShortByOne`.

The definitions grouped under "Deliberately wrong variants" take part in no
specification. Each is a plausible slip in the definition it names (a forgotten
decrement, an off-by-one, a dropped guard); with the slip in place TLC reports the
property violated, which shows that the property depends on the code.

## 3. What TLC checks

| Run | What it shows |
|---|---|
| `memory_backend` | two units with two tasks of cost 1 or 3 each and T = 3, three claims, stale handles: I1, I2, I3, the flush clock, the gate, lost leases stay lost, and the driver implements the contract |
| `retry_budget` (violation) | `attempts` is documented as the head's consecutive failures; failures of other tasks count too |
| `worker_pool` | two workers, two faults, batches of two out of three tasks: in-order processing, nothing dropped unprocessed, the holder's batch is what is at the head, redelivery bounded by the faults; and under fairness everything that arrives is drained, also a task alone below T |
| `valkey_safety` | in every execution, double listing, failing commands and lagging clocks included: streams without holes, pending list = delivered prefix, exact counters, no stranded unit, every lease listed, flush clock |
| `valkey_contract` | while no producer tops up a promoted unit, the driver implements the contract on two units and Claim takes the older head |
| `valkey_double_claim` (violation) | without the condition, a unit under a live lease is claimed again |
| `valkey_drain_race` (violation) | an outlived Drain takes the head from under the new holder |
| `valkey_token_reuse` (violation) | two processes render equal tokens |
| `postgres_backend` | one unit, two leases, tasks with and without a cost, transactions open across everything else: I1, I3, the flush clock, the gate, Stats, failures counted on the task that failed, the holder's batch is at the head, and the contract |
| `primaries` | a tenant on the second of two primaries, one of its keys with an endless producer, two workers, an outage or a Reset: one home per key, the tenant's gate, no starvation while a worker is to spare, every primary up to the first silent one reaped |
| `load_run` | all five commands, settings present, missing and malformed: the report of a run, the quantile, the backoff, Close after the workers and producers the command waits for, and that every command ends |
| `p99_bucket` (violation) | a p99 is documented to land "to within a bucket"; that of a single cycle is the lowest bucket, however long the cycle took |

What the passing runs say of the Postgres driver is worth comparing with the Valkey
findings: the same races (a Drain that outlives its lease, an Ack after a reclaim, a
failure of a later task) are harmless there, because Drain only reads, the token is a
uuid, the lease check locks the row, and attempts are counted per task.

The violations are disagreements between the code and a comment or a design
document; `PROJECT.json` quotes the lines. Three of them deserve a word:

* *Double claim.* Promote a unit below T by age; enqueue a task that leaves it
  below T (`luaEnqueue` adds it to `pending_flush`, but it stays in `eligible`);
  claim it; let the reaper run (it moves the claimed unit from `pending_flush` to
  `eligible`); claim it again. This enqueue is the only way to a second claim: excluding
  it alone, `ClaimsTakeFree` proves that no leased unit is claimed, for any number of
  processes, and `valkey_contract` and `ValkeyImplements` that the contract is kept.
* *Drain race.* Old worker A passes its lease check and stalls; B claims the unit
  and finds no pending entries; A's XREADGROUP takes the head; B's XREADGROUP
  takes the next task. B's Ack then scans the group's pending list, not its own
  consumer's, and deletes the head as well. A failed XAUTOCLAIM
  (`AutoclaimFails`) leads to the same misaligned batch with a single worker.
* *p99.* `quantile` rounds its target rank down: to 0 for one sample, so that the lowest
  bucket is reported, and to n - 1 below a hundred, so that the largest is left out.
  `QuantileClose` states the comment's claim against the cycle times as they were and
  fails; `QuantileShortByOne`, in `load_run`, states what does hold: the p99 never
  overstates, and fewer than 1% of the cycles plus one took longer than it says.

**Bounds.** Two tasks per unit are enough for an Ack that leaves one and for a unit that
is emptied and revived, three add a middle (worker pool, Valkey, Postgres); costs 1 and T,
with T = 3, put units on both sides of the gate and let two cheap tasks stay
below it. Two or three claims give a stale handle and a live one. With `MaxWait` =
1 and leases of one unit of time, three or four instants let a head age, a lease
run out, be renewed and run out again. One unit is enough where the property
speaks of one unit at a time, as units share only the lease counter, the clock and
the choice made by Claim; `memory_backend` and `valkey_contract` have two. What longer
histories could do to the safety properties is covered by the proofs. Two workers and two faults
cover a stall followed by another failure; `MaxFaults` also bounds redelivery. Three tokens
in the worker pool are a live lease and two that were lost. That one of its two workers
stays up is for the liveness property; the safety theorems hold for every `MinUp`.
`valkey_safety`, which has no temporal property, is reduced by symmetry in the worker
ids (`IdSymmetry`), which the driver only compares for equality.

`postgres_backend`: costs 0 and 1 with T = 2 and three tasks give units whose cost
hides some of their tasks; a lag of one instant lets enqueue times run against the
order of commits. `primaries`: the tenant is on the second primary, since that is
the one an error on the first can cut off; a gate of 1 for the tenant and 2 by default makes
a failed lookup visible; the hot key is bounded in how much is pending, not in how
much arrives. `load_run`: one worker (workers share nothing here but atomic
counters), three batches, runs of one or two seconds with a warmup of one or two,
two histogram bounds with times at, between and above them; the 0.99 is the code's.

**Fairness.** `worker_pool`: weak fairness of: each worker's own
steps (Run loops for ever and every batch ends), the exit of a heartbeat goroutine
whose context is done, the clock (tasks age, abandoned leases run out) and a full
reap (a ticker keeps firing, and a later tick sees every lease that has run out).
Nothing is assumed of producers, heartbeats, restarts or faults. At least one
worker stays up. `primaries`: the workers' loops, the reaper's, and time; nothing of
producers, Reset, or whether a primary ever recovers, so `UnitsServed` and
`ReaperReaches` say which primaries have to answer. `load_run`: time passes, every
goroutine is scheduled and driver calls return (their context is cancelled at the
end); no signal, kill or failure is promised.

**Deadlock** is checked everywhere but in `load_run`, where the process ends;
elsewhere reaping is always possible, so a stuck model would be a modelling error.

**What the models showed beside the properties.**

* `UnitsServed` needs a worker to spare. Ack keeps the lease while the unit stays eligible
  and `runOnce` goes on with it (`worker.go:146`), so with as many hot units as workers every
  other unit waits for ever, although the designs say "no unit starves"
  (`postgres-work-unit-queue.md:464`, `valkey-work-unit-queue.md:525`). With `Workers = {w1}`
  in `Primaries.cfg` TLC reports `UnitsServed` violated.
* `ReapExpired` returns at the first error, so a silent primary leaves those after it
  in the list without a reaper, although the router's comment speaks of a failure
  domain (`postgres/backend.go:89`). `ReaperReaches` states what remains: without its last
  disjunct, which excuses the primaries behind a silent one, it fails.
* One failed lookup leaves a tenant with the default gate for the life of the process,
  and its rows for longer: the gate is written when the row is made. `TenantGate`
  exempts such tenants and shows that there are no others.
* Zero as "empty": with `PLQ_COST_LO=0` both remote drivers restart the flush clock of
  a unit whose tasks cost nothing at each enqueue (`scripts.go:57`,
  `postgres/backend.go:141`), which makes it the idle timer that the design rejects
  (`postgres-work-unit-queue.md:210`), and Postgres never flushes such a unit
  (`pending_cost > 0`). The in-memory driver tests the number of tasks. `valkey_safety`
  has positive costs (with `Costs = {0, 1}` TLC reports `FlushClock` violated); the
  Postgres run has both kinds, and its properties are about tasks that cost something.
* The window's numerator starts before Stats is called and its divisor after: acks made
  during the call are counted, the time is not. If the warmup is as long as the run,
  the divisor is the time between two statements.
* `ClosedQuiet` is about the workers and producers a command waits for. Reaper, logger and
  a heartbeat past its select are not waited for: they may still call the driver when it
  is closed, and their errors are ignored. With `PLQ_POLL_MIN=0` an idle worker spins,
  which the comment at `worker.go:94` rules out.
* Valkey's `Stats` asks for scores between 0 and 0, so its `OldestBelowT` is always 0
  (`valkey/backend.go:277`).

## 4. What is proved

Seven modules prove safety for arbitrary keys, workers, primaries, costs, durations and
bounds; `WorkUnitLemmas` holds the facts about prefixes, suffixes and cost they share.

| Module | Theorems (property) |
|---|---|
| `MemoryBackendProofs` | `TypeCorrect`, `FifoCorrect` (I1), `AggregateCorrect` (I3), `ClockCorrect`, `GateCorrect` (I4), `LeasesExclusive` (I2), `LostLeasesStayLost` (an action property) |
| `MemoryContractProofs` | `MemoryImplements`: the in-memory driver refines `QueueContract` |
| `WorkerPoolProofs` | `PoolTypeCorrect`, `ProcessedInOrder` (I1 for the consumer), `NothingForgotten` (at least once), `AckDropsOwnBatch`, `RedeliveryIsPaidFor` |
| `PostgresBackendProofs` | `TasksStayInOrder` (I1), `PendingCostExact` (I3), `GateIsExact` (I4), `DeadlineServesAll`, `DeadLettersFailed`, `BatchIsHead`, `StatsAreHonest`; `PostgresImplements`: the Postgres driver refines `QueueContract` |
| `ValkeyBackendProofs` | in every execution: `TypeCorrect`, `StreamsAreFifo` (I1), `CountersAreExact` (I3), `PelIsPrefix`, `NoneStranded`, `LeasesAreListed` (I5); under the conditions below: `ClockFollowsHead`, `ClaimsTakeFree` (I2), `ClaimsAreAgeFair`, `LostForGood`; `ValkeyImplements`: the Valkey driver refines `QueueContract` |
| `PrimariesProofs` | `UnitsHaveOneHome`, `UnitsKeepTenantGate` |
| `LoadRunProofs` | `ResultIsHonest`, `WorkersBackOff`, `ClosedWhenQuiet` |

**Assumptions.** The named ASSUMEs of the models and nothing else: options are numbers in
the range that makes sense, which is narrower than what `config.go` parses: costs and
durations are not negative; `max_wait` is positive in the in-memory driver, where a
task would otherwise have aged by the time it is added without the flag being set;
T is positive in the Postgres driver and the primaries, where a unit without tasks would
otherwise pass the gate; the values that
stand for "no lease", "no holder" and NULL are none of the real ones
(`WorkersAssumption`, `LoopAssumption`, `RoutingAssumption`, `PostgresNull`, `ValkeyNone`,
`StatsAssumption`); the keys of the Valkey driver are numbers (`ValkeyKeys`), since ZPOPMIN
breaks ties by comparing members; there are finitely many workers (`LoopAssumption`), since deliveries
are counted over them; the defaults of the settings are numbers (`DefaultsAssumption`);
and in Postgres a statement is shorter than the leases and than `max_wait`
(`PostgresClock`), without which no clock of the server could be relied on.

Four of the Valkey theorems and the refinement need more, and state it as hypotheses of
their own rather than as assumptions of the model, because the code does not ensure it:

| Condition | Needed by | Without it |
|---|---|---|
| `SpecNoTopUp`: no top-up of a promoted unit | `ClaimsTakeFree`, `ClaimsAreAgeFair`, `ValkeyImplements` | `valkey_double_claim` |
| `OneProcess`: at most one process | `LostForGood`, `ValkeyImplements` | `valkey_token_reuse` |
| `0 \notin Costs`: tasks cost something | `ClockFollowsHead`, `ClaimsAreAgeFair`, `ValkeyImplements` | the flush clock restarts (zero as "empty", section 3) |
| `Prompt`: a call is shorter than `max_wait` and than the leases | `ValkeyImplements` | a lease or a flush time lies in the past when it is written |

`valkey_contract` is an instance that satisfies all four.

**In-memory driver.** None of the properties is inductive alone: that Ack subtracts the
right cost needs distinct seqs, the gate needs the aggregate, the recomputed clock needs a
time for every task. `StateInv` is the type invariant together with `UnitInv` for
every unit, which joins FIFO, aggregate, clock and gate, and says that only a unit
with work is held. A method changes one unit, so there is one lemma per operator on
a unit (`EnqueueInv`, `DropInv`, `AckInv`, `FailInv`, `ReapInv`) and one that lifts
it to the map (`ReplaceUnit`). For the leases, `LeaseInv` adds that a unit has a
token exactly when it has a holder, that its lease is some handle's, that tokens
never exceed the counter, and that equal tokens mean equal keys; every method but
Claim keeps a lease or frees it (`OtherStepsKeepOrFree`), and Claim's token exceeds
every one issued (`FreshToken`).

*Refinement.* The contract's variables get names (`Queue`, `Ages`, `Holder`, `Expired`,
`Handed`, `Dead`). One group of lemmas (`ContractEnqueue`, …) says which facts about them
make a step a step of the contract, another (`EnqueueStep`, …) what each method does to
them. `StateInv` supplies that Claim's flag is the contract's gate and that Ack's `through`
cuts a prefix; `LeaseInv` that the handle that passes `held` is the contract's holder.

**Worker pool.** `PoolInv` has three parts that each need the others. The contract's: a
FIFO holds the last arrivals, under increasing seqs. The loop's: a worker's batch is a run
of consecutive arrivals of its unit, and everything up to the worker's position in it has
been processed by somebody (`BatchInv`), also once its lease is gone. And where the two meet: while
the handle is the lease's, the batch is the head of the FIFO (`Aligned`), so that the Ack
drops it and only it; everything before the FIFO's head has been processed (`Acked`). For
redelivery, `DeliveryInv` counts: how often a task was processed, plus the workers that
may still process it without another claim (`MayProcess`), plus one if its unit is free or
its lease is bound to run out (`AtRisk`), is at most one plus the faults. Processing moves
a unit of this sum from the second term to the first, a claim from the third to the
second, and only a fault can raise it.

**Postgres driver.** `PgInv` is the conjunction of `Types`, `Leases` (a transaction that
holds a row's lock and found its lease valid still has it: this is what the row lock
buys), `Arrivals` (FIFO and seqs), `Sums`, `Clock`, `Gate`, `Attempts` and
`HolderAligned`. What a step does to one unit is stated once (`Grew`: a task is
added; `Shrank`: tasks leave from the front under the row's lock; `Kept`) and the conjuncts
are proved from that. The clock is the delicate part: enqueue times are not in seq order, since
concurrent statements may commit in either order, so `Clock` bounds the deadline
from both sides by the oldest task, up to `Lag`. `Left`, which stands for `DELETE … WHERE
seq <= through`, drops as many rows from the front as there are rows with such a seq; that
these are the same rows is `TasksStayInOrder`.

*Refinement.* As for the in-memory driver, with three differences. Only commits are visible:
BEGIN, Drain, a rollback and the reaper's second UPDATE are stutters (`UnseenSteps`). An Ack
judges the gate by the instant its transaction began, so it is `Gate` after the step, and not
the row before it, that shows the contract's choice between keeping and freeing the lease was
made rightly. And a lease that Ack renews must not have run out already: `Timely`, proved
along with `PgInv`, says that a transaction is younger than any lease is long, which is where
`PostgresClock` is used.

**Valkey driver.** `StateInv` joins the type invariant with four parts. `UnitInv`, for
every unit: the stream is FIFO, the pending entries are its delivered prefix, the aggregate
is its cost, and an empty unit is `NoUnit`. `Listed`, for every unit: where the ZSETs have it,
given its lease and its work. The counter is the size of the backlog. And `DrainInv`, for
every caller: a Drain in progress has room for what it will read. The pending list is what
makes the rest hard, because Ack deletes what it finds there: only as long as the list is a
prefix of the stream (`UnitPel`) does deleting its entries up to a seq leave a FIFO, and an
outlived Drain may deliver to anybody's unit at any time. It does not disturb the prefix,
which is why `StreamFifo` survives the race that `HolderAligned` does not. Ack, Release and
Fail do the same to the indexes, stated once as `Settled`; `Reaped` names what luaReap
reclaims and promotes; Drain's commands change only the group and the caller (`DrainKeeps`).

On top of it come three invariants, each for a question of its own. `ClockInv`: flush_ms is
the head's time plus `max_wait`, for which costs must not be zero, since luaEnqueue knows an
empty unit by its total. `IndexInv`: a unit is in at most one of `eligible` and
`pending_flush`, under its flush time, in neither while it is leased, and in `eligible` only
when it is due; luaEnqueue's top-up is the one step that breaks it. `TokenInv`: no token in
circulation is above the counter, which identifies a claim only if there is one counter.

*Refinement.* As for the other drivers (`Queues`, `Ages`, `Holders`, `Lapsed`, `Copies`,
`Dead`; lemmas `Contract…` and `…Step`). The commands of Drain are stutters (`UnseenSteps`):
the contract knows no consumer groups. The clocks of the callers lag, so a promoted unit must
have aged by the real clock (`IndexInv`), a kept lease must not be written in the past
(`Prompt`), and an Ack that frees a unit must not free one that is worth T (`AckShape`).

**Primaries.** `HomeInv`: a primary that is not `ShardFor(k)` has neither row nor tasks of
*k*; a call in progress carries the home of its key and a gate its tenant may have; so does
the cache. The last two are what makes the first survive a call that began before a Reset.

**Load run.** `RunInv` says for each command which goroutines can be running in which
phase, what the sampler holds between reading the counter and judging, and that its
running minimum and maximum are those of the samples judged so far.

TLC finds no violation of these inductive invariants on the instances of section 3 either.

*Model-checked only.* Liveness (`EveryTaskDrained`, `UnitsServed`, `ReaperReaches`,
`Ends`): fairness and ENABLED are outside the prover's reach. `QuantileShortByOne`, whose
histogram adds with a fold: what a fold or a recursion computes needs induction over data,
which the installed provers cannot do. Every other invariant and action property of a
passing run is proved.

## 5. Plan

All parts with state of their own are modelled, and every safety property that the provers
can reach is proved. If the code changes: a fix of luaEnqueue (ZREM from `eligible`, or ZADD
only to the index the unit is in) should let `SpecNoTopUp` be replaced by `Spec` in
`ClaimsTakeFree` and `ValkeyImplements`, with `EnqueueIndex` as the lemma to revisit; a
fix of the token (a random one, as in the Postgres driver) should remove `OneProcess`.

## 6. Not modelled

* The Zipf, birth and cost distributions of the load generator: any key and any cost
  of the model may come next.
* Counters that are only printed (Enqueued, Claims, ClaimEmpty, LeaseExpired), the
  claim histogram, which is the loop histogram's code again, the division that gives
  the throughput, and the results files.
* Valkey's `Stats`, which only reads; `member`/`splitMember`, which map keys to strings
  and are the identity on keys without "|"; the hash function, a constant here.
* A change of `tenant_config` or of the number of primaries while a process runs.
* Leases below a millisecond, which Postgres truncates to 0.
* Building the driver from the settings, deployment, plots and paper.
