------------------------------ MODULE LoadRun ------------------------------
(***************************************************************************)
(* One run of the plq binary (cmd/plq/main.go).  A command starts its      *)
(* goroutines under one context (producers, a worker pool, a reaper, a     *)
(* once-a-second logger), the workers report to the shared Metrics         *)
(* (loadgen/metrics.go), and for loadrun a sampler (loadgen/harness.go)    *)
(* looks at the Metrics and at the driver's Stats once a second, sums the  *)
(* run up when its duration is over or a signal arrives, cancels the       *)
(* context and waits.  Only then may main close the driver.                *)
(*                                                                         *)
(* The unit of time is the sampler's second: clock = c stands for any      *)
(* instant of [c, c + 1).  The queue itself is in the other modules: here  *)
(* a Claim finds work or not, and Stats reports some backlog or fails.     *)
(***************************************************************************)
EXTENDS Integers, FiniteSets, Functions, Sequences

CONSTANTS
  Commands,                         \* the commands considered
  Unset, Malformed,                 \* settings that are not there or do not parse
  RawDurations, RawWarmups,         \* what PLQ_DURATION and PLQ_WARMUP may hold
  RawPollMins, RawPollMaxs,         \* what PLQ_POLL_MIN and PLQ_POLL_MAX may hold
  Default,                          \* Default[setting]: what config.Load falls back to
  HarnessPoll,                      \* the BackoffConfig that loadgen.Run hard-codes
  HasStater,                        \* whether the driver reports Stats
  Workers,                          \* workers of the pool
  HistBounds,                       \* the histogram's upper bounds, ascending
  Latencies,                        \* how long a batch cycle may take
  QNum, QDen,                       \* the quantile reported: 0.99
  None,                             \* no value yet
  Backlogs,                         \* eligible units Stats may report
  MaxAcks,                          \* bound: batches there are to ack
  MaxIdle,                          \* bound: idle time of a worker without a Max
  MaxClock                          \* bound: seconds the run is watched for

ASSUME SettingsAssumption ==
  /\ Commands \subseteq {"worker", "loadgen", "loadrun", "reap", "reset"}
  /\ \A raw \in RawDurations \cup RawWarmups \cup RawPollMins \cup RawPollMaxs :
       raw \in Int \cup {Unset, Malformed}
  /\ \A d \in (RawDurations \ {Unset, Malformed}) \cup {Default.duration} : d <= MaxClock
ASSUME DefaultsAssumption ==
  /\ Default.duration \in Int /\ Default.warmup \in Int
  /\ Default.pollMin \in Int /\ Default.pollMax \in Int
  /\ HarnessPoll.min \in Int /\ HarnessPoll.max \in Int
ASSUME StatsAssumption == Backlogs \subseteq Nat /\ None \notin Int
ASSUME QuantileAssumption == QDen \in Nat \ {0} /\ QNum \in 0 .. QDen

VARIABLES
  settings,   \* the command and what config.Load made of the environment
  phase,      \* "start", "up", "closed" after be.Close, "fatal" after log.Fatalf
  cancelled,  \* the context is done: a signal, cancel() or stop()
  running,    \* the goroutines that have not returned
  worker,     \* worker[w]: where w is in Worker.Run, and its idle time
  acked,      \* Metrics.Acked, in batches
  counts,     \* loopLat.counts: counts[i] cycles fell into bucket i
  clock,      \* whole seconds since sample began
  ticked,     \* the ticker's channel holds a tick
  sampler,    \* where sample is, and the sample it is taking
  low, high,  \* minB and maxB; None while nothing was judged
  meas,       \* measAcked once measured, else None
  result,     \* the Result, once finalize has made it
  judged,     \* history: backlogs reported for samples taken after warmup
  warmAcks,   \* history: batches acked before the warmup was over
  lats        \* history: lats[d] cycles took d

poolVars == <<worker, acked, counts, warmAcks, lats>>
sampleVars == <<sampler, low, high, meas, result, judged>>
timeVars == <<clock, ticked>>
vars == <<settings, phase, cancelled, running, poolVars, timeVars, sampleVars>>

-----------------------------------------------------------------------------
(***************************************************************************)
(* Deliberately wrong variants of the definitions they name, to show that  *)
(* the properties below can fail.  No specification uses them.             *)
(***************************************************************************)
\* NextIdle that forgets the cap
DoublesOnly(d) == IF d <= 0 THEN settings.pollMin ELSE 2 * d

\* Bucket with the comparison the wrong way round at a bound
BucketAtBound(d) ==
  LET above == {i \in DOMAIN HistBounds : d < HistBounds[i]}
  IN  IF above = {} THEN Len(HistBounds) + 1 ELSE CHOOSE i \in above : \A j \in above : i <= j

\* Warm from the first sample on
AlwaysWarm(elapsed) == TRUE

\* Awaited without the WaitGroup
NotWaiting(cmd) == {}

\* Finalize that leaves the context to the deferred cancel, after the wait
FinalizeOnly ==
  /\ sampler' = [pc |-> "done", elapsed |-> 0, acked |-> 0]
  /\ result' = [acked |-> acked, window |-> None, min |-> -1, max |-> -1, saturated |-> FALSE]
  /\ UNCHANGED cancelled

-----------------------------------------------------------------------------
(* config.Load *)

\* env, atoi, dur and the like: the default stands in for nothing and for nonsense.
Setting(raw, default) == IF raw \in {Unset, Malformed} THEN default ELSE raw

\* Load, and of it what the command reads: 0 stands for a setting that it does not.
Load(cmd, d, u, lo, hi) ==
  [command  |-> cmd,
   duration |-> IF cmd = "loadrun" THEN Setting(d, Default.duration) ELSE 0,
   warmup   |-> IF cmd = "loadrun" THEN Setting(u, Default.warmup) ELSE 0,
   pollMin  |-> CASE cmd = "loadrun" -> HarnessPoll.min
                  [] cmd = "worker" -> Setting(lo, Default.pollMin) [] OTHER -> 0,
   pollMax  |-> CASE cmd = "loadrun" -> HarnessPoll.max
                  [] cmd = "worker" -> Setting(hi, Default.pollMax) [] OTHER -> 0]

(* The goroutines of a command, and the ones it waits for before it returns. *)

Started(cmd) == CASE cmd = "worker"  -> {"pool", "reaper", "logger"}
                  [] cmd = "loadgen" -> {"producers", "logger"}
                  [] cmd = "loadrun" -> {"producers", "pool", "reaper"}
                  [] cmd = "reap"    -> {"reaper"}
                  [] cmd = "reset"   -> {}

Awaited(cmd) == CASE cmd = "worker"  -> {"pool"}
                  [] cmd = "loadgen" -> {"producers"}
                  [] cmd = "loadrun" -> {"producers", "pool", "reaper"}
                  [] cmd = "reap"    -> {"reaper"}
                  [] cmd = "reset"   -> {}

(* The latency histogram *)

Buckets == 1 .. (Len(HistBounds) + 1)

\* hist.add: the first bucket whose bound d does not exceed, else the last one.
Bucket(d) == LET above == {i \in DOMAIN HistBounds : d <= HistBounds[i]}
             IN  IF above = {} THEN Len(HistBounds) + 1
                 ELSE CHOOSE i \in above : \A j \in above : i <= j

Samples == FoldFunctionOnSet(LAMBDA a, b : a + b, 0, counts, Buckets)
Cumulative(i) == FoldFunctionOnSet(LAMBDA a, b : a + b, 0, counts, 1 .. i)

\* int64(q * float64(n))
Target(n) == (QNum * n) \div QDen

\* hist.quantile: the bucket whose bound is reported, 0 for an empty histogram.
Quantile == IF Samples = 0 THEN 0
            ELSE CHOOSE i \in Buckets : /\ Cumulative(i) >= Target(Samples)
                                        /\ \A j \in 1 .. (i - 1) : Cumulative(j) < Target(Samples)

-----------------------------------------------------------------------------
(* Starting and stopping the process *)

\* The sampler holds no sample.
Idle(pc) == [pc |-> pc, elapsed |-> 0, acked |-> 0]

Init ==
  /\ \E cmd \in Commands, d \in RawDurations, u \in RawWarmups, lo \in RawPollMins, hi \in RawPollMaxs :
       settings = Load(cmd, d, u, lo, hi)
  /\ phase = "start" /\ cancelled = FALSE /\ running = {}
  /\ worker = [w \in Workers |-> [pc |-> "gone", idle |-> 0]]
  /\ acked = 0 /\ counts = [i \in Buckets |-> 0]
  /\ clock = 0 /\ ticked = FALSE
  /\ sampler = Idle("done")
  /\ low = None /\ high = None /\ meas = None /\ result = None
  /\ judged = {} /\ warmAcks = 0 /\ lats = [d \in Latencies |-> 0]

\* main once the driver is open, and the head of the command: goroutines start.
Start ==
  /\ phase = "start"
  /\ phase' = "up"
  /\ running' = Started(settings.command)
  /\ worker' = [w \in Workers |->
                  [pc |-> IF "pool" \in running' THEN "top" ELSE "gone", idle |-> 0]]
  /\ sampler' = Idle(IF settings.command = "loadrun" THEN "wait" ELSE "done")
  /\ UNCHANGED <<settings, cancelled, acked, counts, warmAcks, lats, timeVars,
                 low, high, meas, result, judged>>

\* Reset, or opening a results file, fails: log.Fatalf, without any Close.
StartFails ==
  /\ phase = "start" /\ settings.command \in {"loadrun", "reset"}
  /\ phase' = "fatal"
  /\ UNCHANGED <<settings, cancelled, running, poolVars, timeVars, sampleVars>>

\* SIGINT or SIGTERM
Signal ==
  /\ phase \in {"start", "up"} /\ ~cancelled
  /\ cancelled' = TRUE
  /\ UNCHANGED <<settings, phase, running, poolVars, timeVars, sampleVars>>

\* What the command waits for has returned and loadrun has its Result.
Over == /\ phase = "up"
        /\ Awaited(settings.command) \cap running = {}
        /\ settings.command = "loadrun" => result # None

\* The command returns (loadrun has appended its row), stop() and be.Close() run.
Close ==
  /\ Over
  /\ phase' = "closed" /\ cancelled' = TRUE
  /\ UNCHANGED <<settings, running, poolVars, timeVars, sampleVars>>

\* appendSweepRow cannot open sweep.csv: log.Fatalf, and the row is lost.
AppendFails ==
  /\ Over /\ settings.command = "loadrun"
  /\ phase' = "fatal"
  /\ UNCHANGED <<settings, cancelled, running, poolVars, timeVars, sampleVars>>

\* A producer, reaper or logger loop sees that the context is done.
Stops(g) ==
  /\ phase = "up" /\ cancelled /\ g \in running \cap {"producers", "reaper", "logger"}
  /\ running' = running \ {g}
  /\ UNCHANGED <<settings, phase, cancelled, poolVars, timeVars, sampleVars>>

\* Pool.Run and RunChaosWorkers return when their workers have.
PoolReturns ==
  /\ phase = "up" /\ "pool" \in running
  /\ \A w \in Workers : worker[w].pc = "gone"
  /\ running' = running \ {"pool"}
  /\ UNCHANGED <<settings, phase, cancelled, poolVars, timeVars, sampleVars>>

-----------------------------------------------------------------------------
(* Worker.Run *)

\* BackoffConfig.next
NextIdle(d) == IF d <= 0 THEN settings.pollMin
               ELSE IF settings.pollMax > 0 /\ 2 * d > settings.pollMax
                    THEN settings.pollMax ELSE 2 * d

At(w, pc) == phase = "up" /\ worker[w].pc = pc

Goes(w, pc, idle) ==
  /\ worker' = [worker EXCEPT ![w] = [pc |-> pc, idle |-> idle]]
  /\ UNCHANGED <<settings, phase, cancelled, running, timeVars, sampleVars>>

\* The head of the loop: the only place but the sleep where ctx is looked at.
TopOfLoop(w) ==
  /\ At(w, "top")
  /\ Goes(w, IF cancelled THEN "gone" ELSE "claim", worker[w].idle)
  /\ UNCHANGED <<acked, counts, warmAcks, lats>>

\* Claim returns a unit.
Finds(w) ==
  /\ At(w, "claim")
  /\ Goes(w, "batch", worker[w].idle)
  /\ UNCHANGED <<acked, counts, warmAcks, lats>>

\* Claim returns nothing, or a call of the driver fails: back off.
BacksOff(w) ==
  /\ At(w, "claim") \/ At(w, "batch")
  /\ NextIdle(worker[w].idle) <= MaxIdle
  /\ Goes(w, "sleep", NextIdle(worker[w].idle))
  /\ UNCHANGED <<acked, counts, warmAcks, lats>>

\* Drain, process, Ack, Recorder.Ack.
Acks(w) ==
  /\ At(w, "batch") /\ acked < MaxAcks
  /\ acked' = acked + 1
  /\ warmAcks' = IF clock < settings.warmup THEN acked' ELSE warmAcks
  /\ Goes(w, "loop", worker[w].idle)
  /\ UNCHANGED <<counts, lats>>

\* Recorder.Loop; the unit is still held (the next batch, whatever ctx says) or not.
LoopDone(w, d) ==
  /\ At(w, "loop")
  /\ counts' = [counts EXCEPT ![Bucket(d)] = @ + 1]
  /\ lats' = [lats EXCEPT ![d] = @ + 1]
  /\ \/ Goes(w, "batch", worker[w].idle)
     \/ Goes(w, "top", 0)
  /\ UNCHANGED <<acked, warmAcks>>

\* Drain finds nothing and the unit is released.
Releases(w) ==
  /\ At(w, "batch")
  /\ Goes(w, "top", 0)
  /\ UNCHANGED <<acked, counts, warmAcks, lats>>

\* The idle time is over, or the context is done: select takes either.
Wakes(w) ==
  /\ At(w, "sleep")
  /\ \/ Goes(w, "top", worker[w].idle)
     \/ cancelled /\ Goes(w, "gone", worker[w].idle)
  /\ UNCHANGED <<acked, counts, warmAcks, lats>>

\* runChaosWorker: the worker's own deadline passes, the call it is in fails or its loop ends,
\* and a fresh worker takes over.
Respawns(w) ==
  /\ settings.command = "loadrun" /\ ~cancelled
  /\ \E pc \in {"top", "claim", "batch", "sleep"} : At(w, pc)
  /\ Goes(w, "top", 0)
  /\ UNCHANGED <<acked, counts, warmAcks, lats>>

WorkerStep(w) == \/ TopOfLoop(w) \/ Finds(w) \/ BacksOff(w) \/ Acks(w)
                 \/ Releases(w) \/ Wakes(w)
                 \/ \E d \in Latencies : LoopDone(w, d)

-----------------------------------------------------------------------------
(* sample *)

\* A second passes; the ticker drops what the sampler has not taken.
Second ==
  /\ phase = "up" /\ settings.command = "loadrun" /\ sampler.pc # "done" /\ clock < MaxClock
  /\ clock' = clock + 1 /\ ticked' = TRUE
  /\ UNCHANGED <<settings, phase, cancelled, running, poolVars, sampleVars>>

Warm(elapsed) == elapsed >= settings.warmup
Lower(a, b) == IF a = None \/ b < a THEN b ELSE a
Higher(a, b) == IF a = None \/ b > a THEN b ELSE a

\* finalize, and the cancel() after it
Finalize ==
  /\ result' = [acked     |-> acked,
                window    |-> IF meas' = None THEN None ELSE acked - meas',
                min       |-> IF low' = None THEN -1 ELSE low',
                max       |-> IF low' = None THEN -1 ELSE high',
                saturated |-> low' # None /\ low' > 0]
  /\ sampler' = Idle("done")
  /\ cancelled' = TRUE

\* The tick is taken: elapsed and Acked are read before Stats is called.
TakesTick ==
  /\ phase = "up" /\ sampler.pc = "wait" /\ ticked
  /\ ticked' = FALSE
  /\ sampler' = [pc |-> "stats", elapsed |-> clock, acked |-> acked]
  /\ UNCHANGED <<settings, phase, cancelled, running, poolVars, clock, low, high, meas, result, judged>>

\* Stats answers, fails, or is not there; then the window opens and the run may end.
TakesSample ==
  /\ phase = "up" /\ sampler.pc = "stats"
  /\ \/ \E b \in Backlogs :
          /\ HasStater
          /\ low' = IF Warm(sampler.elapsed) THEN Lower(low, b) ELSE low
          /\ high' = IF Warm(sampler.elapsed) THEN Higher(high, b) ELSE high
          /\ judged' = IF sampler.elapsed >= settings.warmup THEN judged \cup {b} ELSE judged
     \/ UNCHANGED <<low, high, judged>>
  /\ meas' = IF meas = None /\ Warm(sampler.elapsed) THEN sampler.acked ELSE meas
  /\ IF sampler.elapsed >= settings.duration
     THEN Finalize
     ELSE sampler' = Idle("wait") /\ UNCHANGED <<result, cancelled>>
  /\ UNCHANGED <<settings, phase, running, poolVars, timeVars>>

\* select sees the context done, though a tick may be waiting too.
Interrupted ==
  /\ phase = "up" /\ sampler.pc = "wait" /\ cancelled
  /\ UNCHANGED <<low, high, meas, judged>>
  /\ Finalize
  /\ UNCHANGED <<settings, phase, running, poolVars, timeVars>>

SamplerStep == TakesTick \/ TakesSample \/ Interrupted

-----------------------------------------------------------------------------

Next == \/ Start \/ StartFails \/ Signal \/ Close \/ AppendFails
        \/ PoolReturns
        \/ \E g \in {"producers", "reaper", "logger"} : Stops(g)
        \/ \E w \in Workers : WorkerStep(w) \/ Respawns(w)
        \/ Second \/ SamplerStep

(***************************************************************************)
(* Time passes, every goroutine is scheduled, and the driver's calls       *)
(* return.  Signals, failures and kills are never promised.                *)
(***************************************************************************)
Fairness == /\ WF_vars(Start) /\ WF_vars(Close) /\ WF_vars(PoolReturns)
            /\ \A g \in {"producers", "reaper", "logger"} : WF_vars(Stops(g))
            /\ \A w \in Workers : WF_vars(WorkerStep(w))
            /\ WF_vars(Second) /\ WF_vars(SamplerStep)

Spec == Init /\ [][Next]_vars /\ Fairness

-----------------------------------------------------------------------------
(* Every variable stays in its type: in particular the smallest backlog seen is one that     *)
(* Stats reported, and the loop histogram has a sample for each batch acked except those     *)
(* whose worker is between Recorder.Ack and Recorder.Loop.                                   *)
TypeOK ==
  /\ phase \in {"start", "up", "closed", "fatal"} /\ cancelled \in BOOLEAN
  /\ running \subseteq Started(settings.command)
  /\ \A w \in Workers : worker[w].pc \in {"top", "claim", "batch", "loop", "sleep", "gone"}
  /\ acked \in 0 .. MaxAcks /\ warmAcks \in 0 .. acked /\ clock \in 0 .. MaxClock
  /\ sampler.pc \in {"wait", "stats", "done"} /\ ticked \in BOOLEAN
  /\ low \in Backlogs \cup {None} /\ high \in Backlogs \cup {None}
  /\ Samples + Cardinality({w \in Workers : worker[w].pc = "loop"}) = acked

(* The Result is about the time after the warmup and nothing else, however late a tick was   *)
(* taken, however long Stats took or failed, and whichever of the duration and a signal ended*)
(* the run.  It says saturated exactly when Stats answered for some sample taken after the   *)
(* warmup and never reported an empty backlog for one; its minimum and maximum are those of  *)
(* these samples; the throughput's numerator holds no batch acked during the warmup, and a   *)
(* run that ended before its warmup reports none (sample and finalize of harness.go).        *)
ReportHonest ==
  result # None =>
    /\ result.saturated <=> judged # {} /\ 0 \notin judged
    /\ judged = {} => result.min = -1 /\ result.max = -1
    /\ judged # {} => /\ result.min \in judged /\ result.max \in judged
                      /\ \A b \in judged : result.min <= b /\ b <= result.max
    /\ result.window # None => /\ result.window <= result.acked - warmAcks
                               /\ clock >= settings.warmup

(* The cycle times as they were, for comparison with the histogram: how many were within a   *)
(* bound, and the bucket of the 99th percentile, which is the shortest time that at least    *)
(* 99% of the cycles did not exceed.                                                         *)
Cycles(D) == FoldFunctionOnSet(LAMBDA a, b : a + b, 0, lats, D)
Within(i) == Cycles({d \in Latencies : i \in DOMAIN HistBounds => d <= HistBounds[i]})
TrueBucket == CHOOSE i \in Buckets :
                /\ QDen * Within(i) >= QNum * Cycles(Latencies)
                /\ \A j \in 1 .. (i - 1) : QDen * Within(j) < QNum * Cycles(Latencies)

(* The p99 that a log line or the Result reports never overstates: its bucket is not above    *)
(* that of the 99th percentile, a time that equals a bound counting as within it.  And it     *)
(* understates by one cycle at most: fewer than 1% of the cycles plus one took longer than    *)
(* the bound reported (hist.add, hist.quantile).  All along the state keeps its types and the *)
(* histogram misses no finished cycle.                                                        *)
QuantileShortByOne ==
  TypeOK /\ (Samples > 0 =>
    /\ Quantile <= TrueBucket
    /\ QDen * (Samples - Within(Quantile)) < (QDen - QNum) * Samples + QDen)

(* "p99 lands to within a bucket" (the comment on hist): the bucket reported is that of the   *)
(* 99th percentile, or a neighbour of it.  The code does not keep this promise: its target is *)
(* rounded down, to 0 for a single cycle.                                                     *)
QuantileClose == Samples > 0 => TrueBucket - Quantile \in {-1, 0, 1}

(* With a positive minimum a worker that found nothing, or whose driver failed, really sleeps *)
(* (a driver that fails every call does not make it spin), and never longer than the limits   *)
(* allow once there is a maximum (BackoffConfig.next).                                        *)
BackoffSane ==
  \A w \in Workers : worker[w].pc = "sleep" /\ settings.pollMin > 0 =>
    /\ worker[w].idle > 0
    /\ settings.pollMax > 0 => worker[w].idle <= settings.pollMin \/ worker[w].idle <= settings.pollMax

(* When main closes the driver no worker is inside a batch or a claim and no producer is      *)
(* running, whatever the command and however it ended.                                        *)
ClosedQuiet ==
  phase = "closed" => /\ "producers" \notin running /\ "pool" \notin running
                      /\ \A w \in Workers : worker[w].pc = "gone"

(* A load run ends by itself once its duration is over and any command ends once it is told   *)
(* to: nobody waits for a goroutine that waits for the context.                               *)
Ends == settings.command \in {"loadrun", "reset"} \/ cancelled ~> phase \in {"closed", "fatal"}
=============================================================================
