--------------------------- MODULE LoadRunProofs ---------------------------
(***************************************************************************)
(* Proofs about one run of the binary.  The inductive invariant has a part *)
(* for the goroutines (Goroutines), one for the workers' idle times        *)
(* (Idling), and three for the sampler: what it has read so far (Reading), *)
(* what it has judged (Judging), and what it reported (Reported).          *)
(***************************************************************************)
EXTENDS LoadRun, TLAPS

Config ==
  /\ settings.command \in {"worker", "loadgen", "loadrun", "reap", "reset"}
  /\ settings.duration \in Int /\ settings.warmup \in Int
  /\ settings.pollMin \in Int /\ settings.pollMax \in Int

\* Without a pool there is no worker, and main closes the driver after what it waits for.
Goroutines ==
  /\ running \subseteq Started(settings.command)
  /\ "pool" \notin running => \A w \in Workers : worker[w].pc = "gone"
  /\ phase = "closed" => Awaited(settings.command) \cap running = {}

\* An idle time is a number, and one worth sleeping for in a worker that sleeps.
IdlingOf(w) ==
  /\ worker[w].idle \in Int
  /\ worker[w].pc = "sleep" /\ settings.pollMin > 0 =>
       /\ worker[w].idle > 0
       /\ settings.pollMax > 0 =>
            worker[w].idle <= settings.pollMin \/ worker[w].idle <= settings.pollMax

Idling == DOMAIN worker = Workers /\ \A w \in Workers : IdlingOf(w)

(***************************************************************************)
(* What the sampler holds is not from the future, and what it reads after  *)
(* the warmup counts every batch acked during it.                          *)
(***************************************************************************)
Reading ==
  /\ clock \in Nat /\ acked \in Nat /\ warmAcks \in Nat /\ warmAcks <= acked
  /\ sampler.pc = "stats" =>
       /\ sampler.elapsed \in Nat /\ sampler.elapsed <= clock
       /\ sampler.acked \in Nat
       /\ sampler.elapsed >= settings.warmup => sampler.acked >= warmAcks
  /\ meas # None => meas \in Nat /\ meas >= warmAcks /\ clock >= settings.warmup

Judging ==
  /\ judged \subseteq Backlogs
  /\ judged = {} => low = None /\ high = None
  /\ judged # {} =>
       /\ low \in judged /\ high \in judged
       /\ \A b \in judged : low <= b /\ b <= high

\* The Result is made once, from what the sampler had judged, and nothing is judged after it.
Reported ==
  /\ phase = "start" => result = None
  /\ result # None =>
       /\ sampler.pc = "done"
       /\ result.acked \in Nat
       /\ result.min = IF low = None THEN -1 ELSE low
       /\ result.max = IF low = None THEN -1 ELSE high
       /\ (result.saturated <=> (low # None /\ low > 0))
       /\ result.window # None =>
            /\ result.window \in Int /\ result.window <= result.acked - warmAcks
            /\ clock >= settings.warmup

RunInv == Config /\ Goroutines /\ Idling /\ Reading /\ Judging /\ Reported

-----------------------------------------------------------------------------
USE DefaultsAssumption, StatsAssumption

\* A process that has not started anything satisfies the invariant.
LEMMA InitRunInv ==
  ASSUME Init
  PROVE  RunInv
<1>1. Config
  <2>1. PICK cmd \in Commands, d \in RawDurations, u \in RawWarmups, lo \in RawPollMins, hi \in RawPollMaxs :
          settings = Load(cmd, d, u, lo, hi)
    BY DEF Init
  <2>2. cmd \in {"worker", "loadgen", "loadrun", "reap", "reset"}
    BY SettingsAssumption
  <2>3. \A raw \in {d, u, lo, hi} : raw \in Int \cup {Unset, Malformed}
    BY SettingsAssumption
  <2>4. \A raw \in {d, u, lo, hi}, n \in Int : Setting(raw, n) \in Int
    BY <2>3 DEF Setting
  <2>5. /\ Setting(d, Default.duration) \in Int /\ Setting(u, Default.warmup) \in Int
        /\ Setting(lo, Default.pollMin) \in Int /\ Setting(hi, Default.pollMax) \in Int
    BY <2>4
  <2> QED
    BY <2>1, <2>2, <2>5 DEF Config, Load
<1>2. Goroutines
  BY DEF Init, Goroutines
<1>3. Idling
  BY DEF Init, Idling, IdlingOf
<1>4. Reading
  BY DEF Init, Reading, Idle
<1>5. Judging /\ Reported
  BY DEF Init, Judging, Reported
<1> QED
  BY <1>1, <1>2, <1>3, <1>4, <1>5 DEF RunInv

\* The settings are read once.
LEMMA ConfigStep ==
  ASSUME Config, [Next]_vars
  PROVE  Config' /\ settings' = settings
<1>1. settings' = settings
  BY DEF Next, vars, Start, StartFails, Signal, Close, AppendFails, PoolReturns, Stops, WorkerStep,
         TopOfLoop, Finds, BacksOff, Acks, Releases, Wakes, LoopDone, Respawns, Goes, Second,
         SamplerStep, TakesTick, TakesSample, Interrupted
<1> QED
  BY <1>1 DEF Config

-----------------------------------------------------------------------------
(* Goroutines *)

\* A step of a worker: it moves that worker only, and a worker that is gone stays gone.
LEMMA WorkerMoves ==
  ASSUME Idling, NEW w \in Workers, WorkerStep(w) \/ Respawns(w)
  PROVE  /\ phase = "up" /\ phase' = phase /\ cancelled' = cancelled
         /\ running' = running /\ clock' = clock
         /\ UNCHANGED <<sampler, low, high, meas, result, judged>>
         /\ worker[w].pc # "gone"
         /\ DOMAIN worker' = Workers /\ \A v \in Workers \ {w} : worker'[v] = worker[v]
<1>1. \E pc, idle : Goes(w, pc, idle) /\ phase = "up" /\ worker[w].pc # "gone"
  BY DEF WorkerStep, Respawns, TopOfLoop, Finds, BacksOff, Acks, Releases, Wakes, LoopDone, At
<1>2. PICK pc, idle : Goes(w, pc, idle) /\ phase = "up" /\ worker[w].pc # "gone"
  BY <1>1
<1>3. /\ worker' = [worker EXCEPT ![w] = [pc |-> pc, idle |-> idle]]
      /\ UNCHANGED <<phase, cancelled, running, clock, sampler, low, high, meas, result, judged>>
  BY <1>2 DEF Goes, timeVars, sampleVars
<1> QED
  BY <1>2, <1>3 DEF Idling

\* No step starts a goroutine its command does not have in this phase.
LEMMA GoroutinesStep ==
  ASSUME Config, Goroutines, Idling, [Next]_vars
  PROVE  Goroutines'
<1>0. settings' = settings
  BY ConfigStep
<1>1. ASSUME UNCHANGED <<phase, running, worker>> PROVE Goroutines'
  BY <1>0, <1>1 DEF Goroutines
<1>2. CASE Start
  <2>1. /\ running' = Started(settings.command) /\ phase' = "up"
        /\ worker' = [w \in Workers |->
                        [pc |-> IF "pool" \in running' THEN "top" ELSE "gone", idle |-> 0]]
    BY <1>2 DEF Start
  <2> QED
    BY <1>0, <2>1 DEF Goroutines
<1>3. CASE StartFails \/ AppendFails
  <2>1. UNCHANGED <<running, worker>> /\ phase' = "fatal"
    BY <1>3 DEF StartFails, AppendFails, poolVars
  <2> QED
    BY <1>0, <2>1 DEF Goroutines
<1>4. CASE Close
  <2>1. UNCHANGED <<running, worker>> /\ Awaited(settings.command) \cap running = {}
    BY <1>4 DEF Close, Over, poolVars
  <2> QED
    BY <1>0, <2>1 DEF Goroutines
<1>5. CASE PoolReturns
  <2>1. /\ running' = running \ {"pool"} /\ worker' = worker /\ phase' = phase
        /\ \A w \in Workers : worker[w].pc = "gone"
    BY <1>5 DEF PoolReturns, poolVars
  <2> QED
    BY <1>0, <2>1 DEF Goroutines
<1>6. ASSUME NEW g \in {"producers", "reaper", "logger"}, Stops(g) PROVE Goroutines'
  <2>1. running' = running \ {g} /\ worker' = worker /\ phase' = phase /\ g # "pool"
    BY <1>6 DEF Stops, poolVars
  <2> QED
    BY <1>0, <2>1 DEF Goroutines
<1>7. ASSUME NEW w \in Workers, WorkerStep(w) \/ Respawns(w) PROVE Goroutines'
  <2>1. running' = running /\ phase' = "up" /\ worker[w].pc # "gone"
    BY <1>7, WorkerMoves
  <2>2. "pool" \in running
    BY <2>1 DEF Goroutines
  <2> QED
    BY <1>0, <2>1, <2>2 DEF Goroutines
<1>8. CASE Signal \/ Second \/ SamplerStep \/ UNCHANGED vars
  <2>1. UNCHANGED <<phase, running, worker>>
    BY <1>8 DEF Signal, Second, SamplerStep, TakesTick, TakesSample, Interrupted, vars, poolVars
  <2> QED
    BY <1>1, <2>1
<1> QED
  BY <1>2, <1>3, <1>4, <1>5, <1>6, <1>7, <1>8 DEF Next

-----------------------------------------------------------------------------
(* Idle times *)

\* BackoffConfig.next of a number is a number, and a wait if there is a minimum.
LEMMA NextIdleWaits ==
  ASSUME Config, NEW d \in Int
  PROVE  /\ NextIdle(d) \in Int
         /\ settings.pollMin > 0 =>
              /\ NextIdle(d) > 0
              /\ settings.pollMax > 0 =>
                   NextIdle(d) <= settings.pollMin \/ NextIdle(d) <= settings.pollMax
  BY DEF NextIdle, Config

\* Every step keeps the backoff within what the settings allow.
LEMMA IdlingStep ==
  ASSUME Config, Idling, [Next]_vars
  PROVE  Idling'
<1>0. settings' = settings
  BY ConfigStep
<1>1. CASE worker' = worker
  BY <1>0, <1>1 DEF Idling, IdlingOf
<1>2. CASE Start
  <2>1. \E pc \in {"top", "gone"} : worker' = [w \in Workers |-> [pc |-> pc, idle |-> 0]]
    BY <1>2 DEF Start
  <2> QED
    BY <2>1 DEF Idling, IdlingOf
<1>3. ASSUME NEW w \in Workers, NEW pc, NEW d \in Int, Goes(w, pc, d),
             pc # "sleep" \/ d = NextIdle(worker[w].idle)
      PROVE  Idling'
  <2>1. worker' = [worker EXCEPT ![w] = [pc |-> pc, idle |-> d]] /\ worker[w].idle \in Int
    BY <1>3 DEF Goes, Idling, IdlingOf
  <2>2. worker'[w].pc = pc /\ worker'[w].idle = d /\ DOMAIN worker' = Workers
    BY <2>1 DEF Idling
  <2>3. IdlingOf(w)'
    BY <1>0, <1>3, <2>1, <2>2, NextIdleWaits DEF IdlingOf
  <2>4. ASSUME NEW v \in Workers \ {w} PROVE IdlingOf(v)'
    BY <1>0, <2>1 DEF Idling, IdlingOf
  <2> QED
    BY <2>2, <2>3, <2>4 DEF Idling
<1>4. ASSUME NEW w \in Workers, WorkerStep(w) \/ Respawns(w) PROVE Idling'
  <2>1. worker[w].idle \in Int /\ NextIdle(worker[w].idle) \in Int
    <3>1. worker[w].idle \in Int
      BY DEF Idling, IdlingOf
    <3> QED
      BY <3>1, NextIdleWaits
  <2>2. CASE BacksOff(w)
    BY <1>3, <2>1, <2>2 DEF BacksOff
  <2>3. CASE TopOfLoop(w)
    <3>1. \E pc \in {"gone", "claim"} : Goes(w, pc, worker[w].idle)
      BY <2>3 DEF TopOfLoop
    <3> QED
      BY <1>3, <2>1, <3>1
  <2>4. CASE Finds(w) \/ Acks(w) \/ Releases(w) \/ Wakes(w) \/ Respawns(w)
    <3>1. \E pc \in {"batch", "loop", "top", "gone"}, d \in {0, worker[w].idle} : Goes(w, pc, d)
      BY <2>4 DEF Finds, Acks, Releases, Wakes, Respawns
    <3> QED
      BY <1>3, <2>1, <3>1
  <2>5. ASSUME NEW d \in Latencies, LoopDone(w, d) PROVE Idling'
    <3>1. \E pc \in {"batch", "top"}, n \in {0, worker[w].idle} : Goes(w, pc, n)
      BY <2>5 DEF LoopDone
    <3> QED
      BY <1>3, <2>1, <3>1
  <2> QED
    BY <1>4, <2>2, <2>3, <2>4, <2>5 DEF WorkerStep
<1> QED
  BY <1>1, <1>2, <1>4 DEF Next, StartFails, Signal, Close, AppendFails, PoolReturns, Stops, Second,
     SamplerStep, TakesTick, TakesSample, Interrupted, vars, poolVars

-----------------------------------------------------------------------------
(* The sampler *)

\* What a step that is not the sampler's does to the clock and the batches acked.
Elsewhere ==
  /\ UNCHANGED <<low, high, meas, result, judged>>
  /\ sampler' = sampler \/ (phase = "start" /\ sampler'.pc # "stats")
  /\ phase = "start" \/ phase' # "start"
  /\ \/ UNCHANGED <<clock, acked, warmAcks>>
     \/ clock' = clock + 1 /\ UNCHANGED <<acked, warmAcks>>
     \/ /\ acked' = acked + 1 /\ clock' = clock
        /\ warmAcks' = IF clock < settings.warmup THEN acked + 1 ELSE warmAcks

\* A step is the sampler's, or leaves what the sampler keeps alone.
LEMMA StepElsewhere ==
  ASSUME Idling, [Next]_vars
  PROVE  SamplerStep \/ Elsewhere
<1>1. CASE Start
  <2>1. phase = "start" /\ \E pc \in {"wait", "done"} : sampler' = Idle(pc)
    BY <1>1 DEF Start
  <2>2. UNCHANGED <<clock, acked, warmAcks, low, high, meas, result, judged>>
    BY <1>1 DEF Start, timeVars
  <2> QED
    BY <2>1, <2>2 DEF Elsewhere, Idle
<1>2. ASSUME NEW w \in Workers, WorkerStep(w) \/ Respawns(w) PROVE Elsewhere
  <2>1. /\ phase = "up" /\ phase' = phase /\ clock' = clock
        /\ UNCHANGED <<sampler, low, high, meas, result, judged>>
    BY <1>2, WorkerMoves
  <2>2. \/ UNCHANGED <<acked, warmAcks>>
        \/ /\ acked' = acked + 1
           /\ warmAcks' = IF clock < settings.warmup THEN acked + 1 ELSE warmAcks
    BY <1>2 DEF WorkerStep, Respawns, TopOfLoop, Finds, BacksOff, Acks, Releases, Wakes, LoopDone
  <2> QED
    BY <2>1, <2>2 DEF Elsewhere
<1>3. CASE Second
  <2>1. /\ phase = "up" /\ phase' = phase /\ clock' = clock + 1
        /\ UNCHANGED <<acked, warmAcks, sampler, low, high, meas, result, judged>>
    BY <1>3 DEF Second, poolVars, sampleVars
  <2> QED
    BY <2>1 DEF Elsewhere
<1>4. CASE \/ StartFails \/ Signal \/ Close \/ AppendFails \/ PoolReturns
           \/ \E g \in {"producers", "reaper", "logger"} : Stops(g)
  <2>1. UNCHANGED <<clock, acked, warmAcks, sampler, low, high, meas, result, judged>>
    BY <1>4 DEF StartFails, Signal, Close, AppendFails, PoolReturns, Stops, poolVars, timeVars,
                sampleVars
  <2>2. phase = "start" \/ phase' # "start"
    BY <1>4 DEF StartFails, Signal, Close, AppendFails, PoolReturns, Stops
  <2> QED
    BY <2>1, <2>2 DEF Elsewhere
<1>5. CASE UNCHANGED vars
  BY <1>5 DEF Elsewhere, vars, poolVars, timeVars, sampleVars
<1> QED
  BY <1>1, <1>2, <1>3, <1>4, <1>5 DEF Next

\* What a step of the sampler does: it is up, and the rest of the process waits for it.
LEMMA SamplerMoves ==
  ASSUME SamplerStep
  PROVE  /\ phase = "up" /\ phase' = phase /\ sampler.pc \in {"wait", "stats"}
         /\ UNCHANGED <<clock, acked, warmAcks>>
  BY DEF SamplerStep, TakesTick, TakesSample, Interrupted, poolVars, timeVars

\* Every step keeps what the sampler holds between its two reads.
LEMMA ReadingStep ==
  ASSUME Config, Idling, Reading, [Next]_vars
  PROVE  Reading'
<1>0. settings' = settings /\ settings.warmup \in Int
  BY ConfigStep DEF Config
<1>1. CASE Elsewhere
  <2>1. /\ clock' \in Nat /\ acked' \in Nat /\ warmAcks' \in Nat /\ warmAcks' <= acked'
        /\ clock <= clock' /\ (clock >= settings.warmup => warmAcks' = warmAcks)
    BY <1>0, <1>1 DEF Elsewhere, Reading
  <2>2. ASSUME sampler'.pc = "stats"
        PROVE  /\ sampler'.elapsed \in Nat /\ sampler'.elapsed <= clock' /\ sampler'.acked \in Nat
               /\ sampler'.elapsed >= settings'.warmup => sampler'.acked >= warmAcks'
    <3>1. sampler' = sampler
      BY <1>1, <2>2 DEF Elsewhere
    <3>2. /\ sampler.elapsed \in Nat /\ sampler.elapsed <= clock /\ sampler.acked \in Nat
          /\ sampler.elapsed >= settings.warmup => sampler.acked >= warmAcks
          /\ clock \in Nat
      BY <2>2, <3>1 DEF Reading
    <3> QED
      BY <1>0, <2>1, <3>1, <3>2
  <2>3. ASSUME meas' # None
        PROVE  meas' \in Nat /\ meas' >= warmAcks' /\ clock' >= settings'.warmup
    <3>1. meas' = meas
      BY <1>1 DEF Elsewhere
    <3>2. meas \in Nat /\ meas >= warmAcks /\ clock >= settings.warmup /\ clock \in Nat
      BY <2>3, <3>1 DEF Reading
    <3> QED
      BY <1>0, <2>1, <3>1, <3>2
  <2> QED
    BY <2>1, <2>2, <2>3 DEF Reading
<1>2. CASE TakesTick
  <2>1. /\ sampler' = [pc |-> "stats", elapsed |-> clock, acked |-> acked]
        /\ UNCHANGED <<clock, acked, warmAcks, meas>>
    BY <1>2 DEF TakesTick, poolVars
  <2>2. sampler'.elapsed = clock /\ sampler'.acked = acked
    BY <2>1
  <2> QED
    BY <1>0, <2>1, <2>2 DEF Reading
<1>3. CASE TakesSample \/ Interrupted
  <2>1. UNCHANGED <<clock, acked, warmAcks>> /\ sampler'.pc # "stats"
    BY <1>3 DEF TakesSample, Interrupted, Finalize, Idle, poolVars, timeVars
  <2>2. \/ meas' = meas
        \/ /\ meas' = sampler.acked /\ sampler.pc = "stats"
           /\ sampler.elapsed >= settings.warmup
    BY <1>3 DEF TakesSample, Interrupted, Warm
  <2> QED
    BY <1>0, <2>1, <2>2 DEF Reading
<1> QED
  BY <1>1, <1>2, <1>3, StepElsewhere DEF SamplerStep

\* Every step keeps the running minimum and maximum.
LEMMA JudgingStep ==
  ASSUME Idling, Judging, [Next]_vars
  PROVE  Judging'
<1>1. CASE UNCHANGED <<low, high, judged>>
  BY <1>1 DEF Judging
<1>2. ASSUME NEW b \in Backlogs, low' = Lower(low, b), high' = Higher(high, b),
             judged' = judged \cup {b}
      PROVE  Judging'
  <2>1. b \in Nat /\ judged \subseteq Nat
    BY DEF Judging
  <2>2. CASE judged = {}
    <3>1. low' = b /\ high' = b
      BY <1>2, <2>2 DEF Judging, Lower, Higher
    <3> QED
      BY <1>2, <2>1, <2>2, <3>1 DEF Judging
  <2>3. CASE judged # {}
    <3>1. low \in judged /\ high \in judged /\ \A x \in judged : low <= x /\ x <= high
      BY <2>3 DEF Judging
    <3>2. low \in Nat /\ high \in Nat /\ low # None /\ high # None
      BY <2>1, <3>1
    <3>3. /\ low' \in judged \cup {b} /\ low' <= low /\ low' <= b
          /\ high' \in judged \cup {b} /\ high' >= high /\ high' >= b
      BY <1>2, <2>1, <3>1, <3>2 DEF Lower, Higher
    <3>4. low' \in Nat /\ high' \in Nat
      BY <2>1, <3>3
    <3>5. ASSUME NEW x \in judged' PROVE low' <= x /\ x <= high'
      BY <1>2, <2>1, <3>1, <3>2, <3>3, <3>4, <3>5
    <3> QED
      BY <1>2, <3>3, <3>5 DEF Judging
  <2> QED
    BY <2>2, <2>3
<1>3. CASE TakesSample
  <2>1. \/ UNCHANGED <<low, high, judged>>
        \/ \E b \in Backlogs : /\ low' = Lower(low, b) /\ high' = Higher(high, b)
                               /\ judged' = judged \cup {b}
    BY <1>3 DEF TakesSample, Warm
  <2> QED
    BY <1>1, <1>2, <2>1
<1>4. CASE TakesTick \/ Interrupted \/ Elsewhere
  BY <1>1, <1>4 DEF TakesTick, Interrupted, Elsewhere
<1> QED
  BY <1>3, <1>4, StepElsewhere DEF SamplerStep

\* Every step keeps the report that of its window.
LEMMA ReportedStep ==
  ASSUME Config, Idling, Reading, Judging, Reported, [Next]_vars
  PROVE  Reported'
<1>0. settings' = settings /\ settings.warmup \in Int
  BY ConfigStep DEF Config
<1>1. Reading'
  BY ReadingStep
<1>2. CASE Elsewhere
  <2>1. UNCHANGED <<low, high, result>>
    BY <1>2 DEF Elsewhere
  <2>2. phase' = "start" => result' = None
    BY <1>2, <2>1 DEF Elsewhere, Reported
  <2>3. ASSUME result' # None
        PROVE  /\ sampler'.pc = "done" /\ result'.acked \in Nat
               /\ result'.window # None =>
                    /\ result'.window \in Int /\ result'.window <= result'.acked - warmAcks'
                    /\ clock' >= settings'.warmup
    <3>1. /\ sampler.pc = "done" /\ result.acked \in Nat /\ phase # "start"
          /\ result.window # None =>
               /\ result.window \in Int /\ result.window <= result.acked - warmAcks
               /\ clock >= settings.warmup
      BY <2>1, <2>3 DEF Reported
    <3>2. sampler' = sampler
      BY <1>2, <3>1 DEF Elsewhere
    <3>3. clock <= clock' /\ clock \in Nat /\ clock' \in Nat /\ (clock >= settings.warmup => warmAcks' = warmAcks)
      BY <1>0, <1>2 DEF Elsewhere, Reading
    <3> QED
      BY <1>0, <2>1, <3>1, <3>2, <3>3
  <2> QED
    BY <2>1, <2>2, <2>3 DEF Reported
<1>3. CASE SamplerStep
  <2>1. /\ phase' = "up" /\ sampler.pc # "done" /\ UNCHANGED <<clock, acked, warmAcks>>
    BY <1>3, SamplerMoves
  <2>2. result = None
    BY <2>1 DEF Reported
  <2>3. CASE result' = result
    BY <2>1, <2>2, <2>3 DEF Reported
  <2>4. CASE Finalize
    <3>1. sampler'.pc = "done"
      BY <2>4 DEF Finalize, Idle
    <3>2. /\ result'.acked = acked
          /\ result'.min = IF low' = None THEN -1 ELSE low'
          /\ result'.max = IF low' = None THEN -1 ELSE high'
          /\ (result'.saturated <=> (low' # None /\ low' > 0))
          /\ result'.window = IF meas' = None THEN None ELSE acked - meas'
      BY <2>4 DEF Finalize
    <3>3. acked \in Nat
      BY DEF Reading
    <3>4. ASSUME result'.window # None
          PROVE  /\ result'.window \in Int /\ result'.window <= result'.acked - warmAcks'
                 /\ clock' >= settings'.warmup
      <4>1. /\ meas' \in Nat /\ meas' >= warmAcks' /\ clock' >= settings'.warmup
            /\ warmAcks' \in Nat
        BY <1>1, <3>2, <3>4 DEF Reading
      <4>2. result'.window = acked - meas'
        BY <3>2, <3>4
      <4> QED
        BY <3>2, <3>3, <4>1, <4>2
    <3> QED
      BY <2>1, <3>1, <3>2, <3>3, <3>4 DEF Reported
  <2>5. result' = result \/ Finalize
    BY <1>3 DEF SamplerStep, TakesTick, TakesSample, Interrupted
  <2> QED
    BY <2>3, <2>4, <2>5
<1> QED
  BY <1>2, <1>3, StepElsewhere

-----------------------------------------------------------------------------
(* The invariant and what follows from it *)

(***************************************************************************)
(* For any settings, any number of workers and any way of ending the run,  *)
(* RunInv is kept.                                                         *)
(***************************************************************************)
THEOREM RunInvariant == Spec => []RunInv
<1>1. Init => RunInv
  BY InitRunInv
<1>2. RunInv /\ [Next]_vars => RunInv'
  BY ConfigStep, GoroutinesStep, IdlingStep, ReadingStep, JudgingStep, ReportedStep DEF RunInv
<1> QED
  BY <1>1, <1>2, PTL DEF Spec

(***************************************************************************)
(* The Result is about the time after the warmup and nothing else: what it *)
(* calls saturated, its minimum and maximum, and its throughput window,    *)
(* however late ticks and Stats came (sample and finalize of harness.go).  *)
(***************************************************************************)
THEOREM ResultIsHonest == Spec => []ReportHonest
<1>1. ASSUME RunInv PROVE ReportHonest
  <2> SUFFICES ASSUME result # None
               PROVE  /\ (result.saturated <=> (judged # {} /\ 0 \notin judged))
                      /\ judged = {} => result.min = -1 /\ result.max = -1
                      /\ judged # {} => /\ result.min \in judged /\ result.max \in judged
                                        /\ \A b \in judged : result.min <= b /\ b <= result.max
                      /\ result.window # None => /\ result.window <= result.acked - warmAcks
                                                 /\ clock >= settings.warmup
    BY DEF ReportHonest
  <2>1. /\ result.min = IF low = None THEN -1 ELSE low
        /\ result.max = IF low = None THEN -1 ELSE high
        /\ (result.saturated <=> (low # None /\ low > 0))
        /\ result.window # None => /\ result.window <= result.acked - warmAcks
                                   /\ clock >= settings.warmup
    BY <1>1 DEF RunInv, Reported
  <2>2. judged \subseteq Nat
    BY <1>1 DEF RunInv, Judging
  <2>3. CASE judged = {}
    BY <1>1, <2>1, <2>3 DEF RunInv, Judging
  <2>4. CASE judged # {}
    <3>1. low \in judged /\ high \in judged /\ \A b \in judged : low <= b /\ b <= high
      BY <1>1, <2>4 DEF RunInv, Judging
    <3>2. low \in Nat /\ low # None
      BY <2>2, <3>1
    <3>3. low > 0 <=> 0 \notin judged
      BY <2>2, <3>1, <3>2
    <3> QED
      BY <2>1, <2>4, <3>1, <3>2, <3>3
  <2> QED
    BY <2>3, <2>4
<1> QED
  BY <1>1, RunInvariant, PTL

(***************************************************************************)
(* A worker that found nothing or whose driver fails really sleeps, within *)
(* its limits, for any settings with a positive minimum                    *)
(* (BackoffConfig.next).                                                   *)
(***************************************************************************)
THEOREM WorkersBackOff == Spec => []BackoffSane
<1>1. RunInv => BackoffSane
  BY DEF RunInv, Idling, IdlingOf, BackoffSane
<1> QED
  BY <1>1, RunInvariant, PTL

(***************************************************************************)
(* When main closes the driver no worker and no producer is running,       *)
(* whichever command it was and however it ended (main, Pool.Run, Run).    *)
(***************************************************************************)
THEOREM ClosedWhenQuiet == Spec => []ClosedQuiet
<1>1. ASSUME RunInv, phase = "closed"
      PROVE  /\ "producers" \notin running /\ "pool" \notin running
             /\ \A w \in Workers : worker[w].pc = "gone"
  <2>1. /\ running \subseteq Started(settings.command)
        /\ Awaited(settings.command) \cap running = {}
        /\ settings.command \in {"worker", "loadgen", "loadrun", "reap", "reset"}
    BY <1>1 DEF RunInv, Goroutines, Config
  <2>2. \A g \in {"producers", "pool"} :
          g \in Started(settings.command) => g \in Awaited(settings.command)
    BY <2>1 DEF Started, Awaited
  <2>3. "producers" \notin running /\ "pool" \notin running
    BY <2>1, <2>2
  <2> QED
    BY <1>1, <2>3 DEF RunInv, Goroutines
<1>2. RunInv => ClosedQuiet
  BY <1>1 DEF ClosedQuiet
<1> QED
  BY <1>2, RunInvariant, PTL
=============================================================================
