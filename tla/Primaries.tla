----------------------------- MODULE Primaries -----------------------------
(***************************************************************************)
(* N independent primaries behind one driver, as both the Postgres and the *)
(* Valkey driver arrange them: a workspace's units live on the primary its *)
(* hash names, Claim tries the primaries in rotation from a shared cursor, *)
(* ReapExpired, Stats and Reset visit them in list order, and any of these *)
(* ends at the first primary that does not answer.  What a call does on    *)
(* one primary is one step here (the modules of the drivers refine it);    *)
(* between two primaries anything may happen, primaries fail and recover   *)
(* included.  Enqueue looks the tenant's gate up once per process and      *)
(* keeps it (the Postgres driver's tenantCache).                           *)
(***************************************************************************)
EXTENDS Integers, Sequences, SequencesExt

CONSTANTS
  Keys,        \* work unit keys
  Workspaces,  \* tenants
  WorkspaceOf, \* WorkspaceOf[k]: the workspace of key k
  Hash,        \* Hash[ws]: its FNV-1a sum
  TenantT,     \* TenantT[ws]: the threshold in tenant_config
  DefaultT,    \* Options.DefaultThreshold
  N,           \* how many primaries there are
  Workers,     \* workers of the process
  Producers,   \* producers of the process
  None,        \* no lease, no call in progress, not cached
  Hot,         \* keys whose producers never stop
  MaxPending,  \* bound: tasks pending per key
  MaxTasks,    \* bound: tasks ever enqueued for a key that is not hot
  MaxFaults    \* bound: outages of primaries and Resets

ASSUME RoutingAssumption ==
  /\ N \in Nat \ {0} /\ None \notin Workers
  /\ WorkspaceOf \in [Keys -> Workspaces] /\ Hash \in [Workspaces -> Nat]
ASSUME GateAssumption ==
  DefaultT \in Nat \ {0} /\ TenantT \in [Workspaces -> Nat \ {0}]
ASSUME PrimariesBounds ==
  MaxPending \in Nat /\ MaxTasks \in Nat /\ MaxFaults \in Nat /\ Hot \subseteq Keys

VARIABLES
  up,        \* the primaries that answer
  line,      \* line[p]: the key of each task pending on p, oldest task first
  row,       \* row[p][k]: what p keeps about unit k
  rr,        \* the cursor Backend.rr, modulo N
  worker,    \* worker[w]: the Claim w has in progress, or the unit it holds
  reaper,    \* the primary ReapExpired visits next
  wiper,     \* the primary Reset visits next, or None
  cache,     \* cache[ws]: the threshold cached for ws, or None
  producer,  \* producer[q]: the Enqueue q has in progress, or None
  arrived,   \* arrived[k]: how many tasks were enqueued for k, unless it is hot
  faults,    \* how many outages and Resets there were
  missed     \* history: workspaces of which a lookup failed

vars == <<up, line, row, rr, worker, reaper, wiper, cache, producer, arrived,
          faults, missed>>

-----------------------------------------------------------------------------
AllPrimaries == 0 .. (N - 1)

\* eligible and lease as stored; old: its head has waited max_wait; lost: its lease ran out.
NoRow == [gate |-> None, eligible |-> FALSE, lease |-> None, old |-> FALSE, lost |-> FALSE]

Idle == [doing |-> "idle", start |-> 0, tried |-> 0, unit |-> None]

\* Where the pending tasks of k stand in p's line.
Pending(p, k) == {i \in DOMAIN line[p] : line[p][i] = k}

\* Where the oldest of them stands.
HeadAt(p, k) == CHOOSE i \in DOMAIN line[p] :
                  line[p][i] = k /\ \A j \in 1 .. (i - 1) : line[p][j] # k

(***************************************************************************)
(* Deliberately wrong variants of the definitions they name, to show that  *)
(* the properties below can fail.  No specification uses them.             *)
(***************************************************************************)
\* ShardFor, by the cursor
ShardByCursor(k) == rr

\* Advance, which does not
StaysPut(c) == c

\* ReapsAfter, which gives up after the first primary
OnlyFirst(p) == 0

\* Resolved, caching the defaults while the lookup is on its way
CachesDefault(q) ==
  /\ cache' = [cache EXCEPT ![WorkspaceOf[producer[q].key]] = DefaultT]
  /\ producer' = [producer EXCEPT ![q].gate = TenantT[WorkspaceOf[producer[q].key]]]

-----------------------------------------------------------------------------
(* Routing and the tenant cache. *)

\* shardForWorkspace
ShardFor(k) == Hash[WorkspaceOf[k]] % N

\* tenantCache.get: a hit, or a miss that goes on to ask the primary.
StartEnqueue(q, k) ==
  /\ producer[q] = None
  /\ k \in Hot \/ arrived[k] < MaxTasks
  /\ producer' = [producer EXCEPT ![q] =
       [key |-> k, home |-> ShardFor(k), gate |-> cache[WorkspaceOf[k]]]]
  /\ UNCHANGED <<up, line, row, rr, worker, reaper, wiper, cache, arrived, faults, missed>>

\* The lookup answered: what it said is cached for the life of the process.
Resolved(q) ==
  LET ws == WorkspaceOf[producer[q].key]
  IN  /\ cache' = [cache EXCEPT ![ws] = TenantT[ws]]
      /\ producer' = [producer EXCEPT ![q].gate = TenantT[ws]]

Lookup(q) ==
  /\ producer[q] # None /\ producer[q].gate = None
  /\ producer[q].home \in up
  /\ Resolved(q)
  /\ UNCHANGED <<up, line, row, rr, worker, reaper, wiper, arrived, faults, missed>>

\* Any error stands for "no row": the defaults are cached, for good as well.
LookupFails(q) ==
  LET ws == WorkspaceOf[producer[q].key]
  IN  /\ producer[q] # None /\ producer[q].gate = None
      /\ producer[q].home \notin up
      /\ cache' = [cache EXCEPT ![ws] = DefaultT]
      /\ producer' = [producer EXCEPT ![q].gate = DefaultT]
      /\ missed' = missed \cup {ws}
      /\ UNCHANGED <<up, line, row, rr, worker, reaper, wiper, arrived, faults>>

\* The upsert: the gate is written once, with the unit's first task.
Insert(q) ==
  LET p == producer[q].home
      k == producer[q].key
      gate == IF row[p][k].gate = None THEN producer[q].gate ELSE row[p][k].gate
  IN  /\ producer[q] # None /\ producer[q].gate # None
      /\ producer' = [producer EXCEPT ![q] = None]
      /\ \/ /\ p \in up
            /\ Cardinality(Pending(p, k)) < MaxPending
            /\ line' = [line EXCEPT ![p] = Append(@, k)]
            /\ row' = [row EXCEPT ![p][k].gate = gate,
                                  ![p][k].eligible = @ \/ Cardinality(Pending(p, k)) + 1 >= gate]
            /\ arrived' = IF k \in Hot THEN arrived ELSE [arrived EXCEPT ![k] = @ + 1]
         \/ p \notin up /\ UNCHANGED <<line, row, arrived>>
      /\ UNCHANGED <<up, rr, worker, reaper, wiper, cache, faults, missed>>

-----------------------------------------------------------------------------
(* Claim, and what the worker does with the unit. *)

Advance(c) == (c + 1) % N

StartClaim(w) ==
  /\ worker[w].doing = "idle"
  /\ rr' = Advance(rr)
  /\ worker' = [worker EXCEPT ![w] = [Idle EXCEPT !.doing = "claim", !.start = rr']]
  /\ UNCHANGED <<up, line, row, reaper, wiper, cache, producer, arrived, faults, missed>>

Claimable(p, k) == row[p][k].eligible /\ row[p][k].lease = None

\* Age-fair on each primary: the unit with the oldest head.
First(p, k) ==
  /\ Claimable(p, k)
  /\ \A j \in Keys \ {k} : Claimable(p, j) => HeadAt(p, k) < HeadAt(p, j)

\* One turn of Claim's loop: a unit, the next primary, or the end.
ClaimAt(w) ==
  LET p == (worker[w].start + worker[w].tried) % N
      last == worker[w].tried + 1 = N
  IN  /\ worker[w].doing = "claim"
      /\ \/ \E k \in Keys :
              /\ p \in up /\ First(p, k)
              /\ row' = [row EXCEPT ![p][k].lease = w]
              /\ worker' = [worker EXCEPT ![w] = [Idle EXCEPT !.doing = "hold", !.unit = k]]
         \/ /\ p \in up /\ \A k \in Keys : ~Claimable(p, k)
            /\ worker' = [worker EXCEPT ![w] =
                 IF last THEN Idle ELSE [worker[w] EXCEPT !.tried = @ + 1]]
            /\ UNCHANGED row
         \/ /\ p \notin up
            /\ worker' = [worker EXCEPT ![w] = Idle]
            /\ UNCHANGED row
      /\ UNCHANGED <<up, line, rr, reaper, wiper, cache, producer, arrived, faults, missed>>

Holds(w, k) == worker[w].doing = "hold" /\ worker[w].unit = k

(***************************************************************************)
(* Drain of one task, processing and Ack, routed by the unit's workspace.  *)
(* Ack keeps the lease while what is left passes the gate, and the worker  *)
(* then goes on with the same unit; old says whether the next task has     *)
(* waited max_wait too.  A lost lease or a silent primary ends runOnce.    *)
(***************************************************************************)
Serve(w, old) ==
  LET k == worker[w].unit
      p == ShardFor(k)
      left == Cardinality(Pending(p, k)) - 1
      keep == left >= row[p][k].gate \/ (left > 0 /\ old)
  IN  /\ worker[w].doing = "hold"
      /\ \/ /\ p \in up /\ row[p][k].lease = w
            /\ line' = [line EXCEPT ![p] = RemoveAt(@, HeadAt(p, k))]
            /\ row' = [row EXCEPT ![p][k] =
                 [@ EXCEPT !.eligible = keep, !.old = left > 0 /\ old, !.lost = FALSE,
                           !.lease = IF keep THEN w ELSE None]]
            /\ worker' = IF keep THEN worker ELSE [worker EXCEPT ![w] = Idle]
         \/ /\ p \notin up \/ row[p][k].lease # w
            /\ worker' = [worker EXCEPT ![w] = Idle]
            /\ UNCHANGED <<line, row>>
      /\ UNCHANGED <<up, rr, reaper, wiper, cache, producer, arrived, faults, missed>>

-----------------------------------------------------------------------------
(* The reaper and Reset. *)

\* The primary visited after p; after the last the next sweep starts over.
ReapsAfter(p) == (p + 1) % N

Reaped(r) ==
  LET free == IF r.lost THEN [r EXCEPT !.lease = None, !.lost = FALSE] ELSE r
  IN  [free EXCEPT !.eligible = @ \/ (free.lease = None /\ r.old)]

\* One turn of ReapExpired's loop; an error ends the sweep.
ReapAt ==
  /\ \/ /\ reaper \in up
        /\ row' = [row EXCEPT ![reaper] = [k \in Keys |-> Reaped(@[k])]]
        /\ reaper' = ReapsAfter(reaper)
     \/ reaper \notin up /\ reaper' = 0 /\ UNCHANGED row
  /\ UNCHANGED <<up, line, rr, worker, wiper, cache, producer, arrived, faults, missed>>

\* Reset wipes primary after primary and stops at one that does not answer.
StartReset ==
  /\ wiper = None /\ faults < MaxFaults
  /\ faults' = faults + 1
  /\ wiper' = 0
  /\ UNCHANGED <<up, line, row, rr, worker, reaper, cache, producer, arrived, missed>>

ResetAt ==
  /\ wiper # None
  /\ \/ /\ wiper \in up
        /\ line' = [line EXCEPT ![wiper] = <<>>]
        /\ row' = [row EXCEPT ![wiper] = [k \in Keys |-> NoRow]]
        /\ wiper' = IF wiper + 1 < N THEN wiper + 1 ELSE None
     \/ wiper \notin up /\ wiper' = None /\ UNCHANGED <<line, row>>
  /\ UNCHANGED <<up, rr, worker, reaper, cache, producer, arrived, faults, missed>>

-----------------------------------------------------------------------------
(* The environment. *)

PrimaryFails(p) ==
  /\ p \in up /\ faults < MaxFaults
  /\ faults' = faults + 1
  /\ up' = up \ {p}
  /\ UNCHANGED <<line, row, rr, worker, reaper, wiper, cache, producer, arrived, missed>>

\* It comes back with what it had stored.
PrimaryRecovers(p) ==
  /\ p \in AllPrimaries \ up
  /\ up' = up \cup {p}
  /\ UNCHANGED <<line, row, rr, worker, reaper, wiper, cache, producer, arrived, faults, missed>>

\* The head of a unit has waited max_wait.
Ages(p, k) ==
  /\ Pending(p, k) # {} /\ ~row[p][k].old
  /\ row' = [row EXCEPT ![p][k].old = TRUE]
  /\ UNCHANGED <<up, line, rr, worker, reaper, wiper, cache, producer, arrived, faults, missed>>

\* The lease of a worker that gave its unit up runs out.
RunsOut(p, k) ==
  /\ row[p][k].lease # None /\ ~row[p][k].lost
  /\ ~Holds(row[p][k].lease, k)
  /\ row' = [row EXCEPT ![p][k].lost = TRUE]
  /\ UNCHANGED <<up, line, rr, worker, reaper, wiper, cache, producer, arrived, faults, missed>>

\* As much time as it takes for all heads to age and all such leases to run out.
TimePasses ==
  /\ row' = [p \in AllPrimaries |-> [k \in Keys |->
       [row[p][k] EXCEPT
          !.old = Pending(p, k) # {},
          !.lost = row[p][k].lease # None /\ (@ \/ ~Holds(row[p][k].lease, k))]]]
  /\ UNCHANGED <<up, line, rr, worker, reaper, wiper, cache, producer, arrived, faults, missed>>

Init ==
  /\ up = AllPrimaries
  /\ line = [p \in AllPrimaries |-> <<>>]
  /\ row = [p \in AllPrimaries |-> [k \in Keys |-> NoRow]]
  /\ rr = 0
  /\ worker = [w \in Workers |-> Idle]
  /\ reaper = 0 /\ wiper = None
  /\ cache = [ws \in Workspaces |-> None]
  /\ producer = [q \in Producers |-> None]
  /\ arrived = [k \in Keys |-> 0]
  /\ faults = 0
  /\ missed = {}

WorkerStep(w) == StartClaim(w) \/ ClaimAt(w) \/ \E old \in BOOLEAN : Serve(w, old)

Next ==
  \/ \E q \in Producers :
       \/ \E k \in Keys : StartEnqueue(q, k)
       \/ Lookup(q) \/ LookupFails(q) \/ Insert(q)
  \/ \E w \in Workers : WorkerStep(w)
  \/ ReapAt
  \/ StartReset \/ ResetAt
  \/ \E p \in AllPrimaries : PrimaryFails(p) \/ PrimaryRecovers(p)
  \/ \E p \in AllPrimaries, k \in Keys : Ages(p, k) \/ RunsOut(p, k)
  \/ TimePasses

(***************************************************************************)
(* Workers loop and the reaper's ticker fires as long as the process runs, *)
(* and time passes.  Nothing is assumed of producers, Reset or primaries.  *)
(***************************************************************************)
Fairness ==
  /\ \A w \in Workers : WF_vars(WorkerStep(w))
  /\ WF_vars(ReapAt)
  /\ WF_vars(TimePasses)

Spec == Init /\ [][Next]_vars /\ Fairness

-----------------------------------------------------------------------------
(* Properties. *)

\* The types of the state; only a unit with pending tasks is eligible or leased.
TypeOK ==
  /\ up \subseteq AllPrimaries /\ rr \in AllPrimaries
  /\ \A p \in AllPrimaries, k \in Keys :
       /\ row[p][k].lease \in Workers \cup {None}
       /\ row[p][k].lease # None => row[p][k].eligible
       /\ row[p][k].eligible => Pending(p, k) # {}
       /\ row[p][k].lost => row[p][k].lease # None
  /\ reaper \in AllPrimaries /\ wiper \in AllPrimaries \cup {None}
  /\ \A w \in Workers : worker[w].doing = "hold" => worker[w].unit \in Keys

(***************************************************************************)
(* One unit, one primary: whichever call of whichever worker or producer   *)
(* comes first, also after a Reset that got only half way, no key ever has *)
(* tasks on two primaries, where its FIFO order would be lost, and a lease *)
(* is where the worker's later calls are routed to (shardForWorkspace).    *)
(* All along the state keeps its types.                                    *)
(***************************************************************************)
OneHome ==
  /\ TypeOK
  /\ \A k \in Keys : \A p \in AllPrimaries :
       row[p][k].gate # None =>
         /\ \A q \in AllPrimaries \ {p} : row[q][k].gate = None /\ Pending(q, k) = {}
         /\ row[p][k].lease # None => p = ShardFor(k)

(***************************************************************************)
(* A unit is gated by its tenant's own threshold, also one that is created *)
(* long after the lookup or again after a Reset; only a tenant of which a  *)
(* lookup failed can have units with the default one (tenantCache.get).    *)
(***************************************************************************)
TenantGate ==
  \A p \in AllPrimaries, k \in Keys :
    \/ row[p][k].gate \in {None, TenantT[WorkspaceOf[k]]}
    \/ row[p][k].gate = DefaultT /\ WorkspaceOf[k] \in missed

(***************************************************************************)
(* No unit starves while a worker is to spare: a unit that passed the gate *)
(* is claimed, even if another primary never answers (the cursor gets round*)
(* to this one) and units with endless producers keep a worker each (Claim *)
(* is age-fair, and an acked unit that stays eligible keeps its lease).    *)
(***************************************************************************)
UnitsServed ==
  \A k \in Keys :
    Claimable(ShardFor(k), k) ~> (~Claimable(ShardFor(k), k) \/ ShardFor(k) \notin up)

\* What only the reaper can put right: a lease that ran out, an unflushed unit.
NeedsReaper(r) == r.lost \/ (r.old /\ ~r.eligible /\ r.lease = None)

(***************************************************************************)
(* The reaper gets to every primary: an abandoned lease is reclaimed and an*)
(* aged unit flushed, unless this primary or one before it in the list does*)
(* not answer (ReapExpired returns at the first error, so one silent       *)
(* primary leaves the ones after it without a reaper).                     *)
(***************************************************************************)
ReaperReaches ==
  \A k \in Keys :
    NeedsReaper(row[ShardFor(k)][k]) ~>
      \/ ~NeedsReaper(row[ShardFor(k)][k])
      \/ \E p \in 0 .. ShardFor(k) : p \notin up
=============================================================================
