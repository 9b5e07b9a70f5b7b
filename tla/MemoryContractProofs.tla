------------------------ MODULE MemoryContractProofs ------------------------
(***************************************************************************)
(* The in-memory driver implements QueueContract, for every set of keys    *)
(* and workers and every bound.  The contract's variables are given names  *)
(* (Queue, Ages, ...); a first group of lemmas says which facts about them *)
(* make a step a step of the contract, a second one what each method does  *)
(* to them, and the theorem puts them together under the invariants of     *)
(* MemoryBackendProofs.                                                    *)
(***************************************************************************)
EXTENDS MemoryBackendProofs

Queue == [k \in Keys |-> units[k].tasks]
Ages == [k \in Keys |-> HeadsAged(units[k])]
Holder == [k \in Keys |-> units[k].lease]
RunOut(u) == u.claimedBy # None /\ now > u.leaseExpires
Expired == {k \in Keys : RunOut(units[k])}
Handed == {[key |-> c.key, lease |-> c.lease] : c \in handles}
Dead == {dlq[i] : i \in DOMAIN dlq}

-----------------------------------------------------------------------------
(* The contract, in terms of these. *)

\* The instance's own copy of Cardinality is Cardinality.
LEMMA SameCardinality ==
  ASSUME NEW S
  PROVE  Contract!Cardinality(S) = Cardinality(S)
  BY DEF Contract!Cardinality, Cardinality

\* The contract's words for FIFOs are those of WorkUnits.
LEMMA SameWords ==
  ASSUME NEW ts
  PROVE  /\ Contract!Cost(ts) = Cost(ts) /\ Contract!Payloads(ts) = Payloads(ts)
         /\ \A n : Contract!Suffix(ts, n) = Suffix(ts, n)
<1>1. Contract!CostUnits(ts) = CostUnits(ts)
  BY DEF Contract!CostUnits, CostUnits
<1>2. Contract!Cost(ts) = Cost(ts)
  BY <1>1, SameCardinality DEF Contract!Cost, Cost
<1>3. Contract!Payloads(ts) = Payloads(ts)
  BY DEF Contract!Payloads, Payloads
<1>4. ASSUME NEW n PROVE Contract!Suffix(ts, n) = Suffix(ts, n)
  BY DEF Contract!Suffix, Suffix
<1> QED
  BY <1>2, <1>3, <1>4

\* The gate of the contract.
Gate(ts, old) == ts # <<>> /\ (Cost(ts) >= Threshold \/ ts[1].payload \in old)

\* Eligible of the contract is Gate.
LEMMA SameGate ==
  ASSUME NEW ts, NEW old
  PROVE  Contract!Eligible(ts, old) <=> Gate(ts, old)
  BY SameWords DEF Contract!Eligible, Gate

\* What makes a step an Enqueue of the contract.
LEMMA ContractEnqueue ==
  ASSUME NEW k \in Keys, NEW c \in Costs, NEW s \in 0 .. (MaxTasks - 1),
         arrived[k] < MaxTasks,
         \A i \in DOMAIN Queue[k] : Queue[k][i].seq < s,
         arrived' = [arrived EXCEPT ![k] = arrived[k] + 1],
         Queue' = [Queue EXCEPT ![k] =
                     Append(Queue[k], [seq |-> s, payload |-> arrived[k] + 1, cost |-> c])],
         UNCHANGED <<Ages, Holder, Expired, Handed, Dead>>
  PROVE  Contract!Next
<1>1. Contract!Enqueue(k, c, s)
  BY DEF Contract!Enqueue, Contract!HandlesAmong,
         Queue, Ages, Holder, Expired, RunOut, Handed, Dead, HeadsAged
<1> QED
  BY <1>1 DEF Contract!Next

\* What makes a step a Claim of the contract.
LEMMA ContractClaim ==
  ASSUME NEW k \in Keys, NEW t \in LeaseTokens,
         Holder[k] = None, Gate(Queue[k], Ages[k]),
         \A j \in Keys : Holder[j] # t, \A h \in Handed : h.lease # t,
         Holder' = [Holder EXCEPT ![k] = t],
         Handed' = Handed \cup {[key |-> k, lease |-> t]},
         UNCHANGED <<Queue, arrived, Ages, Expired, Dead>>
  PROVE  Contract!Next
<1>0. Contract!Eligible(Queue[k], Ages[k])
  BY SameGate
<1>1. Contract!Claim(k, t)
  BY <1>0 DEF Contract!Claim, Contract!HandlesAmong,
         Queue, Ages, Holder, Expired, RunOut, Handed, Dead, HeadsAged
<1> QED
  BY <1>1 DEF Contract!Next

\* The effects Ack, Release and Fail share.
Dropped(h, n) ==
  /\ Queue' = [Queue EXCEPT ![h.key] = Suffix(Queue[h.key], n)]
  /\ Ages' = [Ages EXCEPT ![h.key] = Ages[h.key] \cap Payloads(Suffix(Queue[h.key], n))]

Given(h) == Holder' = [Holder EXCEPT ![h.key] = None] /\ Expired' = Expired \ {h.key}

\* What makes a step drop the head of a unit.
LEMMA ContractDrop ==
  ASSUME NEW h, NEW n, Dropped(h, n)
  PROVE  Contract!DropHead(h, n)
<1> DEFINE rest == Suffix(Queue[h.key], n)
<1>1. Contract!Suffix(Queue[h.key], n) = rest /\ Contract!Payloads(rest) = Payloads(rest)
  BY SameWords
<1>2. /\ Queue' = [Queue EXCEPT ![h.key] = Contract!Suffix(Queue[h.key], n)]
      /\ Ages' = [Ages EXCEPT ![h.key] =
                    Ages[h.key] \cap Contract!Payloads(Contract!Suffix(Queue[h.key], n))]
  BY <1>1 DEF Dropped
<1> HIDE DEF rest
<1> QED
  BY <1>2 DEF Contract!DropHead, Queue, Ages, HeadsAged

\* What makes a step an Ack of the contract, the lease kept or given up.
LEMMA ContractAck ==
  ASSUME NEW h \in Handed, NEW n \in 0 .. MaxTasks,
         Holder[h.key] = h.lease, n <= Len(Queue[h.key]), Dropped(h, n),
         \/ /\ Gate(Suffix(Queue[h.key], n), Ages[h.key])
            /\ Expired' = Expired \ {h.key} /\ UNCHANGED Holder
         \/ ~Gate(Suffix(Queue[h.key], n), {}) /\ Given(h),
         UNCHANGED <<arrived, Handed, Dead>>
  PROVE  Contract!Next
<1>1. Contract!Held(h)
  BY DEF Contract!Held, Holder
<1>2. Contract!DropHead(h, n)
  BY ContractDrop
<1>3. \/ Contract!StillEligible(h, n) /\ Expired' = Expired \ {h.key} /\ UNCHANGED Holder
      \/ ~Contract!StillWorthT(h, n) /\ Contract!Free(h)
  <2>1. CASE /\ Gate(Suffix(Queue[h.key], n), Ages[h.key])
             /\ Expired' = Expired \ {h.key} /\ UNCHANGED Holder
    <3>1. Contract!Suffix(Queue[h.key], n) = Suffix(Queue[h.key], n)
      BY SameWords
    <3>2. Contract!Eligible(Suffix(Queue[h.key], n), Ages[h.key])
      BY <2>1, SameGate
    <3>3. Contract!StillEligible(h, n)
      BY <3>1, <3>2 DEF Contract!StillEligible, Queue, Ages, HeadsAged
    <3> QED
      BY <2>1, <3>3
  <2>2. CASE ~Gate(Suffix(Queue[h.key], n), {}) /\ Given(h)
    <3>1. Contract!Suffix(Queue[h.key], n) = Suffix(Queue[h.key], n)
      BY SameWords
    <3>2. ~Contract!Eligible(Suffix(Queue[h.key], n), {})
      BY <2>2, SameGate
    <3>3. ~Contract!StillWorthT(h, n)
      BY <3>1, <3>2 DEF Contract!StillWorthT, Queue
    <3>4. Contract!Free(h)
      BY <2>2 DEF Contract!Free, Given, Holder, Expired, RunOut
    <3> QED
      BY <3>3, <3>4
  <2> QED
    BY <2>1, <2>2
<1>4. Contract!Ack(h, n)
  BY <1>1, <1>2, <1>3 DEF Contract!Ack, Contract!HandlesAmong,
     Queue, Holder, Expired, RunOut, Handed, Dead
<1> QED
  BY <1>4 DEF Contract!Next, Handed

\* What makes a step a Release of the contract.
LEMMA ContractRelease ==
  ASSUME NEW h \in Handed, Holder[h.key] = h.lease, Given(h),
         UNCHANGED <<Queue, arrived, Ages, Handed, Dead>>
  PROVE  Contract!Next
<1>1. Contract!Release(h)
  BY DEF Contract!Release, Contract!Held, Contract!Free, Given, Contract!HandlesAmong,
         Queue, Ages, Holder, Expired, RunOut, Handed, Dead, HeadsAged
<1> QED
  BY <1>1 DEF Contract!Next, Handed

\* What makes a step a Heartbeat of the contract.
LEMMA ContractHeartbeat ==
  ASSUME NEW h \in Handed, Holder[h.key] = h.lease, Expired' = Expired \ {h.key},
         UNCHANGED <<Queue, arrived, Ages, Holder, Handed, Dead>>
  PROVE  Contract!Next
<1>1. Contract!Heartbeat(h)
  BY DEF Contract!Heartbeat, Contract!Held, Contract!HandlesAmong,
         Queue, Ages, Holder, Expired, RunOut, Handed, Dead, HeadsAged
<1> QED
  BY <1>1 DEF Contract!Next, Handed

\* What makes a step a dead letter of the contract.
LEMMA ContractDeadLetter ==
  ASSUME NEW h \in Handed, Holder[h.key] = h.lease, Queue[h.key] # <<>>,
         Dropped(h, 1), Given(h),
         Dead' = Dead \cup {[key |-> h.key, task |-> Queue[h.key][1]]},
         UNCHANGED <<arrived, Handed>>
  PROVE  Contract!Next
<1> USE DEF Queue, Ages, Holder, Expired, RunOut, Handed, Dead, HeadsAged
<1>1. Contract!DropHead(h, 1)
  BY ContractDrop
<1>2. Contract!DeadLetterHead(h)
  BY <1>1 DEF Contract!DeadLetterHead, Contract!Held, Contract!Free, Given,
              Contract!HandlesAmong
<1> QED
  BY <1>2 DEF Contract!Next

\* What makes a step reclaim leases that ran out.
LEMMA ContractReclaim ==
  ASSUME NEW S \in SUBSET Keys, S \subseteq Expired,
         Holder' = [k \in Keys |-> IF k \in S THEN None ELSE Holder[k]],
         Expired' = Expired \ S,
         UNCHANGED <<Queue, arrived, Ages, Handed, Dead>>
  PROVE  Contract!Next
<1>1. Contract!Reclaim(S)
  BY DEF Contract!Reclaim, Contract!HandlesAmong,
         Queue, Ages, Holder, Expired, RunOut, Handed, Dead, HeadsAged
<1> QED
  BY <1>1 DEF Contract!Next

\* What makes a step the passing of time.
LEMMA ContractElapse ==
  ASSUME Ages' \in [Keys -> SUBSET (1 .. MaxTasks)],
         \A k \in Keys : Ages[k] \subseteq Ages'[k] /\ Ages'[k] \subseteq Payloads(Queue[k]),
         Expired' \in SUBSET {k \in Keys : Holder[k] # None}, Expired \subseteq Expired',
         UNCHANGED <<Queue, arrived, Holder, Handed, Dead>>
  PROVE  Contract!Next
<1>1. Contract!Elapse
  BY ZenonT(60), SameWords DEF Contract!Elapse, Contract!HandlesAmong,
         Queue, Ages, Holder, Expired, RunOut, Handed, Dead, HeadsAged
<1> QED
  BY <1>1 DEF Contract!Next

-----------------------------------------------------------------------------
(* What the methods do to the contract's variables. *)

\* A step that replaces one unit.
LEMMA OneUnit ==
  ASSUME units \in [Keys -> Unit], NEW k \in Keys, NEW v,
         units' = [units EXCEPT ![k] = v], now' = now
  PROVE  /\ Queue' = [Queue EXCEPT ![k] = v.tasks]
         /\ Ages' = [Ages EXCEPT ![k] = HeadsAged(v)]
         /\ Holder' = [Holder EXCEPT ![k] = v.lease]
         /\ Expired' = IF RunOut(v) THEN Expired \cup {k} ELSE Expired \ {k}
<1>1. units'[k] = v /\ \A j \in Keys \ {k} : units'[j] = units[j]
  OBVIOUS
<1>2. Queue' = [Queue EXCEPT ![k] = v.tasks]
  BY <1>1 DEF Queue
<1>3. Holder' = [Holder EXCEPT ![k] = v.lease]
  BY <1>1 DEF Holder
<1>4. Ages' = [Ages EXCEPT ![k] = HeadsAged(v)]
  <2>1. Ages' = [j \in Keys |-> HeadsAged(units'[j])]
    BY DEF Ages, HeadsAged
  <2> QED
    BY <1>1, <2>1 DEF Ages
<1>5. Expired' = IF RunOut(v) THEN Expired \cup {k} ELSE Expired \ {k}
  <2>1. Expired' = {j \in Keys : RunOut(units'[j])}
    BY DEF Expired, RunOut
  <2> QED
    BY <1>1, <2>1 DEF Expired
<1> QED
  BY <1>2, <1>3, <1>4, <1>5

\* Payloads being distinct, a task's age can be read off its payload.
LEMMA AgeOf ==
  ASSUME NEW a \in Nat, now \in Nat, NEW u, UnitInv(u, a, now), NEW i \in 1 .. Len(u.tasks)
  PROVE  u.tasks[i].payload \in HeadsAged(u) <=> now >= u.enqAt[i] + MaxWait
<1>1. DOMAIN u.tasks = 1 .. Len(u.tasks) /\ Len(u.tasks) \in Nat
  BY UnitFacts, LenProperties
<1>2. \A j \in 1 .. Len(u.tasks) : u.tasks[j].payload = a - Len(u.tasks) + j
  BY DEF UnitInv, UnitFifo
<1>3. ASSUME u.tasks[i].payload \in HeadsAged(u) PROVE now >= u.enqAt[i] + MaxWait
  <2>1. PICK j \in 1 .. Len(u.tasks) : /\ now >= u.enqAt[j] + MaxWait
                                        /\ u.tasks[i].payload = u.tasks[j].payload
    BY <1>1, <1>3 DEF HeadsAged
  <2>2. a - Len(u.tasks) + i = a - Len(u.tasks) + j
    BY <1>2, <2>1
  <2>3. i = j
    BY <1>1, <2>2
  <2> QED
    BY <2>1, <2>3
<1>4. ASSUME now >= u.enqAt[i] + MaxWait PROVE u.tasks[i].payload \in HeadsAged(u)
  BY <1>1, <1>4 DEF HeadsAged
<1> QED
  BY <1>3, <1>4

\* What has aged of the tasks left after a drop.
LEMMA AgesDrop ==
  ASSUME NEW a \in Nat, now \in Nat, NEW u, UnitInv(u, a, now),
         NEW m \in 0 .. Len(u.tasks), NEW v,
         v.tasks = Suffix(u.tasks, m), v.enqAt = Suffix(u.enqAt, m)
  PROVE  /\ HeadsAged(v) = HeadsAged(u) \cap Payloads(Suffix(u.tasks, m))
         /\ v.tasks # <<>> =>
              (v.tasks[1].payload \in HeadsAged(u) <=> now >= v.enqAt[1] + MaxWait)
<1> DEFINE len == Len(u.tasks)
<1>1. /\ u.tasks \in Seq(Task) /\ u.enqAt \in Seq(Nat)
      /\ len \in Nat /\ Len(u.enqAt) = len
  BY UnitFacts
<1>2. /\ v.tasks \in Seq(Task) /\ Len(v.tasks) = len - m
      /\ \A i \in 1 .. len - m : v.tasks[i] = u.tasks[m + i]
  BY <1>1, SuffixProperties
<1>3. \A i \in 1 .. len - m : v.enqAt[i] = u.enqAt[m + i]
  <2>1. m \in 0 .. Len(u.enqAt)
    BY <1>1
  <2>2. \A i \in 1 .. Len(u.enqAt) - m : Suffix(u.enqAt, m)[i] = u.enqAt[m + i]
    BY <1>1, <2>1, SuffixProperties
  <2> QED
    BY <1>1, <2>2
<1>4. DOMAIN v.tasks = 1 .. len - m
  BY <1>2, LenProperties
<1>5. \A i \in 1 .. len - m : m + i \in 1 .. len
  BY <1>1
<1>6. \A i \in 1 .. len : u.tasks[i].payload \in HeadsAged(u) <=> now >= u.enqAt[i] + MaxWait
  BY AgeOf
<1>7. \A i \in 1 .. len - m :
        v.tasks[i].payload \in HeadsAged(u) <=> now >= v.enqAt[i] + MaxWait
  BY <1>2, <1>3, <1>5, <1>6
<1>8. HeadsAged(v) = HeadsAged(u) \cap Payloads(v.tasks)
  <2> HIDE DEF len
  <2>1. ASSUME NEW p \in HeadsAged(v) PROVE p \in HeadsAged(u) \cap Payloads(v.tasks)
    <3>1. PICK i \in 1 .. len - m : now >= v.enqAt[i] + MaxWait /\ p = v.tasks[i].payload
      BY <1>4, <2>1 DEF HeadsAged
    <3> QED
      BY <1>4, <1>7, <3>1 DEF Payloads
  <2>2. ASSUME NEW p \in HeadsAged(u) \cap Payloads(v.tasks) PROVE p \in HeadsAged(v)
    <3>1. PICK i \in 1 .. len - m : p = v.tasks[i].payload
      BY <1>4, <2>2 DEF Payloads
    <3>2. now >= v.enqAt[i] + MaxWait
      BY <1>7, <2>2, <3>1
    <3> QED
      BY <1>4, <3>1, <3>2 DEF HeadsAged
  <2> QED
    BY <2>1, <2>2
<1>9. ASSUME v.tasks # <<>>
      PROVE  v.tasks[1].payload \in HeadsAged(u) <=> now >= v.enqAt[1] + MaxWait
  <2>1. 1 \in 1 .. len - m
    BY <1>1, <1>2, <1>9, EmptySeq
  <2> QED
    BY <1>7, <2>1
<1> QED
  BY <1>8, <1>9

\* A task that just joined has not aged: max_wait is positive.
LEMMA AgesAppend ==
  ASSUME NEW a \in Nat, now \in Nat, NEW u, UnitInv(u, a, now), NEW v, NEW task \in Task,
         v.tasks = Append(u.tasks, task), v.enqAt = Append(u.enqAt, now)
  PROVE  HeadsAged(v) = HeadsAged(u)
<1> DEFINE len == Len(u.tasks)
<1>1. /\ u.tasks \in Seq(Task) /\ u.enqAt \in Seq(Nat)
      /\ len \in Nat /\ Len(u.enqAt) = len
  BY UnitFacts
<1>2. /\ v.tasks \in Seq(Task) /\ Len(v.tasks) = len + 1
      /\ \A i \in 1 .. len : v.tasks[i] = u.tasks[i]
  BY <1>1, AppendElements
<1>3. v.enqAt[len + 1] = now /\ \A i \in 1 .. len : v.enqAt[i] = u.enqAt[i]
  BY <1>1, AppendElements
<1>4. DOMAIN v.tasks = 1 .. len + 1 /\ DOMAIN u.tasks = 1 .. len
  BY <1>1, <1>2, LenProperties
<1> HIDE DEF len
<1>5. ~(now >= v.enqAt[len + 1] + MaxWait)
  BY <1>3, OptionsAssumption
<1>6. {j \in DOMAIN v.tasks : now >= v.enqAt[j] + MaxWait}
        = {j \in DOMAIN u.tasks : now >= u.enqAt[j] + MaxWait}
  <2>1. 1 .. len + 1 = (1 .. len) \cup {len + 1} /\ len + 1 \notin 1 .. len
    BY <1>1
  <2> QED
    BY <1>3, <1>4, <1>5, <2>1
<1> QED
  BY <1>2, <1>4, <1>6 DEF HeadsAged

\* The types and facts every method starts from.
LEMMA Facts ==
  ASSUME StateInv
  PROVE  /\ units \in [Keys -> Unit] /\ now \in Nat /\ MaxTasks \in Nat
         /\ arrived \in [Keys -> 0 .. MaxTasks]
         /\ \A k \in Keys : /\ arrived[k] \in Nat /\ units[k] \in Unit
                            /\ UnitInv(units[k], arrived[k], now)
                            /\ Len(units[k].tasks) \in 0 .. MaxTasks
<1>1. /\ units \in [Keys -> Unit] /\ now \in Nat /\ MaxTasks \in Nat
      /\ arrived \in [Keys -> 0 .. MaxTasks]
      /\ \A k \in Keys : arrived[k] \in Nat /\ UnitInv(units[k], arrived[k], now)
  BY BoundsAssumption DEF StateInv, TypeOK
<1>2. ASSUME NEW k \in Keys PROVE Len(units[k].tasks) \in 0 .. MaxTasks
  <2>1. /\ Len(units[k].tasks) \in Nat
        /\ Len(units[k].tasks) <= units[k].nextSeq /\ units[k].nextSeq <= arrived[k]
        /\ units[k].nextSeq \in Nat
    BY <1>1, UnitFacts DEF UnitInv, UnitFifo
  <2>2. arrived[k] \in 0 .. MaxTasks
    BY <1>1
  <2> QED
    BY <1>1, <2>1, <2>2
<1> QED
  BY <1>1, <1>2

\* A handle that held() accepts, seen from the contract.
LEMMA HeldHandle ==
  ASSUME StateInv, NEW c \in handles, Held(c)
  PROVE  LET h == [key |-> c.key, lease |-> c.lease]
         IN  /\ h \in Handed /\ h.key = c.key /\ h.key \in Keys
             /\ Holder[h.key] = h.lease
<1>1. c.key \in Keys
  BY HeldHasWork
<1> QED
  BY <1>1 DEF Handed, Held, Holder

\* Enqueue.
LEMMA EnqueueStep ==
  ASSUME StateInv, NEW k \in Keys, NEW c \in Costs, Enqueue(k, c)
  PROVE  Contract!Next
<1> DEFINE u == units[k]
           task == [seq |-> u.nextSeq, payload |-> arrived[k] + 1, cost |-> c]
           v == EnqueueUnit(u, task)
<1>t. /\ units \in [Keys -> Unit] /\ now \in Nat /\ MaxTasks \in Nat
      /\ arrived[k] \in Nat /\ u \in Unit /\ UnitInv(u, arrived[k], now)
      /\ c \in Nat
  BY Facts, InputsAssumption
<1>1. /\ units' = [units EXCEPT ![k] = v] /\ now' = now
      /\ arrived' = [arrived EXCEPT ![k] = arrived[k] + 1] /\ arrived[k] < MaxTasks
      /\ UNCHANGED <<dlq, handles>>
  BY DEF Enqueue
<1>2. u.nextSeq \in 0 .. (MaxTasks - 1) /\ u.nextSeq \in Nat
  <2>1. u.nextSeq <= arrived[k] /\ u.nextSeq \in Nat
    BY <1>t DEF UnitInv, UnitFifo, Unit
  <2> HIDE DEF u
  <2> QED
    BY <1>t, <1>1, <2>1
<1>3. task \in Task
  BY <1>t, <1>2 DEF Task
<1>4. /\ v.tasks = Append(u.tasks, task) /\ v.enqAt = Append(u.enqAt, now)
      /\ v.lease = u.lease /\ v.claimedBy = u.claimedBy /\ v.leaseExpires = u.leaseExpires
  <2> HIDE DEF task, u
  <2> QED
    BY <1>t DEF EnqueueUnit, Unit
<1> HIDE DEF v
<1>5. /\ Queue' = [Queue EXCEPT ![k] = v.tasks] /\ Ages' = [Ages EXCEPT ![k] = HeadsAged(v)]
      /\ Holder' = [Holder EXCEPT ![k] = v.lease]
      /\ Expired' = IF RunOut(v) THEN Expired \cup {k} ELSE Expired \ {k}
  BY <1>t, <1>1, OneUnit
<1>6. HeadsAged(v) = HeadsAged(u)
  <2> HIDE DEF task, u
  <2> QED
    BY <1>t, <1>3, <1>4, AgesAppend
<1>7. RunOut(v) <=> RunOut(u)
  BY <1>4 DEF RunOut
<1>8. Ages' = Ages /\ Holder' = Holder /\ Expired' = Expired
  BY <1>4, <1>5, <1>6, <1>7 DEF Ages, Holder, Expired
<1>9. Handed' = Handed /\ Dead' = Dead
  BY <1>1 DEF Handed, Dead
<1>10. \A i \in DOMAIN Queue[k] : Queue[k][i].seq < u.nextSeq
  <2>1. /\ u.tasks \in Seq(Task) /\ Len(u.tasks) \in Nat
        /\ \A i \in 1 .. Len(u.tasks) : u.tasks[i].seq = u.nextSeq - Len(u.tasks) + i - 1
    BY <1>t, UnitFacts DEF UnitInv, UnitFifo
  <2>2. DOMAIN u.tasks = 1 .. Len(u.tasks)
    BY <2>1, LenProperties
  <2>3. Queue[k] = u.tasks
    BY DEF Queue
  <2> HIDE DEF u
  <2>4. ASSUME NEW i \in 1 .. Len(u.tasks) PROVE u.tasks[i].seq < u.nextSeq
    BY <1>2, <2>1
  <2> QED
    BY <2>2, <2>3, <2>4
<1>11. Queue' = [Queue EXCEPT ![k] = Append(Queue[k], task)]
  BY <1>4, <1>5 DEF Queue
<1> QED
  <2> DEFINE s == u.nextSeq
  <2>1. /\ s \in 0 .. (MaxTasks - 1) /\ \A i \in DOMAIN Queue[k] : Queue[k][i].seq < s
        /\ Queue' = [Queue EXCEPT ![k] =
              Append(Queue[k], [seq |-> s, payload |-> arrived[k] + 1, cost |-> c])]
    BY <1>2, <1>10, <1>11
  <2> HIDE DEF s, u
  <2> QED
    BY <1>1, <1>8, <1>9, <2>1, ContractEnqueue

\* Claim: the cached flag stands for the contract's gate.
LEMMA ClaimStep ==
  ASSUME StateInv, LeaseInv, NEW w \in Workers, NEW d \in LeaseDurs, NEW k \in Keys,
         Claim(w, d, k)
  PROVE  Contract!Next
<1> DEFINE u == units[k]
           tok == NextToken(w)
           v == ClaimUnit(u, w, d)
<1>t. /\ units \in [Keys -> Unit] /\ now \in Nat /\ d \in Nat /\ arrived[k] \in Nat
      /\ u \in Unit /\ UnitInv(u, arrived[k], now) /\ leaseCounter \in Nat
  BY Facts, InputsAssumption DEF StateInv, TypeOK
<1>1. /\ units' = [units EXCEPT ![k] = v] /\ now' = now
      /\ u.eligible /\ u.claimedBy = None /\ u.tasks # <<>>
      /\ leaseCounter < MaxClaims
      /\ handles' = handles \cup {[key |-> k, worker |-> w, lease |-> tok]}
      /\ UNCHANGED <<dlq, arrived>>
  BY DEF Claim, Best, Claimable
<1>2. tok \in LeaseTokens
  BY <1>t, <1>1, BoundsAssumption DEF NextToken, LeaseTokens
<1>3. tok # None
  BY <1>t, WorkersAssumption DEF NextToken
<1>4. /\ v.tasks = u.tasks /\ v.enqAt = u.enqAt /\ v.lease = tok
      /\ v.claimedBy = w /\ v.leaseExpires = now + d
  <2> HIDE DEF tok, u
  <2> QED
    BY <1>t DEF ClaimUnit, Unit, tok
<1> HIDE DEF v, tok
<1>5. /\ Queue' = [Queue EXCEPT ![k] = v.tasks] /\ Ages' = [Ages EXCEPT ![k] = HeadsAged(v)]
      /\ Holder' = [Holder EXCEPT ![k] = v.lease]
      /\ Expired' = IF RunOut(v) THEN Expired \cup {k} ELSE Expired \ {k}
  BY <1>t, <1>1, OneUnit
<1>6. HeadsAged(v) = HeadsAged(u)
  BY <1>4 DEF HeadsAged
<1>7. ~RunOut(v) /\ ~RunOut(u)
  <2>1. ~(now > now + d)
    BY <1>t
  <2> QED
    BY <1>1, <1>4, <2>1 DEF RunOut
<1>8. /\ Queue' = Queue /\ Ages' = Ages /\ Expired' = Expired
      /\ Holder' = [Holder EXCEPT ![k] = tok]
  BY <1>4, <1>5, <1>6, <1>7 DEF Queue, Ages, Expired
<1>9. Dead' = Dead /\ Handed' = Handed \cup {[key |-> k, lease |-> tok]}
  <2> DEFINE h == [key |-> k, worker |-> w, lease |-> tok]
  <2>1. h.key = k /\ h.lease = tok
    OBVIOUS
  <2>2. handles' = handles \cup {h}
    BY <1>1
  <2> HIDE DEF h
  <2>3. Handed' = Handed \cup {[key |-> h.key, lease |-> h.lease]}
    BY <2>2 DEF Handed
  <2> QED
    BY <1>1, <2>1, <2>3 DEF Dead
<1>10. Holder[k] = None
  BY <1>1 DEF Holder, LeaseInv
<1>11. \A c \in handles : c.lease # tok
  BY FreshToken DEF tok
<1>12. \A h \in Handed : h.lease # tok
  BY <1>11 DEF Handed
<1>13. ASSUME NEW j \in Keys PROVE Holder[j] # tok
  <2>1. CASE units[j].claimedBy = None
    BY <1>3, <2>1 DEF Holder, LeaseInv
  <2>2. CASE units[j].claimedBy # None
    <3>1. [key |-> j, worker |-> units[j].claimedBy, lease |-> units[j].lease] \in handles
      BY <2>2 DEF LeaseInv
    <3> QED
      BY <1>11, <3>1 DEF Holder
  <2> QED
    BY <2>1, <2>2
<1>14. Gate(Queue[k], Ages[k])
  <2>1. Cost(u.tasks) >= Threshold \/ now >= u.enqAt[1] + MaxWait
    BY <1>t, <1>1 DEF UnitInv, UnitGate
  <2>2. 1 \in 1 .. Len(u.tasks)
    BY <1>t, <1>1, UnitFacts
  <2>3. u.tasks[1].payload \in HeadsAged(u) <=> now >= u.enqAt[1] + MaxWait
    BY <1>t, <2>2, AgeOf
  <2> QED
    BY <1>1, <2>1, <2>3 DEF Gate, Queue, Ages
<1> QED
  BY <1>1, <1>2, <1>8, <1>9, <1>10, <1>12, <1>13, <1>14, ContractClaim

(***************************************************************************)
(* The head and the tasks behind it leave, as in Ack and in a poison Fail: *)
(* the recomputed flag is the contract's gate on what is left, judged by   *)
(* what had aged before.                                                   *)
(***************************************************************************)
LEMMA RecomputedGate ==
  ASSUME NEW a \in Nat, now \in Nat, NEW u, UnitInv(u, a, now),
         NEW m \in 0 .. Len(u.tasks), Suffix(u.tasks, m) # <<>>,
         NEW f, f = Recompute(DropHead(u, m))
  PROVE  /\ f \in Unit /\ f.tasks = Suffix(u.tasks, m) /\ f.enqAt = Suffix(u.enqAt, m)
         /\ f.lease = u.lease /\ f.claimedBy = u.claimedBy
         /\ f.eligible <=> Gate(Suffix(u.tasks, m), HeadsAged(u))
<1> DEFINE r == DropHead(u, m)
<1>1. r \in Unit /\ r.tasks = Suffix(u.tasks, m) /\ UnitInv(f, a, now) /\ u \in Unit
  BY DropInv DEF UnitInv
<1>2. r.enqAt = Suffix(u.enqAt, m)
  BY <1>1 DEF DropHead, Unit
<1>3. f.lease = u.lease /\ f.claimedBy = u.claimedBy
  BY DropKeepsLease
<1> HIDE DEF r
<1>4. f = Recompute(r)
  BY DEF r
<1>5. /\ f.tasks = r.tasks /\ f.enqAt = r.enqAt /\ f.pendingCost = r.pendingCost
      /\ f.eligible = (r.pendingCost >= Threshold \/ now >= r.enqAt[1] + MaxWait)
  BY <1>1, <1>4 DEF Recompute, Unit
<1>6. f \in Unit /\ f.pendingCost = Cost(f.tasks)
  BY <1>1 DEF UnitInv
<1>7. f.tasks[1].payload \in HeadsAged(u) <=> now >= f.enqAt[1] + MaxWait
  BY <1>1, <1>2, <1>5, AgesDrop
<1>8. f.eligible <=> (Cost(f.tasks) >= Threshold \/ now >= f.enqAt[1] + MaxWait)
  BY <1>5, <1>6
<1> QED
  BY <1>1, <1>2, <1>3, <1>5, <1>6, <1>7, <1>8 DEF Gate

\* A unit replaced by what is left of it, as the contract drops a head.
LEMMA DropStep ==
  ASSUME StateInv, NEW h \in Handed, h.key \in Keys, NEW m \in 0 .. Len(units[h.key].tasks),
         NEW v, units' = [units EXCEPT ![h.key] = v], now' = now,
         \/ Suffix(units[h.key].tasks, m) = <<>> /\ v = NoUnit
         \/ /\ v.tasks = Suffix(units[h.key].tasks, m)
            /\ v.enqAt = Suffix(units[h.key].enqAt, m)
  PROVE  Dropped(h, m)
<1> DEFINE u == units[h.key]
           rest == Suffix(u.tasks, m)
<1>t. /\ units \in [Keys -> Unit] /\ now \in Nat
      /\ arrived[h.key] \in Nat /\ UnitInv(u, arrived[h.key], now)
      /\ m \in 0 .. Len(u.tasks)
  BY Facts
<1>1. v.tasks = rest
  BY DEF NoUnit
<1>2. HeadsAged(v) = HeadsAged(u) \cap Payloads(rest)
  <2>1. CASE rest = <<>> /\ v = NoUnit
    BY <2>1 DEF NoUnit, HeadsAged, Payloads
  <2>2. CASE v.tasks = rest /\ v.enqAt = Suffix(u.enqAt, m)
    <3> HIDE DEF u
    <3> QED
      BY <1>t, <2>2, AgesDrop
  <2> QED
    BY <2>1, <2>2
<1>3. Queue' = [Queue EXCEPT ![h.key] = v.tasks] /\ Ages' = [Ages EXCEPT ![h.key] = HeadsAged(v)]
  BY <1>t, OneUnit
<1>4. Queue[h.key] = u.tasks /\ Ages[h.key] = HeadsAged(u)
  BY DEF Queue, Ages
<1> HIDE DEF u
<1> QED
  BY <1>1, <1>2, <1>3, <1>4 DEF Dropped

\* A unit replaced by one without a lease, as the contract frees it.
LEMMA GiveStep ==
  ASSUME StateInv, NEW h \in Handed, h.key \in Keys,
         NEW v, units' = [units EXCEPT ![h.key] = v], now' = now,
         v.claimedBy = None, v.lease = None
  PROVE  Given(h)
<1>1. /\ Holder' = [Holder EXCEPT ![h.key] = v.lease]
      /\ Expired' = IF RunOut(v) THEN Expired \cup {h.key} ELSE Expired \ {h.key}
  BY Facts, OneUnit
<1>2. ~RunOut(v)
  BY DEF RunOut
<1> QED
  BY <1>1, <1>2 DEF Given

\* Ack: renewed, re-buffered or deleted.
LEMMA AckStep ==
  ASSUME StateInv, NEW c \in handles, NEW s \in Seqs, Ack(c, s)
  PROVE  Contract!Next
<1> DEFINE u == units[c.key]
           h == [key |-> c.key, lease |-> c.lease]
           m == LeadingRun(u.tasks, s)
           v == AckUnit(u, s)
           rest == Suffix(u.tasks, m)
           f == Recompute(DropHead(u, m))
<1>1. /\ Held(c) /\ units' = [units EXCEPT ![c.key] = v] /\ now' = now
      /\ UNCHANGED <<dlq, handles, arrived>>
  BY DEF Ack
<1>2. h \in Handed /\ h.key = c.key /\ c.key \in Keys /\ Holder[h.key] = h.lease
  BY <1>1, HeldHandle
<1>t. /\ units \in [Keys -> Unit] /\ now \in Nat /\ arrived[c.key] \in Nat /\ s \in Int
      /\ u \in Unit /\ UnitInv(u, arrived[c.key], now) /\ u.tasks \in Seq(Task)
      /\ Len(u.tasks) \in 0 .. MaxTasks /\ MaxTasks \in Nat
  <2>1. /\ units \in [Keys -> Unit] /\ now \in Nat /\ arrived[c.key] \in Nat
        /\ u \in Unit /\ UnitInv(u, arrived[c.key], now)
        /\ Len(u.tasks) \in 0 .. MaxTasks /\ MaxTasks \in Nat
    BY <1>2, Facts
  <2> HIDE DEF u
  <2> QED
    BY <2>1 DEF Seqs, Unit
<1> HIDE DEF u
<1>3. m \in 0 .. Len(u.tasks)
  BY <1>t, LeadingRunType
<1>4. v = IF rest = <<>> THEN NoUnit ELSE IF f.eligible THEN Renewed(f) ELSE Freed(f)
  <2>1. DropHead(u, m).tasks = rest
    BY <1>t, <1>3, DropInv
  <2> QED
    BY <2>1 DEF AckUnit
<1> HIDE DEF m, v
<1>5. rest # <<>> =>
        /\ f \in Unit /\ f.tasks = rest /\ f.enqAt = Suffix(u.enqAt, m)
        /\ f.lease = u.lease /\ f.claimedBy = u.claimedBy
        /\ f.eligible <=> Gate(rest, HeadsAged(u))
  BY <1>t, <1>3, RecomputedGate
<1> HIDE DEF f
<1>6. Queue[h.key] = u.tasks /\ Ages[h.key] = HeadsAged(u)
  BY <1>2 DEF Queue, Ages, u
<1>7. UNCHANGED <<arrived, Handed, Dead>>
  BY <1>1 DEF Handed, Dead
<1>8. CASE rest = <<>> \/ ~f.eligible
  <2>1. v.claimedBy = None /\ v.lease = None
    BY <1>4, <1>5, <1>8, FreedFrees DEF NoUnit
  <2>2. \/ rest = <<>> /\ v = NoUnit
        \/ v.tasks = rest /\ v.enqAt = Suffix(u.enqAt, m)
    BY <1>4, <1>5, <1>8 DEF Freed, Unit
  <2>3. ~Gate(rest, {})
    BY <1>5, <1>8 DEF Gate
  <2> HIDE DEF h
  <2>4. Given(h)
    BY <1>1, <1>2, <2>1, GiveStep
  <2>5. Dropped(h, m)
    BY <1>1, <1>2, <1>3, <2>2, DropStep DEF u
  <2> QED
    BY <1>t, <1>2, <1>3, <1>6, <1>7, <2>3, <2>4, <2>5, ContractAck
<1>9. CASE rest # <<>> /\ f.eligible
  <2>1. v = Renewed(f)
    BY <1>4, <1>9
  <2>2. now + f.leaseDur \in Nat /\ ~(now > now + f.leaseDur)
    <3>1. f \in Unit
      BY <1>5, <1>9
    <3>2. f.leaseDur \in Nat
      BY <3>1 DEF Unit
    <3>3. now \in Nat
      BY <1>t
    <3> QED
      BY <3>2, <3>3
  <2>3. /\ v.tasks = rest /\ v.enqAt = Suffix(u.enqAt, m)
        /\ v.lease = u.lease /\ v.leaseExpires = now + f.leaseDur
    BY <1>5, <1>9, <2>1 DEF Renewed, Unit
  <2>4. ~RunOut(v)
    BY <2>2, <2>3 DEF RunOut
  <2> HIDE DEF h
  <2>5. /\ Holder' = [Holder EXCEPT ![h.key] = v.lease]
        /\ Expired' = IF RunOut(v) THEN Expired \cup {h.key} ELSE Expired \ {h.key}
    BY <1>t, <1>1, <1>2, OneUnit
  <2>6. Holder' = Holder /\ Expired' = Expired \ {h.key}
    BY <1>2, <2>3, <2>4, <2>5 DEF Holder, u
  <2>7. Dropped(h, m)
    BY <1>1, <1>2, <1>3, <2>3, DropStep DEF u
  <2>8. Gate(rest, HeadsAged(u))
    BY <1>5, <1>9
  <2> QED
    BY <1>t, <1>2, <1>3, <1>6, <1>7, <2>6, <2>7, <2>8, ContractAck
<1> QED
  BY <1>8, <1>9

\* Release.
LEMMA ReleaseStep ==
  ASSUME StateInv, NEW c \in handles, Release(c)
  PROVE  Contract!Next
<1> DEFINE u == units[c.key]
           h == [key |-> c.key, lease |-> c.lease]
           v == Freed(u)
<1>1. /\ Held(c) /\ units' = [units EXCEPT ![c.key] = v] /\ now' = now
      /\ UNCHANGED <<dlq, handles, arrived>>
  BY DEF Release
<1>2. h \in Handed /\ h.key = c.key /\ c.key \in Keys /\ Holder[h.key] = h.lease
  BY <1>1, HeldHandle
<1>t. units \in [Keys -> Unit] /\ u \in Unit
  BY <1>2, Facts
<1>3. /\ v.tasks = u.tasks /\ v.enqAt = u.enqAt /\ v.claimedBy = None /\ v.lease = None
  <2> HIDE DEF u
  <2> QED
    BY <1>t DEF Freed, Unit
<1> HIDE DEF v, h
<1>4. Given(h)
  BY <1>1, <1>2, <1>3, GiveStep
<1>5. /\ Queue' = [Queue EXCEPT ![c.key] = v.tasks]
      /\ Ages' = [Ages EXCEPT ![c.key] = HeadsAged(v)]
  BY <1>t, <1>1, <1>2, OneUnit
<1>6. HeadsAged(v) = HeadsAged(u)
  BY <1>3 DEF HeadsAged
<1>7. Queue' = Queue /\ Ages' = Ages
  BY <1>3, <1>5, <1>6 DEF Queue, Ages
<1>8. UNCHANGED <<arrived, Handed, Dead>>
  BY <1>1 DEF Handed, Dead
<1> QED
  BY <1>2, <1>4, <1>7, <1>8, ContractRelease

\* Heartbeat.
LEMMA HeartbeatStep ==
  ASSUME StateInv, NEW c \in handles, NEW d \in LeaseDurs, Heartbeat(c, d)
  PROVE  Contract!Next
<1> DEFINE u == units[c.key]
           h == [key |-> c.key, lease |-> c.lease]
           v == [u EXCEPT !.leaseExpires = now + d]
<1>1. /\ Held(c) /\ units' = [units EXCEPT ![c.key] = v] /\ now' = now
      /\ UNCHANGED <<dlq, handles, arrived>>
  BY DEF Heartbeat
<1>2. h \in Handed /\ h.key = c.key /\ c.key \in Keys /\ Holder[h.key] = h.lease
  BY <1>1, HeldHandle
<1>t. units \in [Keys -> Unit] /\ u \in Unit /\ now \in Nat /\ d \in Nat
  BY <1>2, Facts, InputsAssumption
<1>3. /\ v.tasks = u.tasks /\ v.enqAt = u.enqAt /\ v.lease = u.lease
      /\ v.leaseExpires = now + d
  <2> HIDE DEF u
  <2> QED
    BY <1>t DEF Unit
<1> HIDE DEF v, h
<1>4. /\ Queue' = [Queue EXCEPT ![c.key] = v.tasks]
      /\ Ages' = [Ages EXCEPT ![c.key] = HeadsAged(v)]
      /\ Holder' = [Holder EXCEPT ![c.key] = v.lease]
      /\ Expired' = IF RunOut(v) THEN Expired \cup {c.key} ELSE Expired \ {c.key}
  BY <1>t, <1>1, <1>2, OneUnit
<1>5. HeadsAged(v) = HeadsAged(u)
  BY <1>3 DEF HeadsAged
<1>6. ~RunOut(v)
  <2>1. ~(now > now + d)
    BY <1>t
  <2> QED
    BY <1>3, <2>1 DEF RunOut
<1>7. Queue' = Queue /\ Ages' = Ages /\ Holder' = Holder
  BY <1>3, <1>4, <1>5 DEF Queue, Ages, Holder
<1>8. UNCHANGED <<arrived, Handed, Dead>>
  BY <1>1 DEF Handed, Dead
<1> QED
  BY <1>2, <1>4, <1>6, <1>7, <1>8, ContractHeartbeat

\* Fail: a release, or a dead letter when the head is poison.
LEMMA FailStep ==
  ASSUME StateInv, NEW c \in handles, NEW s \in Seqs, Fail(c, s)
  PROVE  Contract!Next
<1> DEFINE u == units[c.key]
           h == [key |-> c.key, lease |-> c.lease]
           v == FailUnit(u, s)
           rest == Suffix(u.tasks, 1)
           f == Recompute(DropHead(u, 1))
           more == [u EXCEPT !.attempts = u.attempts + 1]
<1>1. /\ Held(c) /\ units' = [units EXCEPT ![c.key] = v] /\ now' = now
      /\ dlq' = IF Poison(u, s) THEN Append(dlq, [key |-> c.key, task |-> u.tasks[1]]) ELSE dlq
      /\ UNCHANGED <<handles, arrived>>
  BY DEF Fail
<1>2. /\ h \in Handed /\ h.key = c.key /\ c.key \in Keys /\ Holder[h.key] = h.lease
      /\ u.tasks # <<>>
  BY <1>1, HeldHandle, HeldHasWork
<1>t. /\ units \in [Keys -> Unit] /\ now \in Nat /\ arrived[c.key] \in Nat
      /\ u \in Unit /\ UnitInv(u, arrived[c.key], now)
  BY <1>2, Facts
<1>d. dlq \in Seq([key : Keys, task : Task])
  BY DEF StateInv, TypeOK
<1>q. Queue[h.key] = u.tasks /\ Ages[h.key] = HeadsAged(u)
  BY <1>2 DEF Queue, Ages
<1>h. UNCHANGED <<arrived, Handed>>
  BY <1>1 DEF Handed
<1> HIDE DEF u, h
<1>3. 1 \in 0 .. Len(u.tasks)
  BY <1>t, <1>2, UnitFacts
<1>4. more \in Unit /\ more.tasks = u.tasks /\ more.enqAt = u.enqAt
  <2>1. u.attempts + 1 \in Nat
    BY <1>t DEF Unit
  <2> QED
    BY <1>t, <2>1 DEF Unit
<1>5. v = IF ~Poison(u, s) THEN Freed(more)
          ELSE IF rest = <<>> THEN NoUnit ELSE Freed(f)
  <2>1. DropHead(u, 1).tasks = rest
    BY <1>t, <1>3, DropInv
  <2> QED
    BY <2>1 DEF FailUnit
<1>6. rest # <<>> => f \in Unit /\ f.tasks = rest /\ f.enqAt = Suffix(u.enqAt, 1)
  BY <1>t, <1>3, RecomputedGate
<1> HIDE DEF more, f, v
<1>7. v.claimedBy = None /\ v.lease = None
  BY <1>4, <1>5, <1>6, FreedFrees DEF NoUnit
<1>8. Given(h)
  BY <1>1, <1>2, <1>7, GiveStep
<1>9. CASE ~Poison(u, s)
  <2>1. v.tasks = u.tasks /\ v.enqAt = u.enqAt
    BY <1>4, <1>5, <1>9 DEF Freed, Unit
  <2>2. /\ Queue' = [Queue EXCEPT ![h.key] = v.tasks]
        /\ Ages' = [Ages EXCEPT ![h.key] = HeadsAged(v)]
    BY <1>t, <1>1, <1>2, OneUnit
  <2>3. HeadsAged(v) = HeadsAged(u)
    BY <2>1 DEF HeadsAged
  <2>4. Queue' = Queue /\ Ages' = Ages
    BY <1>2, <1>q, <2>1, <2>2, <2>3 DEF Queue, Ages
  <2>5. Dead' = Dead
    BY <1>1, <1>9 DEF Dead
  <2> QED
    BY <1>2, <1>h, <1>8, <2>4, <2>5, ContractRelease
<1>10. CASE Poison(u, s)
  <2>1. \/ rest = <<>> /\ v = NoUnit
        \/ v.tasks = rest /\ v.enqAt = Suffix(u.enqAt, 1)
    BY <1>5, <1>6, <1>10 DEF Freed, Unit
  <2>2. Dropped(h, 1)
    BY <1>1, <1>2, <1>3, <2>1, DropStep DEF u
  <2>3. Dead' = Dead \cup {[key |-> h.key, task |-> u.tasks[1]]}
    <3> DEFINE e == [key |-> c.key, task |-> u.tasks[1]]
    <3>1. u.tasks[1] \in Task
      BY <1>t, <1>3, UnitFacts
    <3>2. dlq' = Append(dlq, e) /\ e \in [key : Keys, task : Task]
      BY <1>1, <1>2, <1>10, <3>1
    <3> HIDE DEF e
    <3>3. Len(dlq) \in Nat /\ DOMAIN dlq = 1 .. Len(dlq)
      BY <1>d, LenProperties
    <3>4. /\ Len(dlq') = Len(dlq) + 1 /\ dlq' \in Seq([key : Keys, task : Task])
          /\ dlq'[Len(dlq) + 1] = e /\ \A i \in 1 .. Len(dlq) : dlq'[i] = dlq[i]
      BY <1>d, <3>2, AppendElements
    <3>5. DOMAIN dlq' = (1 .. Len(dlq)) \cup {Len(dlq) + 1}
      <4>1. DOMAIN dlq' = 1 .. Len(dlq) + 1
        BY <3>4, LenProperties
      <4> QED
        BY <3>3, <4>1
    <3>6. Dead' = Dead \cup {e}
      BY <3>3, <3>4, <3>5 DEF Dead
    <3> QED
      BY <1>2, <3>6 DEF e
  <2> QED
    BY <1>2, <1>q, <1>h, <1>8, <2>2, <2>3, ContractDeadLetter
<1> QED
  BY <1>9, <1>10

\* ReapExpired: what the instant passed in says has run out really has.
LEMMA ReapStep ==
  ASSUME StateInv, LeaseInv, NEW t \in 0 .. MaxNow, ReapExpired(t)
  PROVE  Contract!Next
<1> DEFINE S == {k \in Keys : units[k].claimedBy # None /\ t > units[k].leaseExpires}
<1>t. /\ units \in [Keys -> Unit] /\ now \in Nat /\ t \in Nat /\ t <= now
      /\ \A k \in Keys : units[k] \in Unit
  BY Facts, BoundsAssumption DEF ReapExpired
<1>1. /\ units' = [k \in Keys |-> ReapUnit(units[k], t)] /\ now' = now
      /\ UNCHANGED <<dlq, handles, arrived>>
  BY DEF ReapExpired
<1>2. ASSUME NEW u \in Unit
      PROVE  /\ ReapUnit(u, t).tasks = u.tasks /\ ReapUnit(u, t).enqAt = u.enqAt
             /\ ReapUnit(u, t).leaseExpires = u.leaseExpires
             /\ (u.claimedBy # None /\ t > u.leaseExpires) =>
                   ReapUnit(u, t).claimedBy = None /\ ReapUnit(u, t).lease = None
             /\ ~(u.claimedBy # None /\ t > u.leaseExpires) =>
                   /\ ReapUnit(u, t).claimedBy = u.claimedBy
                   /\ ReapUnit(u, t).lease = u.lease
  <2> DEFINE v == IF u.claimedBy # None /\ t > u.leaseExpires THEN Freed(u) ELSE u
             w == [v EXCEPT !.eligible = TRUE]
  <2>1. /\ v \in Unit /\ v.tasks = u.tasks /\ v.enqAt = u.enqAt
        /\ v.leaseExpires = u.leaseExpires
        /\ (u.claimedBy # None /\ t > u.leaseExpires) => v.claimedBy = None /\ v.lease = None
        /\ ~(u.claimedBy # None /\ t > u.leaseExpires) =>
              v.claimedBy = u.claimedBy /\ v.lease = u.lease
    BY DEF Freed, Unit
  <2>2. ReapUnit(u, t) = v \/ ReapUnit(u, t) = w
    BY DEF ReapUnit
  <2> HIDE DEF v
  <2>3. /\ w.tasks = v.tasks /\ w.enqAt = v.enqAt /\ w.leaseExpires = v.leaseExpires
        /\ w.claimedBy = v.claimedBy /\ w.lease = v.lease
    BY <2>1 DEF Unit
  <2> HIDE DEF w
  <2>4. CASE ReapUnit(u, t) = v
    BY <2>1, <2>4
  <2>5. CASE ReapUnit(u, t) = w
    BY <2>1, <2>3, <2>5
  <2> QED
    BY <2>2, <2>4, <2>5
<1>3. \A k \in Keys :
        /\ units'[k].tasks = units[k].tasks /\ units'[k].enqAt = units[k].enqAt
        /\ units'[k].leaseExpires = units[k].leaseExpires
        /\ k \in S => units'[k].claimedBy = None /\ units'[k].lease = None
        /\ k \notin S => /\ units'[k].claimedBy = units[k].claimedBy
                        /\ units'[k].lease = units[k].lease
  BY <1>t, <1>1, <1>2
<1>4. S \in SUBSET Keys /\ S \subseteq Expired
  <2>1. ASSUME NEW k \in S PROVE RunOut(units[k])
    <3>1. units[k].leaseExpires \in Nat
      BY <1>t DEF Unit
    <3> QED
      BY <1>t, <3>1 DEF RunOut
  <2> QED
    BY <2>1 DEF Expired
<1> HIDE DEF S
<1>5. Queue' = Queue
  BY <1>3 DEF Queue
<1>6. Holder' = [k \in Keys |-> IF k \in S THEN None ELSE Holder[k]]
  BY <1>3 DEF Holder
<1>7. Ages' = Ages
  <2>1. Ages' = [k \in Keys |-> HeadsAged(units'[k])]
    BY <1>1 DEF Ages, HeadsAged
  <2>2. \A k \in Keys : HeadsAged(units'[k]) = HeadsAged(units[k])
    BY <1>3 DEF HeadsAged
  <2> QED
    BY <2>1, <2>2 DEF Ages
<1>8. Expired' = Expired \ S
  <2>1. Expired' = {k \in Keys : RunOut(units'[k])}
    BY <1>1 DEF Expired, RunOut
  <2>2. \A k \in Keys : RunOut(units'[k]) <=> RunOut(units[k]) /\ k \notin S
    BY <1>3 DEF RunOut
  <2> QED
    BY <2>1, <2>2 DEF Expired
<1>9. UNCHANGED <<arrived, Handed, Dead>>
  BY <1>1 DEF Handed, Dead
<1> QED
  BY <1>4, <1>5, <1>6, <1>7, <1>8, <1>9, ContractReclaim

\* The clock moves on.
LEMMA TickStep ==
  ASSUME StateInv, LeaseInv, Tick
  PROVE  Contract!Next
<1>t. /\ now \in Nat /\ MaxTasks \in Nat /\ arrived \in [Keys -> 0 .. MaxTasks]
      /\ \A k \in Keys : /\ arrived[k] \in Nat /\ units[k] \in Unit
                         /\ UnitInv(units[k], arrived[k], now)
                         /\ Len(units[k].tasks) \in 0 .. MaxTasks
  BY Facts
<1>1. now' = now + 1 /\ units' = units /\ UNCHANGED <<dlq, handles, arrived>>
  BY DEF Tick
<1>2. UNCHANGED <<Queue, arrived, Holder, Handed, Dead>>
  BY <1>1 DEF Queue, Holder, Handed, Dead
<1>3. Ages' = [k \in Keys |-> HeadsAged(units[k])']
  BY DEF Ages
<1>4. ASSUME NEW k \in Keys
      PROVE  /\ HeadsAged(units[k]) \subseteq HeadsAged(units[k])'
             /\ HeadsAged(units[k])' \subseteq Payloads(units[k].tasks)
             /\ Payloads(units[k].tasks) \subseteq 1 .. MaxTasks
  <2> DEFINE u == units[k]
             len == Len(u.tasks)
  <2>1. /\ u.tasks \in Seq(Task) /\ len \in Nat /\ DOMAIN u.tasks = 1 .. len
        /\ \A i \in 1 .. len : u.enqAt[i] \in Nat
    BY <1>t, UnitFacts, LenProperties
  <2>2. \A i \in 1 .. len : u.tasks[i].payload = arrived[k] - len + i /\ len <= arrived[k]
    <3>1. /\ len <= u.nextSeq /\ u.nextSeq <= arrived[k] /\ u.nextSeq \in Nat
          /\ \A i \in 1 .. len : u.tasks[i].payload = arrived[k] - len + i
      BY <1>t DEF UnitInv, UnitFifo, Unit
    <3>2. len <= arrived[k]
      BY <1>t, <2>1, <3>1
    <3> QED
      BY <3>1, <3>2
  <2>3. u' = u
    BY <1>1
  <2> HIDE DEF u, len
  <2>4. HeadsAged(units[k])' =
          {u.tasks[i].payload : i \in {j \in 1 .. len : now + 1 >= u.enqAt[j] + MaxWait}}
    BY <1>1, <2>1 DEF HeadsAged, u
  <2>5. HeadsAged(units[k]) =
          {u.tasks[i].payload : i \in {j \in 1 .. len : now >= u.enqAt[j] + MaxWait}}
    BY <2>1 DEF HeadsAged, u
  <2>6. Payloads(units[k].tasks) = {u.tasks[i].payload : i \in 1 .. len}
    BY <2>1 DEF Payloads, u
  <2>7. \A j \in 1 .. len : now >= u.enqAt[j] + MaxWait => now + 1 >= u.enqAt[j] + MaxWait
    BY <1>t, <2>1, OptionsAssumption
  <2>8. \A i \in 1 .. len : u.tasks[i].payload \in 1 .. MaxTasks
    <3> SUFFICES ASSUME NEW i \in 1 .. len PROVE u.tasks[i].payload \in 1 .. MaxTasks
      OBVIOUS
    <3>1. u.tasks[i].payload = arrived[k] - len + i /\ len <= arrived[k]
      BY <2>2
    <3>2. arrived[k] \in 0 .. MaxTasks
      BY <1>t
    <3> QED
      BY <1>t, <2>1, <3>1, <3>2
  <2> QED
    BY <2>4, <2>5, <2>6, <2>7, <2>8
<1>5. Ages' \in [Keys -> SUBSET (1 .. MaxTasks)]
  BY <1>3, <1>4
<1>6. \A k \in Keys : Ages[k] \subseteq Ages'[k] /\ Ages'[k] \subseteq Payloads(Queue[k])
  BY <1>3, <1>4 DEF Ages, Queue
<1>7. Expired' = {k \in Keys : units[k].claimedBy # None /\ now + 1 > units[k].leaseExpires}
  BY <1>1 DEF Expired, RunOut
<1>8. Expired' \in SUBSET {k \in Keys : Holder[k] # None}
  BY <1>7 DEF Holder, LeaseInv
<1>9. Expired \subseteq Expired'
  <2>1. \A k \in Keys : units[k].leaseExpires \in Nat
    BY <1>t DEF Unit
  <2>2. \A k \in Keys : now > units[k].leaseExpires => now + 1 > units[k].leaseExpires
    BY <1>t, <2>1
  <2> QED
    BY <1>7, <2>2 DEF Expired, RunOut
<1> QED
  BY <1>2, <1>5, <1>6, <1>8, <1>9, ContractElapse

-----------------------------------------------------------------------------
(* The refinement. *)

\* The empty map is the contract's initial state.
LEMMA ContractInit ==
  ASSUME Init
  PROVE  Contract!Init
<1>1. \A k \in Keys : units[k] = NoUnit
  BY DEF Init
<1>2. \A k \in Keys : units[k].tasks = <<>> /\ units[k].lease = None /\ units[k].claimedBy = None
  BY <1>1 DEF NoUnit
<1>3. \A k \in Keys : HeadsAged(units[k]) = {}
  BY <1>2 DEF HeadsAged
<1>4. {dlq[i] : i \in DOMAIN dlq} = {}
  BY DEF Init
<1> QED
  BY <1>2, <1>3, <1>4 DEF Init, Contract!Init

\* Every step of the driver is a step of the contract, or changes nothing.
LEMMA ContractStep ==
  ASSUME StateInv, LeaseInv, [Next]_vars
  PROVE  [Contract!Next]_Contract!vars
<1>1. CASE UNCHANGED vars
  <2>1. UNCHANGED <<Queue, arrived, Ages, Holder, Expired, Handed, Dead>>
    BY <1>1 DEF vars, Queue, Ages, HeadsAged, Holder, Expired, RunOut, Handed, Dead
  <2> QED
    BY <2>1 DEF Contract!vars, Queue, Ages, HeadsAged, Holder, Expired, RunOut, Handed, Dead
<1>2. CASE Next
  <2>1. Contract!Next
    BY <1>2, EnqueueStep, ClaimStep, AckStep, ReleaseStep, HeartbeatStep, FailStep,
       ReapStep, TickStep DEF Next, NextButFail
  <2> QED
    BY <2>1
<1> QED
  BY <1>1, <1>2

(***************************************************************************)
(* The in-memory driver, the oracle the other drivers are compared with,   *)
(* implements the contract of queue.Backend for every set of keys and      *)
(* workers, every option and every bound: each method, through whatever    *)
(* handle and at whatever moment it is called, does what QueueContract     *)
(* allows at that point and nothing else.                                  *)
(***************************************************************************)
THEOREM MemoryImplements == Spec => ImplementsContract
<1>1. Init => Contract!Init
  BY ContractInit
<1>2. StateInv /\ LeaseInv /\ [Next]_vars => [Contract!Next]_Contract!vars
  BY ContractStep
<1> QED
  BY <1>1, <1>2, LeaseInvariant, PTL DEF Spec, ImplementsContract, Contract!Spec
=============================================================================
