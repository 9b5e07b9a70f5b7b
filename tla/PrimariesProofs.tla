-------------------------- MODULE PrimariesProofs ---------------------------
(***************************************************************************)
(* Proofs about the routing of units over any number of primaries.         *)
(***************************************************************************)
EXTENDS Primaries, FiniteSetTheorems, SequenceTheorems, WellFoundedInduction, TLAPS

Gates == Nat \ {0}

\* A gate a unit of workspace ws may have.
GateFor(ws, g) == g \in {None, TenantT[ws]} \/ (g = DefaultT /\ ws \in missed)

RowType ==
  [gate : Gates \cup {None}, eligible : BOOLEAN, lease : Workers \cup {None}, old : BOOLEAN, lost : BOOLEAN]

CallType == [key : Keys, home : AllPrimaries, gate : Gates \cup {None}]

Types ==
  /\ up \subseteq AllPrimaries /\ rr \in AllPrimaries
  /\ line \in [AllPrimaries -> Seq(Keys)]
  /\ row \in [AllPrimaries -> [Keys -> RowType]]
  /\ reaper \in AllPrimaries /\ wiper \in AllPrimaries \cup {None}
  /\ worker \in [Workers -> [doing : {"idle", "claim", "hold"}, start : AllPrimaries,
                             tried : Nat, unit : Keys \cup {None}]]
  /\ \A w \in Workers : worker[w].doing = "hold" => worker[w].unit \in Keys
  /\ producer \in [Producers -> CallType \cup {None}]
  /\ cache \in [Workspaces -> Gates \cup {None}]

\* What p keeps about k fits with what is pending, and is kept nowhere else.
RowInv(p, k) ==
  LET r == row[p][k]
  IN  /\ r.eligible \/ r.old => Pending(p, k) # {}
      /\ Pending(p, k) # {} => r.gate # None
      /\ r.lease # None => r.eligible
      /\ r.lost => r.lease # None
      /\ r.gate # None => p = ShardFor(k)
      /\ GateFor(WorkspaceOf[k], r.gate)

CallInv(q) ==
  producer[q] # None => /\ producer[q].home = ShardFor(producer[q].key)
                        /\ GateFor(WorkspaceOf[producer[q].key], producer[q].gate)

HomeInv ==
  /\ Types
  /\ \A p \in AllPrimaries, k \in Keys : RowInv(p, k)
  /\ \A q \in Producers : CallInv(q)
  /\ \A ws \in Workspaces : GateFor(ws, cache[ws])

-----------------------------------------------------------------------------

\* Every key has a primary and a workspace.
LEMMA HomeInRange ==
  ASSUME NEW k \in Keys
  PROVE  ShardFor(k) \in AllPrimaries /\ WorkspaceOf[k] \in Workspaces
<1>1. WorkspaceOf[k] \in Workspaces /\ Hash[WorkspaceOf[k]] \in Nat /\ N \in Nat \ {0}
  BY RoutingAssumption
<1> QED
  BY <1>1 DEF ShardFor, AllPrimaries

\* The smallest of a set of numbers.
LEMMA Least ==
  ASSUME NEW T \in SUBSET Nat, T # {}
  PROVE  \E x \in T : \A y \in T : x <= y
<1>1. PICK x \in T : \A y \in T : <<y, x>> \notin OpToRel(<, Nat)
  BY NatLessThanWellFounded, WFMin
<1>2. ASSUME NEW y \in T PROVE x <= y
  <2>1. <<y, x>> \in Nat \X Nat /\ ~(<<y, x>>[1] < <<y, x>>[2])
    BY <1>1 DEF OpToRel
  <2> QED
    BY <2>1
<1> QED
  BY <1>2

\* The head of a unit with pending tasks is one of them.
LEMMA HeadPending ==
  ASSUME NEW p \in AllPrimaries, NEW k \in Keys, line[p] \in Seq(Keys), Pending(p, k) # {}
  PROVE  HeadAt(p, k) \in Pending(p, k)
<1>1. DOMAIN line[p] = 1 .. Len(line[p]) /\ Len(line[p]) \in Nat
  BY LenProperties
<1>2. Pending(p, k) \in SUBSET Nat
  BY <1>1 DEF Pending
<1>3. PICK i \in Pending(p, k) : \A j \in Pending(p, k) : i <= j
  BY <1>2, Least
<1>4. i \in DOMAIN line[p] /\ line[p][i] = k /\ \A j \in 1 .. (i - 1) : line[p][j] # k
  BY <1>1, <1>3 DEF Pending
<1> QED
  BY <1>4 DEF HeadAt, Pending

\* Removing one element of a sequence.
LEMMA RemoveProperties ==
  ASSUME NEW S, NEW s \in Seq(S), NEW i \in 1 .. Len(s)
  PROVE  /\ RemoveAt(s, i) \in Seq(S)
         /\ \A j \in 1 .. Len(s) : j # i => \E m \in DOMAIN RemoveAt(s, i) : RemoveAt(s, i)[m] = s[j]
         /\ \A m \in DOMAIN RemoveAt(s, i) : \E j \in 1 .. Len(s) : RemoveAt(s, i)[m] = s[j]
<1> DEFINE a == SubSeq(s, 1, i - 1)
           b == SubSeq(s, i + 1, Len(s))
<1>1. Len(s) \in Nat /\ i \in Nat /\ \A j \in 1 .. Len(s) : s[j] \in S
  BY LenProperties, ElementOfSeq
<1>2. a \in Seq(S) /\ Len(a) = i - 1 /\ \A j \in 1 .. (i - 1) : a[j] = s[j]
  BY <1>1, SubSeqProperties
<1>3. b \in Seq(S) /\ Len(b) = Len(s) - i /\ \A j \in 1 .. (Len(s) - i) : b[j] = s[i + j]
  BY <1>1, SubSeqProperties
<1> HIDE DEF a, b
<1>4. /\ a \o b \in Seq(S) /\ Len(a \o b) = Len(s) - 1
      /\ \A j \in 1 .. (Len(s) - 1) : (a \o b)[j] = IF j <= i - 1 THEN a[j] ELSE b[j - (i - 1)]
  BY <1>1, <1>2, <1>3, ConcatProperties
<1>5. DOMAIN (a \o b) = 1 .. (Len(s) - 1)
  BY <1>4, LenProperties
<1>6. ASSUME NEW j \in 1 .. Len(s), j # i PROVE \E m \in DOMAIN (a \o b) : (a \o b)[m] = s[j]
  <2>1. CASE j < i
    <3>1. j \in DOMAIN (a \o b) /\ (a \o b)[j] = s[j]
      BY <1>1, <1>2, <1>4, <1>5, <2>1
    <3> QED
      BY <3>1
  <2>2. CASE j > i
    <3>0. j - 1 \in 1 .. (Len(s) - 1) /\ ~(j - 1 <= i - 1) /\ (j - 1) - (i - 1) = j - i
      BY <1>1, <2>2
    <3>1. j - 1 \in DOMAIN (a \o b) /\ (a \o b)[j - 1] = b[j - i]
      BY <1>4, <1>5, <3>0
    <3>2. b[j - i] = s[j]
      BY <1>1, <1>3, <2>2
    <3> QED
      BY <3>1, <3>2
  <2> QED
    BY <1>1, <1>6, <2>1, <2>2
<1>7. ASSUME NEW m \in DOMAIN (a \o b) PROVE \E j \in 1 .. Len(s) : (a \o b)[m] = s[j]
  <2>1. CASE m <= i - 1
    <3>1. m \in 1 .. Len(s) /\ (a \o b)[m] = s[m]
      BY <1>1, <1>2, <1>4, <1>5, <2>1
    <3> QED
      BY <3>1
  <2>2. CASE m > i - 1
    <3>1. m + 1 \in 1 .. Len(s) /\ (a \o b)[m] = b[m - (i - 1)] /\ m - (i - 1) \in 1 .. (Len(s) - i)
      BY <1>1, <1>4, <1>5, <2>2
    <3>2. b[m - (i - 1)] = s[m + 1]
      BY <1>1, <1>3, <3>1
    <3> QED
      BY <3>1, <3>2
  <2> QED
    BY <1>1, <1>5, <2>1, <2>2
<1> QED
  BY <1>4, <1>6, <1>7 DEF RemoveAt, a, b

-----------------------------------------------------------------------------

\* At the start no primary has anything.
LEMMA InitHomeInv == Init => HomeInv
<1> SUFFICES ASSUME Init PROVE HomeInv
  OBVIOUS
<1>1. Types
  <2>1. 0 \in AllPrimaries
    BY RoutingAssumption DEF AllPrimaries
  <2>2. <<>> \in Seq(Keys)
    BY EmptySeq
  <2> QED
    BY <2>1, <2>2 DEF Init, Types, RowType, NoRow, Idle, CallType
<1>2. \A p \in AllPrimaries, k \in Keys : RowInv(p, k)
  BY EmptySeq DEF Init, RowInv, NoRow, Pending, GateFor
<1>3. (\A q \in Producers : CallInv(q)) /\ (\A ws \in Workspaces : GateFor(ws, cache[ws]))
  BY DEF Init, CallInv, GateFor
<1> QED
  BY <1>1, <1>2, <1>3 DEF HomeInv

\* One row is rewritten, the others stay.
LEMMA RowUpdate ==
  ASSUME NEW f \in [AllPrimaries -> [Keys -> RowType]], NEW p \in AllPrimaries, NEW k \in Keys,
         NEW r \in RowType
  PROVE  LET g == [f EXCEPT ![p] = [f[p] EXCEPT ![k] = r]]
         IN  /\ g \in [AllPrimaries -> [Keys -> RowType]]
             /\ g[p][k] = r
             /\ \A a \in AllPrimaries, b \in Keys : a # p \/ b # k => g[a][b] = f[a][b]
  OBVIOUS

\* A row nobody writes, of a unit nobody queues for or drains, stays right.
LEMMA RowKept ==
  ASSUME NEW p \in AllPrimaries, NEW k \in Keys, RowInv(p, k), row'[p][k] = row[p][k],
         Pending(p, k)' # {} <=> Pending(p, k) # {}, missed \subseteq missed'
  PROVE  RowInv(p, k)'
  BY DEF RowInv, GateFor

\* Steps that leave the units alone: calls in progress, cursors, outages.
LEMMA CallSteps ==
  ASSUME HomeInv, UNCHANGED <<line, row>>, missed \subseteq missed', Types',
         \A q \in Producers : CallInv(q)', \A ws \in Workspaces : GateFor(ws, cache[ws])'
  PROVE  HomeInv'
<1>1. \A p \in AllPrimaries, k \in Keys : RowInv(p, k)'
  BY RowKept DEF HomeInv, Pending
<1> QED
  BY <1>1 DEF HomeInv

\* Enqueue's lookups route and gate by the key's own workspace.
LEMMA NextProducer ==
  ASSUME HomeInv, NEW q \in Producers,
         (\E k \in Keys : StartEnqueue(q, k)) \/ Lookup(q) \/ LookupFails(q)
  PROVE  HomeInv'
<1>0. Types /\ CallInv(q)
  BY DEF HomeInv
<1>1. ASSUME NEW k \in Keys, StartEnqueue(q, k) PROVE HomeInv'
  <2> DEFINE c == [key |-> k, home |-> ShardFor(k), gate |-> cache[WorkspaceOf[k]]]
  <2>1. /\ producer' = [producer EXCEPT ![q] = c]
        /\ UNCHANGED <<up, line, row, rr, worker, reaper, wiper, cache, missed>>
    BY <1>1 DEF StartEnqueue
  <2>2. c \in CallType /\ c.home = ShardFor(c.key) /\ GateFor(WorkspaceOf[c.key], c.gate)
    BY <1>0, HomeInRange DEF CallType, Types, HomeInv
  <2> HIDE DEF c
  <2>3. Types'
    BY <1>0, <2>1, <2>2 DEF Types
  <2>4. \A x \in Producers : CallInv(x)'
    BY <1>0, <2>1, <2>2 DEF HomeInv, Types, CallInv, GateFor
  <2>5. \A ws \in Workspaces : GateFor(ws, cache[ws])'
    BY <2>1 DEF HomeInv, GateFor
  <2> QED
    BY <2>1, <2>3, <2>4, <2>5, CallSteps
<1>2. ASSUME NEW g \in Gates, producer[q] # None, missed \subseteq missed',
             g = TenantT[WorkspaceOf[producer[q].key]]
               \/ (g = DefaultT /\ WorkspaceOf[producer[q].key] \in missed'),
             cache' = [cache EXCEPT ![WorkspaceOf[producer[q].key]] = g],
             producer' = [producer EXCEPT ![q] = [producer[q] EXCEPT !.gate = g]],
             UNCHANGED <<up, line, row, rr, worker, reaper, wiper>>
      PROVE  HomeInv'
  <2>1. producer[q] \in CallType
    BY <1>0, <1>2 DEF Types
  <2>2. producer[q].key \in Keys /\ WorkspaceOf[producer[q].key] \in Workspaces
    BY <2>1, HomeInRange DEF CallType
  <2>3. [producer[q] EXCEPT !.gate = g] \in CallType
    BY <2>1 DEF CallType
  <2>4. Types'
    BY <1>0, <1>2, <2>2, <2>3 DEF Types
  <2>5. ASSUME NEW x \in Producers PROVE CallInv(x)'
    <3>1. CASE x = q
      <4>1. producer'[q] = [producer[q] EXCEPT !.gate = g]
        BY <1>0, <1>2 DEF Types
      <4>2. producer'[q].home = ShardFor(producer[q].key) /\ producer'[q].key = producer[q].key /\ producer'[q].gate = g
        BY <1>0, <1>2, <2>1, <4>1 DEF CallInv, CallType
      <4> QED
        BY <1>2, <3>1, <4>2 DEF CallInv, GateFor
    <3>2. CASE x # q
      BY <1>0, <1>2, <3>2 DEF HomeInv, Types, CallInv, GateFor
    <3> QED
      BY <3>1, <3>2
  <2>6. ASSUME NEW ws \in Workspaces PROVE GateFor(ws, cache[ws])'
    <3>1. CASE ws = WorkspaceOf[producer[q].key]
      BY <1>0, <1>2, <3>1 DEF Types, GateFor
    <3>2. CASE ws # WorkspaceOf[producer[q].key]
      BY <1>0, <1>2, <3>2 DEF HomeInv, Types, GateFor
    <3> QED
      BY <3>1, <3>2
  <2> QED
    BY <1>2, <2>4, <2>5, <2>6, CallSteps
<1>3. ASSUME Lookup(q) PROVE HomeInv'
  <2>1. producer[q] # None /\ WorkspaceOf[producer[q].key] \in Workspaces
    BY <1>0, <1>3, HomeInRange DEF Lookup, Types, CallType
  <2>2. TenantT[WorkspaceOf[producer[q].key]] \in Gates
    BY <2>1, GateAssumption DEF Gates
  <2> QED
    BY <1>2, <1>3, <2>1, <2>2 DEF Lookup, Resolved
<1>4. ASSUME LookupFails(q) PROVE HomeInv'
  <2>1. DefaultT \in Gates
    BY GateAssumption DEF Gates
  <2> QED
    BY <1>2, <1>4, <2>1 DEF LookupFails
<1> QED
  BY <1>1, <1>3, <1>4

\* Steps that rewrite one row of one unit.
LEMMA OneRow ==
  ASSUME HomeInv, NEW p \in AllPrimaries, NEW k \in Keys, NEW r \in RowType,
         row' = [row EXCEPT ![p] = [row[p] EXCEPT ![k] = r]],
         line' \in [AllPrimaries -> Seq(Keys)],
         \A a \in AllPrimaries \ {p} : line'[a] = line[a],
         \A b \in Keys \ {k} : Pending(p, b)' # {} <=> Pending(p, b) # {},
         UNCHANGED <<up, rr, reaper, wiper, cache, missed>>,
         worker' \in [Workers -> [doing : {"idle", "claim", "hold"}, start : AllPrimaries,
                                  tried : Nat, unit : Keys \cup {None}]],
         \A w \in Workers : worker'[w].doing = "hold" => worker'[w].unit \in Keys,
         \A q \in Producers : producer'[q] = producer[q] \/ producer'[q] = None,
         DOMAIN producer' = Producers, producer' = [q \in Producers |-> producer'[q]],
         /\ r.eligible \/ r.old => Pending(p, k)' # {}
         /\ Pending(p, k)' # {} => r.gate # None
         /\ r.lease # None => r.eligible
         /\ r.lost => r.lease # None
         /\ r.gate # None => p = ShardFor(k)
         /\ GateFor(WorkspaceOf[k], r.gate)
  PROVE  HomeInv'
<1>0. Types
  BY DEF HomeInv
<1>1. /\ row' \in [AllPrimaries -> [Keys -> RowType]] /\ row'[p][k] = r
      /\ \A a \in AllPrimaries, b \in Keys : a # p \/ b # k => row'[a][b] = row[a][b]
  BY <1>0, RowUpdate DEF Types
<1>2. Types'
  <2>1. producer' \in [Producers -> CallType \cup {None}]
    <3>1. \A q \in Producers : producer'[q] \in CallType \cup {None}
      BY <1>0 DEF Types
    <3> QED
      BY <3>1
  <2> QED
    BY <1>0, <1>1, <2>1 DEF Types
<1>3. RowInv(p, k)'
  BY <1>1 DEF RowInv, GateFor
<1>4. ASSUME NEW a \in AllPrimaries, NEW b \in Keys, a # p \/ b # k PROVE RowInv(a, b)'
  <2>1. Pending(a, b)' # {} <=> Pending(a, b) # {}
    <3>1. CASE a = p
      BY <1>4, <3>1
    <3>2. CASE a # p
      BY <3>2 DEF Pending
    <3> QED
      BY <3>1, <3>2
  <2>2. RowInv(a, b) /\ row'[a][b] = row[a][b] /\ missed \subseteq missed'
    BY <1>1, <1>4 DEF HomeInv
  <2> QED
    BY <2>1, <2>2, RowKept
<1>5. \A q \in Producers : CallInv(q)'
  BY DEF HomeInv, CallInv, GateFor
<1>6. \A ws \in Workspaces : GateFor(ws, cache[ws])'
  BY DEF HomeInv, GateFor
<1> QED
  BY <1>2, <1>3, <1>4, <1>5, <1>6 DEF HomeInv

\* The upsert goes where the key's hash says, under the gate that was looked up.
LEMMA NextInsert ==
  ASSUME HomeInv, NEW q \in Producers, Insert(q)
  PROVE  HomeInv'
<1>0. Types /\ CallInv(q)
  BY DEF HomeInv
<1>1. /\ producer[q] # None /\ producer[q].gate # None
      /\ producer' = [producer EXCEPT ![q] = None]
      /\ UNCHANGED <<up, rr, worker, reaper, wiper, cache, missed>>
  BY DEF Insert
<1>2. PICK p \in AllPrimaries, k \in Keys :
        /\ p = producer[q].home /\ k = producer[q].key /\ p = ShardFor(k)
        /\ GateFor(WorkspaceOf[k], producer[q].gate) /\ producer[q].gate \in Gates
  BY <1>0, <1>1 DEF Types, CallType, CallInv
<1> DEFINE gate == IF row[p][k].gate = None THEN producer[q].gate ELSE row[p][k].gate
           m == Cardinality(Pending(p, k))
           r == [row[p][k] EXCEPT !.gate = gate, !.eligible = row[p][k].eligible \/ m + 1 >= gate]
<1>3. RowInv(p, k) /\ row[p][k] \in RowType /\ line[p] \in Seq(Keys)
  BY <1>0, <1>2 DEF HomeInv, Types
<1>4. /\ worker' \in [Workers -> [doing : {"idle", "claim", "hold"}, start : AllPrimaries,
                                  tried : Nat, unit : Keys \cup {None}]]
      /\ \A w \in Workers : worker'[w].doing = "hold" => worker'[w].unit \in Keys
      /\ \A x \in Producers : producer'[x] = producer[x] \/ producer'[x] = None
      /\ DOMAIN producer' = Producers /\ producer' = [x \in Producers |-> producer'[x]]
      /\ missed \subseteq missed'
  BY <1>0, <1>1 DEF Types
<1>5. CASE UNCHANGED <<line, row>>
  <2>1. Types'
    BY <1>0, <1>1, <1>4, <1>5 DEF Types
  <2>2. \A x \in Producers : CallInv(x)'
    BY <1>1, <1>4 DEF HomeInv, CallInv, GateFor
  <2>3. \A ws \in Workspaces : GateFor(ws, cache[ws])'
    BY <1>1 DEF HomeInv, GateFor
  <2> QED
    BY <1>4, <1>5, <2>1, <2>2, <2>3, CallSteps
<1>6. CASE /\ line' = [line EXCEPT ![p] = Append(line[p], k)]
           /\ row' = [row EXCEPT ![p][k].gate = gate, ![p][k].eligible = row[p][k].eligible \/ m + 1 >= gate]
  <2>1. row' = [row EXCEPT ![p] = [row[p] EXCEPT ![k] = r]]
    BY ZenonT(60), <1>0, <1>2, <1>3, <1>6 DEF Types, RowType
  <2>2. gate \in Gates /\ gate # None /\ GateFor(WorkspaceOf[k], gate)
    BY <1>1, <1>2, <1>3 DEF RowType, RowInv
  <2>3. /\ r \in RowType /\ r.gate = gate /\ r.lease = row[p][k].lease /\ r.lost = row[p][k].lost
        /\ (row[p][k].eligible => r.eligible)
    BY <1>3, <2>2 DEF RowType
  <2>4. /\ line' \in [AllPrimaries -> Seq(Keys)] /\ line'[p] = Append(line[p], k)
        /\ \A a \in AllPrimaries \ {p} : line'[a] = line[a]
    <3>1. line \in [AllPrimaries -> Seq(Keys)] /\ p \in AllPrimaries /\ k \in Keys
      BY <1>0, <1>2 DEF Types
    <3>2. Append(line[p], k) \in Seq(Keys)
      BY <3>1
    <3> QED
      BY <1>6, <3>1, <3>2
  <2> HIDE DEF r, gate, m
  <2>5. /\ DOMAIN line[p] = 1 .. Len(line[p]) /\ Len(line[p]) \in Nat
        /\ DOMAIN line'[p] = 1 .. (Len(line[p]) + 1)
        /\ \A i \in 1 .. Len(line[p]) : line'[p][i] = line[p][i]
        /\ line'[p][Len(line[p]) + 1] = k
    BY <1>2, <1>3, <2>4, LenProperties, AppendProperties
  <2>6. Pending(p, k)' # {}
    <3>1. Len(line[p]) + 1 \in Pending(p, k)'
      BY <2>5 DEF Pending
    <3> QED
      BY <3>1
  <2>7. \A b \in Keys \ {k} : Pending(p, b)' # {} <=> Pending(p, b) # {}
    <3>1. ASSUME NEW b \in Keys \ {k} PROVE Pending(p, b)' = Pending(p, b)
      BY <2>5 DEF Pending
    <3> QED
      BY <3>1
  <2>8. /\ r.lease # None => r.eligible
        /\ r.lost => r.lease # None
    BY <1>3, <2>3 DEF RowInv
  <2> QED
    BY <1>1, <1>2, <1>4, <2>1, <2>2, <2>3, <2>4, <2>6, <2>7, <2>8, OneRow
<1> QED
  BY <1>2, <1>5, <1>6 DEF Insert

\* The types of the worker's calls.
WorkerType ==
  [doing : {"idle", "claim", "hold"}, start : AllPrimaries, tried : Nat, unit : Keys \cup {None}]

\* An idle worker is a worker.
LEMMA IdleType == Idle \in WorkerType /\ Idle.doing = "idle"
<1>1. 0 \in AllPrimaries
  BY RoutingAssumption DEF AllPrimaries
<1> QED
  BY <1>1 DEF Idle, WorkerType

\* The cursor goes round the primaries.
LEMMA NextStartClaim ==
  ASSUME HomeInv, NEW w \in Workers, StartClaim(w)
  PROVE  HomeInv'
<1>0. Types
  BY DEF HomeInv
<1>1. rr' \in AllPrimaries
  <2>1. N \in Nat \ {0} /\ rr \in Nat
    BY <1>0, RoutingAssumption DEF Types, AllPrimaries
  <2>2. rr' = (rr + 1) % N
    BY DEF StartClaim, Advance
  <2> QED
    BY <2>1, <2>2 DEF AllPrimaries
<1>2. [Idle EXCEPT !.doing = "claim", !.start = rr'] \in WorkerType
      /\ [Idle EXCEPT !.doing = "claim", !.start = rr'].doing = "claim"
  BY <1>1, IdleType DEF WorkerType
<1>3. Types'
  BY <1>0, <1>1, <1>2 DEF StartClaim, Types, WorkerType
<1>4. UNCHANGED <<line, row, producer, cache, missed>>
  BY DEF StartClaim
<1>5. (\A q \in Producers : CallInv(q)') /\ (\A ws \in Workspaces : GateFor(ws, cache[ws])')
  BY <1>4 DEF HomeInv, CallInv, GateFor
<1> QED
  BY <1>3, <1>4, <1>5, CallSteps

\* Claim leases an eligible unit that nobody has, or changes no unit.
LEMMA NextClaimAt ==
  ASSUME HomeInv, NEW w \in Workers, ClaimAt(w)
  PROVE  HomeInv'
<1>0. Types
  BY DEF HomeInv
<1>1. UNCHANGED <<up, line, rr, reaper, wiper, cache, producer, missed>>
  BY DEF ClaimAt
<1>2. (\A q \in Producers : CallInv(q)') /\ (\A ws \in Workspaces : GateFor(ws, cache[ws])')
  BY <1>1 DEF HomeInv, CallInv, GateFor
<1>3. PICK p \in AllPrimaries : p = (worker[w].start + worker[w].tried) % N
  BY <1>0, RoutingAssumption DEF Types, AllPrimaries
<1>4. ASSUME NEW k \in Keys, First(p, k), row' = [row EXCEPT ![p][k].lease = w],
             worker' = [worker EXCEPT ![w] = [Idle EXCEPT !.doing = "hold", !.unit = k]]
      PROVE  HomeInv'
  <2> DEFINE r == [row[p][k] EXCEPT !.lease = w]
  <2>1. RowInv(p, k) /\ row[p][k] \in RowType /\ row[p][k].eligible /\ row[p][k].lease = None
    BY <1>0, <1>4 DEF HomeInv, Types, First, Claimable
  <2>2. row' = [row EXCEPT ![p] = [row[p] EXCEPT ![k] = r]]
    BY <1>0, <1>4 DEF Types
  <2>3. /\ r \in RowType /\ r.gate = row[p][k].gate /\ r.eligible = row[p][k].eligible
        /\ r.old = row[p][k].old /\ r.lost = row[p][k].lost
    BY <2>1 DEF RowType
  <2>4. /\ line' \in [AllPrimaries -> Seq(Keys)] /\ \A a \in AllPrimaries : line'[a] = line[a]
        /\ \A b \in Keys : Pending(p, b)' = Pending(p, b)
    BY <1>0, <1>1 DEF Types, Pending
  <2>5. worker' \in [Workers -> WorkerType] /\ \A v \in Workers : worker'[v].doing = "hold" => worker'[v].unit \in Keys
    <3>1. [Idle EXCEPT !.doing = "hold", !.unit = k] \in WorkerType
          /\ [Idle EXCEPT !.doing = "hold", !.unit = k].unit = k
      BY IdleType DEF WorkerType
    <3> QED
      BY <1>0, <1>4, <3>1 DEF Types, WorkerType
  <2>6. /\ r.eligible \/ r.old => Pending(p, k)' # {}
        /\ Pending(p, k)' # {} => r.gate # None
        /\ r.lease # None => r.eligible
        /\ r.lost => r.lease # None
        /\ r.gate # None => p = ShardFor(k)
        /\ GateFor(WorkspaceOf[k], r.gate)
    BY <2>1, <2>3, <2>4 DEF RowInv
  <2>7. /\ \A x \in Producers : producer'[x] = producer[x] \/ producer'[x] = None
        /\ DOMAIN producer' = Producers /\ producer' = [x \in Producers |-> producer'[x]]
    BY <1>0, <1>1 DEF Types
  <2> HIDE DEF r
  <2> QED
    BY ZenonT(60), <1>1, <2>2, <2>3, <2>4, <2>5, <2>6, <2>7, OneRow DEF WorkerType
<1>5. ASSUME UNCHANGED row,
             worker' = [worker EXCEPT ![w] = Idle]
             \/ worker' = [worker EXCEPT ![w] = [worker[w] EXCEPT !.tried = worker[w].tried + 1]],
             worker[w].doing = "claim"
      PROVE  HomeInv'
  <2>1. worker[w] \in WorkerType
    BY <1>0 DEF Types, WorkerType
  <2>2. /\ [worker[w] EXCEPT !.tried = worker[w].tried + 1] \in WorkerType
        /\ [worker[w] EXCEPT !.tried = worker[w].tried + 1].doing = "claim"
    BY <1>5, <2>1 DEF WorkerType
  <2>3. Types'
    BY ZenonT(60), <1>0, <1>1, <1>5, <2>2, IdleType DEF Types, WorkerType
  <2> QED
    BY <1>1, <1>2, <1>5, <2>3, CallSteps
<1>6. \/ \E k \in Keys : /\ First(p, k) /\ row' = [row EXCEPT ![p][k].lease = w]
                         /\ worker' = [worker EXCEPT ![w] = [Idle EXCEPT !.doing = "hold", !.unit = k]]
      \/ /\ UNCHANGED row
         /\ \/ worker' = [worker EXCEPT ![w] = Idle]
            \/ worker' = [worker EXCEPT ![w] = [worker[w] EXCEPT !.tried = worker[w].tried + 1]]
  <2>1. CASE worker[w].tried + 1 = N
    BY <1>3, <2>1 DEF ClaimAt
  <2>2. CASE worker[w].tried + 1 # N
    BY <1>3, <2>2 DEF ClaimAt
  <2> QED
    BY <2>1, <2>2
<1> QED
  BY <1>4, <1>5, <1>6 DEF ClaimAt

\* Ack takes the unit's head off the line, and keeps the lease only with work left.
LEMMA NextServe ==
  ASSUME HomeInv, NEW w \in Workers, NEW old \in BOOLEAN, Serve(w, old)
  PROVE  HomeInv'
<1>0. Types
  BY DEF HomeInv
<1>1. worker[w].doing = "hold" /\ UNCHANGED <<up, rr, reaper, wiper, cache, producer, missed>>
  BY DEF Serve
<1>2. PICK k \in Keys : k = worker[w].unit
  BY <1>0, <1>1 DEF Types
<1>3. PICK p \in AllPrimaries : p = ShardFor(k)
  BY HomeInRange
<1>4. RowInv(p, k) /\ row[p][k] \in RowType /\ line[p] \in Seq(Keys)
  BY <1>0 DEF HomeInv, Types
<1> DEFINE left == Cardinality(Pending(p, k)) - 1
           keep == left >= row[p][k].gate \/ (left > 0 /\ old)
           r == [row[p][k] EXCEPT !.eligible = keep, !.old = left > 0 /\ old, !.lost = FALSE,
                                  !.lease = IF keep THEN w ELSE None]
<1>5. /\ \A x \in Producers : producer'[x] = producer[x] \/ producer'[x] = None
      /\ DOMAIN producer' = Producers /\ producer' = [x \in Producers |-> producer'[x]]
  BY <1>0, <1>1 DEF Types
<1>6. /\ worker' = worker \/ worker' = [worker EXCEPT ![w] = Idle]
      /\ worker' \in [Workers -> WorkerType]
      /\ \A v \in Workers : worker'[v].doing = "hold" => worker'[v].unit \in Keys
  <2>1. worker' = worker \/ worker' = [worker EXCEPT ![w] = Idle]
    BY DEF Serve
  <2>2. worker \in [Workers -> WorkerType]
    BY <1>0 DEF Types, WorkerType
  <2>3. CASE worker' = worker
    BY <1>0, <2>2, <2>3 DEF Types
  <2>4. CASE worker' = [worker EXCEPT ![w] = Idle]
    BY <1>0, <2>2, <2>4, IdleType DEF Types
  <2> QED
    BY <2>1, <2>3, <2>4
<1>7. CASE UNCHANGED <<line, row>>
  <2>1. Types'
    BY <1>0, <1>1, <1>6, <1>7 DEF Types, WorkerType
  <2>2. (\A q \in Producers : CallInv(q)') /\ (\A ws \in Workspaces : GateFor(ws, cache[ws])')
    BY <1>1 DEF HomeInv, CallInv, GateFor
  <2> QED
    BY <1>1, <1>7, <2>1, <2>2, CallSteps
<1>8. CASE /\ row[p][k].lease = w
           /\ line' = [line EXCEPT ![p] = RemoveAt(line[p], HeadAt(p, k))]
           /\ row' = [row EXCEPT ![p][k] = r]
  <2>1. row' = [row EXCEPT ![p] = [row[p] EXCEPT ![k] = r]]
    BY <1>0, <1>8 DEF Types
  <2>2. /\ r \in RowType /\ r.gate = row[p][k].gate /\ r.eligible = keep /\ r.lost = FALSE
        /\ r.old = (left > 0 /\ old) /\ r.lease = IF keep THEN w ELSE None
    BY <1>4 DEF RowType
  <2>3. Pending(p, k) # {} /\ row[p][k].gate \in Gates /\ row[p][k].gate # None
    BY <1>4, <1>8, RoutingAssumption DEF RowInv, RowType
  <2>4. HeadAt(p, k) \in Pending(p, k)
    BY <1>4, <2>3, HeadPending
  <2> DEFINE h == HeadAt(p, k)
  <2>5. /\ DOMAIN line[p] = 1 .. Len(line[p]) /\ Len(line[p]) \in Nat
        /\ h \in 1 .. Len(line[p]) /\ line[p][h] = k
    BY <1>4, <2>4, LenProperties DEF Pending
  <2>6. /\ line' \in [AllPrimaries -> Seq(Keys)] /\ line'[p] = RemoveAt(line[p], h)
        /\ \A a \in AllPrimaries \ {p} : line'[a] = line[a]
    <3>1. RemoveAt(line[p], h) \in Seq(Keys)
      BY <1>4, <2>5, RemoveProperties
    <3> QED
      BY <1>0, <1>8, <3>1 DEF Types
  <2> HIDE DEF h
  <2>7. /\ \A j \in 1 .. Len(line[p]) : j # h => \E m \in DOMAIN line'[p] : line'[p][m] = line[p][j]
        /\ \A m \in DOMAIN line'[p] : \E j \in 1 .. Len(line[p]) : line'[p][m] = line[p][j]
    BY <1>4, <2>5, <2>6, RemoveProperties
  <2>8. \A b \in Keys \ {k} : Pending(p, b)' # {} <=> Pending(p, b) # {}
    BY <2>5, <2>7 DEF Pending
  <2>9. left > 0 => Pending(p, k)' # {}
    <3> SUFFICES ASSUME left > 0 PROVE Pending(p, k)' # {}
      OBVIOUS
    <3>1. IsFiniteSet({h}) /\ Cardinality({h}) = 1
      BY FS_Singleton
    <3>2. Pending(p, k) # {h}
      <4>1. Cardinality(Pending(p, k)) # 1
        <5>1. IsFiniteSet(Pending(p, k))
          <6>1. IsFiniteSet(1 .. Len(line[p]))
            BY <2>5, FS_Interval
          <6> QED
            BY <2>5, <6>1, FS_Subset DEF Pending
        <5>2. Cardinality(Pending(p, k)) \in Nat
          BY <5>1, FS_CardinalityType
        <5> QED
          BY <5>2
      <4> QED
        BY <3>1, <4>1
    <3>3. PICK j \in Pending(p, k) : j # h
      BY <2>3, <2>4, <3>2 DEF h
    <3> QED
      BY <2>5, <2>7, <3>3 DEF Pending
  <2>10. keep => left > 0
    <3>1. left \in Int
      <4>1. IsFiniteSet(Pending(p, k))
        <5>1. IsFiniteSet(1 .. Len(line[p]))
          BY <2>5, FS_Interval
        <5> QED
          BY <2>5, <5>1, FS_Subset DEF Pending
      <4>2. Cardinality(Pending(p, k)) \in Nat
        BY <4>1, FS_CardinalityType
      <4> QED
        BY <4>2
    <3> HIDE DEF left
    <3> QED
      BY <2>3, <3>1 DEF Gates
  <2>11. /\ r.eligible \/ r.old => Pending(p, k)' # {}
         /\ Pending(p, k)' # {} => r.gate # None
         /\ r.lease # None => r.eligible
         /\ r.lost => r.lease # None
         /\ r.gate # None => p = ShardFor(k)
         /\ GateFor(WorkspaceOf[k], r.gate)
    <3> HIDE DEF r, left, keep
    <3> QED
      BY <1>3, <1>4, <2>2, <2>3, <2>9, <2>10 DEF RowInv
  <2> HIDE DEF r, left, keep
  <2> QED
    BY <1>1, <1>5, <1>6, <2>1, <2>2, <2>6, <2>8, <2>11, OneRow DEF WorkerType
<1> QED
  BY <1>2, <1>3, <1>7, <1>8 DEF Serve

\* Steps that leave the calls in progress and the cache alone.
LEMMA RowSteps ==
  ASSUME HomeInv, UNCHANGED <<producer, cache, missed>>, Types',
         \A p \in AllPrimaries, k \in Keys : RowInv(p, k)'
  PROVE  HomeInv'
  BY DEF HomeInv, CallInv, GateFor

\* A lease that ran out is freed and a unit whose head is old is flushed.
LEMMA ReapedRow ==
  ASSUME NEW r \in RowType, r.lost => r.lease # None
  PROVE  /\ Reaped(r) \in RowType /\ Reaped(r).gate = r.gate /\ Reaped(r).old = r.old
         /\ Reaped(r).eligible => r.eligible \/ r.old
         /\ r.eligible => Reaped(r).eligible
         /\ Reaped(r).lease # None => r.lease # None
         /\ Reaped(r).lost => Reaped(r).lease # None
<1>1. CASE r.lost
  <2> DEFINE f == [r EXCEPT !.lease = None, !.lost = FALSE]
  <2>1. /\ f \in RowType /\ f.gate = r.gate /\ f.old = r.old /\ f.eligible = r.eligible
        /\ f.lease = None /\ f.lost = FALSE
    BY DEF RowType
  <2>2. Reaped(r) = [f EXCEPT !.eligible = f.eligible \/ (f.lease = None /\ r.old)]
    BY <1>1 DEF Reaped
  <2> HIDE DEF f
  <2> QED
    BY <2>1, <2>2 DEF RowType
<1>2. CASE ~r.lost
  <2>1. Reaped(r) = [r EXCEPT !.eligible = r.eligible \/ (r.lease = None /\ r.old)]
    BY <1>2 DEF Reaped
  <2> QED
    BY <1>2, <2>1 DEF RowType
<1> QED
  BY <1>1, <1>2

\* Reaping one primary keeps every unit at home.
LEMMA NextReapAt ==
  ASSUME HomeInv, ReapAt
  PROVE  HomeInv'
<1>0. Types
  BY DEF HomeInv
<1>1. UNCHANGED <<up, line, rr, worker, wiper, cache, producer, missed>>
  BY DEF ReapAt
<1>2. reaper' \in AllPrimaries
  <2>1. N \in Nat \ {0} /\ reaper \in Nat
    BY <1>0, RoutingAssumption DEF Types, AllPrimaries
  <2>2. reaper' = (reaper + 1) % N \/ reaper' = 0
    BY DEF ReapAt, ReapsAfter
  <2> QED
    BY <2>1, <2>2 DEF AllPrimaries
<1>3. CASE UNCHANGED row
  <2>1. Types'
    BY <1>0, <1>1, <1>2, <1>3 DEF Types
  <2>2. \A p \in AllPrimaries, k \in Keys : RowInv(p, k)'
    BY <1>1, <1>3, RowKept DEF HomeInv, Pending
  <2> QED
    BY <1>1, <2>1, <2>2, RowSteps
<1>4. CASE row' = [row EXCEPT ![reaper] = [k \in Keys |-> Reaped(row[reaper][k])]]
  <2>1. \A k \in Keys : row[reaper][k] \in RowType /\ RowInv(reaper, k)
    BY <1>0 DEF HomeInv, Types
  <2>2. \A k \in Keys : Reaped(row[reaper][k]) \in RowType
    BY <2>1, ReapedRow DEF RowInv
  <2>3. Types'
    BY <1>0, <1>1, <1>2, <1>4, <2>2 DEF Types
  <2>4. ASSUME NEW p \in AllPrimaries, NEW k \in Keys PROVE RowInv(p, k)'
    <3>1. RowInv(p, k) /\ Pending(p, k)' = Pending(p, k) /\ row[p][k] \in RowType
      BY <1>0, <1>1 DEF HomeInv, Pending, Types
    <3>2. CASE p # reaper
      <4>1. row'[p][k] = row[p][k]
        BY <1>0, <1>4, <3>2 DEF Types
      <4> QED
        BY <1>1, <3>1, <4>1, RowKept
    <3>3. CASE p = reaper
      <4>1. row'[p][k] = Reaped(row[p][k])
        BY <1>0, <1>4, <3>3 DEF Types
      <4>2. row[p][k].lost => row[p][k].lease # None
        BY <3>1 DEF RowInv
      <4>3. /\ row'[p][k].gate = row[p][k].gate /\ row'[p][k].old = row[p][k].old
            /\ row'[p][k].eligible => row[p][k].eligible \/ row[p][k].old
            /\ row[p][k].eligible => row'[p][k].eligible
            /\ row'[p][k].lease # None => row[p][k].lease # None
            /\ row'[p][k].lost => row'[p][k].lease # None
        BY <3>1, <4>1, <4>2, ReapedRow
      <4> QED
        BY <1>1, <3>1, <4>3 DEF RowInv, GateFor
    <3> QED
      BY <3>2, <3>3
  <2> QED
    BY <1>1, <2>3, <2>4, RowSteps
<1> QED
  BY <1>3, <1>4 DEF ReapAt

\* Reset wipes the rows and the line of a primary together.
LEMMA NextReset ==
  ASSUME HomeInv, StartReset \/ ResetAt
  PROVE  HomeInv'
<1>0. Types
  BY DEF HomeInv
<1>1. UNCHANGED <<up, rr, worker, reaper, cache, producer, missed>>
  BY DEF StartReset, ResetAt
<1>2. wiper' \in AllPrimaries \cup {None}
  <2>1. N \in Nat \ {0} /\ 0 \in AllPrimaries
    BY RoutingAssumption DEF AllPrimaries
  <2>2. CASE wiper = None
    BY <2>1, <2>2 DEF StartReset, ResetAt
  <2>3. CASE wiper # None
    <3>1. wiper \in AllPrimaries
      BY <1>0, <2>3 DEF Types
    <3>2. wiper + 1 < N => wiper + 1 \in AllPrimaries
      BY <2>1, <3>1 DEF AllPrimaries
    <3> QED
      BY <2>3, <3>2 DEF StartReset, ResetAt
  <2> QED
    BY <2>2, <2>3
<1>3. CASE UNCHANGED <<line, row>>
  <2>1. Types'
    BY <1>0, <1>1, <1>2, <1>3 DEF Types
  <2>2. \A p \in AllPrimaries, k \in Keys : RowInv(p, k)'
    BY <1>1, <1>3, RowKept DEF HomeInv, Pending
  <2> QED
    BY <1>1, <2>1, <2>2, RowSteps
<1>4. CASE /\ line' = [line EXCEPT ![wiper] = <<>>]
           /\ row' = [row EXCEPT ![wiper] = [k \in Keys |-> NoRow]]
  <2>1. NoRow \in RowType /\ <<>> \in Seq(Keys)
    BY EmptySeq DEF NoRow, RowType
  <2>2. Types'
    BY <1>0, <1>1, <1>2, <1>4, <2>1 DEF Types
  <2>3. ASSUME NEW p \in AllPrimaries, NEW k \in Keys PROVE RowInv(p, k)'
    <3>1. CASE p # wiper
      <4>1. row'[p][k] = row[p][k] /\ line'[p] = line[p]
        BY <1>0, <1>4, <3>1 DEF Types
      <4>2. RowInv(p, k) /\ Pending(p, k)' = Pending(p, k)
        BY <4>1 DEF HomeInv, Pending
      <4> QED
        BY <1>1, <4>1, <4>2, RowKept
    <3>2. CASE p = wiper
      <4>1. row'[p][k] = NoRow /\ line'[p] = <<>>
        BY <1>0, <1>4, <3>2 DEF Types
      <4>2. Pending(p, k)' = {}
        BY <4>1 DEF Pending
      <4> QED
        BY <4>1, <4>2 DEF RowInv, NoRow, GateFor
    <3> QED
      BY <3>1, <3>2
  <2> QED
    BY <1>1, <2>2, <2>3, RowSteps
<1> QED
  BY <1>3, <1>4 DEF StartReset, ResetAt

\* Primaries come and go, heads age, abandoned leases run out.
LEMMA NextEnvironment ==
  ASSUME HomeInv,
         \/ \E p \in AllPrimaries : PrimaryFails(p) \/ PrimaryRecovers(p)
         \/ \E p \in AllPrimaries, k \in Keys : Ages(p, k) \/ RunsOut(p, k)
         \/ TimePasses
         \/ UNCHANGED vars
  PROVE  HomeInv'
<1>0. Types
  BY DEF HomeInv
<1>1. UNCHANGED <<line, rr, worker, reaper, wiper, cache, producer, missed>>
  BY DEF PrimaryFails, PrimaryRecovers, Ages, RunsOut, TimePasses, vars
<1>2. up' \subseteq AllPrimaries
  BY <1>0 DEF PrimaryFails, PrimaryRecovers, Ages, RunsOut, TimePasses, vars, Types
<1>3. \A p \in AllPrimaries, k \in Keys : Pending(p, k)' = Pending(p, k)
  BY <1>1 DEF Pending
<1>4. CASE UNCHANGED row
  <2>1. Types'
    BY <1>0, <1>1, <1>2, <1>4 DEF Types
  <2>2. \A p \in AllPrimaries, k \in Keys : RowInv(p, k)'
    BY <1>1, <1>3, <1>4, RowKept DEF HomeInv
  <2> QED
    BY <1>1, <2>1, <2>2, RowSteps
<1>5. ASSUME row' \in [AllPrimaries -> [Keys -> RowType]],
             \A p \in AllPrimaries, k \in Keys :
               /\ row'[p][k].gate = row[p][k].gate /\ row'[p][k].eligible = row[p][k].eligible
               /\ row'[p][k].lease = row[p][k].lease
               /\ row'[p][k].old => row[p][k].old \/ Pending(p, k) # {}
               /\ row'[p][k].lost => row[p][k].lost \/ row[p][k].lease # None
      PROVE  HomeInv'
  <2>1. Types'
    BY <1>0, <1>1, <1>2, <1>5 DEF Types
  <2>2. ASSUME NEW p \in AllPrimaries, NEW k \in Keys PROVE RowInv(p, k)'
    <3>1. RowInv(p, k)
      BY DEF HomeInv
    <3> QED
      BY <1>1, <1>3, <1>5, <3>1 DEF RowInv, GateFor
  <2> QED
    BY <1>1, <2>1, <2>2, RowSteps
<1>6. ASSUME NEW p \in AllPrimaries, NEW k \in Keys, Ages(p, k) PROVE HomeInv'
  <2> DEFINE r == [row[p][k] EXCEPT !.old = TRUE]
  <2>1. row[p][k] \in RowType /\ row' = [row EXCEPT ![p] = [row[p] EXCEPT ![k] = r]] /\ Pending(p, k) # {}
    BY <1>0, <1>6 DEF Ages, Types
  <2>2. /\ r \in RowType /\ r.gate = row[p][k].gate /\ r.eligible = row[p][k].eligible
        /\ r.lease = row[p][k].lease /\ r.lost = row[p][k].lost
    BY <2>1 DEF RowType
  <2> HIDE DEF r
  <2>3. /\ row' \in [AllPrimaries -> [Keys -> RowType]] /\ row'[p][k] = r
        /\ \A a \in AllPrimaries, b \in Keys : a # p \/ b # k => row'[a][b] = row[a][b]
    BY <1>0, <2>1, <2>2, RowUpdate DEF Types
  <2> QED
    BY <1>5, <2>1, <2>2, <2>3
<1>7. ASSUME NEW p \in AllPrimaries, NEW k \in Keys, RunsOut(p, k) PROVE HomeInv'
  <2> DEFINE r == [row[p][k] EXCEPT !.lost = TRUE]
  <2>1. row[p][k] \in RowType /\ row' = [row EXCEPT ![p] = [row[p] EXCEPT ![k] = r]] /\ row[p][k].lease # None
    BY <1>0, <1>7 DEF RunsOut, Types
  <2>2. /\ r \in RowType /\ r.gate = row[p][k].gate /\ r.eligible = row[p][k].eligible
        /\ r.lease = row[p][k].lease /\ r.old = row[p][k].old
    BY <2>1 DEF RowType
  <2> HIDE DEF r
  <2>3. /\ row' \in [AllPrimaries -> [Keys -> RowType]] /\ row'[p][k] = r
        /\ \A a \in AllPrimaries, b \in Keys : a # p \/ b # k => row'[a][b] = row[a][b]
    BY <1>0, <2>1, <2>2, RowUpdate DEF Types
  <2> QED
    BY <1>5, <2>1, <2>2, <2>3
<1>8. ASSUME TimePasses PROVE HomeInv'
  <2> DEFINE R(p, k) == [row[p][k] EXCEPT !.old = Pending(p, k) # {},
                !.lost = row[p][k].lease # None /\ (row[p][k].lost \/ ~Holds(row[p][k].lease, k))]
  <2>1. row' = [p \in AllPrimaries |-> [k \in Keys |-> R(p, k)]]
    BY <1>8 DEF TimePasses
  <2>2. ASSUME NEW p \in AllPrimaries, NEW k \in Keys
        PROVE  /\ R(p, k) \in RowType /\ R(p, k).gate = row[p][k].gate
               /\ R(p, k).eligible = row[p][k].eligible /\ R(p, k).lease = row[p][k].lease
               /\ R(p, k).old => Pending(p, k) # {}
               /\ R(p, k).lost => row[p][k].lease # None
    <3>1. row[p][k] \in RowType
      BY <1>0 DEF Types
    <3> QED
      BY <3>1 DEF RowType
  <2> HIDE DEF R
  <2>3. \A p \in AllPrimaries, k \in Keys : row'[p][k] = R(p, k)
    BY <2>1
  <2>4. row' \in [AllPrimaries -> [Keys -> RowType]]
    BY <2>1, <2>2
  <2> QED
    BY <1>5, <2>2, <2>3, <2>4
<1> QED
  BY <1>4, <1>6, <1>7, <1>8 DEF PrimaryFails, PrimaryRecovers, vars

(***************************************************************************)
(* For any number of primaries, keys, workers and producers, whatever fails*)
(* and whenever Reset gets stuck half way, HomeInv is kept.                *)
(***************************************************************************)
THEOREM HomeInvariant == Spec => []HomeInv
<1>1. Init => HomeInv
  BY InitHomeInv
<1>2. ASSUME HomeInv, [Next]_vars PROVE HomeInv'
  <2>1. ASSUME NEW q \in Producers, (\E k \in Keys : StartEnqueue(q, k)) \/ Lookup(q) \/ LookupFails(q) \/ Insert(q)
        PROVE  HomeInv'
    BY <1>2, <2>1, NextProducer, NextInsert
  <2>2. ASSUME NEW w \in Workers, WorkerStep(w) PROVE HomeInv'
    BY <1>2, <2>2, NextStartClaim, NextClaimAt, NextServe DEF WorkerStep
  <2> QED
    BY <1>2, <2>1, <2>2, NextReapAt, NextReset, NextEnvironment DEF Next
<1> QED
  BY <1>1, <1>2, PTL DEF Spec

(***************************************************************************)
(* One unit, one primary: no key ever has tasks or a row on two primaries, *)
(* and a lease is where the holder's calls are routed (shardForWorkspace). *)
(***************************************************************************)
THEOREM UnitsHaveOneHome == Spec => []OneHome
<1>1. ASSUME HomeInv PROVE OneHome
  <2>0. Types /\ \A p \in AllPrimaries, k \in Keys : RowInv(p, k)
    BY <1>1 DEF HomeInv
  <2>1. TypeOK
    <3>1. ASSUME NEW p \in AllPrimaries, NEW k \in Keys
          PROVE  /\ row[p][k].lease \in Workers \cup {None}
                 /\ row[p][k].lease # None => row[p][k].eligible
                 /\ row[p][k].eligible => Pending(p, k) # {}
                 /\ row[p][k].lost => row[p][k].lease # None
      <4>1. row[p][k] \in RowType /\ RowInv(p, k)
        BY <2>0 DEF Types
      <4> QED
        BY <4>1 DEF RowInv, RowType
    <3> QED
      BY <2>0, <3>1 DEF TypeOK, Types
  <2>2. ASSUME NEW k \in Keys, NEW p \in AllPrimaries, row[p][k].gate # None
        PROVE  /\ \A q \in AllPrimaries \ {p} : row[q][k].gate = None /\ Pending(q, k) = {}
               /\ row[p][k].lease # None => p = ShardFor(k)
    BY <2>0, <2>2 DEF RowInv
  <2> QED
    BY <2>1, <2>2 DEF OneHome
<1> QED
  BY <1>1, HomeInvariant, PTL

(***************************************************************************)
(* A unit is gated by its tenant's own threshold, or by the default one of *)
(* a tenant of which a lookup failed (tenantCache.get).                    *)
(***************************************************************************)
THEOREM UnitsKeepTenantGate == Spec => []TenantGate
<1>1. HomeInv => TenantGate
  BY DEF HomeInv, RowInv, GateFor, TenantGate
<1> QED
  BY <1>1, HomeInvariant, PTL
=============================================================================
