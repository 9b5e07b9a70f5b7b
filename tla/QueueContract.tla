--------------------------- MODULE QueueContract ---------------------------
(***************************************************************************)
(* What queue.Backend (internal/queue/backend.go) promises its callers,    *)
(* whatever the driver: per-unit FIFO order, one live lease per unit, the  *)
(* buffering gate (cost at or above T, or a head older than max_wait),     *)
(* delete-on-ack, and recovery of expired leases.  Time is abstracted to   *)
(* two facts a step may establish: a task has aged, a lease has run out.   *)
(***************************************************************************)
EXTENDS WorkUnits

CONSTANTS
  Keys,         \* work unit keys
  LeaseTokens,  \* lease tokens a driver can issue
  NoToken,      \* the unit is free
  Threshold,    \* T, the cost at which a unit becomes claimable
  Costs,        \* costs of enqueued tasks
  MaxTasks      \* bound: tasks ever enqueued per key

VARIABLES
  queue,    \* queue[k]: the unacked tasks of k, head first
  arrived,  \* arrived[k]: how many tasks were ever enqueued for k
  aged,     \* aged[k]: payloads of pending tasks older than max_wait
  holder,   \* holder[k]: the token of the live lease on k, or NoToken
  expired,  \* keys whose live lease has run out and can be reclaimed
  handles,  \* ClaimedUnits some caller still has, live or stale
  dead      \* tasks dead-lettered, with their key

vars == <<queue, arrived, aged, holder, expired, handles, dead>>

Handle == [key : Keys, lease : LeaseTokens]

\* The gate of I3/I4: claimable work is worth T, or its head waited too long.
Eligible(ts, old) ==
  /\ ts # <<>>
  /\ Cost(ts) >= Threshold \/ ts[1].payload \in old

\* A deliberately wrong variant of Held that any live lease satisfies.
HeldByAnyone(h) == holder[h.key] # NoToken

Held(h) == holder[h.key] = h.lease

\* Callers may drop a handle at any time, never conjure one up.
HandlesAmong(H) == handles' \in SUBSET H

Init ==
  /\ queue = [k \in Keys |-> <<>>]
  /\ arrived = [k \in Keys |-> 0]
  /\ aged = [k \in Keys |-> {}]
  /\ holder = [k \in Keys |-> NoToken]
  /\ expired = {}
  /\ handles = {}
  /\ dead = {}

\* A task joins the tail under a seq above every pending one.
Enqueue(k, c, s) ==
  /\ arrived[k] < MaxTasks
  /\ \A i \in DOMAIN queue[k] : queue[k][i].seq < s
  /\ arrived' = [arrived EXCEPT ![k] = @ + 1]
  /\ queue' = [queue EXCEPT ![k] =
                 Append(@, [seq |-> s, payload |-> arrived[k] + 1, cost |-> c])]
  /\ HandlesAmong(handles)
  /\ UNCHANGED <<aged, holder, expired, dead>>

\* A free, eligible unit is leased under a token nobody holds a copy of.
Claim(k, t) ==
  /\ holder[k] = NoToken
  /\ Eligible(queue[k], aged[k])
  /\ \A j \in Keys : holder[j] # t
  /\ \A h \in handles : h.lease # t
  /\ holder' = [holder EXCEPT ![k] = t]
  /\ HandlesAmong(handles \cup {[key |-> k, lease |-> t]})
  /\ UNCHANGED <<queue, arrived, aged, expired, dead>>

\* Effect on h's unit of dropping its first n tasks.
DropHead(h, n) ==
  /\ queue' = [queue EXCEPT ![h.key] = Suffix(@, n)]
  /\ aged' = [aged EXCEPT ![h.key] = @ \cap Payloads(Suffix(queue[h.key], n))]

Free(h) ==
  /\ holder' = [holder EXCEPT ![h.key] = NoToken]
  /\ expired' = expired \ {h.key}

\* Whether h's unit stays claimable once its first n tasks are gone.
StillEligible(h, n) == Eligible(Suffix(queue[h.key], n), aged[h.key])
StillWorthT(h, n) == Eligible(Suffix(queue[h.key], n), {})

(***************************************************************************)
(* Ack drops a prefix.  The lease is renewed only if what is left is       *)
(* eligible, and kept for sure if it is worth T; whether a head has waited *)
(* too long the driver judges by its own clock, which may be behind.  Ack, *)
(* Release, Heartbeat and Fail through a handle that is not held return    *)
(* ErrLeaseLost and change nothing.                                        *)
(***************************************************************************)
Ack(h, n) ==
  /\ Held(h)
  /\ n <= Len(queue[h.key])
  /\ DropHead(h, n)
  /\ \/ StillEligible(h, n) /\ expired' = expired \ {h.key} /\ UNCHANGED holder
     \/ ~StillWorthT(h, n) /\ Free(h)
  /\ HandlesAmong(handles)
  /\ UNCHANGED <<arrived, dead>>

Release(h) ==
  /\ Held(h)
  /\ Free(h)
  /\ HandlesAmong(handles)
  /\ UNCHANGED <<queue, arrived, aged, dead>>

Heartbeat(h) ==
  /\ Held(h)
  /\ expired' = expired \ {h.key}
  /\ HandlesAmong(handles)
  /\ UNCHANGED <<queue, arrived, aged, holder, dead>>

\* A poison head goes to the dead-letter queue; either way the unit is freed.
DeadLetterHead(h) ==
  /\ Held(h)
  /\ queue[h.key] # <<>>
  /\ DropHead(h, 1)
  /\ Free(h)
  /\ dead' = dead \cup {[key |-> h.key, task |-> queue[h.key][1]]}
  /\ HandlesAmong(handles)
  /\ UNCHANGED arrived

\* ReapExpired: leases that ran out are freed, their tasks stay pending.
Reclaim(S) ==
  /\ S \subseteq expired
  /\ holder' = [k \in Keys |-> IF k \in S THEN NoToken ELSE holder[k]]
  /\ expired' = expired \ S
  /\ HandlesAmong(handles)
  /\ UNCHANGED <<queue, arrived, aged, dead>>

\* Time passes: pending tasks age, live leases run out.
Elapse ==
  /\ aged' \in [Keys -> SUBSET (1 .. MaxTasks)]
  /\ \A k \in Keys : aged[k] \subseteq aged'[k] /\ aged'[k] \subseteq Payloads(queue[k])
  /\ expired' \in SUBSET {k \in Keys : holder[k] # NoToken}
  /\ expired \subseteq expired'
  /\ HandlesAmong(handles)
  /\ UNCHANGED <<queue, arrived, holder, dead>>

Next ==
  \/ \E k \in Keys, c \in Costs, s \in 0 .. (MaxTasks - 1) : Enqueue(k, c, s)
  \/ \E k \in Keys, t \in LeaseTokens : Claim(k, t)
  \/ \E h \in handles :
       \/ \E n \in 0 .. MaxTasks : Ack(h, n)
       \/ Release(h)
       \/ Heartbeat(h)
       \/ DeadLetterHead(h)
  \/ \E S \in SUBSET Keys : Reclaim(S)
  \/ Elapse

Spec == Init /\ [][Next]_vars
=============================================================================
