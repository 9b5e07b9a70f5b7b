----------------------------- MODULE WorkUnits -----------------------------
(***************************************************************************)
(* The vocabulary shared by the queue modules: the tasks of one work unit  *)
(* as a FIFO (internal/queue/types.go) and the cost they add up to.        *)
(***************************************************************************)
EXTENDS Integers, Sequences, FiniteSets

(***************************************************************************)
(* queue.Task.  The payload bytes are opaque to the queue, so a task is    *)
(* told apart by a number: its producer's running count for that key.      *)
(***************************************************************************)
Task == [seq : Nat, payload : Nat, cost : Nat]

Payloads(ts) == {ts[i].payload : i \in DOMAIN ts}

(***************************************************************************)
(* The total cost of a FIFO.  A task of cost c owns the c pairs            *)
(* <<its seq, 1>> .. <<its seq, c>>; seqs being distinct, counting the     *)
(* pairs adds the costs.                                                   *)
(***************************************************************************)
CostUnits(ts) == UNION {{ts[i].seq} \X (1 .. ts[i].cost) : i \in DOMAIN ts}

Cost(ts) == Cardinality(CostUnits(ts))

\* The first n tasks, and what is left of s after its first n elements.
Prefix(s, n) == SubSeq(s, 1, n)
Suffix(s, n) == SubSeq(s, n + 1, Len(s))

(***************************************************************************)
(* How many tasks a loop that starts at the head and stops at the first    *)
(* seq above throughSeq passes over.                                       *)
(***************************************************************************)
LeadingRun(ts, throughSeq) ==
  Cardinality({i \in DOMAIN ts : \A j \in 1 .. i : ts[j].seq <= throughSeq})
=============================================================================
