--------------------------- MODULE MCRetryBudget ---------------------------
(***************************************************************************)
(* The in-memory driver with a history of the failures reported for each   *)
(* task, to compare with the driver's own count, unit.attempts.            *)
(***************************************************************************)
EXTENDS MemoryBackend

VARIABLE failures  \* failures[k][p]: calls of Fail that named task p of k

InitF == Init /\ failures = [k \in Keys |-> [p \in 1 .. MaxTasks |-> 0]]

\* The payloads of the tasks pending in c's unit under seq.
Named(c, seq) ==
  {t.payload : t \in {x \in {units[c.key].tasks[i] : i \in DOMAIN units[c.key].tasks} :
                        x.seq = seq}}

\* Callers report a task they drained, so one that is pending.
NextF ==
  \/ \E c \in handles, s \in Seqs :
       /\ Named(c, s) # {}
       /\ Fail(c, s)
       /\ failures' = [failures EXCEPT ![c.key] =
            [p \in DOMAIN @ |-> IF p \in Named(c, s) THEN @[p] + 1 ELSE @[p]]]
  \/ NextButFail /\ UNCHANGED failures

SpecF == InitF /\ [][NextF]_<<vars, failures>>

(***************************************************************************)
(* What the comment on unit.attempts says, "consecutive failures of the    *)
(* current head task" (internal/memory/backend.go:31): a task is dead-     *)
(* lettered only after MaxAttempts failures of its own.                    *)
(***************************************************************************)
PoisonFailedItself ==
  \A i \in DOMAIN dlq : failures[dlq[i].key][dlq[i].task.payload] >= MaxAttempts
=============================================================================
