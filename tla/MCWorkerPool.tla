---------------------------- MODULE MCWorkerPool ----------------------------
(* The worker loop on small instances. *)
EXTENDS WorkerPool
=============================================================================
