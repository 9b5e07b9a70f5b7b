-------------------------- MODULE MCMemoryBackend --------------------------
(* The in-memory driver on a small instance. *)
EXTENDS MemoryBackend
=============================================================================
