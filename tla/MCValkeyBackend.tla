-------------------------- MODULE MCValkeyBackend --------------------------
(* The Valkey driver on small instances. *)
EXTENDS ValkeyBackend, TLC

\* Worker ids are only compared for equality; used by the run without temporal
\* properties.
IdSymmetry == Permutations(Ids)
=============================================================================
