------------------------- MODULE MCPostgresBackend -------------------------
(* The Postgres driver on a small instance. *)
EXTENDS PostgresBackend
=============================================================================
