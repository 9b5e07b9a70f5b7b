---- MODULE MCLoadRun ----
(***************************************************************************)
(* LoadRun on a small instance: every command, one worker, runs of up to   *)
(* three seconds, a histogram with two bounds.                             *)
(***************************************************************************)
EXTENDS LoadRun

MCDefault == [duration |-> 2, warmup |-> 1, pollMin |-> 1, pollMax |-> 2]
MCHarnessPoll == [min |-> 1, max |-> 2]
MCHistBounds == <<1, 3>>
====
