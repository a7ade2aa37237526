------------------------------ MODULE MCReplayHost ------------------------------
(* ReplayHost with a sequence space of twelve numbers that wraps inside the run, *)
(* and a device that restarts once anywhere in it.                             *)
EXTENDS ReplayHost
=============================================================================
