----------------------------- MODULE MCStatsig -----------------------------
(***************************************************************************)
(* Statsig for TLC: Initialize with and without a timeout, with a valid    *)
(* key or not, and an adapter that may panic when it is shut down.         *)
(***************************************************************************)
EXTENDS Statsig

MCInputs == [timeout : BOOLEAN, valid : BOOLEAN]
=============================================================================
