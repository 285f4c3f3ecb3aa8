------------------------------ MODULE MCLogger ------------------------------
(***************************************************************************)
(* The logger for TLC: two callers, the ticker and Shutdown, a buffer of   *)
(* two events and a retry.  Callers are interchangeable.                   *)
(***************************************************************************)
EXTENDS Logger, TLC

MCSymmetry == Permutations(Callers)
=============================================================================
