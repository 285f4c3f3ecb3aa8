----------------------------- MODULE MCIDLists -----------------------------
(***************************************************************************)
(* The ID lists for TLC.                                                   *)
(***************************************************************************)
EXTENDS IDLists, TLC

CONSTANTS f1, f2

MCCreated == (f1 :> 1) @@ (f2 :> 2)
=============================================================================
