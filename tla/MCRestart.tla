----------------------------- MODULE MCRestart -----------------------------
(***************************************************************************)
(* Several lives of a config store for TLC.                                *)
(***************************************************************************)
EXTENDS Restart

\* No bootstrap values, or ones older than what the server will publish.
MCBootstraps == {Junk, Update(1)}
=============================================================================
