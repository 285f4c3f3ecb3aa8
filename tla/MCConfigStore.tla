---------------------------- MODULE MCConfigStore ----------------------------
(***************************************************************************)
(* The config store for TLC.                                               *)
(***************************************************************************)
EXTENDS ConfigStore

\* No bootstrap values, and some; the adapter's payloads, which are processed
\* in the same way, are of every kind.
MCBootstraps == {Junk, Update(1)}
=============================================================================
