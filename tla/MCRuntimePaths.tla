----------------------------- MODULE MCRuntimePaths -----------------------------
(***************************************************************************)
(* The instance of RuntimePaths for TLC: two runtimes, agents (1) and      *)
(* claude (2), each with a home of its number; place 3 is below an allowed *)
(* root and place 4 is not.                                                *)
(***************************************************************************)
EXTENDS RuntimePaths, TLC

MCHomes == (1 :> 1) @@ (2 :> 2)
=============================================================================
