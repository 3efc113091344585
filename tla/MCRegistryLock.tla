----------------------------- MODULE MCRegistryLock -----------------------------
(***************************************************************************)
(* Instances of RegistryLock for TLC.                                      *)
(***************************************************************************)
EXTENDS RegistryLock

CONSTANTS p1, p2, p3
=============================================================================
