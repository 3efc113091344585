----------------------------- MODULE MCDoctorReader -----------------------------
(***************************************************************************)
(* The instance of DoctorReader for TLC: one product, whose Skill s is in  *)
(* both targets.                                                           *)
(***************************************************************************)
EXTENDS DoctorReader, TLC

CONSTANTS p1, A, v1, v2, d1, d2, s

OneProduct == (p1 :> A)
OneSkill == (1 :> s) @@ (2 :> s)

\* The second release changes target 1 and leaves target 2 as it is.
Of(v, f) == [version |-> v, digest |-> f]
BundlesA == (A :> {Of(v1, <<d1, d1>>), Of(v2, <<d2, d1>>)})
NoLegacies == [q \in Products |-> {}]
EmptyTrees == {<<None, None>>}
=============================================================================
