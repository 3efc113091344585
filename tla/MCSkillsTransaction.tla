-------------------------- MODULE MCSkillsTransaction --------------------------
(***************************************************************************)
(* Instances of SkillsTransaction for TLC.  The .cfg files choose one      *)
(* definition for each constant.                                           *)
(***************************************************************************)
EXTENDS DocumentedClaims, TLC

CONSTANTS p1, p2, A, B, v1, v2, d1, d2

Of(v, f) == [version |-> v, digest |-> f]

\* Both processes belong to product A, or each to a product of its own.
OneProduct == (p1 :> A) @@ (p2 :> A)
TwoProducts == (p1 :> A) @@ (p2 :> B)

\* A's two releases: the second changes the Skill of target 1 and drops target 2.
BundlesA == (A :> {Of(v1, <<d1, d1>>), Of(v2, <<d2, None>>)})

\* A's release after the Skills it shipped before this runtime existed: target 1
\* changes, target 2 is new.
BundlesNew == (A :> {Of(v2, <<d2, d2>>)})

\* Two products that share the Skill of target 1 in their first release; A's
\* second one disagrees on it, and B has a Skill of its own.
BundlesAB == (A :> {Of(v1, <<d1, None>>), Of(v2, <<d2, None>>)})
          @@ (B :> {Of(v1, <<d1, d2>>)})

\* A snapshot of Skills that were installed by hand before this runtime.
LegaciesA == (A :> {Of(v1, <<d1, None>>)})

NoLegacies == [q \in Products |-> {}]

\* The same Skill in two runtimes: installed in the second one, adopted in the
\* first.
BundlesSecond == (A :> {Of(v1, <<None, d1>>)})
LegaciesFirst == (A :> {Of(v1, <<d1, None>>)})

\* Nothing installed; or a Skill of the first release, or a user's own directory,
\* already at target 1.
EmptyTrees == {<<None, None>>}
LegacyTree == {<<d1, None>>}
UserTree == {<<UserBytes, None>>}
LegacyTrees == LegacyTree \cup UserTree
=============================================================================
