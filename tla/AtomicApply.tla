------------------------------- MODULE AtomicApply -------------------------------
(***************************************************************************)
(* What Apply promises: the shared registry and the receipt of the product *)
(* change together, in one step, to what the reviewed plan desires, and    *)
(* only when no other product claims different bytes.  Journals, the lock, *)
(* errors and crashes do not show.                                         *)
(***************************************************************************)
EXTENDS InstallPlanner

VARIABLES registry, receipt

Init ==
    /\ registry = EmptyRegistry
    /\ receipt = [q \in Products |-> None]

\* The snapshots a product can come to desire: the ones it installs or adopts,
\* the same ones again after PlanRollback, and empty ones after PlanUninstall.
Desirable(q) ==
    LET known == Bundles[q] \cup Legacies[q] IN known \cup {Emptied(s) : s \in known}

\* What the commit of a plan leaves of an entry the product does not desire: kept
\* for the other claims, else dropped, or kept as an orphan when it drifted.
Remainder(q, k) ==
    IF Shared(registry, k, q) THEN {registry.digest[k]} ELSE {None, registry.digest[k]}

Commit(q, desired) ==
    /\ ~ProjectionConflict(registry, q, desired)
    /\ registry'.revision = registry.revision + 1
    /\ registry'.claims = [k \in Keys |-> [registry.claims[k] EXCEPT ![q] =
            IF desired.digest[k] = None THEN None ELSE desired.version]]
    /\ \A k \in Keys : registry'.digest[k] \in
            IF desired.digest[k] = None THEN Remainder(q, k) ELSE {desired.digest[k]}
    /\ receipt' = [receipt EXCEPT ![q] =
            [ product |-> q, revision |-> registry.revision + 1, current |-> desired,
              previous |-> IF receipt[q] = None THEN None ELSE receipt[q].current ]]

Next == \E q \in Products : \E desired \in Desirable(q) : Commit(q, desired)

Spec == Init /\ [][Next]_<<registry, receipt>>
=============================================================================
