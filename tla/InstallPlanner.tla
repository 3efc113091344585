----------------------------- MODULE InstallPlanner -----------------------------
(***************************************************************************)
(* The pure part of the Manager (manager.go, projectRegistry in            *)
(* transaction.go): which action a plan holds for every runtime target,    *)
(* which conflicts it reports, and which registry a committed plan leaves. *)
(*                                                                         *)
(* A key stands for one (runtime, skills_dir, skill) triple; keys are      *)
(* numbered in the order of registryKey, the order of every sorted list in *)
(* the code, so a list of entries is a function on Keys.  A Skill tree is  *)
(* its digest: verifySkillDir compares the whole inventory, so two trees   *)
(* are equal to the code exactly when their digests are.  UserBytes is a   *)
(* directory that matches no digest any plan names, None a missing one.    *)
(***************************************************************************)
EXTENDS Integers, FiniteSets, FiniteSetsExt

CONSTANTS
    NumKeys,     \* number of runtime targets
    Products,    \* product names, e.g. the CLIs sharing the registry
    Versions,    \* ProductIdentity: product_version, bundle_version, bundle_digest
    Digests,     \* digests of the Skill trees of the bundles
    UserBytes,   \* the content of a directory a user wrote or edited
    None,        \* "no value": missing directory, entry, claim, receipt
    Bundles,     \* the snapshots each product can install
    Legacies     \* the snapshots each product can ask to adopt

ASSUME NumKeysAssumption == NumKeys \in Nat \ {0}
ASSUME ProductsAssumption == Products # {}
ASSUME NoneAssumption == None \notin Digests \cup Versions \cup {UserBytes}
ASSUME UserBytesAssumption == UserBytes \notin Digests

Keys == 1..NumKeys

Contents == Digests \cup {UserBytes, None}

\* ProductSnapshot: an identity and the digest wanted for each target.
Snapshots == [version: Versions, digest: [Keys -> Digests \cup {None}]]

\* Registry: an entry exists for the keys with a digest; claims name the
\* version each product claimed it with.
Registries ==
    [ revision: Nat,
      digest: [Keys -> Digests \cup {None}],
      claims: [Keys -> [Products -> Versions \cup {None}]] ]

EmptyRegistry ==
    [ revision |-> 0,
      digest |-> [k \in Keys |-> None],
      claims |-> [k \in Keys |-> [q \in Products |-> None]] ]

\* ProductReceipt
Receipts == [ product: Products, revision: Nat, current: Snapshots,
              previous: Snapshots \cup {None} ]

ASSUME BundlesAssumption == /\ Bundles \in [Products -> SUBSET Snapshots]
                            /\ Legacies \in [Products -> SUBSET Snapshots]
ASSUME NoRecordAssumption == None \notin Snapshots \cup Receipts

Operations == {"install", "uninstall", "rollback", "adopt"}

\* The snapshot PlanUninstall builds: the same identity, no entries.
Emptied(snapshot) == [snapshot EXCEPT !.digest = [k \in Keys |-> None]]

\* What a product may ask for.  PlanInstall and PlanLegacyAdoption take the
\* snapshot from their caller, PlanUninstall and PlanRollback from the receipt,
\* which must be the product's own.
Requests(q, r) ==
    LET own == r # None /\ r.product = q
    IN  {[op |-> "install", desired |-> s] : s \in Bundles[q]}
        \cup {[op |-> "adopt", desired |-> s] : s \in Legacies[q]}
        \cup (IF own /\ \E k \in Keys : r.current.digest[k] # None
              THEN {[op |-> "uninstall", desired |-> Emptied(r.current)]} ELSE {})
        \cup (IF own /\ r.previous # None
              THEN {[op |-> "rollback", desired |-> r.previous]} ELSE {})

-----------------------------------------------------------------------------
\* hasOtherClaims
Shared(reg, k, product) ==
    \E q \in Products \ {product} : reg.claims[k][q] # None

\* The branches of evaluatePlan.  A branch fixes the kind, the reason and the
\* conflict (code, blocking, message) of the entry, so comparing branches is
\* what reflect.DeepEqual does on the two lists.
Branches ==
    { "none", "adopt", "adopt_drift", "unmanaged", "install",
      "digest_conflict", "restore_new", "drift_new", "upgrade",
      "missing", "drift", "share", "claim", "release", "remove", "preserve" }

\* The loop over the desired entries.
DesiredBranch(reg, tree, op, product, desired, k) ==
    LET existing == reg.digest[k]
        wanted   == desired.digest[k]
    IN  CASE existing = None /\ op = "adopt" ->
                IF tree[k] = wanted THEN "adopt" ELSE "adopt_drift"
          [] existing = None /\ op # "adopt" ->
                IF tree[k] # None THEN "unmanaged" ELSE "install"
          [] existing # None /\ existing # wanted ->
                IF Shared(reg, k, product) THEN "digest_conflict"
                ELSE IF tree[k] = None THEN "restore_new"
                ELSE IF tree[k] = existing THEN "upgrade" ELSE "drift_new"
          [] existing # None /\ existing = wanted ->
                IF tree[k] = None THEN "missing"
                ELSE IF tree[k] # existing THEN "drift"
                ELSE IF reg.claims[k][product] = desired.version THEN "none"
                ELSE IF Shared(reg, k, product) THEN "share" ELSE "claim"

\* Faulty: the other claims on the entry are not looked at.
ReleasedBranchUnshared(reg, tree, product, k) ==
    IF reg.claims[k][product] = None THEN "none"
    ELSE IF tree[k] \in {None, reg.digest[k]} THEN "remove" ELSE "preserve"

\* The loop over the registry entries the product claims but no longer desires.
ReleasedBranch(reg, tree, product, k) ==
    IF reg.claims[k][product] = None THEN "none"
    ELSE IF Shared(reg, k, product) THEN "release"
    ELSE IF tree[k] \in {None, reg.digest[k]} THEN "remove" ELSE "preserve"

\* evaluatePlan: at most one action and one conflict per key.
Evaluate(reg, tree, op, product, desired) ==
    [k \in Keys |->
        IF desired.digest[k] # None
        THEN [branch |-> DesiredBranch(reg, tree, op, product, desired, k),
              digest |-> desired.digest[k]]
        ELSE [branch |-> ReleasedBranch(reg, tree, product, k),
              digest |-> IF reg.claims[k][product] = None THEN None
                         ELSE reg.digest[k]]]

Decisions == [Keys -> [branch: Branches, digest: Digests \cup {None}]]

-----------------------------------------------------------------------------
\* ActionReplace, ActionInstall and ActionRemove: the kinds that touch the runtime.
ReplaceBranches ==
    {"unmanaged", "restore_new", "drift_new", "upgrade", "missing", "drift"}

\* Faulty: a replacement is taken for a change of the registry alone.
MutatesMissingOnly(decision) == decision.branch \in {"install", "remove"}

Mutates(decision) == decision.branch \in ReplaceBranches \cup {"install", "remove"}

\* len(plan.Actions) == 0
HasNoAction(decisions) ==
    \A k \in Keys : decisions[k].branch \in {"none", "adopt_drift", "digest_conflict"}

BlockingBranches ==
    {"adopt_drift", "unmanaged", "digest_conflict", "drift_new", "missing", "drift"}

\* The conflicts that stop Apply: CodeDigestConflict always, the other blocking
\* ones unless options.ReplaceConflicts.
Stopped(decisions, replaceConflicts) ==
    \E k \in Keys :
        \/ decisions[k].branch = "digest_conflict"
        \/ decisions[k].branch \in BlockingBranches /\ ~replaceConflicts

Preserves(decisions) == \E k \in Keys : decisions[k].branch = "preserve"

-----------------------------------------------------------------------------
\* projectRegistry refuses to change the digest of an entry others claim.
ProjectionConflict(reg, product, desired) ==
    \E k \in Keys :
        /\ desired.digest[k] \notin {None, reg.digest[k]}
        /\ Shared(reg, k, product)

\* Faulty: every claim is dropped from the entries the plan desires.
ProjectAlone(reg, tree, product, desired) ==
    [ revision |-> reg.revision + 1,
      digest |-> [k \in Keys |->
          IF desired.digest[k] # None THEN desired.digest[k] ELSE reg.digest[k]],
      claims |-> [k \in Keys |-> [q \in Products |->
          IF q = product /\ desired.digest[k] # None THEN desired.version ELSE None]] ]

\* Faulty: the claims on the entries the plan no longer desires are kept.
ProjectKeepingClaims(reg, tree, product, desired) ==
    [ revision |-> reg.revision + 1,
      digest |-> [k \in Keys |->
          IF desired.digest[k] # None THEN desired.digest[k] ELSE reg.digest[k]],
      claims |-> [k \in Keys |->
          IF desired.digest[k] = None THEN reg.claims[k]
          ELSE [reg.claims[k] EXCEPT ![product] = desired.version]] ]

\* Faulty: a plan that claims nothing does not advance the revision.
ProjectQuietly(reg, tree, product, desired) ==
    [ revision |-> IF \E k \in Keys : desired.digest[k] # None
                   THEN reg.revision + 1 ELSE reg.revision,
      digest |-> [k \in Keys |->
          IF desired.digest[k] # None THEN desired.digest[k]
          ELSE IF Shared(reg, k, product) \/ tree[k] \notin {None, reg.digest[k]}
          THEN reg.digest[k] ELSE None],
      claims |-> [k \in Keys |->
          [reg.claims[k] EXCEPT ![product] =
              IF desired.digest[k] # None THEN desired.version ELSE None]] ]

\* projectRegistry and the revision commitPlan gives its result.  An entry left
\* without claims is dropped when its directory is missing or unmodified, and
\* kept as an orphan when it drifted.
Project(reg, tree, product, desired) ==
    [ revision |-> reg.revision + 1,
      digest |-> [k \in Keys |->
          IF desired.digest[k] # None THEN desired.digest[k]
          ELSE IF Shared(reg, k, product) \/ tree[k] \notin {None, reg.digest[k]}
          THEN reg.digest[k] ELSE None],
      claims |-> [k \in Keys |->
          [reg.claims[k] EXCEPT ![product] =
              IF desired.digest[k] # None THEN desired.version ELSE None]] ]
=============================================================================
