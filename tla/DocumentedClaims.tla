---------------------------- MODULE DocumentedClaims ----------------------------
(***************************************************************************)
(* What the repository's documents, comments and messages say of Apply,    *)
(* taken word for word, where the code does something else.  Each formula  *)
(* is refuted by a run of its own; SkillsTransaction has the form that     *)
(* does hold.                                                              *)
(***************************************************************************)
EXTENDS SkillsTransactionRefinement

\* docs/architecture.md: the next mutation recovers the unfinished transaction,
\* and fails closed when a target was changed by the user after the crash.  So
\* without user edits recovery and rollback always get through.
RecoveryFailsOnlyAfterEdits ==
    \A p \in Procs :
        pc[p] = "release" /\ job[p].outcome = "incomplete" => edited # {}

\* design.md: registry.json carries a monotonic revision.
RevisionMonotonic == [][registry'.revision >= registry.revision]_vars

\* The message of transaction.go:165: once the commit succeeded, a journal that
\* says so stays true.
CommittedStays ==
    [][\A t \in TxIds :
          journal[t].status = "committed" => journal'[t].status = "committed"]_vars

\* docs/architecture.md: after the stale window an old owner must verify its
\* token again before it goes on committing.  So a process that lost the lock
\* writes neither the registry nor a receipt.
OnlyTheOwnerCommits ==
    [][\A p \in Procs :
          pc[p] \in LockedSteps /\ lock # p /\ pc'[p] # pc[p]
          => UNCHANGED <<registry, receipt>>]_vars

\* docs/architecture.md: recovery does not overwrite a user's new modification.
UserBytesDeletedByUserOnly ==
    [][Cardinality(UserCopies') < Cardinality(UserCopies)
       => count'.edits # count.edits]_vars

\* manager.go:82 and :132: an adopted Skill holds the validated bytes, so a
\* committed adoption never leaves a claim on other ones.
AdoptedBytesMatch ==
    [][\A p \in Procs :
          /\ pc[p] = "commit" /\ pc'[p] = "release"
          /\ plan[p].op = "adopt"
          => \A k \in Keys \ edited :
                plan[p].desired.digest[k] \in {None, runtime[k]}]_vars

\* spec.md: managed bytes that differ from the registry are not replaced or
\* removed unless the reviewed plan names that conflict.
DriftReplacedOnlyWhenReviewed ==
    [][\A p \in Procs : \A k \in Keys :
          /\ pc[p] = "backup" /\ pc'[p] = "install"
          /\ runtime[k] # None /\ runtime'[k] = None
          /\ runtime[k] # registry.digest[k]
          => plan[p].decisions[k].branch \in BlockingBranches]_vars

\* manager.go:70: PlanRollback restores the previous claim set, the one the
\* receipt names when the rollback is applied.
RollbackRestoresPrevious ==
    [][\A p \in Procs :
          /\ pc[p] = "begin" /\ pc'[p] = "advance"
          /\ plan[p].op = "rollback"
          => plan[p].desired = receipt[ProductOf[p]].previous]_vars
=============================================================================
