---------------------- MODULE SkillsTransactionRefinement ----------------------
(***************************************************************************)
(* A transaction takes effect when its journal says "committed": until     *)
(* then the registry and the receipt that count are the ones saved when it *)
(* began, the ones recovery would put back.                                *)
(***************************************************************************)
EXTENDS SkillsTransaction

InFlight == CHOOSE t \in Incomplete : TRUE

DecidedRegistry ==
    IF Incomplete = {} THEN registry ELSE journal[InFlight].registryBefore

DecidedReceipt ==
    IF Incomplete = {} THEN receipt
    ELSE [receipt EXCEPT ![journal[InFlight].product] = journal[InFlight].receiptBefore]

Atomic == INSTANCE AtomicApply WITH registry <- DecidedRegistry, receipt <- DecidedReceipt

\* Whatever the interleaving and wherever a process crashes, the registry and the
\* receipts move from one committed plan to the next as if Apply were one step:
\* commitPlan with rollbackTransaction and recovery implement AtomicApply.
ImplementsAtomicApply == Atomic!Spec
=============================================================================
