------------------------------ MODULE LockService ------------------------------
(***************************************************************************)
(* What the callers of acquireLock rely on: one holder at a time, who      *)
(* keeps the lock until he releases it or dies, and a dead holder's lock   *)
(* can be taken away.                                                      *)
(***************************************************************************)
CONSTANTS Procs, None, Dead

VARIABLE holder

Init == holder = None

Acquire(p) == holder = None /\ holder' = p

Release(p) == holder = p /\ holder' = None

Die(p) == holder = p /\ holder' = Dead

Reap == holder = Dead /\ holder' = None

Next == Reap \/ \E p \in Procs : Acquire(p) \/ Release(p) \/ Die(p)

Spec == Init /\ [][Next]_holder
=============================================================================
