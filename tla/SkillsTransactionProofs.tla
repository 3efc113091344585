------------------------ MODULE SkillsTransactionProofs ------------------------
(***************************************************************************)
(* Theorems about SkillsTransaction for every value of its constants.      *)
(*                                                                         *)
(* Its states are well typed.  The registry lock serialises transactions,  *)
(* for any number of processes, products and targets, with crashes, failed *)
(* writes and user edits, as long as no live holder outlives the stale     *)
(* window (MaxExpiries = 0; the configuration v_stolen_lock shows what     *)
(* happens when one does).  From that follow that no transaction touches   *)
(* the claims of another product, and that Apply's result is true.         *)
(***************************************************************************)
EXTENDS SkillsTransaction, TLAPS

-----------------------------------------------------------------------------
(* The planner's operators *)

\* evaluatePlan answers one decision per target.
LEMMA EvaluateType ==
    ASSUME NEW reg \in Registries, NEW tree, NEW op \in Operations,
           NEW q \in Products, NEW desired \in Snapshots
    PROVE  Evaluate(reg, tree, op, q, desired) \in Decisions
<1> SUFFICES ASSUME NEW k \in Keys
             PROVE  Evaluate(reg, tree, op, q, desired)[k]
                        \in [branch: Branches, digest: Digests \cup {None}]
    BY DEF Evaluate, Decisions
<1>1. DesiredBranch(reg, tree, op, q, desired, k) \in Branches
    BY DEF DesiredBranch, Branches
<1>2. ReleasedBranch(reg, tree, q, k) \in Branches
    BY DEF ReleasedBranch, Branches
<1>3. desired.digest[k] \in Digests \cup {None} /\ reg.digest[k] \in Digests \cup {None}
    BY DEF Snapshots, Registries
<1> QED
    BY <1>1, <1>2, <1>3 DEF Evaluate

\* projectRegistry returns a registry.
LEMMA ProjectType ==
    ASSUME NEW reg \in Registries, NEW tree, NEW q \in Products,
           NEW desired \in Snapshots
    PROVE  Project(reg, tree, q, desired) \in Registries
<1> DEFINE digest == Project(reg, tree, q, desired).digest
           claims == Project(reg, tree, q, desired).claims
<1>1. reg.revision + 1 \in Nat
    BY DEF Registries
<1>2. ASSUME NEW k \in Keys PROVE digest[k] \in Digests \cup {None}
    BY DEF Project, Registries, Snapshots
<1>3. ASSUME NEW k \in Keys PROVE claims[k] \in [Products -> Versions \cup {None}]
    BY DEF Project, Registries, Snapshots
<1> QED
    BY <1>1, <1>2, <1>3 DEF Project, Registries

-----------------------------------------------------------------------------
(* Types *)

\* Where a process has begun its transaction or taken one up to recover it.
TxSteps == (CommitSteps \ {"begin"}) \cup RollbackSteps

\* A process that is not idle has a plan; one inside a transaction has its id.
InHand ==
    \A p \in Procs : /\ pc[p] # "idle" => plan[p] # None
                     /\ pc[p] \in TxSteps => job[p].tx \in TxIds

Typing == TypeOK /\ InHand

\* The planners ask for snapshots.
LEMMA RequestsType ==
    ASSUME NEW q \in Products, NEW r \in Receipts \cup {None},
           NEW request \in Requests(q, r)
    PROVE  request.op \in Operations /\ request.desired \in Snapshots
<1>1. ASSUME NEW s \in Snapshots PROVE Emptied(s) \in Snapshots
    BY DEF Emptied, Snapshots
<1>2. Bundles[q] \subseteq Snapshots /\ Legacies[q] \subseteq Snapshots
    BY BundlesAssumption
<1>3. r # None => r.current \in Snapshots /\ r.previous \in Snapshots \cup {None}
    BY DEF Receipts
<1> QED
    BY <1>1, <1>2, <1>3 DEF Requests, Operations

\* The local variables of Apply keep their types when one of them is assigned.
LEMMA JobUpdates ==
    ASSUME NEW jobs \in [Procs -> Jobs], NEW p \in Procs
    PROVE  /\ \A x \in Outcomes : [jobs EXCEPT ![p].outcome = x] \in [Procs -> Jobs]
           /\ \A x \in Registries : [jobs EXCEPT ![p].reg = x] \in [Procs -> Jobs]
           /\ \A x \in SUBSET TxIds : [jobs EXCEPT ![p].todo = x] \in [Procs -> Jobs]
           /\ \A x \in SUBSET Keys : [jobs EXCEPT ![p].pending = x] \in [Procs -> Jobs]
           /\ \A x \in Statuses : [jobs EXCEPT ![p].status = x] \in [Procs -> Jobs]
           /\ \A x \in [Keys -> Mutations \cup {None}] :
                 [jobs EXCEPT ![p].mutations = x] \in [Procs -> Jobs]
BY DEF Jobs

\* One of them is assigned: the types stay, and the transaction a process is in.
LEMMA Assigned ==
    ASSUME NEW p \in Procs, NEW x, job \in [Procs -> Jobs],
           \/ x \in Statuses /\ job' = [job EXCEPT ![p].status = x]
           \/ x \in SUBSET Keys /\ job' = [job EXCEPT ![p].pending = x]
           \/ x \in [Keys -> Mutations \cup {None}]
              /\ job' = [job EXCEPT ![p].mutations = x]
    PROVE  /\ job' \in [Procs -> Jobs]
           /\ \A y \in Procs : job'[y].tx = job[y].tx
<1>1. job' \in [Procs -> Jobs]
    <2>1. CASE x \in Statuses /\ job' = [job EXCEPT ![p].status = x]
        BY <2>1, JobUpdates
    <2>2. CASE x \in SUBSET Keys /\ job' = [job EXCEPT ![p].pending = x]
        BY <2>2, JobUpdates
    <2>3. CASE /\ x \in [Keys -> Mutations \cup {None}]
               /\ job' = [job EXCEPT ![p].mutations = x]
        BY <2>3, JobUpdates
    <2> QED
        BY <2>1, <2>2, <2>3
<1>2. \A y \in Procs : job'[y].tx = job[y].tx
    BY DEF Jobs
<1> QED
    BY <1>1, <1>2

LEMMA NoJobType == NoJob \in Jobs
<1>1. EmptyRegistry \in Registries
    BY DEF EmptyRegistry, Registries
<1>2. NoMutations \in [Keys -> Mutations \cup {None}]
    BY DEF NoMutations
<1> QED
    BY <1>1, <1>2 DEF NoJob, Jobs, Statuses, Outcomes

LEMMA InitTyping == Init => Typing
<1> SUFFICES ASSUME Init PROVE Typing
    OBVIOUS
<1> USE DEF Init
<1>1. EmptyRegistry \in Registries
    BY DEF EmptyRegistry, Registries
<1>2. NoJournal \in Journals
    <2>1. (CHOOSE q \in Products : TRUE) \in Products
        BY ProductsAssumption
    <2> QED
        BY <1>1, <2>1 DEF NoJournal, Journals, NoMutations, Statuses
<1>3. TypeOK
    BY <1>1, <1>2, NoJobType, TreesAssumption
    DEF TypeOK, Points, Contents, Counters
<1>4. InHand
    BY DEF InHand, TxSteps, CommitSteps, RollbackSteps
<1> QED
    BY <1>3, <1>4 DEF Typing

\* Apply returns: only the outcome and the program counter change.
LEMMA Returned ==
    ASSUME NEW p \in Procs, job \in [Procs -> Jobs], \E o \in Outcomes : Return(p, o)
    PROVE  /\ job' \in [Procs -> Jobs]
           /\ \A x \in Procs : job'[x].tx = job[x].tx
           /\ pc' = [pc EXCEPT ![p] = "release"]
<1>1. PICK o \in Outcomes : job' = [job EXCEPT ![p].outcome = o]
                           /\ pc' = [pc EXCEPT ![p] = "release"]
    BY DEF Return, Goto
<1>2. job' \in [Procs -> Jobs]
    BY <1>1, JobUpdates
<1>3. \A x \in Procs : job'[x].tx = job[x].tx
    BY <1>1 DEF Jobs
<1> QED
    BY <1>1, <1>2, <1>3

\* A process with a plan moves to another point of Apply, the others stay.
LEMMA HandKept ==
    ASSUME NEW p \in Procs, NEW point, InHand, pc \in [Procs -> Points],
           pc' = [pc EXCEPT ![p] = point], plan' = plan, plan[p] # None,
           \A x \in Procs \ {p} : job'[x].tx = job[x].tx,
           point \in TxSteps => job'[p].tx \in TxIds
    PROVE  InHand'
BY DEF InHand

\* An error or a success leaves the counters numbers.
LEMMA Counted ==
    ASSUME NEW o, count \in [Counters -> Nat], CountFault(o)
    PROVE  count' \in [Counters -> Nat]
BY DEF CountFault

\* Writing the in-memory journal keeps the journals' type.
LEMMA WrittenType ==
    ASSUME journal \in [TxIds -> Journals], NEW t \in TxIds, NEW status \in Statuses,
           NEW mutations \in [Keys -> Mutations \cup {None}]
    PROVE  Written(t, status, mutations) \in [TxIds -> Journals]
<1>1. [journal[t] EXCEPT !.status = status, !.mutations = mutations] \in Journals
    BY DEF Journals
<1>2. Written(t, status, mutations)
        = [journal EXCEPT ![t] = [journal[t] EXCEPT !.status = status,
                                                    !.mutations = mutations]]
    BY DEF Written
<1> QED
    BY <1>1, <1>2

\* What a process inside a transaction holds.
LEMMA InTransaction ==
    ASSUME TypeOK, InHand, NEW p \in Procs, pc[p] \in TxSteps
    PROVE  /\ plan[p] # None /\ plan[p] \in Plans /\ plan[p].desired \in Snapshots
           /\ job[p].tx \in TxIds /\ job[p].status \in Statuses
           /\ job[p].mutations \in [Keys -> Mutations \cup {None}]
           /\ job[p].reg \in Registries /\ job[p].pending \subseteq Keys
           /\ job[p].todo \subseteq TxIds
           /\ journal[job[p].tx].registryBefore \in Registries
           /\ journal[job[p].tx].receiptBefore \in Receipts \cup {None}
<1>1. pc[p] # "idle"
    BY DEF TxSteps, CommitSteps, RollbackSteps
<1>2. plan[p] # None /\ plan[p] \in Plans
    BY <1>1 DEF InHand, TypeOK
<1>3. plan[p].desired \in Snapshots
    BY <1>2 DEF Plans
<1>4. job[p] \in Jobs /\ job[p].tx \in TxIds
    BY DEF InHand, TypeOK
<1>5. journal[job[p].tx] \in Journals
    BY <1>4 DEF TypeOK
<1> QED
    BY <1>2, <1>3, <1>4, <1>5 DEF Jobs, Journals

LEMMA NextTyping == Typing /\ [Next]_vars => Typing'
<1> SUFFICES ASSUME TypeOK, InHand, [Next]_vars PROVE TypeOK' /\ InHand'
    BY DEF Typing
<1> USE DEF TypeOK, InHand, TxSteps, Points, LockedSteps, CommitSteps,
            RollbackSteps, Goto, files, ghosts, CountFault, Counters
<1>1. ASSUME NEW p \in Procs, PlanRequest(p) PROVE TypeOK' /\ InHand'
    <2>1. PICK request \in Requests(ProductOf[p], receipt[ProductOf[p]]) :
             plan' = [plan EXCEPT ![p] =
                 [ op |-> request.op, desired |-> request.desired,
                   revision |-> 0, decisions |-> None ]]
        BY <1>1 DEF PlanRequest
    <2>2. request.op \in Operations /\ request.desired \in Snapshots
        BY RequestsType, ProductOfAssumption
    <2>3. [op |-> request.op, desired |-> request.desired,
           revision |-> 0, decisions |-> None] \in Plans
        BY <2>2 DEF Plans
    <2> QED
        BY <1>1, <2>1, <2>3, NullAssumption DEF PlanRequest
<1>2. ASSUME NEW p \in Procs, PlanLoad(p) PROVE TypeOK' /\ InHand'
    <2>1. plan[p] \in Plans /\ registry.revision \in Nat
        BY <1>2 DEF PlanLoad, Registries
    <2>2. [plan[p] EXCEPT !.revision = registry.revision] \in Plans
        BY <2>1 DEF Plans
    <2>3. job' \in [Procs -> Jobs]
        BY <1>2, JobUpdates DEF PlanLoad
    <2> QED
        BY <1>2, <2>1, <2>2, <2>3, NullAssumption DEF PlanLoad
<1>3. ASSUME NEW p \in Procs, PlanEvaluate(p) PROVE TypeOK' /\ InHand'
    <2> DEFINE decided == Evaluate(job[p].reg, runtime, plan[p].op, ProductOf[p],
                                   plan[p].desired)
    <2>1. plan[p] \in Plans /\ job[p].reg \in Registries
        BY <1>3 DEF PlanEvaluate, Jobs
    <2>2. plan[p].op \in Operations /\ plan[p].desired \in Snapshots
        BY <2>1 DEF Plans
    <2>3. decided \in Decisions
        BY <2>1, <2>2, EvaluateType, ProductOfAssumption
    <2>4. [plan[p] EXCEPT !.decisions = decided] \in Plans
        BY <2>1, <2>3 DEF Plans
    <2> QED
        BY <1>3, <2>1, <2>4, NoJobType, NullAssumption DEF PlanEvaluate
<1>4. ASSUME NEW p \in Procs,
             Apply(p) \/ AcquireLock(p) \/ AcquireTimeout(p) \/ ReapStaleLock(p)
      PROVE  TypeOK' /\ InHand'
    <2>1. CASE Apply(p)
        BY <2>1 DEF Apply
    <2>2. CASE AcquireLock(p)
        BY <2>2 DEF AcquireLock
    <2>3. CASE AcquireTimeout(p)
        BY <2>3 DEF AcquireTimeout
    <2>4. CASE ReapStaleLock(p)
        BY <2>4 DEF ReapStaleLock
    <2> QED
        BY <1>4, <2>1, <2>2, <2>3, <2>4
<1>5. ASSUME NEW p \in Procs, Scan(p) PROVE TypeOK' /\ InHand'
    <2>1. job' \in [Procs -> Jobs]
        BY <1>5, JobUpdates DEF Scan, Incomplete
    <2> QED
        BY <1>5, <2>1 DEF Scan
<1>6. ASSUME NEW p \in Procs, Recover(p) PROVE TypeOK' /\ InHand'
    <2>1. CASE UNCHANGED job /\ Goto(p, "recheck")
        BY <1>6, <2>1 DEF Recover
    <2>2. CASE \E t \in job[p].todo :
                 /\ job' = [job EXCEPT ![p].tx = t, ![p].status = journal[t].status,
                                       ![p].mutations = journal[t].mutations,
                                       ![p].recovering = TRUE]
                 /\ Goto(p, "rollback")
        <3>1. PICK t \in job[p].todo :
                 job' = [job EXCEPT ![p].tx = t, ![p].status = journal[t].status,
                                    ![p].mutations = journal[t].mutations,
                                    ![p].recovering = TRUE]
            BY <2>2
        <3>2. t \in TxIds /\ job[p] \in Jobs
            BY DEF Jobs
        <3>3. journal[t].status \in Statuses
              /\ journal[t].mutations \in [Keys -> Mutations \cup {None}]
            BY <3>2 DEF Journals
        <3>4. [job[p] EXCEPT !.tx = t, !.status = journal[t].status,
                             !.mutations = journal[t].mutations,
                             !.recovering = TRUE] \in Jobs
            BY <3>2, <3>3 DEF Jobs
        <3>5. job' = [job EXCEPT ![p] = [job[p] EXCEPT !.tx = t,
                             !.status = journal[t].status,
                             !.mutations = journal[t].mutations,
                             !.recovering = TRUE]]
            BY <3>1
        <3>6. job' \in [Procs -> Jobs] /\ job'[p].tx \in TxIds
            BY <3>2, <3>4, <3>5 DEF Jobs
        <3>7. \A x \in Procs \ {p} : job'[x] = job[x]
            BY <3>5
        <3>8. pc' = [pc EXCEPT ![p] = "rollback"] /\ plan' = plan /\ plan[p] # None
            BY <1>6, <2>2 DEF Recover
        <3>9. InHand'
            BY <3>6, <3>7, <3>8, HandKept
        <3> QED
            BY <1>6, <3>6, <3>8, <3>9 DEF Recover
    <2> QED
        BY <1>6, <2>1, <2>2 DEF Recover
<1>7. ASSUME NEW p \in Procs, Recheck(p) PROVE TypeOK' /\ InHand'
    <2>1. [NoJob EXCEPT !.reg = registry] \in Jobs
        BY NoJobType DEF Jobs
    <2>2. plan' = plan /\ plan[p] # None /\ UNCHANGED <<files, lock, count, ghosts>>
        BY <1>7 DEF Recheck
    <2>3. CASE Return(p, "stale") \/ Return(p, "conflict")
        <3>1. /\ job' \in [Procs -> Jobs]
              /\ \A x \in Procs : job'[x].tx = job[x].tx
              /\ pc' = [pc EXCEPT ![p] = "release"]
            BY <2>3, Returned DEF Outcomes
        <3> QED
            BY <2>2, <3>1, HandKept
    <2>4. CASE /\ job' = [job EXCEPT ![p] = [NoJob EXCEPT !.reg = registry]]
               /\ Goto(p, "begin")
        <3>1. /\ job' \in [Procs -> Jobs]
              /\ \A x \in Procs \ {p} : job'[x] = job[x]
              /\ pc' = [pc EXCEPT ![p] = "begin"]
            BY <2>1, <2>4
        <3> QED
            BY <2>2, <3>1, HandKept
    <2> QED
        BY <1>7, <2>3, <2>4 DEF Recheck
<1>8. ASSUME NEW p \in Procs, Begin(p) PROVE TypeOK' /\ InHand'
    <2> DEFINE q == ProductOf[p]
               opened == [ status |-> "prepared", product |-> q,
                           mutations |-> NoMutations, registryBefore |-> job[p].reg,
                           receiptBefore |-> receipt[q] ]
    <2>1. plan' = plan /\ plan[p] # None
          /\ UNCHANGED <<registry, receipt, runtime, store, backup, lock, edited>>
        BY <1>8 DEF Begin
    <2>2. opened \in Journals
        BY ProductOfAssumption DEF Journals, Jobs, NoMutations, Statuses
    <2>3. CASE \E o \in Outcomes : Return(p, o) /\ UNCHANGED <<journal, origin, count>>
        BY <2>1, <2>3, Returned, HandKept
    <2>4. CASE \E t \in FreshTx : \E o \in WriteResults :
                /\ CountFault(o)
                /\ journal' = IF ~Landed(o) THEN journal
                              ELSE [journal EXCEPT ![t] = opened]
                /\ origin' = IF ~Landed(o) THEN origin
                             ELSE [origin EXCEPT ![t] = runtime]
                /\ IF o = "ok"
                   THEN /\ job' = [job EXCEPT ![p].tx = t, ![p].status = "prepared"]
                        /\ Goto(p, "advance")
                   ELSE Return(p, "failed")
        <3>1. PICK t \in FreshTx, o \in WriteResults :
                /\ CountFault(o)
                /\ journal' = IF ~Landed(o) THEN journal
                              ELSE [journal EXCEPT ![t] = opened]
                /\ origin' = IF ~Landed(o) THEN origin
                             ELSE [origin EXCEPT ![t] = runtime]
                /\ IF o = "ok"
                   THEN /\ job' = [job EXCEPT ![p].tx = t, ![p].status = "prepared"]
                        /\ Goto(p, "advance")
                   ELSE Return(p, "failed")
            BY <2>4
        <3>2. t \in TxIds
            BY DEF FreshTx
        <3>3. /\ journal' \in [TxIds -> Journals]
              /\ origin' \in [TxIds -> [Keys -> Contents]]
              /\ count' \in [Counters -> Nat]
            BY <3>1, <2>2, Counted
        <3>4. CASE o = "ok"
            <4>1. [job[p] EXCEPT !.tx = t, !.status = "prepared"] \in Jobs
                <5>1. job[p] \in Jobs /\ "prepared" \in Statuses
                    BY DEF Statuses
                <5> QED
                    BY <3>2, <5>1 DEF Jobs
            <4>2. job' = [job EXCEPT ![p] = [job[p] EXCEPT !.tx = t, !.status = "prepared"]]
                BY <3>1, <3>4
            <4>3. job' \in [Procs -> Jobs] /\ job'[p].tx \in TxIds
                  /\ \A x \in Procs \ {p} : job'[x] = job[x]
                BY <3>2, <4>1, <4>2 DEF Jobs
            <4>4. pc' = [pc EXCEPT ![p] = "advance"]
                BY <3>1, <3>4
            <4> QED
                BY <2>1, <3>3, <4>3, <4>4, HandKept
        <3>5. CASE o # "ok"
            <4>1. Return(p, "failed") /\ "failed" \in Outcomes
                BY <3>1, <3>5 DEF Outcomes
            <4> QED
                BY <2>1, <3>3, <4>1, Returned, HandKept
        <3> QED
            BY <3>4, <3>5
    <2> QED
        BY <1>8, <2>3, <2>4 DEF Begin, Outcomes
<1>9. ASSUME NEW p \in Procs, Advance(p) PROVE TypeOK' /\ InHand'
    <2>1. pc[p] \in TxSteps /\ plan' = plan
          /\ UNCHANGED <<registry, receipt, runtime, store, backup, lock, ghosts>>
        BY <1>9 DEF Advance
    <2>2. job[p].tx \in TxIds /\ plan[p] # None
        BY <2>1, InTransaction
    <2>3. CASE Goto(p, "abort") /\ UNCHANGED <<journal, job, count>>
        BY <2>1, <2>2, <2>3, HandKept
    <2>4. CASE \E o \in WriteResults :
            /\ CountFault(o)
            /\ job' = [job EXCEPT ![p].status = "applying"]
            /\ journal' = IF Landed(o)
                          THEN Written(job[p].tx, "applying", NoMutations)
                          ELSE journal
            /\ Goto(p, IF o = "ok" THEN "stage" ELSE "abort")
        <3>1. job' \in [Procs -> Jobs] /\ \A x \in Procs : job'[x].tx = job[x].tx
            <4>1. job' = [job EXCEPT ![p].status = "applying"] /\ "applying" \in Statuses
                BY <2>4 DEF Statuses
            <4> QED
                BY <4>1, Assigned
        <3>2. Written(job[p].tx, "applying", NoMutations) \in [TxIds -> Journals]
            BY <2>2, WrittenType DEF Statuses, NoMutations
        <3>3. journal' \in [TxIds -> Journals] /\ count' \in [Counters -> Nat]
            BY <2>4, <3>2, Counted
        <3>4. CASE Goto(p, "stage")
            BY <2>1, <2>2, <3>1, <3>3, <3>4, HandKept
        <3>5. CASE Goto(p, "abort")
            BY <2>1, <2>2, <3>1, <3>3, <3>5, HandKept
        <3> QED
            BY <2>4, <3>4, <3>5
    <2> QED
        BY <1>9, <2>3, <2>4 DEF Advance
<1>10. ASSUME NEW p \in Procs, Stage(p) PROVE TypeOK' /\ InHand'
    <2>1. pc[p] \in TxSteps /\ plan' = plan
          /\ UNCHANGED <<registry, receipt, runtime, journal, backup, lock, job, ghosts>>
        BY <1>10 DEF Stage
    <2>2. job[p].tx \in TxIds /\ plan[p] # None /\ plan[p].desired \in Snapshots
        BY <2>1, InTransaction
    <2>3. store' \subseteq Digests /\ count' \in [Counters -> Nat]
        <3> DEFINE wanted == {k \in Keys : plan[p].desired.digest[k] # None}
        <3>1. \A k \in wanted : plan[p].desired.digest[k] \in Digests
            BY <2>2 DEF Snapshots
        <3>2. PICK staged \in SUBSET wanted, o \in {"ok", "lost"} :
                 /\ CountFault(o)
                 /\ store' = store \cup {plan[p].desired.digest[k] : k \in staged}
            <4> DEFINE invalid == {k \in wanted : plan[p].desired.digest[k] \notin store
                                                 /\ ~SourceMatches(p, k)}
            <4>1. PICK broken \in {{}} \cup
                     (IF count.faults < MaxFaults THEN {{k} : k \in wanted} ELSE {}) :
                    /\ CountFault(IF broken = {} THEN "ok" ELSE "lost")
                    /\ store' = store \cup {plan[p].desired.digest[k] :
                          k \in {w \in wanted : \A b \in invalid \cup broken : w < b}}
                BY <1>10 DEF Stage
            <4> DEFINE staged == {w \in wanted : \A b \in invalid \cup broken : w < b}
            <4>2. staged \in SUBSET wanted
                OBVIOUS
            <4>3. store' = store \cup {plan[p].desired.digest[k] : k \in staged}
                BY <4>1
            <4>4. (IF broken = {} THEN "ok" ELSE "lost") \in {"ok", "lost"}
                OBVIOUS
            <4> HIDE DEF staged, invalid, wanted
            <4> QED
                BY <4>1, <4>2, <4>3, <4>4
        <3>3. store' \subseteq Digests
            BY <3>1, <3>2
        <3> QED
            BY <3>2, <3>3, Counted
    <2>4. pc' = [pc EXCEPT ![p] = "project"] \/ pc' = [pc EXCEPT ![p] = "abort"]
        BY <1>10 DEF Stage
    <2>5. InHand'
        BY <2>1, <2>2, <2>4, HandKept
    <2> QED
        BY <2>1, <2>3, <2>4, <2>5
<1>11. ASSUME NEW p \in Procs, ProjectRegistry(p) PROVE TypeOK' /\ InHand'
    <2> DEFINE next == Project(job[p].reg, runtime, ProductOf[p], plan[p].desired)
               touched == {k \in Keys : Mutates(plan[p].decisions[k])}
    <2>1. pc[p] \in TxSteps /\ plan' = plan /\ UNCHANGED <<files, lock, count, ghosts>>
        BY <1>11 DEF ProjectRegistry
    <2>2. job[p].tx \in TxIds /\ plan[p] # None /\ plan[p].desired \in Snapshots
          /\ job[p].reg \in Registries
        BY <2>1, InTransaction
    <2>3. CASE Goto(p, "abort") /\ UNCHANGED job
        BY <2>1, <2>2, <2>3, HandKept
    <2>4. CASE /\ job' = [job EXCEPT ![p].reg = next, ![p].pending = touched]
               /\ Goto(p, "mutate")
        <3>1. next \in Registries
            BY <2>2, ProjectType, ProductOfAssumption
        <3>2. [job[p] EXCEPT !.reg = next, !.pending = touched] \in Jobs
            <4>1. touched \in SUBSET Keys /\ job[p] \in Jobs
                OBVIOUS
            <4> HIDE DEF next, touched
            <4> QED
                BY <3>1, <4>1 DEF Jobs
        <3>3. job' = [job EXCEPT ![p] = [job[p] EXCEPT !.reg = next, !.pending = touched]]
            BY <2>4
        <3>4. /\ job' \in [Procs -> Jobs] /\ job'[p].tx = job[p].tx
              /\ \A x \in Procs \ {p} : job'[x] = job[x]
            <4> HIDE DEF next, touched
            <4> QED
                BY <3>2, <3>3 DEF Jobs
        <3> QED
            BY <2>1, <2>2, <2>4, <3>4, HandKept
    <2> QED
        BY <1>11, <2>3, <2>4 DEF ProjectRegistry
<1>12. ASSUME NEW p \in Procs, RecordMutation(p) PROVE TypeOK' /\ InHand'
    <2> DEFINE mutations == [job[p].mutations EXCEPT ![Target(p)] =
            [existed |-> runtime[Target(p)] # None,
             result |-> plan[p].desired.digest[Target(p)]]]
    <2>1. pc[p] \in TxSteps /\ plan' = plan
          /\ UNCHANGED <<registry, receipt, runtime, store, backup, lock, ghosts>>
        BY <1>12 DEF RecordMutation
    <2>2. job[p].tx \in TxIds /\ plan[p] # None
        BY <2>1, InTransaction
    <2>3. CASE Goto(p, "abort") /\ UNCHANGED <<journal, job, count>>
        BY <2>1, <2>2, <2>3, HandKept
    <2>4. CASE \E o \in WriteResults :
            /\ CountFault(o)
            /\ job' = [job EXCEPT ![p].mutations = mutations]
            /\ journal' = IF Landed(o)
                          THEN Written(job[p].tx, job[p].status, mutations) ELSE journal
            /\ Goto(p, IF o = "ok" THEN "backup" ELSE "abort")
        <3>1. mutations \in [Keys -> Mutations \cup {None}]
            <4>1. job[p].mutations \in [Keys -> Mutations \cup {None}]
                  /\ plan[p].desired \in Snapshots
                BY <2>1, InTransaction
            <4> QED
                BY <4>1 DEF Mutations, Snapshots
        <3> HIDE DEF mutations
        <3>2. job' \in [Procs -> Jobs] /\ \A x \in Procs : job'[x].tx = job[x].tx
            <4>1. job' = [job EXCEPT ![p].mutations = mutations]
                BY <2>4
            <4> QED
                BY <3>1, <4>1, Assigned
        <3>3. job[p].status \in Statuses
            BY <2>1, InTransaction
        <3>4. Written(job[p].tx, job[p].status, mutations) \in [TxIds -> Journals]
            BY <2>2, <3>1, <3>3, WrittenType
        <3>5. journal' \in [TxIds -> Journals] /\ count' \in [Counters -> Nat]
            BY <2>4, <3>4, Counted
        <3>6. CASE Goto(p, "backup")
            BY <2>1, <2>2, <3>2, <3>5, <3>6, HandKept
        <3>7. CASE Goto(p, "abort")
            BY <2>1, <2>2, <3>2, <3>5, <3>7, HandKept
        <3> QED
            BY <2>4, <3>6, <3>7
    <2> QED
        BY <1>12, <2>3, <2>4 DEF RecordMutation
<1>13. ASSUME NEW p \in Procs, BackUp(p) PROVE TypeOK' /\ InHand'
    <2>1. pc[p] \in TxSteps /\ plan' = plan
          /\ UNCHANGED <<registry, receipt, store, journal, lock, job, ghosts>>
        BY <1>13 DEF BackUp
    <2>2. job[p].tx \in TxIds /\ plan[p] # None
        BY <2>1, InTransaction
    <2>3. runtime' \in [Keys -> Contents] /\ backup' \in [TxIds -> [Keys -> Contents]]
        <3>1. CASE UNCHANGED <<runtime, backup>>
            BY <3>1
        <3> DEFINE k == Target(p)
                   t == job[p].tx
        <3>2. CASE /\ backup' = [backup EXCEPT ![t][k] = runtime[k]]
                   /\ runtime' = [runtime EXCEPT ![k] = None]
            <4> HIDE DEF k
            <4>1. runtime' \in [Keys -> Contents]
                BY <3>2 DEF Contents
            <4>2. [backup[t] EXCEPT ![k] = runtime[k]] \in [Keys -> Contents]
                <5>1. backup[t] \in [Keys -> Contents]
                    BY <2>2
                <5> QED
                    BY <5>1
            <4>3. backup' \in [TxIds -> [Keys -> Contents]]
                BY <2>2, <3>2, <4>2
            <4> QED
                BY <4>1, <4>3
        <3> QED
            BY <1>13, <3>1, <3>2 DEF BackUp
    <2>4. count' \in [Counters -> Nat]
        BY <1>13, Counted DEF BackUp
    <2>5. CASE Goto(p, "install")
        BY <2>1, <2>2, <2>3, <2>4, <2>5, HandKept
    <2>6. CASE Goto(p, "abort")
        BY <2>1, <2>2, <2>3, <2>4, <2>6, HandKept
    <2> QED
        BY <1>13, <2>5, <2>6 DEF BackUp
<1>14. ASSUME NEW p \in Procs, InstallTarget(p) PROVE TypeOK' /\ InHand'
    <2>1. pc[p] \in TxSteps /\ plan' = plan
          /\ UNCHANGED <<registry, receipt, store, journal, backup, lock, ghosts>>
        BY <1>14 DEF InstallTarget
    <2>2. job[p].tx \in TxIds /\ plan[p] # None
        BY <2>1, InTransaction
    <2>3. runtime' \in [Keys -> Contents]
        <3>1. \A k \in Keys : plan[p].desired.digest[k] \in Contents
            BY <2>1, InTransaction DEF Snapshots, Contents
        <3> QED
            BY <1>14, <3>1 DEF InstallTarget
    <2>4. count' \in [Counters -> Nat]
        BY <1>14, Counted DEF InstallTarget
    <2>5. job' \in [Procs -> Jobs] /\ \A x \in Procs : job'[x].tx = job[x].tx
        <3>1. CASE NextTarget(p)
            <4>1. job' = [job EXCEPT ![p].pending = job[p].pending \ {Target(p)}]
                BY <3>1 DEF NextTarget
            <4>2. job[p].pending \ {Target(p)} \in SUBSET Keys
                BY <2>1, InTransaction
            <4> QED
                BY <4>1, <4>2, Assigned
        <3>2. CASE UNCHANGED job
            BY <3>2
        <3> QED
            BY <1>14, <3>1, <3>2 DEF InstallTarget
    <2>6. CASE Goto(p, "mutate")
        BY <2>1, <2>2, <2>3, <2>4, <2>5, <2>6, HandKept
    <2>7. CASE Goto(p, "abort")
        BY <2>1, <2>2, <2>3, <2>4, <2>5, <2>7, HandKept
    <2> QED
        BY <1>14, <2>6, <2>7 DEF InstallTarget
<1>15. ASSUME NEW p \in Procs, PublishRegistry(p) PROVE TypeOK' /\ InHand'
    <2>1. pc[p] \in TxSteps /\ plan' = plan
          /\ UNCHANGED <<receipt, runtime, store, journal, backup, lock, job, ghosts>>
        BY <1>15 DEF PublishRegistry
    <2>2. job[p].tx \in TxIds /\ plan[p] # None
        BY <2>1, InTransaction
    <2>3. registry' \in Registries
        <3>1. job[p].reg \in Registries
            BY <2>1, InTransaction
        <3> QED
            BY <1>15, <3>1 DEF PublishRegistry
    <2>4. count' \in [Counters -> Nat]
        BY <1>15, Counted DEF PublishRegistry
    <2>5. CASE Goto(p, "receipt")
        BY <2>1, <2>2, <2>3, <2>4, <2>5, HandKept
    <2>6. CASE Goto(p, "abort")
        BY <2>1, <2>2, <2>3, <2>4, <2>6, HandKept
    <2> QED
        BY <1>15, <2>5, <2>6 DEF PublishRegistry
<1>16. ASSUME NEW p \in Procs, PublishReceipt(p) PROVE TypeOK' /\ InHand'
    <2>1. pc[p] \in TxSteps /\ plan' = plan
          /\ UNCHANGED <<registry, runtime, store, journal, backup, lock, job, ghosts>>
        BY <1>16 DEF PublishReceipt
    <2>2. job[p].tx \in TxIds /\ plan[p] # None
        BY <2>1, InTransaction
    <2>3. NewReceipt(p) \in Receipts
        <3>1. job[p].reg.revision \in Nat /\ plan[p].desired \in Snapshots
              /\ journal[job[p].tx].receiptBefore \in Receipts \cup {None}
            BY <2>1, InTransaction DEF Registries
        <3> QED
            BY <3>1, ProductOfAssumption DEF NewReceipt, Receipts
    <2>4. receipt' \in [Products -> Receipts \cup {None}]
        BY <1>16, <2>3 DEF PublishReceipt
    <2>5. count' \in [Counters -> Nat]
        BY <1>16, Counted DEF PublishReceipt
    <2>6. CASE Goto(p, "commit")
        BY <2>1, <2>2, <2>4, <2>5, <2>6, HandKept
    <2>7. CASE Goto(p, "abort")
        BY <2>1, <2>2, <2>4, <2>5, <2>7, HandKept
    <2> QED
        BY <1>16, <2>6, <2>7 DEF PublishReceipt
<1>17. ASSUME NEW p \in Procs, CommitJournal(p) PROVE TypeOK' /\ InHand'
    <2>1. pc[p] \in TxSteps /\ plan' = plan
          /\ UNCHANGED <<registry, receipt, runtime, store, backup, lock, ghosts>>
        BY <1>17 DEF CommitJournal
    <2>2. job[p].tx \in TxIds /\ plan[p] # None
        BY <2>1, InTransaction
    <2>3. PICK o \in WriteResults, x \in {"none", "partial", "success"} :
            /\ CountFault(o)
            /\ journal' = IF Landed(o)
                          THEN Written(job[p].tx, "committed", job[p].mutations)
                          ELSE journal
            /\ job' = [job EXCEPT ![p].status = "committed", ![p].outcome = x]
            /\ Goto(p, IF o = "ok" THEN "release" ELSE "abort")
        BY <1>17 DEF CommitJournal
    <2>4. job' \in [Procs -> Jobs] /\ \A y \in Procs : job'[y].tx = job[y].tx
        <3>1. job[p] \in Jobs /\ "committed" \in Statuses /\ x \in Outcomes
            BY DEF Statuses, Outcomes
        <3>2. [job[p] EXCEPT !.status = "committed", !.outcome = x] \in Jobs
            BY <3>1 DEF Jobs
        <3>3. job' = [job EXCEPT ![p] = [job[p] EXCEPT !.status = "committed", !.outcome = x]]
            BY <2>3
        <3>4. job'[p].tx = job[p].tx
            BY <3>1, <3>3 DEF Jobs
        <3> QED
            BY <3>2, <3>3, <3>4
    <2>5. Written(job[p].tx, "committed", job[p].mutations) \in [TxIds -> Journals]
        <3>1. "committed" \in Statuses
            BY DEF Statuses
        <3>2. job[p].mutations \in [Keys -> Mutations \cup {None}]
            BY <2>1, InTransaction
        <3> QED
            BY <2>2, <3>1, <3>2, WrittenType
    <2>6. journal' \in [TxIds -> Journals] /\ count' \in [Counters -> Nat]
        BY <2>3, <2>5, Counted
    <2>7. CASE Goto(p, "release")
        BY <2>1, <2>2, <2>4, <2>6, <2>7, HandKept
    <2>8. CASE Goto(p, "abort")
        BY <2>1, <2>2, <2>4, <2>6, <2>8, HandKept
    <2> QED
        BY <2>3, <2>7, <2>8
<1>18. ASSUME NEW p \in Procs, Abort(p) PROVE TypeOK' /\ InHand'
    <2>1. pc[p] \in TxSteps /\ plan' = plan
          /\ UNCHANGED <<registry, receipt, runtime, store, backup, lock, job, ghosts>>
        BY <1>18 DEF Abort
    <2>2. job[p].tx \in TxIds /\ plan[p] # None
        BY <2>1, InTransaction
    <2>3. Written(job[p].tx, job[p].status, job[p].mutations) \in [TxIds -> Journals]
        <3>1. job[p].status \in Statuses
              /\ job[p].mutations \in [Keys -> Mutations \cup {None}]
            BY <2>1, InTransaction
        <3> QED
            BY <2>2, <3>1, WrittenType
    <2>4. journal' \in [TxIds -> Journals] /\ count' \in [Counters -> Nat]
        BY <1>18, <2>3, Counted DEF Abort
    <2>5. pc' = [pc EXCEPT ![p] = "rollback"]
        BY <1>18 DEF Abort
    <2> QED
        BY <2>1, <2>2, <2>4, <2>5, HandKept
<1>19. ASSUME NEW p \in Procs, StartRollback(p) PROVE TypeOK' /\ InHand'
    <2>1. pc[p] \in TxSteps /\ plan' = plan
          /\ UNCHANGED <<files, lock, count, ghosts>>
        BY <1>19 DEF StartRollback
    <2>2. job[p].tx \in TxIds /\ plan[p] # None
        BY <2>1, InTransaction
    <2>3. CASE Return(p, "busy") \/ Return(p, "incomplete")
        <3>1. \E o \in Outcomes : Return(p, o)
            BY <2>3 DEF Outcomes
        <3>2. /\ job' \in [Procs -> Jobs]
              /\ \A x \in Procs : job'[x].tx = job[x].tx
              /\ pc' = [pc EXCEPT ![p] = "release"]
            BY <3>1, Returned
        <3>3. InHand'
            BY <2>1, <2>2, <3>2, HandKept
        <3> QED
            BY <2>1, <2>2, <3>2, <3>3
    <2>4. CASE /\ job' = [job EXCEPT ![p].pending =
                            {k \in Keys : job[p].mutations[k] # None}]
               /\ Goto(p, "undo")
        <3>1. {k \in Keys : job[p].mutations[k] # None} \in SUBSET Keys
            OBVIOUS
        <3>2. job' \in [Procs -> Jobs] /\ \A y \in Procs : job'[y].tx = job[y].tx
            BY <2>4, <3>1, Assigned
        <3> QED
            BY <2>1, <2>2, <2>4, <3>2, HandKept
    <2> QED
        BY <1>19, <2>3, <2>4 DEF StartRollback
<1>20. ASSUME NEW p \in Procs, UndoInspect(p) PROVE TypeOK' /\ InHand'
    <2>1. pc[p] \in TxSteps /\ plan' = plan
          /\ UNCHANGED <<files, lock, count, ghosts>>
        BY <1>20 DEF UndoInspect
    <2>2. job[p].tx \in TxIds /\ plan[p] # None
        BY <2>1, InTransaction
    <2>3. CASE Return(p, "incomplete")
        <3>1. \E o \in Outcomes : Return(p, o)
            BY <2>3 DEF Outcomes
        <3>2. /\ job' \in [Procs -> Jobs]
              /\ \A x \in Procs : job'[x].tx = job[x].tx
              /\ pc' = [pc EXCEPT ![p] = "release"]
            BY <3>1, Returned
        <3>3. InHand'
            BY <2>1, <2>2, <3>2, HandKept
        <3> QED
            BY <2>1, <2>2, <3>2, <3>3
    <2>4. CASE Goto(p, "restore") /\ UNCHANGED job
        BY <2>1, <2>2, <2>4, HandKept
    <2>5. CASE Goto(p, "remove") /\ UNCHANGED job
        BY <2>1, <2>2, <2>5, HandKept
    <2> QED
        BY <1>20, <2>3, <2>4, <2>5 DEF UndoInspect, RollbackFails
<1>21. ASSUME NEW p \in Procs, UndoRemove(p) PROVE TypeOK' /\ InHand'
    <2>1. pc[p] \in TxSteps /\ plan' = plan
          /\ UNCHANGED <<registry, receipt, store, journal, backup, lock, ghosts>>
        BY <1>21 DEF UndoRemove
    <2>2. job[p].tx \in TxIds /\ plan[p] # None
        BY <2>1, InTransaction
    <2>3. runtime' \in [Keys -> Contents] /\ count' \in [Counters -> Nat]
        BY <1>21, Counted DEF UndoRemove, Contents
    <2>4. CASE Return(p, "incomplete")
        <3>1. \E o \in Outcomes : Return(p, o)
            BY <2>4 DEF Outcomes
        <3>2. /\ job' \in [Procs -> Jobs]
              /\ \A x \in Procs : job'[x].tx = job[x].tx
              /\ pc' = [pc EXCEPT ![p] = "release"]
            BY <3>1, Returned
        <3>3. InHand'
            BY <2>1, <2>2, <3>2, HandKept
        <3> QED
            BY <2>1, <2>2, <2>3, <3>2, <3>3
    <2>5. CASE Goto(p, "restore") /\ UNCHANGED job
        BY <2>1, <2>2, <2>3, <2>5, HandKept
    <2> QED
        BY <1>21, <2>4, <2>5 DEF UndoRemove, RollbackFails
<1>22. ASSUME NEW p \in Procs, UndoRestore(p) PROVE TypeOK' /\ InHand'
    <2>1. pc[p] \in TxSteps /\ plan' = plan
          /\ UNCHANGED <<registry, receipt, store, journal, lock, ghosts>>
        BY <1>22 DEF UndoRestore
    <2>2. job[p].tx \in TxIds /\ plan[p] # None
        BY <2>1, InTransaction
    <2>3. runtime' \in [Keys -> Contents] /\ backup' \in [TxIds -> [Keys -> Contents]]
        <3> DEFINE k == LastTarget(p)
                   t == job[p].tx
        <3>1. CASE UNCHANGED <<runtime, backup>>
            BY <3>1
        <3>2. CASE /\ runtime' = [runtime EXCEPT ![k] = backup[t][k]]
                   /\ backup' = [backup EXCEPT ![t][k] = None]
            <4> HIDE DEF k
            <4>1. backup[t] \in [Keys -> Contents]
                BY <2>2
            <4>2. runtime' \in [Keys -> Contents]
                BY <3>2, <4>1
            <4>3. [backup[t] EXCEPT ![k] = None] \in [Keys -> Contents]
                BY <4>1 DEF Contents
            <4>4. backup' \in [TxIds -> [Keys -> Contents]]
                BY <2>2, <3>2, <4>3
            <4> QED
                BY <4>2, <4>4
        <3> QED
            BY <1>22, <3>1, <3>2 DEF UndoRestore
    <2>4. count' \in [Counters -> Nat]
        BY <1>22, Counted DEF UndoRestore
    <2>5. CASE Return(p, "incomplete")
        <3>1. \E o \in Outcomes : Return(p, o)
            BY <2>5 DEF Outcomes
        <3>2. /\ job' \in [Procs -> Jobs]
              /\ \A x \in Procs : job'[x].tx = job[x].tx
              /\ pc' = [pc EXCEPT ![p] = "release"]
            BY <3>1, Returned
        <3>3. InHand'
            BY <2>1, <2>2, <3>2, HandKept
        <3> QED
            BY <2>1, <2>2, <2>3, <2>4, <3>2, <3>3
    <2>6. CASE /\ Goto(p, "undo")
               /\ job' = [job EXCEPT ![p].pending = @ \ {LastTarget(p)}]
        <3>1. job' = [job EXCEPT ![p].pending = job[p].pending \ {LastTarget(p)}]
            BY <2>6
        <3>2. job[p].pending \ {LastTarget(p)} \in SUBSET Keys
            BY <2>1, InTransaction
        <3>3. job' \in [Procs -> Jobs] /\ \A y \in Procs : job'[y].tx = job[y].tx
            BY <3>1, <3>2, Assigned
        <3> QED
            BY <2>1, <2>2, <2>3, <2>4, <2>6, <3>3, HandKept
    <2> QED
        BY <1>22, <2>5, <2>6 DEF UndoRestore, RollbackFails
<1>23. ASSUME NEW p \in Procs, RestoreRegistry(p) PROVE TypeOK' /\ InHand'
    <2>1. pc[p] \in TxSteps /\ plan' = plan
          /\ UNCHANGED <<receipt, runtime, store, journal, backup, lock, ghosts>>
        BY <1>23 DEF RestoreRegistry
    <2>2. job[p].tx \in TxIds /\ plan[p] # None
        BY <2>1, InTransaction
    <2>3. registry' \in Registries
        <3>1. journal[job[p].tx].registryBefore \in Registries
            BY <2>1, InTransaction
        <3> QED
            BY <1>23, <3>1 DEF RestoreRegistry
    <2>4. count' \in [Counters -> Nat]
        BY <1>23, Counted DEF RestoreRegistry
    <2>5. CASE Return(p, "incomplete")
        <3>1. \E o \in Outcomes : Return(p, o)
            BY <2>5 DEF Outcomes
        <3>2. /\ job' \in [Procs -> Jobs]
              /\ \A x \in Procs : job'[x].tx = job[x].tx
              /\ pc' = [pc EXCEPT ![p] = "release"]
            BY <3>1, Returned
        <3>3. InHand'
            BY <2>1, <2>2, <3>2, HandKept
        <3> QED
            BY <2>1, <2>2, <2>3, <2>4, <3>2, <3>3
    <2>6. CASE Goto(p, "rb_receipt") /\ UNCHANGED job
        BY <2>1, <2>2, <2>3, <2>4, <2>6, HandKept
    <2> QED
        BY <1>23, <2>5, <2>6 DEF RestoreRegistry, RollbackFails
<1>24. ASSUME NEW p \in Procs, RestoreReceipt(p) PROVE TypeOK' /\ InHand'
    <2>1. pc[p] \in TxSteps /\ plan' = plan
          /\ UNCHANGED <<registry, runtime, store, journal, backup, lock, ghosts>>
        BY <1>24 DEF RestoreReceipt
    <2>2. job[p].tx \in TxIds /\ plan[p] # None
        BY <2>1, InTransaction
    <2>3. receipt' \in [Products -> Receipts \cup {None}]
        <3>1. journal[job[p].tx].receiptBefore \in Receipts \cup {None}
            BY <2>1, InTransaction
        <3> QED
            BY <1>24, <3>1 DEF RestoreReceipt
    <2>4. count' \in [Counters -> Nat]
        BY <1>24, Counted DEF RestoreReceipt
    <2>5. CASE Return(p, "incomplete")
        <3>1. \E o \in Outcomes : Return(p, o)
            BY <2>5 DEF Outcomes
        <3>2. /\ job' \in [Procs -> Jobs]
              /\ \A x \in Procs : job'[x].tx = job[x].tx
              /\ pc' = [pc EXCEPT ![p] = "release"]
            BY <3>1, Returned
        <3>3. InHand'
            BY <2>1, <2>2, <3>2, HandKept
        <3> QED
            BY <2>1, <2>2, <2>3, <2>4, <3>2, <3>3
    <2>6. CASE Goto(p, "rb_journal") /\ UNCHANGED job
        BY <2>1, <2>2, <2>3, <2>4, <2>6, HandKept
    <2> QED
        BY <1>24, <2>5, <2>6 DEF RestoreReceipt, RollbackFails
<1>25. ASSUME NEW p \in Procs, FinishRollback(p) PROVE TypeOK' /\ InHand'
    <2>1. pc[p] \in TxSteps /\ plan' = plan
          /\ UNCHANGED <<registry, receipt, runtime, store, backup, lock, ghosts>>
        BY <1>25 DEF FinishRollback
    <2>2. job[p].tx \in TxIds /\ plan[p] # None
        BY <2>1, InTransaction
    <2>3. Written(job[p].tx, "rolled_back", job[p].mutations) \in [TxIds -> Journals]
        <3>1. "rolled_back" \in Statuses
            BY DEF Statuses
        <3>2. job[p].mutations \in [Keys -> Mutations \cup {None}]
            BY <2>1, InTransaction
        <3> QED
            BY <2>2, <3>1, <3>2, WrittenType
    <2>4. journal' \in [TxIds -> Journals] /\ count' \in [Counters -> Nat]
        BY <1>25, <2>3, Counted DEF FinishRollback
    <2>5. CASE Return(p, "incomplete") \/ Return(p, "failed")
        <3>1. \E o \in Outcomes : Return(p, o)
            BY <2>5 DEF Outcomes
        <3>2. /\ job' \in [Procs -> Jobs]
              /\ \A x \in Procs : job'[x].tx = job[x].tx
              /\ pc' = [pc EXCEPT ![p] = "release"]
            BY <3>1, Returned
        <3>3. InHand'
            BY <2>1, <2>2, <3>2, HandKept
        <3> QED
            BY <2>1, <2>2, <2>4, <3>2, <3>3
    <2>6. CASE /\ Goto(p, "recover")
               /\ job' = [job EXCEPT ![p] =
                            [NoJob EXCEPT !.todo = job[p].todo \ {job[p].tx}]]
        <3>1. job[p].todo \ {job[p].tx} \in SUBSET TxIds
            BY <2>1, InTransaction
        <3>2. [NoJob EXCEPT !.todo = job[p].todo \ {job[p].tx}] \in Jobs
            BY <3>1, NoJobType DEF Jobs
        <3>3. job' \in [Procs -> Jobs] /\ \A y \in Procs \ {p} : job'[y] = job[y]
            BY <2>6, <3>2
        <3> QED
            BY <2>1, <2>2, <2>4, <2>6, <3>3, HandKept
    <2> QED
        BY <1>25, <2>5, <2>6 DEF FinishRollback, RollbackFails
<1>26. ASSUME NEW p \in Procs, Release(p) \/ Crash(p) PROVE TypeOK' /\ InHand'
    <2>1. /\ UNCHANGED <<files, ghosts>>
          /\ job' = [job EXCEPT ![p] = NoJob]
          /\ pc' = [pc EXCEPT ![p] = "idle"]
        BY <1>26 DEF Release, Crash
    <2>2. plan' = plan \/ plan' = [plan EXCEPT ![p] = None]
        BY <1>26 DEF Release, Crash
    <2>3. plan' \in [Procs -> Plans \cup {None}]
          /\ \A y \in Procs \ {p} : plan'[y] = plan[y]
        BY <2>2
    <2>4. lock' \in Procs \cup {None, Dead}
        BY <1>26 DEF Release, Crash
    <2>5. count' \in [Counters -> Nat]
        <3>1. count' = count \/ count' = [count EXCEPT !.crashes = count.crashes + 1]
            BY <1>26 DEF Release, Crash
        <3> QED
            BY <3>1
    <2>6. job' \in [Procs -> Jobs] /\ \A y \in Procs \ {p} : job'[y] = job[y]
        BY <2>1, NoJobType
    <2> QED
        BY <2>1, <2>3, <2>4, <2>5, <2>6
<1>27. ASSUME UserEdit PROVE TypeOK' /\ InHand'
    <2>1. runtime' \in [Keys -> Contents] /\ edited' \subseteq Keys
        BY <1>27, TreesAssumption DEF UserEdit
    <2> QED
        BY <1>27, <2>1 DEF UserEdit
<1>28. CASE UNCHANGED vars
    BY <1>28 DEF vars
<1> QED
    BY <1>1, <1>2, <1>3, <1>4, <1>5, <1>6, <1>7, <1>8, <1>9, <1>10, <1>11, <1>12,
       <1>13, <1>14, <1>15, <1>16, <1>17, <1>18, <1>19, <1>20, <1>21, <1>22, <1>23,
       <1>24, <1>25, <1>26, <1>27, <1>28 DEF Next, Step

\* Every state has the types of TypeOK, for any number of processes, products and
\* targets, and a process inside a transaction holds its plan and its journal.
THEOREM TypingInvariant == Spec => []Typing
BY InitTyping, NextTyping, PTL DEF Spec

\* The invariant TypeOK of the runs, for every value of the constants.
THEOREM TypeCorrect == Spec => []TypeOK
BY TypingInvariant, PTL DEF Typing


-----------------------------------------------------------------------------
(* Mutual exclusion *)

\* At the start nobody holds the lock.
LEMMA InitLock == Init => LockDiscipline
BY TokenAssumption
DEF Init, LockDiscipline, LockedSteps, CommitSteps, RollbackSteps

\* A step of p that keeps the lock and starts and ends inside the locked part of
\* Apply, or starts and ends outside it.
LEMMA LockKept ==
    ASSUME Typing, LockDiscipline, NEW p \in Procs, NEW point,
           pc' = [pc EXCEPT ![p] = point], lock' = lock,
           pc[p] \in LockedSteps <=> point \in LockedSteps
    PROVE  LockDiscipline'
BY DEF Typing, TypeOK, LockDiscipline

\* Every step keeps the lock with the one process inside, when nobody's lock
\* expires.
LEMMA NextLock ==
    ASSUME MaxExpiries = 0, Typing, LockDiscipline, [Next]_vars
    PROVE  LockDiscipline'
<1> USE DEF LockedSteps, CommitSteps, RollbackSteps, Goto, Return, RollbackFails,
            files, ghosts
<1>1. ASSUME NEW p \in Procs, PlanRequest(p) \/ PlanLoad(p) \/ PlanEvaluate(p) \/ Apply(p)
      PROVE  LockDiscipline'
    <2>1. lock' = lock /\ pc[p] \notin LockedSteps
        BY <1>1 DEF PlanRequest, PlanLoad, PlanEvaluate, Apply
    <2>2. \E point \in {"load", "evaluate", "idle", "acquire"} :
             pc' = [pc EXCEPT ![p] = point]
        BY <1>1 DEF PlanRequest, PlanLoad, PlanEvaluate, Apply
    <2> QED
        BY <2>1, <2>2, LockKept
<1>2. ASSUME NEW p \in Procs, AcquireLock(p) PROVE LockDiscipline'
    BY <1>2, TokenAssumption DEF AcquireLock, LockDiscipline, Typing, TypeOK
<1>3. ASSUME NEW p \in Procs, AcquireTimeout(p) PROVE LockDiscipline'
    BY <1>3, LockKept DEF AcquireTimeout
<1>4. ASSUME NEW p \in Procs, ReapStaleLock(p) PROVE LockDiscipline'
    <2>1. lock = Dead
        BY <1>4 DEF ReapStaleLock, Typing, TypeOK, Counters
    <2> QED
        BY <1>4, <2>1, TokenAssumption DEF ReapStaleLock, LockDiscipline
<1>5. ASSUME NEW p \in Procs,
             \/ Scan(p) \/ Recover(p) \/ Recheck(p) \/ Begin(p) \/ Advance(p)
             \/ Stage(p) \/ ProjectRegistry(p)
      PROVE  LockDiscipline'
    <2>1. \E point \in LockedSteps : pc' = [pc EXCEPT ![p] = point]
        BY <1>5 DEF Scan, Recover, Recheck, Begin, Advance, Stage, ProjectRegistry
    <2>2. lock' = lock /\ pc[p] \in LockedSteps
        BY <1>5 DEF Scan, Recover, Recheck, Begin, Advance, Stage, ProjectRegistry
    <2> QED
        BY <2>1, <2>2, LockKept
<1>6. ASSUME NEW p \in Procs,
             \/ RecordMutation(p) \/ BackUp(p) \/ InstallTarget(p)
             \/ PublishRegistry(p) \/ PublishReceipt(p) \/ CommitJournal(p)
      PROVE  LockDiscipline'
    <2>1. \E point \in LockedSteps : pc' = [pc EXCEPT ![p] = point]
        BY <1>6 DEF RecordMutation, BackUp, InstallTarget, PublishRegistry,
                    PublishReceipt, CommitJournal
    <2>2. lock' = lock /\ pc[p] \in LockedSteps
        BY <1>6 DEF RecordMutation, BackUp, InstallTarget, PublishRegistry,
                    PublishReceipt, CommitJournal
    <2> QED
        BY <2>1, <2>2, LockKept
<1>7. ASSUME NEW p \in Procs,
             \/ Abort(p) \/ StartRollback(p) \/ UndoInspect(p) \/ UndoRemove(p)
             \/ UndoRestore(p) \/ RestoreRegistry(p) \/ RestoreReceipt(p)
             \/ FinishRollback(p)
      PROVE  LockDiscipline'
    <2>1. \E point \in LockedSteps : pc' = [pc EXCEPT ![p] = point]
        BY <1>7 DEF Abort, StartRollback, UndoInspect, UndoRemove, UndoRestore,
                    RestoreRegistry, RestoreReceipt, FinishRollback
    <2>2. lock' = lock /\ pc[p] \in LockedSteps
        BY <1>7 DEF Abort, StartRollback, UndoInspect, UndoRemove, UndoRestore,
                    RestoreRegistry, RestoreReceipt, FinishRollback
    <2> QED
        BY <2>1, <2>2, LockKept
<1>8. ASSUME NEW p \in Procs, Release(p) PROVE LockDiscipline'
    BY <1>8, TokenAssumption DEF Release, Owned, LockDiscipline, Typing, TypeOK
<1>9. ASSUME NEW p \in Procs, Crash(p) PROVE LockDiscipline'
    BY <1>9, TokenAssumption DEF Crash, Owned, LockDiscipline, Typing, TypeOK
<1>10. ASSUME UserEdit PROVE LockDiscipline'
    BY <1>10 DEF UserEdit, LockDiscipline
<1>11. CASE UNCHANGED vars
    BY <1>11 DEF vars, LockDiscipline
<1> QED
    BY <1>1, <1>2, <1>3, <1>4, <1>5, <1>6, <1>7, <1>8, <1>9, <1>10, <1>11
    DEF Next, Step

\* As long as no live holder outlives the stale window, a process is between
\* acquireLock and release exactly when registry.lock is its own.
THEOREM LockSafety == ASSUME MaxExpiries = 0 PROVE Spec => []LockDiscipline
<1>1. Typing /\ LockDiscipline /\ [Next]_vars => LockDiscipline'
    BY NextLock
<1> QED
    BY InitLock, <1>1, TypingInvariant, PTL DEF Spec

-----------------------------------------------------------------------------
(* One transaction at a time *)

\* What the induction carries.
Serial == Typing /\ LockDiscipline /\ InFlightIsOwn /\ AtMostOneIncomplete

\* Writing the journal of t as finished takes it out of the incomplete ones; any
\* other write at most adds it.
LEMMA WrittenIncomplete ==
    ASSUME Typing, NEW t \in TxIds, NEW status, NEW mutations,
           journal' = Written(t, status, mutations)
    PROVE  /\ Incomplete' \subseteq Incomplete \cup {t}
           /\ status \in {"committed", "rolled_back"} => Incomplete' = Incomplete \ {t}
<1>1. journal \in [TxIds -> Journals]
    BY DEF Typing, TypeOK
<1>2. \A s \in TxIds \ {t} : journal'[s].status = journal[s].status
    BY <1>1 DEF Written
<1>3. journal'[t].status = status
    BY <1>1 DEF Written, Journals
<1> QED
    BY <1>2, <1>3 DEF Incomplete

\* The transactions that are incomplete depend on the journals alone.
LEMMA SameIncomplete == UNCHANGED journal => Incomplete' = Incomplete
BY DEF Incomplete

\* A step of p outside the locked part of Apply, or out of it: whoever is inside
\* keeps his job, the journals stay.
LEMMA OutsideStep ==
    ASSUME Serial, NEW p \in Procs, NEW point, UNCHANGED journal,
           pc' = [pc EXCEPT ![p] = point],
           point \notin {"recover", "recheck"} \cup CommitSteps \cup RollbackSteps,
           \A x \in Procs \ {p} : job'[x] = job[x]
    PROVE  InFlightIsOwn' /\ AtMostOneIncomplete'
<1>1. Incomplete' = Incomplete
    BY SameIncomplete
<1>2. AtMostOneIncomplete'
    BY <1>1 DEF Serial, AtMostOneIncomplete
<1>3. \A x \in Procs : pc'[x] = IF x = p THEN point ELSE pc[x]
    BY DEF Serial, Typing, TypeOK
<1>4. InFlightIsOwn'
    BY <1>1, <1>3 DEF Serial, InFlightIsOwn, CommitSteps
<1> QED
    BY <1>2, <1>4

\* A step of p inside the locked part: nobody else is there, so what has to be
\* shown is about p.
LEMMA InsideStep ==
    ASSUME Serial, NEW p \in Procs, NEW point, pc[p] \in LockedSteps,
           pc' = [pc EXCEPT ![p] = point]
    PROVE  /\ pc'[p] = point
           /\ \A x \in Procs \ {p} : pc'[x] \notin LockedSteps
           /\ (/\ point = "recover" => Incomplete' \subseteq job'[p].todo
               /\ point \in {"recheck", "begin"} => Incomplete' = {}
               /\ point \in CommitSteps => ~job'[p].recovering
               /\ point \in CommitSteps \ {"begin"} => Incomplete' \subseteq {job'[p].tx}
               /\ point \in RollbackSteps /\ job'[p].recovering
                     => Incomplete' \subseteq job'[p].todo
               /\ point \in RollbackSteps /\ ~job'[p].recovering
                     => Incomplete' \subseteq {job'[p].tx})
              => InFlightIsOwn'
<1>1. \A x \in Procs : pc'[x] = IF x = p THEN point ELSE pc[x]
    BY DEF Serial, Typing, TypeOK
<1>2. \A x \in Procs \ {p} : pc'[x] \notin LockedSteps
    BY <1>1 DEF Serial, LockDiscipline
<1> QED
    BY <1>1, <1>2 DEF InFlightIsOwn, LockedSteps, CommitSteps

\* A step of commitPlan: it may rewrite the journal of its own transaction.
LEMMA CommitStep ==
    ASSUME Serial, NEW p \in Procs, pc[p] \in CommitSteps \ {"begin"},
           NEW point \in (CommitSteps \ {"begin"}) \cup {"rollback", "release"},
           pc' = [pc EXCEPT ![p] = point],
           Incomplete' \subseteq Incomplete \cup {job[p].tx},
           job'[p].tx = job[p].tx, job'[p].recovering = job[p].recovering
    PROVE  InFlightIsOwn' /\ AtMostOneIncomplete'
<1>1. pc[p] \in LockedSteps /\ Incomplete \subseteq {job[p].tx} /\ ~job[p].recovering
    BY DEF Serial, InFlightIsOwn, LockedSteps
<1>2. InFlightIsOwn'
    BY <1>1, InsideStep DEF CommitSteps, RollbackSteps
<1>3. AtMostOneIncomplete'
    BY <1>1 DEF AtMostOneIncomplete
<1> QED
    BY <1>2, <1>3

\* A step of rollbackTransaction before it writes the journal.
LEMMA RollbackStep ==
    ASSUME Serial, NEW p \in Procs, pc[p] \in RollbackSteps,
           NEW point \in RollbackSteps \cup {"release"},
           pc' = [pc EXCEPT ![p] = point], UNCHANGED journal,
           job'[p].tx = job[p].tx, job'[p].recovering = job[p].recovering,
           job'[p].todo = job[p].todo
    PROVE  InFlightIsOwn' /\ AtMostOneIncomplete'
<1>1. pc[p] \in LockedSteps
    BY DEF LockedSteps
<1>2. Incomplete' = Incomplete
    BY SameIncomplete
<1>3. InFlightIsOwn'
    BY <1>1, <1>2, InsideStep DEF Serial, InFlightIsOwn, CommitSteps, RollbackSteps
<1>4. AtMostOneIncomplete'
    BY <1>2 DEF Serial, AtMostOneIncomplete
<1> QED
    BY <1>3, <1>4

LEMMA NextSerial ==
    ASSUME MaxExpiries = 0, Serial, [Next]_vars
    PROVE  InFlightIsOwn' /\ AtMostOneIncomplete'
<1> USE DEF Goto, Return, RollbackFails, files, ghosts
<1>0. job \in [Procs -> Jobs] /\ pc \in [Procs -> Points]
    BY DEF Serial, Typing, TypeOK
<1>1. ASSUME NEW p \in Procs,
             \/ PlanRequest(p) \/ PlanLoad(p) \/ PlanEvaluate(p) \/ Apply(p)
             \/ AcquireLock(p) \/ AcquireTimeout(p) \/ Release(p) \/ Crash(p)
      PROVE  InFlightIsOwn' /\ AtMostOneIncomplete'
    <2>1. UNCHANGED journal /\ \A x \in Procs \ {p} : job'[x] = job[x]
        BY <1>0, <1>1 DEF PlanRequest, PlanLoad, PlanEvaluate, Apply, AcquireLock,
                          AcquireTimeout, Release, Crash
    <2>2. \E point \in {"load", "evaluate", "idle", "acquire", "scan"} :
             pc' = [pc EXCEPT ![p] = point]
        BY <1>1 DEF PlanRequest, PlanLoad, PlanEvaluate, Apply, AcquireLock,
                    AcquireTimeout, Release, Crash
    <2> QED
        BY <2>1, <2>2, OutsideStep DEF CommitSteps, RollbackSteps
<1>2. ASSUME UNCHANGED <<journal, pc, job>>
      PROVE  InFlightIsOwn' /\ AtMostOneIncomplete'
    BY <1>2, SameIncomplete DEF Serial, InFlightIsOwn, AtMostOneIncomplete
<1>3. ASSUME NEW p \in Procs, ReapStaleLock(p) PROVE InFlightIsOwn' /\ AtMostOneIncomplete'
    BY <1>2, <1>3 DEF ReapStaleLock
<1>4. CASE UserEdit \/ UNCHANGED vars
    BY <1>2, <1>4 DEF UserEdit, vars
<1>5. ASSUME NEW p \in Procs, Scan(p) PROVE InFlightIsOwn' /\ AtMostOneIncomplete'
    <2>1. pc' = [pc EXCEPT ![p] = "recover"] /\ pc[p] \in LockedSteps
          /\ UNCHANGED journal /\ job'[p].todo = Incomplete
        BY <1>0, <1>5 DEF Scan, LockedSteps, Jobs
    <2>2. Incomplete' = Incomplete
        BY <2>1, SameIncomplete
    <2>3. InFlightIsOwn'
        BY <2>1, <2>2, InsideStep DEF CommitSteps, RollbackSteps
    <2> QED
        BY <2>2, <2>3 DEF Serial, AtMostOneIncomplete
<1>6. ASSUME NEW p \in Procs, Recover(p) PROVE InFlightIsOwn' /\ AtMostOneIncomplete'
    <2>1. pc[p] = "recover" /\ pc[p] \in LockedSteps /\ UNCHANGED journal
        BY <1>6 DEF Recover, LockedSteps
    <2>2. Incomplete' = Incomplete /\ Incomplete \subseteq job[p].todo
        BY <2>1, SameIncomplete DEF Serial, InFlightIsOwn
    <2>3. CASE job[p].todo = {} /\ pc' = [pc EXCEPT ![p] = "recheck"]
        BY <2>1, <2>2, <2>3, InsideStep DEF CommitSteps, RollbackSteps, Serial, AtMostOneIncomplete
    <2>4. CASE /\ pc' = [pc EXCEPT ![p] = "rollback"]
               /\ \E t \in job[p].todo :
                    job' = [job EXCEPT ![p].tx = t, ![p].status = journal[t].status,
                                       ![p].mutations = journal[t].mutations,
                                       ![p].recovering = TRUE]
        <3>1. job'[p].todo = job[p].todo /\ job'[p].recovering = TRUE
            BY <1>0, <2>4 DEF Jobs
        <3>2. InFlightIsOwn'
            <4>1. Incomplete' \subseteq job'[p].todo /\ pc' = [pc EXCEPT ![p] = "rollback"]
                BY <2>2, <2>4, <3>1
            <4>2. "rollback" \notin {"recover", "recheck", "begin"} \cup CommitSteps
                BY DEF CommitSteps
            <4>3. ~job'[p].recovering => FALSE
                BY <3>1
            <4> QED
                BY <2>1, <4>1, <4>2, <4>3, InsideStep
        <3> QED
            BY <2>2, <3>2 DEF Serial, AtMostOneIncomplete
    <2> QED
        BY <1>6, <2>3, <2>4 DEF Recover
<1>7. ASSUME NEW p \in Procs, Recheck(p) PROVE InFlightIsOwn' /\ AtMostOneIncomplete'
    <2>1. pc[p] = "recheck" /\ pc[p] \in LockedSteps /\ UNCHANGED journal
        BY <1>7 DEF Recheck, LockedSteps
    <2>2. Incomplete' = Incomplete /\ Incomplete = {}
        BY <2>1, SameIncomplete DEF Serial, InFlightIsOwn
    <2>3. CASE pc' = [pc EXCEPT ![p] = "release"]
        BY <2>1, <2>2, <2>3, InsideStep DEF CommitSteps, RollbackSteps, Serial, AtMostOneIncomplete
    <2>4. CASE /\ pc' = [pc EXCEPT ![p] = "begin"]
               /\ job' = [job EXCEPT ![p] = [NoJob EXCEPT !.reg = registry]]
        <3>1. ~job'[p].recovering
            BY <1>0, <2>4 DEF NoJob
        <3>2. InFlightIsOwn'
            BY <2>1, <2>2, <2>4, <3>1, InsideStep DEF CommitSteps, RollbackSteps
        <3> QED
            BY <2>2, <3>2 DEF Serial, AtMostOneIncomplete
    <2> QED
        BY <1>7, <2>3, <2>4 DEF Recheck
<1>8. ASSUME NEW p \in Procs, Begin(p) PROVE InFlightIsOwn' /\ AtMostOneIncomplete'
    <2>1. /\ pc[p] = "begin" /\ pc[p] \in LockedSteps
          /\ Incomplete = {} /\ ~job[p].recovering
        BY <1>8 DEF Begin, LockedSteps, CommitSteps, Serial, InFlightIsOwn
    <2>2. PICK t \in TxIds :
             /\ \A s \in TxIds \ {t} : journal'[s] = journal[s]
             /\ \/ pc' = [pc EXCEPT ![p] = "release"]
                \/ /\ pc' = [pc EXCEPT ![p] = "advance"]
                   /\ job' = [job EXCEPT ![p].tx = t, ![p].status = "prepared"]
        <3>1. TxIds # {} /\ FreshTx \subseteq TxIds
            BY BoundsAssumption DEF TxIds, FreshTx
        <3>2. journal \in [TxIds -> Journals]
            BY DEF Serial, Typing, TypeOK
        <3> QED
            BY <1>8, <3>1, <3>2 DEF Begin
    <2>3. Incomplete' \subseteq {t}
        BY <2>1, <2>2 DEF Incomplete
    <2>4. CASE pc' = [pc EXCEPT ![p] = "release"]
        BY <2>1, <2>3, <2>4, InsideStep DEF CommitSteps, RollbackSteps, AtMostOneIncomplete
    <2>5. CASE /\ pc' = [pc EXCEPT ![p] = "advance"]
               /\ job' = [job EXCEPT ![p].tx = t, ![p].status = "prepared"]
        <3>1. job'[p].tx = t /\ ~job'[p].recovering
            BY <1>0, <2>1, <2>5 DEF Jobs
        <3>2. InFlightIsOwn'
            BY <2>1, <2>3, <2>5, <3>1, InsideStep DEF CommitSteps, RollbackSteps
        <3> QED
            BY <2>3, <3>2 DEF AtMostOneIncomplete
    <2> QED
        BY <2>2, <2>4, <2>5
<1>9. ASSUME NEW p \in Procs, pc[p] \in CommitSteps \ {"begin"} PROVE job[p].tx \in TxIds
    BY <1>9 DEF Serial, Typing, InHand, TxSteps
<1>10. ASSUME NEW p \in Procs,
             \/ Stage(p) \/ ProjectRegistry(p) \/ BackUp(p) \/ InstallTarget(p)
             \/ PublishRegistry(p) \/ PublishReceipt(p)
      PROVE  InFlightIsOwn' /\ AtMostOneIncomplete'
    <2> USE <1>10 DEF Stage, ProjectRegistry, BackUp, InstallTarget, NextTarget,
                      PublishRegistry, PublishReceipt
    <2>1. pc[p] \in CommitSteps \ {"begin"} /\ UNCHANGED journal
        BY DEF CommitSteps
    <2>2. \E point \in (CommitSteps \ {"begin"}) \cup {"rollback", "release"} :
             pc' = [pc EXCEPT ![p] = point]
        BY DEF CommitSteps
    <2>3. job'[p].tx = job[p].tx /\ job'[p].recovering = job[p].recovering
        BY <1>0 DEF Jobs
    <2> QED
        BY <2>1, <2>2, <2>3, CommitStep, SameIncomplete
<1>11. ASSUME NEW p \in Procs,
             Advance(p) \/ RecordMutation(p) \/ CommitJournal(p) \/ Abort(p)
      PROVE  InFlightIsOwn' /\ AtMostOneIncomplete'
    <2> USE <1>11 DEF Advance, RecordMutation, CommitJournal, Abort
    <2>1. pc[p] \in CommitSteps \ {"begin"}
        BY DEF CommitSteps
    <2>2. \E point \in (CommitSteps \ {"begin"}) \cup {"rollback", "release"} :
             pc' = [pc EXCEPT ![p] = point]
        BY DEF CommitSteps
    <2>3. job'[p].tx = job[p].tx /\ job'[p].recovering = job[p].recovering
        BY <1>0 DEF Jobs
    <2>4. UNCHANGED journal \/ \E status, mutations : journal' = Written(job[p].tx, status, mutations)
        OBVIOUS
    <2>5. Incomplete' \subseteq Incomplete \cup {job[p].tx}
        BY <1>9, <2>1, <2>4, SameIncomplete, WrittenIncomplete DEF Serial
    <2> QED
        BY <2>1, <2>2, <2>3, <2>5, CommitStep
<1>12. ASSUME NEW p \in Procs,
             \/ StartRollback(p) \/ UndoInspect(p) \/ UndoRemove(p) \/ UndoRestore(p)
             \/ RestoreRegistry(p) \/ RestoreReceipt(p)
      PROVE  InFlightIsOwn' /\ AtMostOneIncomplete'
    <2> USE <1>12 DEF StartRollback, UndoInspect, UndoRemove, UndoRestore,
                      RestoreRegistry, RestoreReceipt
    <2>1. pc[p] \in RollbackSteps /\ UNCHANGED journal
        BY DEF RollbackSteps
    <2>2. \E point \in RollbackSteps \cup {"release"} : pc' = [pc EXCEPT ![p] = point]
        BY DEF RollbackSteps
    <2>3. /\ job'[p].tx = job[p].tx /\ job'[p].recovering = job[p].recovering
          /\ job'[p].todo = job[p].todo
        BY <1>0 DEF Jobs
    <2> QED
        BY <2>1, <2>2, <2>3, RollbackStep
<1>13. ASSUME NEW p \in Procs, FinishRollback(p)
      PROVE  InFlightIsOwn' /\ AtMostOneIncomplete'
    <2>1. pc[p] \in RollbackSteps /\ pc[p] \in LockedSteps /\ job[p].tx \in TxIds
        BY <1>13 DEF FinishRollback, RollbackSteps, LockedSteps, Serial, Typing, InHand, TxSteps
    <2>2. UNCHANGED journal \/ Incomplete' = Incomplete \ {job[p].tx}
        BY <1>13, <2>1, WrittenIncomplete DEF FinishRollback, Serial
    <2>3. Incomplete' \subseteq Incomplete
        BY <2>2, SameIncomplete
    <2>4. AtMostOneIncomplete'
        BY <2>3 DEF Serial, AtMostOneIncomplete
    <2>5. CASE pc' = [pc EXCEPT ![p] = "release"]
        <3>1. InFlightIsOwn'
            BY <2>1, <2>5, InsideStep DEF CommitSteps, RollbackSteps
        <3> QED
            BY <2>4, <3>1
    <2>6. CASE /\ pc' = [pc EXCEPT ![p] = "recover"]
               /\ job[p].recovering
               /\ job' = [job EXCEPT ![p] =
                            [NoJob EXCEPT !.todo = job[p].todo \ {job[p].tx}]]
               /\ journal' = Written(job[p].tx, "rolled_back", job[p].mutations)
        <3>1. Incomplete' = Incomplete \ {job[p].tx}
            BY <2>1, <2>6, WrittenIncomplete DEF Serial
        <3>2. job'[p].todo = job[p].todo \ {job[p].tx}
            BY <1>0, <2>6 DEF NoJob
        <3>3. Incomplete \subseteq job[p].todo
            BY <2>1, <2>6 DEF Serial, InFlightIsOwn
        <3>4. InFlightIsOwn'
            <4>1. Incomplete' \subseteq job'[p].todo /\ pc' = [pc EXCEPT ![p] = "recover"]
                BY <2>6, <3>1, <3>2, <3>3
            <4> QED
                BY <2>1, <4>1, InsideStep DEF CommitSteps, RollbackSteps
        <3> QED
            BY <2>4, <3>4
    <2> QED
        BY <1>13, <2>5, <2>6 DEF FinishRollback, Landed
<1> QED
    BY <1>1, <1>3, <1>4, <1>5, <1>6, <1>7, <1>8, <1>10, <1>11, <1>12, <1>13 DEF Next, Step

LEMMA InitSerial == Init => InFlightIsOwn /\ AtMostOneIncomplete
BY DEF Init, InFlightIsOwn, AtMostOneIncomplete, Incomplete, NoJournal, CommitSteps,
       RollbackSteps

\* Recovery runs before every commit and the lock is held throughout, so two
\* transactions are never unfinished together, whatever crashes or fails.
THEOREM OneTransactionAtATime ==
    ASSUME MaxExpiries = 0
    PROVE  Spec => [](InFlightIsOwn /\ AtMostOneIncomplete)
<1>1. Typing /\ LockDiscipline /\ InFlightIsOwn /\ AtMostOneIncomplete /\ [Next]_vars
      => InFlightIsOwn' /\ AtMostOneIncomplete'
    BY NextSerial DEF Serial
<1> QED
    BY <1>1, InitSerial, LockSafety, TypingInvariant, PTL DEF Spec

-----------------------------------------------------------------------------
(* The registry under the lock: what commitPlan projects and what           *)
(* rollbackTransaction restores differ from the registry of the moment in   *)
(* the claims of the transaction's product alone.                           *)

Before(p) == journal[job[p].tx].registryBefore

OwnerOf(p) == journal[job[p].tx].product

\* Two registries tell the same of every product but q.
SameForOthers(q, reg, base) ==
    \A k \in Keys : \A r \in Products \ {q} : reg.claims[k][r] = base.claims[k][r]

\* The registry in hand is the projection of the plan on the saved one.
Projected(p) ==
    /\ ~ProjectionConflict(Before(p), ProductOf[p], plan[p].desired)
    /\ \E tree \in [Keys -> Contents] :
          job[p].reg = Project(Before(p), tree, ProductOf[p], plan[p].desired)

\* What registry.json holds at each point of Apply.
RegistryAt(p) ==
    /\ pc[p] = "begin" => job[p].reg = registry
    /\ pc[p] \in {"advance", "stage", "project"}
          => registry = Before(p) /\ job[p].reg = registry
    /\ pc[p] \in {"mutate", "backup", "install"} => registry = Before(p) /\ Projected(p)
    /\ pc[p] \in {"receipt", "commit"} => registry = job[p].reg /\ Projected(p)
    /\ pc[p] \in TxSteps => SameForOthers(OwnerOf(p), registry, Before(p))

\* Whose transaction it is, and that recovery goes by a list that is up to date.
TransactionAt(p) ==
    /\ pc[p] \in TxSteps /\ ~job[p].recovering => OwnerOf(p) = ProductOf[p]
    /\ pc[p] = "recover" => job[p].todo \subseteq Incomplete
    /\ pc[p] \in RollbackSteps /\ job[p].recovering
          => job[p].todo \subseteq Incomplete /\ job[p].tx \in job[p].todo

UnderLock ==
    /\ \A p \in Procs : RegistryAt(p) /\ TransactionAt(p)
    /\ \A t \in Incomplete :
          SameForOthers(journal[t].product, registry, journal[t].registryBefore)

\* The points UnderLock speaks of are points under the lock.
WatchedSteps == {"recover", "begin"} \cup TxSteps

LEMMA WatchedAreLocked == WatchedSteps \subseteq LockedSteps
BY DEF WatchedSteps, TxSteps, LockedSteps, CommitSteps, RollbackSteps

LEMMA ProjectSameForOthers ==
    ASSUME NEW reg \in Registries, NEW tree, NEW q \in Products, NEW desired
    PROVE  SameForOthers(q, Project(reg, tree, q, desired), reg)
BY DEF SameForOthers, Project, Registries

\* A write of a journal leaves alone what the transaction was begun with, and the
\* other journals.
LEMMA WrittenKeeps ==
    ASSUME Typing, NEW t \in TxIds, NEW status, NEW mutations,
           UNCHANGED journal \/ journal' = Written(t, status, mutations)
    PROVE  /\ \A s \in TxIds : /\ journal'[s].product = journal[s].product
                               /\ journal'[s].registryBefore = journal[s].registryBefore
                               /\ journal'[s].receiptBefore = journal[s].receiptBefore
           /\ \A s \in TxIds \ {t} : journal'[s].status = journal[s].status
           /\ journal'[t].status \in {journal[t].status, status}
<1>1. journal \in [TxIds -> Journals]
    BY DEF Typing, TypeOK
<1>2. CASE UNCHANGED journal
    BY <1>2
<1>3. CASE journal' = Written(t, status, mutations)
    <2> DEFINE new == [journal[t] EXCEPT !.status = status, !.mutations = mutations]
    <2>1. journal' = [journal EXCEPT ![t] = new]
        BY <1>3 DEF Written
    <2>2. /\ new.product = journal[t].product /\ new.status = status
          /\ new.registryBefore = journal[t].registryBefore
          /\ new.receiptBefore = journal[t].receiptBefore
        BY <1>1 DEF Journals
    <2> HIDE DEF new
    <2>3. /\ journal'[t] = new /\ \A s \in TxIds \ {t} : journal'[s] = journal[s]
        BY <1>1, <2>1
    <2> QED
        BY <2>2, <2>3
<1> QED
    BY <1>2, <1>3

\* A step that leaves the registry and the journals alone and moves nobody to a
\* point that is watched.
LEMMA UnwatchedStep ==
    ASSUME Typing, UnderLock, UNCHANGED <<registry, journal>>,
           \A p \in Procs : pc'[p] \in WatchedSteps
               => pc'[p] = pc[p] /\ job'[p] = job[p] /\ plan'[p] = plan[p]
    PROVE  UnderLock'
<1>1. Incomplete' = Incomplete
    BY SameIncomplete
<1>2. ASSUME NEW p \in Procs PROVE RegistryAt(p)'
    <2>1. CASE pc'[p] \in WatchedSteps
        BY <2>1 DEF UnderLock, RegistryAt, Before, OwnerOf, Projected
    <2>2. CASE pc'[p] \notin WatchedSteps
        BY <2>2 DEF RegistryAt, WatchedSteps, TxSteps, CommitSteps, RollbackSteps
    <2> QED
        BY <2>1, <2>2
<1>3. ASSUME NEW p \in Procs PROVE TransactionAt(p)'
    <2>1. CASE pc'[p] \in WatchedSteps
        BY <1>1, <2>1 DEF UnderLock, TransactionAt, OwnerOf
    <2>2. CASE pc'[p] \notin WatchedSteps
        BY <2>2 DEF TransactionAt, WatchedSteps, TxSteps, CommitSteps, RollbackSteps
    <2> QED
        BY <2>1, <2>2
<1> QED
    BY <1>1, <1>2, <1>3 DEF UnderLock

\* A step of p under the lock: nobody else is at a watched point.
LEMMA WatchedStep ==
    ASSUME Serial, NEW p \in Procs, NEW point, pc[p] \in LockedSteps,
           pc' = [pc EXCEPT ![p] = point],
           RegistryAt(p)', TransactionAt(p)',
           \A t \in Incomplete' :
               SameForOthers(journal'[t].product, registry', journal'[t].registryBefore)
    PROVE  UnderLock'
<1>1. \A x \in Procs \ {p} : pc'[x] \notin WatchedSteps
    BY InsideStep, WatchedAreLocked
<1>2. ASSUME NEW x \in Procs \ {p} PROVE RegistryAt(x)' /\ TransactionAt(x)'
    BY <1>1 DEF RegistryAt, TransactionAt, WatchedSteps, TxSteps, CommitSteps,
                RollbackSteps
<1> QED
    BY <1>2 DEF UnderLock

\* Inside a transaction no other one is unfinished.
LEMMA OnlyThisOne ==
    ASSUME Serial, UnderLock, NEW p \in Procs, pc[p] \in TxSteps
    PROVE  job[p].tx \in TxIds /\ Incomplete \subseteq {job[p].tx}
<1>1. job[p].tx \in TxIds
    BY DEF Serial, Typing, InHand
<1>2. CASE pc[p] \in RollbackSteps /\ job[p].recovering
    <2>1. job[p].tx \in Incomplete
        BY <1>2 DEF UnderLock, TransactionAt
    <2> QED
        BY <1>1, <2>1 DEF Serial, AtMostOneIncomplete
<1>3. CASE ~(pc[p] \in RollbackSteps /\ job[p].recovering)
    BY <1>1, <1>3 DEF Serial, InFlightIsOwn, TxSteps
<1> QED
    BY <1>2, <1>3

LEMMA ProjectedKept ==
    ASSUME NEW p \in Procs, Projected(p), plan'[p] = plan[p], job'[p].reg = job[p].reg,
           Before(p)' = Before(p)
    PROVE  Projected(p)'
BY DEF Projected

\* A step inside a transaction that stays in it, or returns.
LEMMA TxStep ==
    ASSUME Serial, UnderLock, NEW p \in Procs, pc[p] \in TxSteps,
           NEW point \in TxSteps \cup {"release"}, pc' = [pc EXCEPT ![p] = point],
           plan'[p] = plan[p], job'[p].tx = job[p].tx,
           job'[p].recovering = job[p].recovering, job'[p].todo = job[p].todo,
           UNCHANGED journal \/ \E status, mutations :
                                   journal' = Written(job[p].tx, status, mutations),
           point \in RollbackSteps /\ job[p].recovering
               => pc[p] \in RollbackSteps /\ UNCHANGED journal,
           SameForOthers(OwnerOf(p), registry', Before(p)),
           point # "advance",
           point \in {"stage", "project"} => registry' = Before(p) /\ job'[p].reg = Before(p),
           point \in {"mutate", "backup", "install"} => registry' = Before(p),
           point \in {"receipt", "commit"} => registry' = job'[p].reg,
           point \in {"mutate", "backup", "install", "receipt", "commit"} => Projected(p)'
    PROVE  UnderLock'
<1>1. job[p].tx \in TxIds /\ Incomplete \subseteq {job[p].tx} /\ pc[p] \in LockedSteps
    BY OnlyThisOne DEF LockedSteps, TxSteps
<1>2. pc'[p] = point
    BY DEF Serial, Typing, TypeOK
<1>3. /\ Before(p)' = Before(p) /\ OwnerOf(p)' = OwnerOf(p)
      /\ Incomplete' \subseteq {job[p].tx}
    <2>1. CASE UNCHANGED journal
        BY <1>1, <2>1, SameIncomplete DEF Before, OwnerOf
    <2>2. CASE \E status, mutations : journal' = Written(job[p].tx, status, mutations)
        <3>1. PICK status, mutations : journal' = Written(job[p].tx, status, mutations)
            BY <2>2
        <3>2. /\ journal'[job[p].tx].registryBefore = journal[job[p].tx].registryBefore
              /\ journal'[job[p].tx].product = journal[job[p].tx].product
            BY <1>1, <3>1, WrittenKeeps DEF Serial
        <3>3. Incomplete' \subseteq Incomplete \cup {job[p].tx}
            BY <1>1, <3>1, WrittenIncomplete DEF Serial
        <3> QED
            BY <1>1, <3>2, <3>3 DEF Before, OwnerOf
    <2> QED
        BY <2>1, <2>2
<1>4. RegistryAt(p)'
    BY <1>2, <1>3 DEF RegistryAt, SameForOthers, TxSteps, CommitSteps, RollbackSteps
<1>5. TransactionAt(p)'
    <2>1. pc'[p] \in TxSteps /\ ~job'[p].recovering => OwnerOf(p)' = ProductOf[p]
        BY <1>3 DEF UnderLock, TransactionAt
    <2>2. ASSUME pc'[p] \in RollbackSteps, job'[p].recovering
          PROVE  job'[p].todo \subseteq Incomplete' /\ job'[p].tx \in job'[p].todo
        BY <1>2, <2>2, SameIncomplete DEF UnderLock, TransactionAt
    <2>3. pc'[p] # "recover"
        BY <1>2 DEF TxSteps, CommitSteps, RollbackSteps
    <2> QED
        BY <2>1, <2>2, <2>3 DEF TransactionAt
<1>6. \A t \in Incomplete' :
          SameForOthers(journal'[t].product, registry', journal'[t].registryBefore)
    BY <1>3 DEF Before, OwnerOf
<1> QED
    BY <1>1, <1>4, <1>5, <1>6, WatchedStep

LEMMA InitUnderLock == Init => UnderLock
BY DEF Init, UnderLock, RegistryAt, TransactionAt, Incomplete, NoJournal, TxSteps,
       CommitSteps, RollbackSteps

\* The job of a process keeps its transaction through most steps.
LEMMA JobFields ==
    ASSUME job \in [Procs -> Jobs], NEW p \in Procs, NEW x,
           \/ job' = job \/ job' = [job EXCEPT ![p].outcome = x]
           \/ job' = [job EXCEPT ![p].pending = x] \/ job' = [job EXCEPT ![p].status = x]
           \/ job' = [job EXCEPT ![p].mutations = x]
    PROVE  /\ job'[p].tx = job[p].tx /\ job'[p].recovering = job[p].recovering
           /\ job'[p].todo = job[p].todo /\ job'[p].reg = job[p].reg
BY DEF Jobs

LEMMA NextUnderLock ==
    ASSUME MaxExpiries = 0, Serial, UnderLock, [Next]_vars
    PROVE  UnderLock'
<1> USE DEF Goto, files, ghosts
<1>0. /\ job \in [Procs -> Jobs] /\ pc \in [Procs -> Points]
      /\ plan \in [Procs -> Plans \cup {None}] /\ journal \in [TxIds -> Journals]
      /\ registry \in Registries
    BY DEF Serial, Typing, TypeOK
<1>a. \A p \in Procs : RegistryAt(p) /\ TransactionAt(p)
    BY DEF UnderLock
<1>1. ASSUME NEW p \in Procs,
             \/ PlanRequest(p) \/ PlanLoad(p) \/ PlanEvaluate(p) \/ Apply(p)
             \/ AcquireLock(p) \/ AcquireTimeout(p) \/ Release(p) \/ Crash(p)
      PROVE  UnderLock'
    <2>1. UNCHANGED <<registry, journal>>
        BY <1>1 DEF PlanRequest, PlanLoad, PlanEvaluate, Apply, AcquireLock,
                    AcquireTimeout, Release, Crash
    <2>2. \A x \in Procs \ {p} : job'[x] = job[x] /\ plan'[x] = plan[x]
        BY <1>0, <1>1 DEF PlanRequest, PlanLoad, PlanEvaluate, Apply, AcquireLock,
                          AcquireTimeout, Release, Crash
    <2>3. \E point \in {"load", "evaluate", "idle", "acquire", "scan"} :
             pc' = [pc EXCEPT ![p] = point]
        BY <1>1 DEF PlanRequest, PlanLoad, PlanEvaluate, Apply, AcquireLock,
                    AcquireTimeout, Release, Crash
    <2>4. \A x \in Procs \ {p} : pc'[x] = pc[x]
        BY <1>0, <2>3
    <2>5. pc'[p] \notin WatchedSteps
        BY <1>0, <2>3 DEF WatchedSteps, TxSteps, CommitSteps, RollbackSteps
    <2> QED
        BY <2>1, <2>2, <2>4, <2>5, UnwatchedStep DEF Serial
<1>2. ASSUME UNCHANGED <<registry, journal, pc, job, plan>> PROVE UnderLock'
    BY <1>2, UnwatchedStep DEF Serial
<1>3. ASSUME \/ \E p \in Procs : ReapStaleLock(p)
             \/ UserEdit \/ UNCHANGED vars
      PROVE  UnderLock'
    BY <1>2, <1>3 DEF ReapStaleLock, UserEdit, vars
<1>4. ASSUME NEW p \in Procs, Scan(p) PROVE UnderLock'
    <2>1. /\ pc' = [pc EXCEPT ![p] = "recover"] /\ pc'[p] = "recover" /\ pc[p] \in LockedSteps
          /\ UNCHANGED <<registry, journal>> /\ job'[p].todo = Incomplete
        BY <1>0, <1>4 DEF Scan, LockedSteps, Jobs
    <2>2. Incomplete' = Incomplete
        BY <2>1, SameIncomplete
    <2>3. RegistryAt(p)' /\ TransactionAt(p)'
        BY <2>1, <2>2 DEF RegistryAt, TransactionAt, TxSteps, CommitSteps, RollbackSteps
    <2> QED
        BY <2>1, <2>2, <2>3, WatchedStep DEF UnderLock
<1>5. ASSUME NEW p \in Procs, Recover(p) PROVE UnderLock'
    <2>1. pc[p] = "recover" /\ UNCHANGED <<registry, journal>>
        BY <1>5 DEF Recover
    <2>2. Incomplete' = Incomplete /\ job[p].todo \subseteq Incomplete
        BY <2>1, <1>a, SameIncomplete DEF TransactionAt
    <2>3. CASE pc' = [pc EXCEPT ![p] = "recheck"]
        <3>1. pc'[p] = "recheck"
            BY <1>0, <2>3
        <3>2. RegistryAt(p)' /\ TransactionAt(p)'
            BY <3>1 DEF RegistryAt, TransactionAt, TxSteps, CommitSteps, RollbackSteps
        <3> QED
            BY <2>1, <2>2, <2>3, <3>2, WatchedStep DEF UnderLock, LockedSteps
    <2>4. ASSUME NEW t \in job[p].todo, pc' = [pc EXCEPT ![p] = "rollback"],
                 job' = [job EXCEPT ![p].tx = t, ![p].status = journal[t].status,
                                    ![p].mutations = journal[t].mutations,
                                    ![p].recovering = TRUE]
          PROVE  UnderLock'
        <3>1. /\ pc'[p] = "rollback" /\ job'[p].tx = t /\ job'[p].todo = job[p].todo
              /\ job'[p].recovering = TRUE
            BY <1>0, <2>4 DEF Jobs
        <3>2. SameForOthers(journal[t].product, registry, journal[t].registryBefore)
            BY <2>2, <2>4 DEF UnderLock
        <3>3. RegistryAt(p)' /\ TransactionAt(p)'
            BY <2>1, <2>2, <2>4, <3>1, <3>2
            DEF RegistryAt, TransactionAt, Before, OwnerOf, TxSteps, CommitSteps, RollbackSteps
        <3> QED
            BY <2>1, <2>2, <2>4, <3>3, WatchedStep DEF UnderLock, LockedSteps
    <2> QED
        BY <1>5, <2>3, <2>4 DEF Recover
<1>6. ASSUME NEW p \in Procs, Recheck(p) PROVE UnderLock'
    <2>1. /\ pc[p] = "recheck" /\ pc[p] \in LockedSteps /\ UNCHANGED <<registry, journal>>
          /\ Incomplete' = Incomplete
        BY <1>6, SameIncomplete DEF Recheck, LockedSteps
    <2>2. CASE pc' = [pc EXCEPT ![p] = "release"]
        <3>1. pc'[p] = "release"
            BY <1>0, <2>2
        <3>2. RegistryAt(p)' /\ TransactionAt(p)'
            BY <3>1 DEF RegistryAt, TransactionAt, TxSteps, CommitSteps, RollbackSteps
        <3> QED
            BY <2>1, <2>2, <3>2, WatchedStep DEF UnderLock
    <2>3. CASE /\ pc' = [pc EXCEPT ![p] = "begin"]
               /\ job' = [job EXCEPT ![p] = [NoJob EXCEPT !.reg = registry]]
        <3>1. pc'[p] = "begin" /\ job'[p].reg = registry
            BY <1>0, <2>3 DEF NoJob
        <3>2. RegistryAt(p)' /\ TransactionAt(p)'
            BY <2>1, <3>1 DEF RegistryAt, TransactionAt, TxSteps, CommitSteps, RollbackSteps
        <3> QED
            BY <2>1, <2>3, <3>2, WatchedStep DEF UnderLock
    <2> QED
        BY <1>6, <2>2, <2>3 DEF Recheck, Return
<1>7. ASSUME NEW p \in Procs, Begin(p) PROVE UnderLock'
    <2>1. /\ pc[p] = "begin" /\ pc[p] \in LockedSteps /\ Incomplete = {}
          /\ job[p].reg = registry /\ ~job[p].recovering /\ registry' = registry
        BY <1>7, <1>a DEF Begin, LockedSteps, CommitSteps, Serial, InFlightIsOwn, RegistryAt
    <2>2. CASE UNCHANGED journal /\ pc' = [pc EXCEPT ![p] = "release"]
        <3>1. pc'[p] = "release" /\ Incomplete' = {}
            BY <1>0, <2>1, <2>2, SameIncomplete
        <3>2. RegistryAt(p)' /\ TransactionAt(p)'
            BY <3>1 DEF RegistryAt, TransactionAt, TxSteps, CommitSteps, RollbackSteps
        <3> QED
            BY <2>1, <2>2, <3>1, <3>2, WatchedStep
    <2>3. ASSUME NEW t \in TxIds,
                 journal' = [journal EXCEPT ![t] =
                    [ status |-> "prepared", product |-> ProductOf[p],
                      mutations |-> NoMutations, registryBefore |-> job[p].reg,
                      receiptBefore |-> receipt[ProductOf[p]] ]],
                 \/ pc' = [pc EXCEPT ![p] = "release"]
                 \/ /\ pc' = [pc EXCEPT ![p] = "advance"]
                    /\ job' = [job EXCEPT ![p].tx = t, ![p].status = "prepared"]
          PROVE  UnderLock'
        <3>1. /\ journal'[t].registryBefore = registry /\ journal'[t].product = ProductOf[p]
              /\ \A s \in TxIds \ {t} : journal'[s] = journal[s]
            BY <1>0, <2>1, <2>3
        <3>2. Incomplete' \subseteq {t}
            BY <2>1, <3>1 DEF Incomplete
        <3>3. \A s \in Incomplete' :
                 SameForOthers(journal'[s].product, registry', journal'[s].registryBefore)
            BY <2>1, <3>1, <3>2 DEF SameForOthers
        <3>4. CASE pc' = [pc EXCEPT ![p] = "release"]
            <4>1. pc'[p] = "release"
                BY <1>0, <3>4
            <4>2. RegistryAt(p)' /\ TransactionAt(p)'
                BY <4>1 DEF RegistryAt, TransactionAt, TxSteps, CommitSteps, RollbackSteps
            <4> QED
                BY <2>1, <3>3, <3>4, <4>2, WatchedStep
        <3>5. CASE /\ pc' = [pc EXCEPT ![p] = "advance"]
                   /\ job' = [job EXCEPT ![p].tx = t, ![p].status = "prepared"]
            <4>1. /\ pc'[p] = "advance" /\ job'[p].tx = t /\ job'[p].reg = registry
                  /\ ~job'[p].recovering
                BY <1>0, <2>1, <3>5 DEF Jobs
            <4>2. RegistryAt(p)' /\ TransactionAt(p)'
                BY <2>1, <3>1, <4>1
                DEF RegistryAt, TransactionAt, Before, OwnerOf, SameForOthers, RollbackSteps
            <4> QED
                BY <2>1, <3>3, <3>5, <4>2, WatchedStep
        <3> QED
            BY <2>3, <3>4, <3>5
    <2>4. TxIds # {} /\ FreshTx \subseteq TxIds
        BY BoundsAssumption DEF TxIds, FreshTx
    <2>5. ASSUME NEW t \in FreshTx, NEW o \in WriteResults,
                 journal' = IF ~Landed(o) THEN journal ELSE
                   [journal EXCEPT ![t] =
                      [ status |-> "prepared", product |-> ProductOf[p],
                        mutations |-> NoMutations, registryBefore |-> job[p].reg,
                        receiptBefore |-> receipt[ProductOf[p]] ]],
                 IF o = "ok"
                 THEN /\ job' = [job EXCEPT ![p].tx = t, ![p].status = "prepared"]
                      /\ pc' = [pc EXCEPT ![p] = "advance"]
                 ELSE Return(p, "failed")
          PROVE  UnderLock'
        BY <2>2, <2>3, <2>4, <2>5 DEF Landed, Return
    <2> QED
        BY <1>7, <2>2, <2>5 DEF Begin, Return
<1>8. ASSUME NEW p \in Procs, pc[p] \in TxSteps
      PROVE  /\ job[p].tx \in TxIds /\ Before(p) \in Registries /\ pc[p] \in LockedSteps
             /\ SameForOthers(OwnerOf(p), registry, Before(p))
             /\ pc[p] \in CommitSteps => ~job[p].recovering /\ OwnerOf(p) = ProductOf[p]
             /\ Owned(p)
    <2>1. job[p].tx \in TxIds /\ pc[p] \in LockedSteps
        BY <1>8, OnlyThisOne DEF TxSteps, LockedSteps
    <2>2. Before(p) \in Registries
        BY <1>0, <2>1 DEF Before, Journals
    <2>3. pc[p] \in CommitSteps => ~job[p].recovering
        BY DEF Serial, InFlightIsOwn
    <2> QED
        BY <1>8, <1>a, <2>1, <2>2, <2>3
        DEF RegistryAt, TransactionAt, Owned, Serial, LockDiscipline
<1>9. ASSUME NEW p \in Procs, Advance(p) \/ Stage(p) PROVE UnderLock'
    <2> USE <1>9 DEF Advance, Stage
    <2>1. pc[p] \in {"advance", "stage"} /\ pc[p] \in TxSteps /\ pc[p] \in CommitSteps
        BY DEF TxSteps, CommitSteps
    <2>2. registry = Before(p) /\ job[p].reg = Before(p)
        BY <1>a, <2>1 DEF RegistryAt
    <2>3. /\ job'[p].tx = job[p].tx /\ job'[p].recovering = job[p].recovering
          /\ job'[p].todo = job[p].todo /\ job'[p].reg = job[p].reg
        BY <1>0, JobFields
    <2>4. \E point \in {"stage", "project", "abort"} : pc' = [pc EXCEPT ![p] = point]
        OBVIOUS
    <2>5. UNCHANGED <<registry, plan>>
        OBVIOUS
    <2>6. UNCHANGED journal \/ \E status, mutations :
                                   journal' = Written(job[p].tx, status, mutations)
        OBVIOUS
    <2> QED
        BY <1>8, <2>1, <2>2, <2>3, <2>4, <2>5, <2>6, TxStep
        DEF TxSteps, CommitSteps, RollbackSteps
<1>10. ASSUME NEW p \in Procs, ProjectRegistry(p) PROVE UnderLock'
    <2>1. /\ pc[p] = "project" /\ pc[p] \in TxSteps /\ pc[p] \in CommitSteps
          /\ UNCHANGED <<registry, plan, journal>>
        BY <1>10 DEF ProjectRegistry, TxSteps, CommitSteps
    <2>2. registry = Before(p) /\ job[p].reg = Before(p)
        BY <1>a, <2>1 DEF RegistryAt
    <2>3. CASE UNCHANGED job /\ pc' = [pc EXCEPT ![p] = "abort"]
        BY <1>8, <2>1, <2>3, TxStep DEF TxSteps, CommitSteps, RollbackSteps
    <2>4. CASE /\ ~ProjectionConflict(job[p].reg, ProductOf[p], plan[p].desired)
               /\ job' = [job EXCEPT
                     ![p].reg = Project(job[p].reg, runtime, ProductOf[p], plan[p].desired),
                     ![p].pending = {k \in Keys : Mutates(plan[p].decisions[k])}]
               /\ pc' = [pc EXCEPT ![p] = "mutate"]
        <3>1. /\ job'[p].tx = job[p].tx /\ job'[p].recovering = job[p].recovering
              /\ job'[p].todo = job[p].todo
              /\ job'[p].reg = Project(Before(p), runtime, ProductOf[p], plan[p].desired)
            BY <1>0, <2>2, <2>4 DEF Jobs
        <3>2. Projected(p)'
            BY <2>1, <2>2, <2>4, <3>1 DEF Projected, Before, Serial, Typing, TypeOK
        <3> QED
            BY <1>8, <2>1, <2>2, <2>4, <3>1, <3>2, TxStep
            DEF TxSteps, CommitSteps, RollbackSteps
    <2> QED
        BY <1>10, <2>3, <2>4 DEF ProjectRegistry
<1>11. ASSUME NEW p \in Procs, RecordMutation(p) \/ BackUp(p) \/ InstallTarget(p)
       PROVE  UnderLock'
    <2> USE <1>11 DEF RecordMutation, BackUp, InstallTarget, NextTarget
    <2>1. pc[p] \in {"mutate", "backup", "install"} /\ pc[p] \in TxSteps /\ pc[p] \in CommitSteps
        BY DEF TxSteps, CommitSteps
    <2>2. registry = Before(p) /\ Projected(p)
        BY <1>a, <2>1 DEF RegistryAt
    <2>3. /\ job'[p].tx = job[p].tx /\ job'[p].recovering = job[p].recovering
          /\ job'[p].todo = job[p].todo /\ job'[p].reg = job[p].reg
        BY <1>0, JobFields
    <2>4. \E point \in {"mutate", "backup", "install", "abort"} : pc' = [pc EXCEPT ![p] = point]
        OBVIOUS
    <2>5. UNCHANGED <<registry, plan>>
        OBVIOUS
    <2>6. UNCHANGED journal \/ \E status, mutations :
                                   journal' = Written(job[p].tx, status, mutations)
        OBVIOUS
    <2>7. Before(p)' = Before(p)
        BY <1>8, <2>1, <2>3, <2>6, WrittenKeeps DEF Before, Serial
    <2>8. Projected(p)'
        BY <2>2, <2>3, <2>5, <2>7, ProjectedKept
    <2> QED
        BY <1>8, <2>1, <2>2, <2>3, <2>4, <2>5, <2>6, <2>8, TxStep
        DEF TxSteps, CommitSteps, RollbackSteps
<1>12. ASSUME NEW p \in Procs,
              PublishRegistry(p) \/ PublishReceipt(p) \/ CommitJournal(p)
       PROVE  UnderLock'
    <2> USE <1>12 DEF PublishRegistry, PublishReceipt, CommitJournal
    <2>1. /\ pc[p] \in {"mutate", "receipt", "commit"} /\ pc[p] \in TxSteps
          /\ pc[p] \in CommitSteps
        BY DEF TxSteps, CommitSteps
    <2>2. /\ Projected(p)
          /\ pc[p] = "mutate" => registry = Before(p)
          /\ pc[p] \in {"receipt", "commit"} => registry = job[p].reg
        BY <1>a, <2>1 DEF RegistryAt
    <2>3. SameForOthers(OwnerOf(p), job[p].reg, Before(p))
        <3>1. PICK tree : job[p].reg = Project(Before(p), tree, ProductOf[p], plan[p].desired)
            BY <2>2 DEF Projected
        <3>2. Before(p) \in Registries /\ ProductOf[p] \in Products /\ OwnerOf(p) = ProductOf[p]
            BY <1>8, <2>1, ProductOfAssumption
        <3> QED
            BY <3>1, <3>2, ProjectSameForOthers
    <2>4. /\ job'[p].tx = job[p].tx /\ job'[p].recovering = job[p].recovering
          /\ job'[p].todo = job[p].todo /\ job'[p].reg = job[p].reg
        BY <1>0, <2>1 DEF Jobs
    <2>5. \E point \in {"receipt", "commit", "abort", "release"} :
             pc' = [pc EXCEPT ![p] = point]
        OBVIOUS
    <2>6. /\ UNCHANGED plan /\ registry' \in {registry, job[p].reg}
          /\ pc[p] # "mutate" => UNCHANGED registry
        OBVIOUS
    <2>7. pc' \in {[pc EXCEPT ![p] = "receipt"], [pc EXCEPT ![p] = "commit"]}
          => registry' = job[p].reg
        <3>1. "receipt" # "abort" /\ "commit" # "abort"
            OBVIOUS
        <3>2. CASE PublishRegistry(p)
            <4>1. pc'[p] \in {"receipt", "abort"} /\ (pc'[p] = "receipt" => registry' = job[p].reg)
                BY <1>0, <3>2 DEF Landed
            <4> QED
                BY <1>0, <4>1
        <3>3. CASE PublishReceipt(p) \/ CommitJournal(p)
            BY <2>2, <2>6, <3>3
        <3> QED
            BY <3>2, <3>3
    <2>8. UNCHANGED journal \/ \E status, mutations :
                                   journal' = Written(job[p].tx, status, mutations)
        OBVIOUS
    <2>9. Before(p)' = Before(p)
        BY <1>8, <2>1, <2>4, <2>8, WrittenKeeps DEF Before, Serial
    <2>10. Projected(p)'
        BY <2>2, <2>4, <2>6, <2>9, ProjectedKept
    <2>11. SameForOthers(OwnerOf(p), registry', Before(p))
        BY <1>8, <2>1, <2>3, <2>6
    <2> QED
        BY <1>8, <2>1, <2>4, <2>5, <2>6, <2>7, <2>8, <2>10, <2>11, TxStep
        DEF TxSteps, CommitSteps, RollbackSteps
<1>13. ASSUME NEW p \in Procs, Abort(p) PROVE UnderLock'
    <2>1. /\ pc[p] = "abort" /\ pc[p] \in TxSteps /\ pc[p] \in CommitSteps
          /\ UNCHANGED <<registry, plan, job>> /\ pc' = [pc EXCEPT ![p] = "rollback"]
        BY <1>13 DEF Abort, TxSteps, CommitSteps
    <2>2. UNCHANGED journal \/ \E status, mutations :
                                   journal' = Written(job[p].tx, status, mutations)
        BY <1>13 DEF Abort
    <2> QED
        BY <1>8, <2>1, <2>2, TxStep DEF TxSteps, CommitSteps, RollbackSteps
<1>14. ASSUME NEW p \in Procs,
              StartRollback(p) \/ UndoInspect(p) \/ UndoRemove(p) \/ UndoRestore(p)
       PROVE  UnderLock'
    <2> USE <1>14 DEF StartRollback, UndoInspect, UndoRemove, UndoRestore, Return,
                      RollbackFails
    <2>1. pc[p] \in {"rollback", "undo", "remove", "restore"}
        OBVIOUS
    <2>2. /\ job'[p].tx = job[p].tx /\ job'[p].recovering = job[p].recovering
          /\ job'[p].todo = job[p].todo
        BY <1>0 DEF Jobs
    <2>3. \E point \in RollbackSteps \cup {"release"} : pc' = [pc EXCEPT ![p] = point]
        BY DEF RollbackSteps
    <2>4. UNCHANGED <<registry, plan, journal>>
        OBVIOUS
    <2>5. pc[p] \in TxSteps /\ pc[p] \in RollbackSteps
        BY <2>1 DEF TxSteps, RollbackSteps
    <2> QED
        BY <1>8, <2>2, <2>3, <2>4, <2>5, TxStep DEF TxSteps, CommitSteps, RollbackSteps
<1>15. ASSUME NEW p \in Procs, RestoreRegistry(p) \/ RestoreReceipt(p) PROVE UnderLock'
    <2> USE <1>15 DEF RestoreRegistry, RestoreReceipt, Return, RollbackFails
    <2>1. pc[p] \in TxSteps /\ pc[p] \in RollbackSteps /\ UNCHANGED <<journal, plan>>
        BY DEF TxSteps, RollbackSteps
    <2>2. /\ job'[p].tx = job[p].tx /\ job'[p].recovering = job[p].recovering
          /\ job'[p].todo = job[p].todo
        BY <1>0, JobFields
    <2>3. \E point \in RollbackSteps \cup {"release"} : pc' = [pc EXCEPT ![p] = point]
        BY DEF RollbackSteps
    <2>4. SameForOthers(OwnerOf(p), registry', Before(p))
        <3>1. registry' \in {registry, Before(p)}
            BY DEF Before
        <3> QED
            BY <1>8, <2>1, <3>1 DEF SameForOthers
    <2> QED
        BY <1>8, <2>1, <2>2, <2>3, <2>4, TxStep DEF TxSteps, CommitSteps, RollbackSteps
<1>16. ASSUME NEW p \in Procs, FinishRollback(p) PROVE UnderLock'
    <2>1. /\ pc[p] = "rb_journal" /\ pc[p] \in TxSteps /\ pc[p] \in RollbackSteps
          /\ UNCHANGED <<registry, plan>>
          /\ UNCHANGED journal \/ journal' = Written(job[p].tx, "rolled_back", job[p].mutations)
        BY <1>16 DEF FinishRollback, TxSteps, RollbackSteps
    <2>2. CASE \E o \in Outcomes : Return(p, o)
        <3>1. /\ job'[p].tx = job[p].tx /\ job'[p].recovering = job[p].recovering
              /\ job'[p].todo = job[p].todo
            BY <1>0, <2>2, JobFields DEF Return
        <3>2. pc' = [pc EXCEPT ![p] = "release"]
            BY <2>2 DEF Return
        <3> QED
            BY <1>8, <2>1, <3>1, <3>2, TxStep DEF TxSteps, CommitSteps, RollbackSteps
    <2>3. CASE /\ pc' = [pc EXCEPT ![p] = "recover"]
               /\ job[p].recovering
               /\ job' = [job EXCEPT ![p] =
                            [NoJob EXCEPT !.todo = job[p].todo \ {job[p].tx}]]
               /\ journal' = Written(job[p].tx, "rolled_back", job[p].mutations)
        <3>1. Incomplete' = Incomplete \ {job[p].tx}
            BY <1>8, <2>1, <2>3, WrittenIncomplete DEF Serial
        <3>2. pc'[p] = "recover" /\ job'[p].todo = job[p].todo \ {job[p].tx}
            BY <1>0, <2>3 DEF NoJob
        <3>3. job[p].todo \subseteq Incomplete /\ Incomplete \subseteq {job[p].tx}
            BY <1>a, <2>1, <2>3, OnlyThisOne DEF TransactionAt
        <3>4. RegistryAt(p)' /\ TransactionAt(p)' /\ Incomplete' = {}
            BY <3>1, <3>2, <3>3
            DEF RegistryAt, TransactionAt, TxSteps, CommitSteps, RollbackSteps
        <3> QED
            BY <1>8, <2>1, <2>3, <3>4, WatchedStep
    <2> QED
        BY <1>16, <2>2, <2>3 DEF FinishRollback, Landed, RollbackFails, Outcomes
<1> QED
    BY <1>1, <1>3, <1>4, <1>5, <1>6, <1>7, <1>9, <1>10, <1>11, <1>12, <1>13, <1>14, <1>15,
       <1>16 DEF Next, Step

LEMMA UnderLockAlways == ASSUME MaxExpiries = 0 PROVE Spec => [](Serial /\ UnderLock)
<1>1. Serial /\ UnderLock /\ [Next]_vars => UnderLock'
    BY NextUnderLock
<1>2. Typing /\ LockDiscipline /\ InFlightIsOwn /\ AtMostOneIncomplete => Serial
    BY DEF Serial
<1> QED
    BY <1>1, <1>2, InitUnderLock, OneTransactionAtATime, LockSafety, TypingInvariant, PTL
    DEF Spec

\* Only two writes change registry.json, and what they change of the claims is of
\* the product whose transaction it is.
LEMMA ClaimsChange ==
    ASSUME Serial, UnderLock, [Next]_vars, registry' # registry
    PROVE  \E p \in Procs :
              /\ pc[p] \in TxSteps /\ pc'[p] # pc[p]
              /\ SameForOthers(OwnerOf(p), registry', registry)
<1>0. pc \in [Procs -> Points] /\ \A p \in Procs : RegistryAt(p) /\ TransactionAt(p)
    BY DEF Serial, Typing, TypeOK, UnderLock
<1>1. PICK p \in Procs : PublishRegistry(p) \/ RestoreRegistry(p)
    <2>1. UserEdit \/ UNCHANGED vars => registry' = registry
        BY DEF UserEdit, vars
    <2>2. ASSUME NEW p \in Procs,
                 \/ PlanRequest(p) \/ PlanLoad(p) \/ PlanEvaluate(p) \/ Apply(p)
                 \/ AcquireLock(p) \/ AcquireTimeout(p) \/ ReapStaleLock(p) \/ Scan(p)
                 \/ Recover(p) \/ Recheck(p) \/ Begin(p) \/ Release(p) \/ Crash(p)
          PROVE  registry' = registry
        BY <2>2 DEF PlanRequest, PlanLoad, PlanEvaluate, Apply, AcquireLock, AcquireTimeout,
                    ReapStaleLock, Scan, Recover, Recheck, Begin, Release, Crash, files
    <2>3. ASSUME NEW p \in Procs,
                 \/ Advance(p) \/ Stage(p) \/ ProjectRegistry(p) \/ RecordMutation(p)
                 \/ BackUp(p) \/ InstallTarget(p) \/ PublishReceipt(p) \/ CommitJournal(p)
                 \/ Abort(p) \/ StartRollback(p) \/ UndoInspect(p) \/ UndoRemove(p)
                 \/ UndoRestore(p) \/ RestoreReceipt(p) \/ FinishRollback(p)
          PROVE  registry' = registry
        BY <2>3 DEF Advance, Stage, ProjectRegistry, RecordMutation, BackUp, InstallTarget,
                    PublishReceipt, CommitJournal, Abort, StartRollback, UndoInspect,
                    UndoRemove, UndoRestore, RestoreReceipt, FinishRollback, files
    <2> QED
        BY <2>1, <2>2, <2>3 DEF Next, Step
<1>2. CASE PublishRegistry(p)
    <2>1. /\ pc[p] = "mutate" /\ registry' = job[p].reg /\ pc'[p] \in {"receipt", "abort"}
        BY <1>0, <1>2 DEF PublishRegistry, Goto
    <2>2. pc[p] \in TxSteps /\ pc[p] \in CommitSteps
        BY <2>1 DEF TxSteps, CommitSteps
    <2>3. Projected(p) /\ registry = Before(p) /\ OwnerOf(p) = ProductOf[p]
        BY <1>0, <2>1, <2>2 DEF RegistryAt, TransactionAt, Serial, InFlightIsOwn
    <2>4. Before(p) \in Registries /\ ProductOf[p] \in Products
        BY <2>3, ProductOfAssumption DEF Serial, Typing, TypeOK
    <2>5. SameForOthers(OwnerOf(p), registry', registry)
        BY <2>1, <2>3, <2>4, ProjectSameForOthers DEF Projected
    <2> QED
        BY <2>1, <2>2, <2>5
<1>3. CASE RestoreRegistry(p)
    <2>1. pc[p] = "undo" /\ registry' = Before(p) /\ pc'[p] \in {"rb_receipt", "release"}
        BY <1>0, <1>1, <1>3 DEF RestoreRegistry, RollbackFails, Return, Goto, Before
    <2>2. pc[p] \in TxSteps
        BY <2>1 DEF TxSteps, RollbackSteps
    <2>3. SameForOthers(OwnerOf(p), registry, Before(p))
        BY <1>0, <2>2 DEF RegistryAt
    <2> QED
        BY <2>1, <2>2, <2>3 DEF SameForOthers
<1> QED
    BY <1>1, <1>2, <1>3

\* Another product's claims come through every commit, rollback and recovery of
\* Apply, even a recovery by the wrong product, whatever fails and crashes: the
\* copy a process projects is the registry of the moment, and so is the one a
\* rollback puts back.
THEOREM ClaimsOfOthersAreKept == ASSUME MaxExpiries = 0 PROVE Spec => OthersClaimsKept
<1> DEFINE Kept == \A q \in Products : \A k \in Keys :
                      registry'.claims[k][q] # registry.claims[k][q]
                      => \E p \in Procs :
                            /\ pc'[p] # pc[p]
                            /\ \/ ProductOf[p] = q
                               \/ job[p].tx # 0 /\ journal[job[p].tx].product = q
<1>1. ASSUME Serial, UnderLock, Next PROVE Kept
    <2> SUFFICES ASSUME NEW q \in Products, NEW k \in Keys,
                        registry'.claims[k][q] # registry.claims[k][q]
                 PROVE  \E p \in Procs :
                            /\ pc'[p] # pc[p]
                            /\ job[p].tx # 0 /\ journal[job[p].tx].product = q
        OBVIOUS
    <2>1. PICK p \in Procs : /\ pc[p] \in TxSteps /\ pc'[p] # pc[p]
                             /\ SameForOthers(OwnerOf(p), registry', registry)
        BY <1>1, ClaimsChange
    <2>2. OwnerOf(p) = q
        BY <2>1 DEF SameForOthers
    <2>3. job[p].tx # 0
        BY <1>1, <2>1, OnlyThisOne DEF TxIds
    <2> QED
        BY <2>1, <2>2, <2>3 DEF OwnerOf
<1>2. Serial /\ UnderLock /\ [Next]_vars => [Kept]_vars
    BY <1>1
<1> QED
    BY <1>2, UnderLockAlways, PTL DEF Spec, OthersClaimsKept

-----------------------------------------------------------------------------
(* What Apply reports is what it did, whatever fails and crashes.           *)

OutcomeAt(p) ==
    /\ job[p].outcome \in {"success", "partial"} =>
          /\ journal[job[p].tx].status = "committed"
          /\ registry = job[p].reg
          /\ receipt[ProductOf[p]] # None
          /\ receipt[ProductOf[p]].current = plan[p].desired
    /\ job[p].outcome = "failed" =>
          /\ \A s \in Incomplete : journal[s].status = "prepared"
          /\ registry.revision = plan[p].revision

\* The revision of the plan is the one of the registry the transaction was begun
\* with, from the recheck on; what is published before the last write is in place
\* when it comes.
ReportAt(p) ==
    /\ pc[p] = "begin" => registry.revision = plan[p].revision
    /\ pc[p] \in TxSteps /\ ~job[p].recovering => Before(p).revision = plan[p].revision
    /\ pc[p] = "commit" => receipt[ProductOf[p]] = NewReceipt(p)
    /\ pc[p] \in {"rb_receipt", "rb_journal"} => registry = Before(p)
    /\ pc[p] = "release" => OutcomeAt(p)

Reported == \A p \in Procs : ReportAt(p)

LEMMA InitReported == Init => Reported
BY DEF Init, Reported, ReportAt, TxSteps, CommitSteps, RollbackSteps

\* A step of p under the lock: nobody else has anything to report.
LEMMA ReportedStep ==
    ASSUME Serial, NEW p \in Procs, NEW point, pc[p] \in LockedSteps,
           pc' = [pc EXCEPT ![p] = point], ReportAt(p)'
    PROVE  Reported'
<1>1. \A x \in Procs \ {p} : pc'[x] \notin LockedSteps
    BY InsideStep
<1>2. ASSUME NEW x \in Procs \ {p} PROVE ReportAt(x)'
    BY <1>1 DEF ReportAt, LockedSteps, TxSteps, CommitSteps, RollbackSteps
<1> QED
    BY <1>2 DEF Reported

\* A step inside a transaction that stays in it, or returns.
LEMMA ReportedTxStep ==
    ASSUME Serial, UnderLock, Reported, NEW p \in Procs, pc[p] \in TxSteps,
           NEW point \in TxSteps \cup {"release"}, pc' = [pc EXCEPT ![p] = point],
           plan'[p] = plan[p], job'[p].tx = job[p].tx,
           job'[p].recovering = job[p].recovering,
           UNCHANGED journal \/ \E status, mutations :
                                   journal' = Written(job[p].tx, status, mutations),
           point = "commit" => receipt'[ProductOf[p]] = NewReceipt(p)',
           point \in {"rb_receipt", "rb_journal"} => registry' = Before(p),
           point = "release" => OutcomeAt(p)'
    PROVE  Reported'
<1>1. pc'[p] = point /\ pc[p] \in LockedSteps
    BY WatchedAreLocked DEF WatchedSteps, Serial, Typing, TypeOK
<1>2. Before(p)' = Before(p)
    BY OnlyThisOne, WrittenKeeps DEF Before, Serial
<1>3. point # "begin"
    BY DEF TxSteps, CommitSteps, RollbackSteps
<1>4. ReportAt(p)'
    BY <1>1, <1>2, <1>3 DEF Reported, ReportAt
<1> QED
    BY <1>1, <1>4, ReportedStep

LEMMA NextReported ==
    ASSUME MaxExpiries = 0, Serial, UnderLock, Reported, [Next]_vars
    PROVE  Reported'
<1> USE DEF Goto, files, ghosts
<1>0. /\ job \in [Procs -> Jobs] /\ pc \in [Procs -> Points]
      /\ plan \in [Procs -> Plans \cup {None}] /\ journal \in [TxIds -> Journals]
      /\ receipt \in [Products -> Receipts \cup {None}]
      /\ \A p \in Procs : RegistryAt(p) /\ TransactionAt(p) /\ ReportAt(p)
    BY DEF Serial, Typing, TypeOK, UnderLock, Reported
<1>1. ASSUME UNCHANGED <<registry, receipt, journal>>,
             \A p \in Procs : pc'[p] \in {"begin", "release"} \cup TxSteps
                 => pc'[p] = pc[p] /\ job'[p] = job[p] /\ plan'[p] = plan[p]
      PROVE  Reported'
    <2> SUFFICES ASSUME NEW p \in Procs PROVE ReportAt(p)'
        BY DEF Reported
    <2>1. CASE pc'[p] \in {"begin", "release"} \cup TxSteps
        BY <1>0, <1>1, <2>1, SameIncomplete DEF ReportAt, OutcomeAt, Before, NewReceipt
    <2>2. CASE pc'[p] \notin {"begin", "release"} \cup TxSteps
        BY <2>2 DEF ReportAt, TxSteps, CommitSteps, RollbackSteps
    <2> QED
        BY <2>1, <2>2
<1>2. ASSUME NEW p \in Procs,
             \/ PlanRequest(p) \/ PlanLoad(p) \/ PlanEvaluate(p) \/ Apply(p)
             \/ AcquireLock(p) \/ AcquireTimeout(p) \/ Release(p) \/ Crash(p) \/ Scan(p)
      PROVE  Reported'
    <2>1. /\ UNCHANGED <<registry, receipt, journal>>
          /\ \A x \in Procs \ {p} : job'[x] = job[x] /\ plan'[x] = plan[x]
        BY <1>0, <1>2 DEF PlanRequest, PlanLoad, PlanEvaluate, Apply, AcquireLock,
                          AcquireTimeout, Release, Crash, Scan
    <2>2. \E point \in {"load", "evaluate", "idle", "acquire", "scan", "recover"} :
             pc' = [pc EXCEPT ![p] = point]
        BY <1>2 DEF PlanRequest, PlanLoad, PlanEvaluate, Apply, AcquireLock,
                    AcquireTimeout, Release, Crash, Scan
    <2>3. pc'[p] \notin {"begin", "release"} \cup TxSteps
        BY <1>0, <2>2 DEF TxSteps, CommitSteps, RollbackSteps
    <2>4. \A x \in Procs \ {p} : pc'[x] = pc[x]
        BY <1>0, <2>2
    <2> QED
        BY <1>1, <2>1, <2>3, <2>4
<1>3. ASSUME \/ \E p \in Procs : ReapStaleLock(p)
             \/ UserEdit \/ UNCHANGED vars
      PROVE  Reported'
    BY <1>1, <1>3 DEF ReapStaleLock, UserEdit, vars
<1>4. ASSUME NEW p \in Procs, Recover(p) PROVE Reported'
    <2>1. pc[p] \in LockedSteps
        BY <1>4 DEF Recover, LockedSteps
    <2>2. CASE pc' = [pc EXCEPT ![p] = "recheck"]
        <3>1. ReportAt(p)'
            BY <1>0, <2>2 DEF ReportAt, TxSteps, CommitSteps, RollbackSteps
        <3> QED
            BY <2>1, <2>2, <3>1, ReportedStep
    <2>3. CASE /\ pc' = [pc EXCEPT ![p] = "rollback"]
               /\ \E t \in job[p].todo :
                    job' = [job EXCEPT ![p].tx = t, ![p].status = journal[t].status,
                                       ![p].mutations = journal[t].mutations,
                                       ![p].recovering = TRUE]
        <3>1. pc'[p] = "rollback" /\ job'[p].recovering = TRUE
            BY <1>0, <2>3 DEF Jobs
        <3>2. ReportAt(p)'
            BY <3>1 DEF ReportAt
        <3> QED
            BY <2>1, <2>3, <3>2, ReportedStep
    <2> QED
        BY <1>4, <2>2, <2>3 DEF Recover
<1>5. ASSUME NEW p \in Procs, Recheck(p) PROVE Reported'
    <2>1. pc[p] \in LockedSteps /\ UNCHANGED <<registry, plan>>
        BY <1>5 DEF Recheck, LockedSteps
    <2>2. CASE Return(p, "stale") \/ Return(p, "conflict")
        <3>1. pc' = [pc EXCEPT ![p] = "release"] /\ job'[p].outcome \in {"stale", "conflict"}
            BY <1>0, <2>2 DEF Return, Jobs
        <3>2. pc'[p] = "release"
            BY <1>0, <3>1
        <3>3. ReportAt(p)'
            BY <3>1, <3>2 DEF ReportAt, OutcomeAt, TxSteps, CommitSteps, RollbackSteps
        <3> QED
            BY <2>1, <3>1, <3>3, ReportedStep
    <2>3. CASE pc' = [pc EXCEPT ![p] = "begin"] /\ registry.revision = plan[p].revision
        <3>1. pc'[p] = "begin"
            BY <1>0, <2>3
        <3>2. ReportAt(p)'
            BY <2>1, <2>3, <3>1 DEF ReportAt, TxSteps, CommitSteps, RollbackSteps
        <3> QED
            BY <2>1, <2>3, <3>2, ReportedStep
    <2> QED
        BY <1>5, <2>2, <2>3 DEF Recheck
<1>6. ASSUME NEW p \in Procs, Begin(p) PROVE Reported'
    <2>1. /\ pc[p] = "begin" /\ pc[p] \in LockedSteps /\ UNCHANGED <<registry, plan>>
          /\ registry.revision = plan[p].revision /\ job[p].reg = registry
          /\ Incomplete = {}
        BY <1>0, <1>6 DEF Begin, LockedSteps, CommitSteps, ReportAt, RegistryAt, Serial,
                          InFlightIsOwn
    <2> DEFINE record == [ status |-> "prepared", product |-> ProductOf[p],
                           mutations |-> NoMutations, registryBefore |-> job[p].reg,
                           receiptBefore |-> receipt[ProductOf[p]] ]
    <2>2. CASE Return(p, "invalid") \/ Return(p, "unchanged")
        <3>1. pc' = [pc EXCEPT ![p] = "release"] /\ job'[p].outcome \in {"invalid", "unchanged"}
            BY <1>0, <2>2 DEF Return, Jobs
        <3>2. pc'[p] = "release"
            BY <1>0, <3>1
        <3>3. ReportAt(p)'
            BY <3>1, <3>2 DEF ReportAt, OutcomeAt, TxSteps, CommitSteps, RollbackSteps
        <3> QED
            BY <2>1, <3>1, <3>3, ReportedStep
    <2>3. ASSUME NEW t \in TxIds, journal' \in {journal, [journal EXCEPT ![t] = record]},
                 Return(p, "failed")
          PROVE  Reported'
        <3>1. pc' = [pc EXCEPT ![p] = "release"] /\ job'[p].outcome = "failed"
            BY <1>0, <2>3 DEF Return, Jobs
        <3>2. pc'[p] = "release"
            BY <1>0, <3>1
        <3>3. record.status = "prepared"
            OBVIOUS
        <3> HIDE DEF record
        <3>4. \A s \in TxIds : journal'[s] = journal[s] \/ journal'[s] = record
            BY <1>0, <2>3
        <3>5. \A s \in Incomplete' : journal'[s].status = "prepared"
            BY <2>1, <3>3, <3>4 DEF Incomplete
        <3>6. ReportAt(p)'
            BY <2>1, <3>1, <3>2, <3>5
            DEF ReportAt, OutcomeAt, TxSteps, CommitSteps, RollbackSteps
        <3> QED
            BY <2>1, <3>1, <3>6, ReportedStep
    <2>4. ASSUME NEW t \in TxIds, journal' = [journal EXCEPT ![t] = record],
                 pc' = [pc EXCEPT ![p] = "advance"],
                 job' = [job EXCEPT ![p].tx = t, ![p].status = "prepared"]
          PROVE  Reported'
        <3>1. pc'[p] = "advance" /\ job'[p].tx = t
            BY <1>0, <2>4 DEF Jobs
        <3>2. journal'[t].registryBefore = registry
            BY <1>0, <2>1, <2>4
        <3>3. ReportAt(p)'
            BY <2>1, <3>1, <3>2 DEF ReportAt, Before
        <3> QED
            BY <2>1, <2>4, <3>3, ReportedStep
    <2>5. \/ Return(p, "invalid") \/ Return(p, "unchanged")
          \/ \E t \in FreshTx :
                \/ /\ journal' \in {journal, [journal EXCEPT ![t] = record]}
                   /\ Return(p, "failed")
                \/ /\ journal' = [journal EXCEPT ![t] = record]
                   /\ pc' = [pc EXCEPT ![p] = "advance"]
                   /\ job' = [job EXCEPT ![p].tx = t, ![p].status = "prepared"]
        BY <1>6 DEF Begin, Landed
    <2>6. FreshTx \subseteq TxIds
        BY DEF FreshTx
    <2> HIDE DEF record
    <2> QED
        BY <2>2, <2>3, <2>4, <2>5, <2>6
<1>7. ASSUME NEW p \in Procs,
             \/ Advance(p) \/ Stage(p) \/ ProjectRegistry(p) \/ RecordMutation(p)
             \/ BackUp(p) \/ InstallTarget(p) \/ PublishRegistry(p) \/ Abort(p)
      PROVE  Reported'
    <2> USE <1>7 DEF Advance, Stage, ProjectRegistry, RecordMutation, BackUp, InstallTarget,
                     NextTarget, PublishRegistry, Abort
    <2>1. pc[p] \in TxSteps /\ UNCHANGED plan
        BY DEF TxSteps, CommitSteps
    <2>2. job'[p].tx = job[p].tx /\ job'[p].recovering = job[p].recovering
        BY <1>0 DEF Jobs
    <2>3. \E point \in {"stage", "project", "mutate", "backup", "install", "receipt", "abort",
                        "rollback"} : pc' = [pc EXCEPT ![p] = point]
        OBVIOUS
    <2>4. UNCHANGED journal \/ \E status, mutations :
                                   journal' = Written(job[p].tx, status, mutations)
        OBVIOUS
    <2> QED
        BY <2>1, <2>2, <2>3, <2>4, ReportedTxStep DEF TxSteps, CommitSteps, RollbackSteps
<1>8. ASSUME NEW p \in Procs, PublishReceipt(p) PROVE Reported'
    <2>1. pc[p] \in TxSteps /\ UNCHANGED <<plan, job, journal>>
        BY <1>8 DEF PublishReceipt, TxSteps, CommitSteps
    <2>2. CASE pc' = [pc EXCEPT ![p] = "abort"]
        BY <2>1, <2>2, ReportedTxStep DEF TxSteps, CommitSteps, RollbackSteps
    <2>3. CASE /\ pc' = [pc EXCEPT ![p] = "commit"]
               /\ receipt' = [receipt EXCEPT ![ProductOf[p]] = NewReceipt(p)]
        <3>1. NewReceipt(p)' = NewReceipt(p)
            BY <2>1 DEF NewReceipt
        <3>2. receipt'[ProductOf[p]] = NewReceipt(p)
            BY <1>0, <2>3, ProductOfAssumption
        <3> QED
            BY <2>1, <2>3, <3>1, <3>2, ReportedTxStep DEF TxSteps, CommitSteps, RollbackSteps
    <2> QED
        BY <1>8, <2>2, <2>3 DEF PublishReceipt, Landed
<1>9. ASSUME NEW p \in Procs, CommitJournal(p) PROVE Reported'
    <2>1. /\ pc[p] = "commit" /\ pc[p] \in TxSteps /\ UNCHANGED <<plan, registry, receipt>>
          /\ registry = job[p].reg /\ receipt[ProductOf[p]] = NewReceipt(p)
        BY <1>0, <1>9 DEF CommitJournal, TxSteps, CommitSteps, RegistryAt, ReportAt
    <2>2. job'[p].tx = job[p].tx /\ job'[p].recovering = job[p].recovering
          /\ job'[p].reg = job[p].reg
        BY <1>0, <1>9 DEF CommitJournal, Jobs
    <2>3. UNCHANGED journal \/ \E status, mutations :
                                   journal' = Written(job[p].tx, status, mutations)
        BY <1>9 DEF CommitJournal
    <2>4. CASE pc' = [pc EXCEPT ![p] = "abort"]
        BY <2>1, <2>2, <2>3, <2>4, ReportedTxStep DEF TxSteps, CommitSteps, RollbackSteps
    <2>5. CASE /\ pc' = [pc EXCEPT ![p] = "release"]
               /\ journal' = Written(job[p].tx, "committed", job[p].mutations)
               /\ job'[p].outcome \in {"partial", "success"}
        <3>1. journal'[job[p].tx].status = "committed"
            BY <1>0, <2>1, <2>5, OnlyThisOne DEF Written, Journals
        <3>2. NewReceipt(p) # None
            <4>1. NewReceipt(p) \in Receipts
                <5>1. plan[p].desired \in Snapshots
                    BY <1>0, <2>1 DEF Serial, Typing, InHand, Plans
                <5>2. journal[job[p].tx].receiptBefore \in Receipts \cup {None}
                    BY <1>0, <2>1, OnlyThisOne DEF Journals
                <5>3. job[p].reg.revision \in Nat /\ ProductOf[p] \in Products
                    BY <1>0, ProductOfAssumption DEF Jobs, Registries
                <5> QED
                    BY <5>1, <5>2, <5>3 DEF NewReceipt, Receipts
            <4> QED
                BY <4>1, NoRecordAssumption
        <3>3. NewReceipt(p).current = plan[p].desired
            BY DEF NewReceipt
        <3>4. OutcomeAt(p)'
            BY <2>1, <2>2, <2>5, <3>1, <3>2, <3>3 DEF OutcomeAt
        <3> QED
            BY <2>1, <2>2, <2>3, <2>5, <3>4, ReportedTxStep
            DEF TxSteps, CommitSteps, RollbackSteps
    <2>6. PICK o \in WriteResults :
             /\ journal' = IF Landed(o)
                           THEN Written(job[p].tx, "committed", job[p].mutations)
                           ELSE journal
             /\ job' = [job EXCEPT ![p].status = "committed",
                   ![p].outcome = IF o # "ok" THEN "none"
                                  ELSE IF Preserves(plan[p].decisions)
                                  THEN "partial" ELSE "success"]
             /\ pc' = [pc EXCEPT ![p] = IF o = "ok" THEN "release" ELSE "abort"]
        BY <1>9 DEF CommitJournal
    <2>7. o = "ok" => job'[p].outcome \in {"partial", "success"}
        BY <1>0, <2>6 DEF Jobs
    <2> QED
        BY <2>4, <2>5, <2>6, <2>7 DEF Landed
<1>10. ASSUME NEW p \in Procs,
             \/ StartRollback(p) \/ UndoInspect(p) \/ UndoRemove(p) \/ UndoRestore(p)
      PROVE  Reported'
    <2> USE <1>10 DEF StartRollback, UndoInspect, UndoRemove, UndoRestore, Return,
                     RollbackFails
    <2>1. pc[p] \in TxSteps /\ UNCHANGED <<plan, journal>>
        BY DEF TxSteps, RollbackSteps
    <2>2. job'[p].tx = job[p].tx /\ job'[p].recovering = job[p].recovering
        BY <1>0 DEF Jobs
    <2>3. \/ \E point \in {"undo", "remove", "restore"} : pc' = [pc EXCEPT ![p] = point]
          \/ /\ pc' = [pc EXCEPT ![p] = "release"]
             /\ job'[p].outcome \in {"busy", "incomplete"}
        BY <1>0 DEF Jobs
    <2> QED
        BY <2>1, <2>2, <2>3, ReportedTxStep
        DEF OutcomeAt, TxSteps, CommitSteps, RollbackSteps
<1>11. ASSUME NEW p \in Procs, RestoreRegistry(p) \/ RestoreReceipt(p) PROVE Reported'
    <2>1. pc[p] \in TxSteps /\ UNCHANGED <<plan, journal>>
        BY <1>11 DEF RestoreRegistry, RestoreReceipt, TxSteps, RollbackSteps
    <2>2. job'[p].tx = job[p].tx /\ job'[p].recovering = job[p].recovering
        BY <1>0, <1>11 DEF RestoreRegistry, RestoreReceipt, RollbackFails, Return, Jobs
    <2>3. \/ /\ \E point \in {"rb_receipt", "rb_journal"} : pc' = [pc EXCEPT ![p] = point]
             /\ registry' = Before(p)
          \/ /\ pc' = [pc EXCEPT ![p] = "release"]
             /\ job'[p].outcome = "incomplete"
        BY <1>0, <1>11
        DEF RestoreRegistry, RestoreReceipt, RollbackFails, Return, Jobs, Landed, Before,
            ReportAt
    <2> QED
        BY <2>1, <2>2, <2>3, ReportedTxStep
        DEF OutcomeAt, TxSteps, CommitSteps, RollbackSteps
<1>12. ASSUME NEW p \in Procs, FinishRollback(p) PROVE Reported'
    <2>1. /\ pc[p] = "rb_journal" /\ pc[p] \in TxSteps /\ pc[p] \in LockedSteps
          /\ UNCHANGED <<plan, registry>> /\ registry = Before(p)
          /\ UNCHANGED journal \/ journal' = Written(job[p].tx, "rolled_back", job[p].mutations)
        BY <1>0, <1>12
        DEF FinishRollback, TxSteps, LockedSteps, RollbackSteps, ReportAt
    <2>2. CASE RollbackFails(p)
        <3>1. /\ job'[p].tx = job[p].tx /\ job'[p].recovering = job[p].recovering
              /\ pc' = [pc EXCEPT ![p] = "release"] /\ job'[p].outcome = "incomplete"
            BY <1>0, <2>2 DEF RollbackFails, Return, Jobs
        <3> QED
            BY <2>1, <3>1, ReportedTxStep DEF OutcomeAt
    <2>3. CASE /\ ~job[p].recovering /\ Return(p, "failed")
               /\ journal' = Written(job[p].tx, "rolled_back", job[p].mutations)
        <3>1. /\ job'[p].tx = job[p].tx /\ job'[p].recovering = job[p].recovering
              /\ pc' = [pc EXCEPT ![p] = "release"] /\ job'[p].outcome = "failed"
            BY <1>0, <2>3 DEF Return, Jobs
        <3>2. Incomplete' = {}
            BY <2>1, <2>3, OnlyThisOne, WrittenIncomplete DEF Serial
        <3>3. registry.revision = plan[p].revision
            BY <1>0, <2>1, <2>3 DEF ReportAt
        <3>4. OutcomeAt(p)'
            BY <2>1, <3>1, <3>2, <3>3 DEF OutcomeAt
        <3> QED
            BY <2>1, <3>1, <3>4, ReportedTxStep
    <2>4. CASE pc' = [pc EXCEPT ![p] = "recover"]
        <3>1. ReportAt(p)'
            BY <1>0, <2>4 DEF ReportAt, TxSteps, CommitSteps, RollbackSteps
        <3> QED
            BY <2>1, <2>4, <3>1, ReportedStep
    <2> QED
        BY <1>12, <2>2, <2>3, <2>4 DEF FinishRollback, Landed
<1> QED
    BY <1>2, <1>3, <1>4, <1>5, <1>6, <1>7, <1>8, <1>9, <1>10, <1>11, <1>12 DEF Next, Step

\* A success has committed, and stays so until the lock is given back; a plain
\* error leaves nothing published: with any number of failing file-system calls,
\* crashes of the other processes, edits and products.
THEOREM OutcomesAreTrue == ASSUME MaxExpiries = 0 PROVE Spec => []OutcomeIsTrue
<1>1. Serial /\ UnderLock /\ Reported /\ [Next]_vars => Reported'
    BY NextReported
<1>2. Reported => OutcomeIsTrue
    BY DEF Reported, ReportAt, OutcomeAt, OutcomeIsTrue
<1> QED
    BY <1>1, <1>2, InitReported, UnderLockAlways, PTL DEF Spec
=============================================================================
