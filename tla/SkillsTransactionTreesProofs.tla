---------------------- MODULE SkillsTransactionTreesProofs ----------------------
(***************************************************************************)
(* What becomes of the Skill directories: the moves of mutateRuntimeTarget *)
(* and rollbackTransaction between the runtime directories and the backups *)
(* of a transaction, for any number of processes, products, targets,       *)
(* applies, crashes and edits.                                             *)
(***************************************************************************)
EXTENDS DocumentedClaims, SkillsTransactionRefinementProofs, WellFoundedInduction

-----------------------------------------------------------------------------
(* Nothing is overwritten in the backups, whoever holds the lock and        *)
(* whatever fails: a transaction is carried out by one process, which moves *)
(* each target to the backups once.                                         *)

\* A process that carries out the transaction it began.
OwnTxSteps == CommitSteps \ {"begin"}

Unused(t) == journal[t].status = "absent"

\* What a process knows of journals and backups.
OwnAt(p) ==
    /\ job[p].status # "absent" /\ \A t \in job[p].todo : ~Unused(t)
    /\ pc[p] \in TxSteps => ~Unused(job[p].tx)
    /\ pc[p] \in {"advance", "stage", "project"}
          => \A k \in Keys : backup[job[p].tx][k] = None
    /\ pc[p] \in {"mutate", "backup"}
          => \A k \in job[p].pending : backup[job[p].tx][k] = None
    /\ pc[p] = "install"
          => \A k \in job[p].pending \ {Target(p)} : backup[job[p].tx][k] = None
    /\ pc[p] \in {"backup", "install"} => job[p].pending # {}

BackedUpOnce ==
    /\ \A t \in TxIds : Unused(t) => \A k \in Keys : backup[t][k] = None
    /\ \A p, x \in Procs :
          p # x /\ pc[p] \in OwnTxSteps /\ pc[x] \in OwnTxSteps => job[p].tx # job[x].tx
    /\ \A p \in Procs : OwnAt(p)

\* A step of p.
LEMMA BackedUpStep ==
    ASSUME Typing, BackedUpOnce, NEW p \in Procs,
           \A x \in Procs \ {p} : pc'[x] = pc[x] /\ job'[x] = job[x],
           \A t \in TxIds : Unused(t)' => Unused(t),
           \A t \in TxIds : \A k \in Keys :
               \/ backup'[t][k] \in {backup[t][k], None}
               \/ pc[p] \in OwnTxSteps /\ t = job[p].tx,
           pc'[p] \in OwnTxSteps =>
               \/ pc[p] \in OwnTxSteps /\ job'[p].tx = job[p].tx
               \/ Unused(job'[p].tx),
           OwnAt(p)'
    PROVE  BackedUpOnce'
<1>1. \A x \in Procs : /\ OwnAt(x) /\ job[x] \in Jobs
                       /\ pc[x] \in TxSteps => job[x].tx \in TxIds
    BY DEF BackedUpOnce, Typing, TypeOK, InHand
<1>2. OwnTxSteps \subseteq TxSteps
    BY DEF OwnTxSteps, TxSteps
<1>3. ASSUME NEW t \in TxIds, Unused(t)', NEW k \in Keys PROVE backup'[t][k] = None
    <2>1. Unused(t) /\ backup[t][k] = None
        BY <1>3 DEF BackedUpOnce
    <2>2. ~(pc[p] \in OwnTxSteps /\ t = job[p].tx)
        BY <1>1, <1>2, <2>1 DEF OwnAt
    <2> QED
        BY <2>1, <2>2
<1>4. ASSUME NEW x \in Procs \ {p}, pc'[p] \in OwnTxSteps, pc'[x] \in OwnTxSteps
      PROVE  job'[p].tx # job'[x].tx
    <2>1. pc[x] \in OwnTxSteps /\ job'[x].tx = job[x].tx
        BY <1>4
    <2>2. ~Unused(job[x].tx)
        BY <1>1, <1>2, <2>1 DEF OwnAt
    <2> QED
        BY <1>4, <2>1, <2>2 DEF BackedUpOnce
<1>5. ASSUME NEW x \in Procs, NEW y \in Procs, x # y, pc'[x] \in OwnTxSteps,
             pc'[y] \in OwnTxSteps
      PROVE  job'[x].tx # job'[y].tx
    <2>1. CASE x = p
        BY <1>4, <1>5, <2>1
    <2>2. CASE y = p
        BY <1>4, <1>5, <2>2
    <2>3. CASE x # p /\ y # p
        BY <1>5, <2>3 DEF BackedUpOnce
    <2> QED
        BY <2>1, <2>2, <2>3
<1>6. ASSUME NEW x \in Procs \ {p} PROVE OwnAt(x)'
    <2>1. pc'[x] = pc[x] /\ job'[x] = job[x] /\ OwnAt(x) /\ job[x].todo \subseteq TxIds
        BY <1>1, <1>6 DEF Jobs
    <2>2. /\ job[x].status # "absent" /\ \A t \in job[x].todo : ~Unused(t)'
          /\ pc[x] \in TxSteps => ~Unused(job[x].tx)'
        BY <1>1, <2>1 DEF OwnAt
    <2>7. /\ job'[x].status # "absent"
          /\ \A t \in job'[x].todo : journal'[t].status # "absent"
          /\ pc'[x] \in TxSteps => journal'[job'[x].tx].status # "absent"
        BY <2>1, <2>2 DEF Unused
    <2>3. ASSUME pc[x] \in OwnTxSteps, NEW k \in Keys, backup[job[x].tx][k] = None
          PROVE  backup'[job[x].tx][k] = None
        <3>1. ~(pc[p] \in OwnTxSteps /\ job[x].tx = job[p].tx)
            BY <1>6, <2>3 DEF BackedUpOnce
        <3> QED
            BY <1>1, <1>2, <2>3, <3>1
    <2>4. job[x].pending \subseteq Keys
        BY <1>1 DEF Jobs
    <2>5. {"advance", "stage", "project", "mutate", "backup", "install"} \subseteq OwnTxSteps
        BY DEF OwnTxSteps, CommitSteps
    <2>6. Target(x)' = Target(x)
        BY <2>1 DEF Target
    <2>8. /\ pc'[x] \in {"advance", "stage", "project"}
                => \A k \in Keys : backup'[job'[x].tx][k] = None
          /\ pc'[x] \in {"mutate", "backup"}
                => \A k \in job'[x].pending : backup'[job'[x].tx][k] = None
          /\ pc'[x] = "install"
                => \A k \in job'[x].pending \ {Target(x)'} : backup'[job'[x].tx][k] = None
          /\ pc'[x] \in {"backup", "install"} => job'[x].pending # {}
        BY <2>1, <2>3, <2>4, <2>5, <2>6 DEF OwnAt
    <2> QED
        BY <2>7, <2>8 DEF OwnAt, Unused
<1> QED
    BY <1>3, <1>5, <1>6 DEF BackedUpOnce

\* The smallest and the largest of some targets are among them.
LEMMA MinInKeys ==
    ASSUME NEW S \in SUBSET Keys, S # {}
    PROVE  Min(S) \in S
<1> DEFINE Less == OpToRel(<, Nat)
<1>1. IsWellFoundedOn(Less, Nat)
    BY NatLessThanWellFounded
<1>2. ASSUME NEW x \in Nat, NEW y \in Nat, <<y, x>> \notin Less PROVE x <= y
    BY <1>2 DEF OpToRel
<1>3. S \subseteq Nat
    BY NumKeysAssumption DEF Keys
<1> HIDE DEF Less
<1>4. PICK x \in S : \A y \in S : <<y, x>> \notin Less
    BY <1>1, <1>3, WFMin
<1> QED
    BY <1>2, <1>3, <1>4 DEF Min

LEMMA MaxInKeys ==
    ASSUME NEW S \in SUBSET Keys, S # {}
    PROVE  Max(S) \in S
<1> DEFINE T == {NumKeys - k : k \in S}
           Less == OpToRel(<, Nat)
<1>1. IsWellFoundedOn(Less, Nat)
    BY NatLessThanWellFounded
<1>2. ASSUME NEW x \in Nat, NEW y \in Nat, <<y, x>> \notin Less PROVE x <= y
    BY <1>2 DEF OpToRel
<1>3. T \subseteq Nat /\ T # {} /\ S \subseteq Nat
    BY NumKeysAssumption DEF Keys
<1> HIDE DEF Less
<1>4. PICK x \in T : \A y \in T : <<y, x>> \notin Less
    BY <1>1, <1>3, WFMin
<1>5. \A y \in T : x <= y
    BY <1>2, <1>3, <1>4
<1>6. PICK k \in S : x = NumKeys - k
    BY <1>4
<1>7. ASSUME NEW y \in S PROVE k >= y
    <2>1. NumKeys - y \in T /\ x <= NumKeys - y
        BY <1>5 DEF T
    <2> QED
        BY <1>3, <1>6, <2>1, NumKeysAssumption
<1> QED
    BY <1>6, <1>7 DEF Max

\* A write of a journal that says more than "absent" uses up its id.
LEMMA UsedStays ==
    ASSUME Typing, NEW t \in TxIds, NEW status, NEW mutations, status # "absent",
           UNCHANGED journal \/ journal' = Written(t, status, mutations)
    PROVE  \A s \in TxIds : Unused(s)' => Unused(s)
BY WrittenKeeps DEF Unused

\* A step of p inside a transaction.
LEMMA BackedUpTxStep ==
    ASSUME Typing, BackedUpOnce, NEW p \in Procs, pc[p] \in TxSteps, NEW point,
           pc' = [pc EXCEPT ![p] = point],
           \A x \in Procs \ {p} : job'[x] = job[x],
           job'[p].tx = job[p].tx, job'[p].todo = job[p].todo, job'[p].status # "absent",
           \/ UNCHANGED journal
           \/ \E status, mutations : /\ status # "absent"
                                     /\ journal' = Written(job[p].tx, status, mutations),
           \A t \in TxIds : \A k \in Keys :
               \/ backup'[t][k] \in {backup[t][k], None}
               \/ pc[p] \in OwnTxSteps /\ t = job[p].tx,
           point \in OwnTxSteps => pc[p] \in OwnTxSteps,
           point # "advance",
           point \in {"stage", "project"}
               => pc[p] \in {"advance", "stage", "project"} /\ UNCHANGED backup,
           point \in {"mutate", "backup"}
               => \A k \in job'[p].pending : backup'[job[p].tx][k] = None,
           point = "install"
               => \A k \in job'[p].pending \ {Target(p)'} : backup'[job[p].tx][k] = None,
           point \in {"backup", "install"} => job'[p].pending # {}
    PROVE  BackedUpOnce'
<1>1. \A x \in Procs : pc'[x] = IF x = p THEN point ELSE pc[x]
    BY DEF Typing, TypeOK
<1>2. job[p].tx \in TxIds
    BY DEF Typing, InHand
<1>3. \A t \in TxIds : Unused(t)' => Unused(t)
    BY <1>2, UsedStays DEF Unused
<1>4. OwnAt(p) /\ job[p].todo \subseteq TxIds
    BY DEF BackedUpOnce, Typing, TypeOK, Jobs
<1>5. OwnAt(p)'
    <2>1. /\ \A t \in job'[p].todo : journal'[t].status # "absent"
          /\ journal'[job'[p].tx].status # "absent"
        BY <1>2, <1>3, <1>4 DEF OwnAt, Unused
    <2>2. pc'[p] \in {"stage", "project"} => \A k \in Keys : backup'[job'[p].tx][k] = None
        BY <1>1, <1>4 DEF OwnAt
    <2> QED
        BY <1>1, <2>1, <2>2 DEF OwnAt, Unused
<1> QED
    BY <1>1, <1>3, <1>5, BackedUpStep

LEMMA InitBackedUp == Init => BackedUpOnce
BY DEF Init, BackedUpOnce, OwnAt, OwnTxSteps, TxSteps, CommitSteps, RollbackSteps, NoJob

\* What Begin writes, if anything.
BegunWith(p, t) ==
    journal' = [journal EXCEPT ![t] =
        [ status |-> "prepared", product |-> ProductOf[p], mutations |-> NoMutations,
          registryBefore |-> job[p].reg, receiptBefore |-> receipt[ProductOf[p]] ]]

LEMMA BegunShape ==
    ASSUME NEW p \in Procs, Begin(p)
    PROVE  \/ pc' = [pc EXCEPT ![p] = "release"] /\ UNCHANGED <<journal, origin>>
           \/ \E t \in FreshTx :
                 /\ BegunWith(p, t) /\ origin' = [origin EXCEPT ![t] = runtime]
                 /\ \/ pc' = [pc EXCEPT ![p] = "release"]
                    \/ /\ pc' = [pc EXCEPT ![p] = "advance"]
                       /\ job' = [job EXCEPT ![p].tx = t, ![p].status = "prepared"]
<1> DEFINE Writes(t, o) ==
        /\ journal' = IF ~Landed(o) THEN journal ELSE
              [journal EXCEPT ![t] =
                  [ status |-> "prepared", product |-> ProductOf[p],
                    mutations |-> NoMutations, registryBefore |-> job[p].reg,
                    receiptBefore |-> receipt[ProductOf[p]] ]]
        /\ origin' = IF ~Landed(o) THEN origin ELSE [origin EXCEPT ![t] = runtime]
        /\ IF o = "ok"
           THEN /\ job' = [job EXCEPT ![p].tx = t, ![p].status = "prepared"]
                /\ Goto(p, "advance")
           ELSE Return(p, "failed")
<1>1. \/ /\ \E outcome \in Outcomes : Return(p, outcome)
         /\ UNCHANGED <<journal, origin>>
      \/ \E t \in FreshTx : \E o \in WriteResults : Writes(t, o)
    <2> HIDE DEF Return
    <2> QED
        BY DEF Begin, Outcomes
<1>2. CASE (\E outcome \in Outcomes : Return(p, outcome)) /\ UNCHANGED <<journal, origin>>
    BY <1>2 DEF Return, Goto
<1>3. ASSUME NEW t \in FreshTx, NEW o \in WriteResults, Writes(t, o)
      PROVE  \/ pc' = [pc EXCEPT ![p] = "release"] /\ UNCHANGED <<journal, origin>>
             \/ /\ BegunWith(p, t) /\ origin' = [origin EXCEPT ![t] = runtime]
                /\ \/ pc' = [pc EXCEPT ![p] = "release"]
                   \/ /\ pc' = [pc EXCEPT ![p] = "advance"]
                      /\ job' = [job EXCEPT ![p].tx = t, ![p].status = "prepared"]
    BY <1>3 DEF BegunWith, Landed, Return, Goto
<1> HIDE DEF Writes
<1> QED
    BY <1>1, <1>2, <1>3

LEMMA NextBackedUp ==
    ASSUME Typing, BackedUpOnce, [Next]_vars
    PROVE  BackedUpOnce'
<1> USE DEF Goto, files, ghosts
<1>0. /\ job \in [Procs -> Jobs] /\ pc \in [Procs -> Points]
      /\ plan \in [Procs -> Plans \cup {None}] /\ journal \in [TxIds -> Journals]
      /\ backup \in [TxIds -> [Keys -> Contents]]
    BY DEF Typing, TypeOK
<1>a. \A p \in Procs : OwnAt(p)
    BY DEF BackedUpOnce
<1>b. OwnTxSteps \subseteq TxSteps
    BY DEF OwnTxSteps, TxSteps
<1>1. ASSUME UserEdit \/ UNCHANGED vars \/ \E p \in Procs : ReapStaleLock(p)
      PROVE  BackedUpOnce'
    <2>1. UNCHANGED <<pc, job, journal, backup>>
        BY <1>1 DEF UserEdit, ReapStaleLock, vars
    <2>2. \A t \in TxIds : Unused(t)' <=> Unused(t)
        BY <2>1 DEF Unused
    <2>3. ASSUME NEW p \in Procs PROVE OwnAt(p)'
        <3>1. Target(p)' = Target(p)
            BY <2>1 DEF Target
        <3>2. /\ job[p].status # "absent" /\ \A t \in job[p].todo : journal[t].status # "absent"
              /\ pc[p] \in TxSteps => journal[job[p].tx].status # "absent"
            BY <1>a DEF OwnAt, Unused
        <3> QED
            BY <1>a, <2>1, <3>1, <3>2 DEF OwnAt, Unused
    <2> QED
        BY <2>1, <2>2, <2>3 DEF BackedUpOnce
<1>2. ASSUME NEW p \in Procs, UNCHANGED <<journal, backup>>, pc'[p] \notin TxSteps,
             \A x \in Procs \ {p} : pc'[x] = pc[x] /\ job'[x] = job[x],
             job'[p].status # "absent", \A t \in job'[p].todo : ~Unused(t)
      PROVE  BackedUpOnce'
    <2>1. OwnAt(p)'
        BY <1>2, <1>b DEF OwnAt, Unused, OwnTxSteps, CommitSteps, TxSteps
    <2> QED
        BY <1>2, <1>b, <2>1, BackedUpStep DEF Unused
<1>3. ASSUME NEW p \in Procs,
             \/ PlanRequest(p) \/ PlanLoad(p) \/ PlanEvaluate(p) \/ Apply(p)
             \/ AcquireLock(p) \/ AcquireTimeout(p) \/ Release(p) \/ Crash(p)
             \/ Scan(p) \/ Recheck(p)
      PROVE  BackedUpOnce'
    <2>1. UNCHANGED <<journal, backup>> /\ \A x \in Procs \ {p} : job'[x] = job[x]
        BY <1>0, <1>3 DEF PlanRequest, PlanLoad, PlanEvaluate, Apply, AcquireLock,
                          AcquireTimeout, Release, Crash, Scan, Recheck, Return
    <2>2. \E point \in {"load", "evaluate", "idle", "acquire", "scan", "recover", "begin",
                        "release"} : pc' = [pc EXCEPT ![p] = point]
        BY <1>3 DEF PlanRequest, PlanLoad, PlanEvaluate, Apply, AcquireLock,
                    AcquireTimeout, Release, Crash, Scan, Recheck, Return
    <2>3. pc'[p] \notin TxSteps /\ \A x \in Procs \ {p} : pc'[x] = pc[x]
        BY <1>0, <2>2 DEF TxSteps, CommitSteps, RollbackSteps
    <2>4. /\ job'[p].status \in {job[p].status, "prepared"}
          /\ job'[p].todo \in {job[p].todo, {}, Incomplete}
        <3>1. \/ job' = job \/ job' = [job EXCEPT ![p] = NoJob]
              \/ job' = [job EXCEPT ![p] = [NoJob EXCEPT !.reg = registry]]
              \/ \E x : job' = [job EXCEPT ![p].reg = x] \/ job' = [job EXCEPT ![p].outcome = x]
              \/ job' = [job EXCEPT ![p].todo = Incomplete]
            BY <1>3 DEF PlanRequest, PlanLoad, PlanEvaluate, Apply, AcquireLock,
               AcquireTimeout, Release, Crash, Scan, Recheck, Return
        <3>2. CASE job' = job
            BY <3>2
        <3>3. CASE job' = [job EXCEPT ![p] = NoJob]
            BY <1>0, <3>3 DEF NoJob
        <3>4. CASE job' = [job EXCEPT ![p] = [NoJob EXCEPT !.reg = registry]]
            BY <1>0, <3>4 DEF NoJob
        <3>5. ASSUME NEW x, \/ job' = [job EXCEPT ![p].reg = x]
                            \/ job' = [job EXCEPT ![p].outcome = x]
              PROVE  job'[p].status = job[p].status /\ job'[p].todo = job[p].todo
            BY <1>0, <3>5 DEF Jobs
        <3>6. CASE job' = [job EXCEPT ![p].todo = Incomplete]
            BY <1>0, <3>6 DEF Jobs
        <3> QED
            BY <3>1, <3>2, <3>3, <3>4, <3>5, <3>6
    <2>5. job'[p].status # "absent" /\ \A t \in job'[p].todo : ~Unused(t)
        BY <1>a, <2>4 DEF OwnAt, Unused, Incomplete
    <2> QED
        BY <1>2, <2>1, <2>3, <2>5
<1>4. ASSUME NEW p \in Procs, Recover(p) PROVE BackedUpOnce'
    <2>1. UNCHANGED <<journal, backup>> /\ pc[p] = "recover"
        BY <1>4 DEF Recover
    <2>2. CASE pc' = [pc EXCEPT ![p] = "recheck"] /\ job' = job
        BY <1>0, <1>2, <1>a, <2>1, <2>2 DEF OwnAt, TxSteps, CommitSteps, RollbackSteps
    <2>3. ASSUME NEW t \in job[p].todo, pc' = [pc EXCEPT ![p] = "rollback"],
                 job' = [job EXCEPT ![p].tx = t, ![p].status = journal[t].status,
                                    ![p].mutations = journal[t].mutations,
                                    ![p].recovering = TRUE]
          PROVE  BackedUpOnce'
        <3>1. /\ pc'[p] = "rollback" /\ job'[p].tx = t /\ job'[p].status = journal[t].status
              /\ job'[p].todo = job[p].todo
              /\ \A x \in Procs \ {p} : pc'[x] = pc[x] /\ job'[x] = job[x]
            BY <1>0, <2>3 DEF Jobs
        <3>2. \A s \in job[p].todo : journal[s].status # "absent"
            BY <1>a DEF OwnAt, Unused
        <3>3. OwnAt(p)'
            BY <2>1, <3>1, <3>2 DEF OwnAt, Unused
        <3>4. pc'[p] \notin OwnTxSteps
            BY <3>1 DEF OwnTxSteps, CommitSteps
        <3> QED
            BY <2>1, <3>1, <3>3, <3>4, BackedUpStep DEF Unused
    <2> QED
        BY <1>4, <2>2, <2>3 DEF Recover
<1>5. ASSUME NEW p \in Procs, Begin(p) PROVE BackedUpOnce'
    <2>0. /\ pc[p] = "begin" /\ backup' = backup
          /\ \A x \in Procs \ {p} : pc'[x] = pc[x] /\ job'[x] = job[x]
        BY <1>0, <1>5 DEF Begin, Return
    <2>1. /\ job'[p].status \in {job[p].status, "prepared"} /\ job'[p].todo = job[p].todo
          /\ pc'[p] \in {"release", "advance"}
        <3>1. /\ \E point \in {"release", "advance"} : pc' = [pc EXCEPT ![p] = point]
              /\ \E x : \/ job' = [job EXCEPT ![p].outcome = x]
                        \/ job' = [job EXCEPT ![p].tx = x, ![p].status = "prepared"]
            BY <1>5 DEF Begin, Return
        <3> QED
            BY <1>0, <3>1 DEF Jobs
    <2>2. \A s \in TxIds : Unused(s)' => Unused(s)
        <3>1. UNCHANGED journal \/ \E t \in TxIds : BegunWith(p, t)
            BY <1>5, BegunShape DEF FreshTx
        <3>2. CASE UNCHANGED journal
            BY <3>2 DEF Unused
        <3>3. ASSUME NEW t \in TxIds, BegunWith(p, t)
              PROVE  \A s \in TxIds : Unused(s)' => Unused(s)
            BY <1>0, <3>3 DEF Unused, BegunWith
        <3> QED
            BY <3>1, <3>2, <3>3
    <2>3. job'[p].status # "absent" /\ \A t \in job'[p].todo : ~Unused(t)'
        BY <1>0, <1>a, <2>1, <2>2 DEF OwnAt, Jobs
    <2>4. CASE pc'[p] = "release"
        <3>1. pc'[p] \notin TxSteps /\ pc'[p] \notin OwnTxSteps
            BY <2>4, <1>b DEF TxSteps, CommitSteps, RollbackSteps
        <3>2. OwnAt(p)'
            BY <2>3, <2>4, <3>1 DEF OwnAt, Unused
        <3> QED
            BY <2>0, <2>2, <3>1, <3>2, BackedUpStep
    <2>5. ASSUME NEW t \in FreshTx, pc'[p] = "advance", job'[p].tx = t,
                 journal'[t].status = "prepared"
          PROVE  BackedUpOnce'
        <3>1. t \in TxIds /\ Unused(t)
            BY <2>5 DEF FreshTx, Unused
        <3>2. \A k \in Keys : backup'[t][k] = None
            BY <2>0, <3>1 DEF BackedUpOnce
        <3>3. OwnAt(p)'
            BY <2>3, <2>5, <3>2 DEF OwnAt, Unused
        <3>4. pc'[p] \in OwnTxSteps => Unused(job'[p].tx)
            BY <2>5, <3>1
        <3> QED
            BY <2>0, <2>2, <2>5, <3>3, <3>4, BackedUpStep
    <2>6. pc'[p] = "release" \/ \E t \in FreshTx : /\ pc'[p] = "advance" /\ job'[p].tx = t
                                                  /\ journal'[t].status = "prepared"
        <3>1. FreshTx \subseteq TxIds
            BY DEF FreshTx
        <3> QED
            <4>1. CASE pc' = [pc EXCEPT ![p] = "release"]
                BY <1>0, <4>1
            <4>2. ASSUME NEW t \in FreshTx, BegunWith(p, t),
                         pc' = [pc EXCEPT ![p] = "advance"],
                         job' = [job EXCEPT ![p].tx = t, ![p].status = "prepared"]
                  PROVE  /\ pc'[p] = "advance" /\ job'[p].tx = t
                         /\ journal'[t].status = "prepared"
                BY <1>0, <3>1, <4>2 DEF Jobs, BegunWith
            <4> QED
                BY <1>5, <4>1, <4>2, BegunShape
    <2> QED
        BY <2>4, <2>5, <2>6
<1>6. ASSUME NEW p \in Procs, Advance(p) \/ Stage(p) \/ ProjectRegistry(p) PROVE BackedUpOnce'
    <2> USE <1>6 DEF Advance, Stage, ProjectRegistry
    <2>1. pc[p] \in {"advance", "stage", "project"} /\ UNCHANGED backup
        OBVIOUS
    <2>2. pc[p] \in OwnTxSteps /\ pc[p] \in TxSteps
        BY <1>b, <2>1 DEF OwnTxSteps, CommitSteps
    <2>3. PICK point \in {"stage", "project", "mutate", "abort"} : pc' = [pc EXCEPT ![p] = point]
        OBVIOUS
    <2>4. /\ job'[p].tx = job[p].tx /\ job'[p].todo = job[p].todo
          /\ job'[p].status \in {job[p].status, "applying"}
          /\ \A x \in Procs \ {p} : job'[x] = job[x]
        BY <1>0 DEF Jobs
    <2>5. UNCHANGED journal \/ \E status, m : /\ status # "absent"
                                              /\ journal' = Written(job[p].tx, status, m)
        OBVIOUS
    <2>6. /\ job[p].status # "absent" /\ \A k \in Keys : backup[job[p].tx][k] = None
        BY <1>a, <2>1 DEF OwnAt
    <2>7. job'[p].pending \subseteq Keys
        BY NextTyping DEF Typing, TypeOK, Jobs
    <2> HIDE DEF Advance, Stage, ProjectRegistry
    <2> QED
        BY <2>1, <2>2, <2>3, <2>4, <2>5, <2>6, <2>7, BackedUpTxStep
<1>7. ASSUME NEW p \in Procs, RecordMutation(p) PROVE BackedUpOnce'
    <2> USE <1>7 DEF RecordMutation
    <2>1. pc[p] = "mutate" /\ UNCHANGED backup /\ job[p].pending # {}
        OBVIOUS
    <2>2. pc[p] \in OwnTxSteps /\ pc[p] \in TxSteps
        BY <1>b, <2>1 DEF OwnTxSteps, CommitSteps
    <2>3. PICK point \in {"backup", "abort"} : pc' = [pc EXCEPT ![p] = point]
        OBVIOUS
    <2>4. /\ job'[p].tx = job[p].tx /\ job'[p].todo = job[p].todo
          /\ job'[p].status = job[p].status /\ job'[p].pending = job[p].pending
          /\ \A x \in Procs \ {p} : job'[x] = job[x]
        BY <1>0 DEF Jobs
    <2>6. job[p].status # "absent" /\ \A k \in job[p].pending : backup[job[p].tx][k] = None
        BY <1>a, <2>1 DEF OwnAt
    <2>5. UNCHANGED journal \/ \E status, m : /\ status # "absent"
                                              /\ journal' = Written(job[p].tx, status, m)
        BY <2>6 DEF Landed
    <2> HIDE DEF RecordMutation
    <2> QED
        BY <2>1, <2>2, <2>3, <2>4, <2>5, <2>6, BackedUpTxStep
<1>8. ASSUME NEW p \in Procs, BackUp(p) PROVE BackedUpOnce'
    <2> USE <1>8 DEF BackUp
    <2>1. pc[p] = "backup" /\ UNCHANGED <<journal, job>>
        OBVIOUS
    <2>2. pc[p] \in OwnTxSteps /\ pc[p] \in TxSteps
        BY <1>b, <2>1 DEF OwnTxSteps, CommitSteps
    <2>3. PICK point \in {"install", "abort"} : pc' = [pc EXCEPT ![p] = point]
        OBVIOUS
    <2>4. /\ job[p].status # "absent" /\ \A k \in job[p].pending : backup[job[p].tx][k] = None
          /\ job[p].pending # {}
        BY <1>a, <2>1 DEF OwnAt
    <2>5. job[p].tx \in TxIds /\ job[p].pending \subseteq Keys /\ Target(p)' = Target(p)
        BY <1>0, <2>1, <2>2 DEF Typing, InHand, Jobs, Target
    <2>6. \A t \in TxIds : \A k \in Keys :
             backup'[t][k] = backup[t][k] \/ (t = job[p].tx /\ k = Target(p))
        BY <1>0, <2>5
    <2>7. \A t \in TxIds : \A k \in Keys :
             \/ backup'[t][k] \in {backup[t][k], None}
             \/ pc[p] \in OwnTxSteps /\ t = job[p].tx
        BY <2>2, <2>6
    <2>8. /\ job'[p] = job[p]
          /\ \A k \in job[p].pending \ {Target(p)} : backup'[job[p].tx][k] = None
        BY <2>1, <2>4, <2>5, <2>6
    <2> HIDE DEF BackUp
    <2> QED
        BY <2>1, <2>2, <2>3, <2>4, <2>5, <2>7, <2>8, BackedUpTxStep
<1>9. ASSUME NEW p \in Procs, InstallTarget(p) PROVE BackedUpOnce'
    <2> USE <1>9 DEF InstallTarget, NextTarget
    <2>1. pc[p] = "install" /\ UNCHANGED <<journal, backup>>
        OBVIOUS
    <2>2. pc[p] \in OwnTxSteps /\ pc[p] \in TxSteps
        BY <1>b, <2>1 DEF OwnTxSteps, CommitSteps
    <2>3. \/ pc' = [pc EXCEPT ![p] = "abort"] /\ job' = job
          \/ /\ pc' = [pc EXCEPT ![p] = "mutate"]
             /\ job' = [job EXCEPT ![p].pending = @ \ {Target(p)}]
        OBVIOUS
    <2>4. /\ job'[p].tx = job[p].tx /\ job'[p].todo = job[p].todo
          /\ job'[p].status = job[p].status
          /\ \A x \in Procs \ {p} : job'[x] = job[x]
        BY <1>0, <2>3 DEF Jobs
    <2>5. /\ job[p].status # "absent"
          /\ \A k \in job[p].pending \ {Target(p)} : backup[job[p].tx][k] = None
        BY <1>a, <2>1 DEF OwnAt
    <2> HIDE DEF InstallTarget, NextTarget
    <2>6. CASE pc' = [pc EXCEPT ![p] = "abort"]
        BY <2>1, <2>2, <2>4, <2>5, <2>6, BackedUpTxStep
    <2>7. CASE pc' = [pc EXCEPT ![p] = "mutate"]
                  /\ job' = [job EXCEPT ![p].pending = @ \ {Target(p)}]
        <3>1. job'[p].pending = job[p].pending \ {Target(p)}
            BY <1>0, <2>7 DEF Jobs
        <3> QED
            BY <2>1, <2>2, <2>4, <2>5, <2>7, <3>1, BackedUpTxStep
    <2> QED
        BY <2>3, <2>6, <2>7
<1>10. ASSUME NEW p \in Procs,
              \/ PublishRegistry(p) \/ PublishReceipt(p) \/ CommitJournal(p) \/ Abort(p)
       PROVE  BackedUpOnce'
    <2> USE <1>10 DEF PublishRegistry, PublishReceipt, CommitJournal, Abort
    <2>1. pc[p] \in {"mutate", "receipt", "commit", "abort"} /\ UNCHANGED backup
        OBVIOUS
    <2>2. pc[p] \in OwnTxSteps /\ pc[p] \in TxSteps
        BY <1>b, <2>1 DEF OwnTxSteps, CommitSteps
    <2>3. PICK point \in {"receipt", "commit", "release", "abort", "rollback"} :
             pc' = [pc EXCEPT ![p] = point]
        OBVIOUS
    <2>4. /\ job'[p].tx = job[p].tx /\ job'[p].todo = job[p].todo
          /\ job'[p].status \in {job[p].status, "committed"}
          /\ \A x \in Procs \ {p} : job'[x] = job[x]
        BY <1>0 DEF Jobs
    <2>5. job[p].status # "absent"
        BY <1>a DEF OwnAt
    <2>6. UNCHANGED journal \/ \E m : \E status \in {job[p].status, "committed"} :
                                          journal' = Written(job[p].tx, status, m)
        BY DEF Landed
    <2> HIDE DEF PublishRegistry, PublishReceipt, CommitJournal, Abort
    <2> QED
        BY <2>1, <2>2, <2>3, <2>4, <2>5, <2>6, BackedUpTxStep
<1>11. ASSUME NEW p \in Procs,
              \/ StartRollback(p) \/ UndoInspect(p) \/ UndoRemove(p) \/ UndoRestore(p)
              \/ RestoreRegistry(p) \/ RestoreReceipt(p)
       PROVE  BackedUpOnce'
    <2> USE <1>11 DEF StartRollback, UndoInspect, UndoRemove, UndoRestore, RestoreRegistry,
                      RestoreReceipt, Return, RollbackFails
    <2>1. pc[p] \in {"rollback", "undo", "remove", "restore", "rb_receipt"} /\ UNCHANGED journal
        OBVIOUS
    <2>2. pc[p] \in TxSteps
        BY <2>1 DEF TxSteps, RollbackSteps
    <2>3. PICK point \in {"undo", "remove", "restore", "rb_receipt", "rb_journal", "release"} :
             pc' = [pc EXCEPT ![p] = point]
        OBVIOUS
    <2>4. /\ job'[p].tx = job[p].tx /\ job'[p].todo = job[p].todo
          /\ job'[p].status = job[p].status
          /\ \A x \in Procs \ {p} : job'[x] = job[x]
        BY <1>0 DEF Jobs
    <2>5. job[p].status # "absent" /\ job[p].tx \in TxIds
        BY <1>a, <2>2 DEF OwnAt, Typing, InHand
    <2>6. \A t \in TxIds : \A k \in Keys : backup'[t][k] \in {backup[t][k], None}
        BY <1>0, <2>5
    <2>7. point \notin OwnTxSteps
        BY DEF OwnTxSteps, CommitSteps
    <2> QED
        BY <2>1, <2>2, <2>3, <2>4, <2>5, <2>6, <2>7, BackedUpTxStep
<1>12. ASSUME NEW p \in Procs, FinishRollback(p) PROVE BackedUpOnce'
    <2> USE <1>12 DEF FinishRollback, Return, RollbackFails
    <2>1. pc[p] = "rb_journal" /\ UNCHANGED backup
        OBVIOUS
    <2>2. pc[p] \in TxSteps
        BY <2>1 DEF TxSteps, RollbackSteps
    <2>3. /\ pc'[p] \in {"release", "recover"}
          /\ \A x \in Procs \ {p} : pc'[x] = pc[x] /\ job'[x] = job[x]
        BY <1>0
    <2>4. /\ job'[p].status \in {job[p].status, "prepared"}
          /\ job'[p].todo \subseteq job[p].todo
        <3>1. \/ \E x : job' = [job EXCEPT ![p].outcome = x]
              \/ job' = [job EXCEPT ![p] = [NoJob EXCEPT !.todo = job[p].todo \ {job[p].tx}]]
            OBVIOUS
        <3> QED
            BY <1>0, <3>1 DEF Jobs, NoJob
    <2>5. UNCHANGED journal \/ \E m : journal' = Written(job[p].tx, "rolled_back", m)
        OBVIOUS
    <2>6. \A t \in TxIds : Unused(t)' => Unused(t)
        BY <2>2, <2>5, UsedStays DEF Typing, InHand
    <2>7. job[p].todo \subseteq TxIds
        BY <1>0 DEF Jobs
    <2>8. /\ job'[p].status # "absent" /\ \A t \in job'[p].todo : ~Unused(t)'
        BY <1>a, <2>4, <2>6, <2>7 DEF OwnAt
    <2>9. pc'[p] \notin TxSteps /\ pc'[p] \notin OwnTxSteps
        BY <1>b, <2>3 DEF TxSteps, CommitSteps, RollbackSteps
    <2>10. OwnAt(p)'
        BY <2>3, <2>8, <2>9 DEF OwnAt, Unused
    <2> QED
        BY <2>1, <2>3, <2>6, <2>9, <2>10, BackedUpStep
<1> QED
    BY <1>1, <1>3, <1>4, <1>5, <1>6, <1>7, <1>8, <1>9, <1>10, <1>11, <1>12 DEF Next, Step

LEMMA BackedUpAlways == Spec => [](Typing /\ BackedUpOnce)
<1>1. Typing /\ BackedUpOnce /\ [Next]_vars => BackedUpOnce'
    BY NextBackedUp
<1> QED
    BY <1>1, InitBackedUp, TypingInvariant, PTL DEF Spec

-----------------------------------------------------------------------------
(* Bytes of the user are moved, not deleted.                                *)

Places == (0 .. MaxApplies) \X Keys

\* A tree of the runtime, or one in the backups, holds the user's bytes there.
Holds(tree, backs, c) ==
    IF c[1] = 0 THEN tree[c[2]] = UserBytes ELSE backs[c[1]][c[2]] = UserBytes

Copies(tree, backs) == {c \in Places : Holds(tree, backs, c)}

LEMMA CopiesAre ==
    ASSUME NEW tree, NEW backs
    PROVE  {<<0, k>> : k \in {x \in Keys : tree[x] = UserBytes}}
              \cup {c \in TxIds \X Keys : backs[c[1]][c[2]] = UserBytes} = Copies(tree, backs)
<1> DEFINE copies == {<<0, k>> : k \in {x \in Keys : tree[x] = UserBytes}}
                        \cup {c \in TxIds \X Keys : backs[c[1]][c[2]] = UserBytes}
<1>1. TxIds = {n \in 0 .. MaxApplies : n # 0} /\ 0 \in 0 .. MaxApplies
    BY BoundsAssumption DEF TxIds
<1>2. ASSUME NEW c \in copies PROVE c \in Places /\ Holds(tree, backs, c)
    BY <1>1 DEF Places, Holds
<1>3. ASSUME NEW c \in Places, Holds(tree, backs, c) PROVE c \in copies
    <2>1. CASE c[1] = 0
        BY <1>3, <2>1 DEF Places, Holds
    <2>2. CASE c[1] # 0
        BY <1>1, <1>3, <2>2 DEF Places, Holds
    <2> QED
        BY <2>1, <2>2
<1> QED
    BY <1>2, <1>3 DEF Copies

LEMMA UserCopiesAre ==
    UserCopies = Copies(runtime, backup) /\ UserCopies' = Copies(runtime', backup')
BY CopiesAre DEF UserCopies

LEMMA CopiesFinite ==
    ASSUME NEW tree, NEW backs
    PROVE  IsFiniteSet(Copies(tree, backs)) /\ Cardinality(Copies(tree, backs)) \in Nat
<1>1. MaxApplies \in Int /\ NumKeys \in Int
    BY BoundsAssumption, NumKeysAssumption
<1>2. IsFiniteSet(0 .. MaxApplies) /\ IsFiniteSet(1 .. NumKeys)
    BY <1>1, FS_Interval
<1>3. IsFiniteSet(Places)
    BY <1>2, FS_Product DEF Places, Keys
<1> QED
    BY <1>3, FS_Subset, FS_CardinalityType DEF Copies

\* A copy goes from one place to another.
LEMMA MovedCopy ==
    ASSUME NEW tree, NEW backs, NEW tree1, NEW backs1,
           NEW from \in Places, NEW to \in Places, from # to,
           Holds(tree1, backs1, to) <=> Holds(tree, backs, from),
           ~Holds(tree, backs, to), ~Holds(tree1, backs1, from),
           \A c \in Places \ {from, to} : Holds(tree1, backs1, c) <=> Holds(tree, backs, c)
    PROVE  Cardinality(Copies(tree1, backs1)) = Cardinality(Copies(tree, backs))
<1> DEFINE before == Copies(tree, backs)
           after == Copies(tree1, backs1)
           left == before \ {from}
<1>1. IsFiniteSet(before) /\ Cardinality(before) \in Nat
    BY CopiesFinite
<1>2. CASE ~Holds(tree, backs, from)
    <2>1. after = before
        BY <1>2 DEF Copies
    <2> QED
        BY <2>1
<1>3. CASE Holds(tree, backs, from)
    <2>1. after = left \cup {to} /\ from \in before /\ to \notin before
        BY <1>3 DEF Copies
    <2> HIDE DEF before, after
    <2>2. IsFiniteSet(left) /\ Cardinality(left) = Cardinality(before) - 1
        BY <1>1, <2>1, FS_RemoveElement
    <2>3. Cardinality(left \cup {to}) = Cardinality(left) + 1
        BY <2>1, <2>2, FS_AddElement
    <2>4. Cardinality(after) = Cardinality(before)
        BY <1>1, <2>1, <2>2, <2>3
    <2> QED
        BY <2>4 DEF before, after
<1> QED
    BY <1>2, <1>3

LEMMA KeptCopies ==
    ASSUME \A c \in Places : Holds(runtime, backup, c) => Holds(runtime', backup', c)
    PROVE  ~(Cardinality(UserCopies') < Cardinality(UserCopies))
<1>1. Copies(runtime, backup) \subseteq Copies(runtime', backup')
    BY DEF Copies
<1>2. Cardinality(Copies(runtime, backup)) <= Cardinality(Copies(runtime', backup'))
    BY <1>1, CopiesFinite, FS_Subset
<1> QED
    BY <1>2, CopiesFinite, UserCopiesAre

\* A directory is moved between a target and its backup: one of the two is not there.
LEMMA TargetMoved ==
    ASSUME NEW t \in TxIds, NEW k \in Keys, NEW tree, NEW backs, NEW tree1, NEW backs1,
           tree[k] = None \/ backs[t][k] = None,
           tree1[k] = backs[t][k], backs1[t][k] = tree[k],
           \A x \in Keys \ {k} : tree1[x] = tree[x],
           \A s \in TxIds : \A x \in Keys : s # t \/ x # k => backs1[s][x] = backs[s][x]
    PROVE  Cardinality(Copies(tree1, backs1)) = Cardinality(Copies(tree, backs))
<1> DEFINE target == <<0, k>>
           saved == <<t, k>>
<1>1. TxIds = {n \in 0 .. MaxApplies : n # 0} /\ 0 \in 0 .. MaxApplies
    BY BoundsAssumption DEF TxIds
<1>2. target \in Places /\ saved \in Places /\ target # saved
    BY <1>1 DEF Places
<1>5. ASSUME NEW c \in Places \ {target, saved}
      PROVE  Holds(tree1, backs1, c) <=> Holds(tree, backs, c)
    <2>1. c[1] \in 0 .. MaxApplies /\ c[2] \in Keys /\ c = <<c[1], c[2]>>
        BY DEF Places
    <2>2. CASE c[1] = 0
        BY <1>5, <2>1, <2>2 DEF Holds
    <2>3. CASE c[1] # 0
        <3>1. c[1] \in TxIds /\ (c[1] # t \/ c[2] # k)
            BY <1>1, <1>5, <2>1, <2>3
        <3> QED
            BY <2>1, <2>3, <3>1 DEF Holds
    <2> QED
        BY <2>2, <2>3
<1>6. /\ Holds(tree, backs, target) <=> tree[k] = UserBytes
      /\ Holds(tree, backs, saved) <=> backs[t][k] = UserBytes
      /\ Holds(tree1, backs1, target) <=> backs[t][k] = UserBytes
      /\ Holds(tree1, backs1, saved) <=> tree[k] = UserBytes
    <2>1. target[1] = 0 /\ target[2] = k /\ saved[1] = t /\ saved[2] = k /\ t # 0
        BY <1>1
    <2> HIDE DEF target, saved
    <2> QED
        BY <2>1 DEF Holds
<1>7. None # UserBytes
    BY NoneAssumption
<1> HIDE DEF target, saved
<1>8. {target, saved} = {saved, target}
    OBVIOUS
<1>9. Cardinality(Copies(tree1, backs1)) = Cardinality(Copies(tree, backs))
    <2>1. CASE tree[k] = None
        <3>1. \A c \in Places \ {saved, target} : Holds(tree1, backs1, c) <=> Holds(tree, backs, c)
            BY <1>5, <1>8
        <3>2. ~Holds(tree, backs, target) /\ ~Holds(tree1, backs1, saved)
              /\ (Holds(tree1, backs1, target) <=> Holds(tree, backs, saved))
            BY <1>6, <1>7, <2>1
        <3> QED
            BY <1>2, <3>1, <3>2, MovedCopy
    <2>2. CASE backs[t][k] = None
        <3>1. ~Holds(tree, backs, saved) /\ ~Holds(tree1, backs1, target)
              /\ (Holds(tree1, backs1, saved) <=> Holds(tree, backs, target))
            BY <1>6, <1>7, <2>2
        <3> QED
            BY <1>2, <1>5, <3>1, MovedCopy
    <2> QED
        BY <2>1, <2>2
<1> QED
    BY <1>9

LEMMA MovesKeepCopies ==
    ASSUME Typing, BackedUpOnce, NEW p \in Procs, BackUp(p) \/ UndoRestore(p)
    PROVE  ~(Cardinality(UserCopies') < Cardinality(UserCopies))
<1> DEFINE t == job[p].tx
<1>0. /\ job \in [Procs -> Jobs] /\ runtime \in [Keys -> Contents]
      /\ backup \in [TxIds -> [Keys -> Contents]] /\ t \in TxIds
      /\ job[p].pending \subseteq Keys
    BY DEF Typing, TypeOK, InHand, BackUp, UndoRestore, TxSteps, CommitSteps, RollbackSteps,
           Jobs
<1>1. CASE UNCHANGED <<runtime, backup>>
    BY <1>1, KeptCopies
<1>2. ASSUME NEW k \in Keys, None \in {runtime[k], backup[t][k]},
             runtime' = [runtime EXCEPT ![k] = backup[t][k]],
             backup' = [backup EXCEPT ![t][k] = runtime[k]]
      PROVE  ~(Cardinality(UserCopies') < Cardinality(UserCopies))
    <2>1. Cardinality(Copies(runtime', backup')) = Cardinality(Copies(runtime, backup))
        <3>1. runtime'[k] = backup[t][k] /\ \A x \in Keys \ {k} : runtime'[x] = runtime[x]
            BY <1>0, <1>2
        <3>2. /\ backup'[t][k] = runtime[k]
              /\ \A s \in TxIds : \A x \in Keys :
                    s # t \/ x # k => backup'[s][x] = backup[s][x]
            BY <1>0, <1>2
        <3>3. t \in TxIds /\ (runtime[k] = None \/ backup[t][k] = None)
            BY <1>0, <1>2
        <3> HIDE DEF t
        <3> QED
            BY <3>1, <3>2, <3>3, TargetMoved
    <2>2. Cardinality(UserCopies') = Cardinality(UserCopies)
        BY <2>1, UserCopiesAre
    <2> QED
        BY <2>2, UserCopiesAre, CopiesFinite
<1>3. CASE BackUp(p)
    <2>1. pc[p] = "backup"
        BY <1>3 DEF BackUp
    <2>2. job[p].pending # {} /\ \A k \in job[p].pending : backup[t][k] = None
        BY <2>1 DEF BackedUpOnce, OwnAt
    <2>3. Target(p) \in Keys /\ backup[t][Target(p)] = None
        BY <1>0, <2>2, MinInKeys DEF Target
    <2>4. \/ UNCHANGED <<runtime, backup>>
          \/ /\ runtime' = [runtime EXCEPT ![Target(p)] = backup[t][Target(p)]]
             /\ backup' = [backup EXCEPT ![t][Target(p)] = runtime[Target(p)]]
        BY <1>3, <2>3 DEF BackUp
    <2> QED
        BY <1>1, <1>2, <2>3, <2>4
<1>4. CASE UndoRestore(p)
    <2> DEFINE k == LastTarget(p)
    <2>1. \/ UNCHANGED <<runtime, backup>>
          \/ /\ runtime[k] = None
             /\ runtime' = [runtime EXCEPT ![k] = backup[t][k]]
             /\ backup' = [backup EXCEPT ![t][k] = runtime[k]]
        BY <1>4 DEF UndoRestore
    <2> HIDE DEF k
    <2>2. CASE k \in Keys
        BY <1>1, <1>2, <2>1, <2>2
    <2>3. CASE k \notin Keys
        <3>1. runtime' = runtime
            BY <1>0, <2>1, <2>3
        <3>2. \A s \in TxIds : \A x \in Keys : backup'[s][x] = backup[s][x]
            BY <1>0, <2>1, <2>3
        <3>3. \A c \in Places : c[1] # 0 => c[1] \in TxIds /\ c[2] \in Keys
            BY BoundsAssumption DEF Places, TxIds
        <3>4. \A c \in Places : Holds(runtime, backup, c) => Holds(runtime', backup', c)
            BY <3>1, <3>2, <3>3 DEF Holds
        <3> QED
            BY <3>4, KeptCopies
    <2> QED
        BY <2>2, <2>3
<1> QED
    BY <1>3, <1>4

LEMMA NextKeepsCopies ==
    ASSUME Typing, BackedUpOnce, [Next]_vars,
           Cardinality(UserCopies') < Cardinality(UserCopies)
    PROVE  \/ count'.edits # count.edits
           \/ \E p \in Procs : pc[p] = "remove" /\ pc'[p] # "remove"
<1> USE DEF Goto, files, ghosts
<1>1. CASE UNCHANGED <<runtime, backup>>
    BY <1>1, KeptCopies
<1>2. CASE UserEdit
    BY <1>2 DEF UserEdit, Typing, TypeOK, Counters
<1>3. ASSUME NEW p \in Procs, UndoRemove(p) PROVE pc[p] = "remove" /\ pc'[p] # "remove"
    BY <1>3 DEF UndoRemove, RollbackFails, Return, Typing, TypeOK
<1>4. ASSUME NEW p \in Procs, InstallTarget(p) PROVE FALSE
    <2>1. /\ runtime \in [Keys -> Contents] /\ backup' = backup
          /\ \/ UNCHANGED runtime
             \/ /\ runtime[Target(p)] = None
                /\ \E d : runtime' = [runtime EXCEPT ![Target(p)] = d]
        BY <1>4 DEF InstallTarget, Typing, TypeOK
    <2>2. \A k \in Keys : runtime[k] = UserBytes => runtime'[k] = UserBytes
        BY <2>1, NoneAssumption
    <2>3. \A c \in Places : Holds(runtime, backup, c) => Holds(runtime', backup', c)
        BY <2>1, <2>2 DEF Holds, Places
    <2> QED
        BY <2>3, KeptCopies
<1>5. ASSUME NEW p \in Procs,
             \/ PlanRequest(p) \/ PlanLoad(p) \/ PlanEvaluate(p) \/ Apply(p)
             \/ AcquireLock(p) \/ AcquireTimeout(p) \/ ReapStaleLock(p) \/ Release(p)
             \/ Crash(p) \/ Scan(p) \/ Recover(p) \/ Recheck(p) \/ Begin(p) \/ Advance(p)
             \/ Stage(p) \/ ProjectRegistry(p) \/ RecordMutation(p) \/ PublishRegistry(p)
             \/ PublishReceipt(p) \/ CommitJournal(p) \/ Abort(p) \/ StartRollback(p)
             \/ UndoInspect(p) \/ RestoreRegistry(p) \/ RestoreReceipt(p) \/ FinishRollback(p)
      PROVE  UNCHANGED <<runtime, backup>>
    BY <1>5 DEF PlanRequest, PlanLoad, PlanEvaluate, Apply, AcquireLock, AcquireTimeout,
       ReapStaleLock, Release, Crash, Scan, Recover, Recheck, Begin, Advance, Stage,
       ProjectRegistry, RecordMutation, PublishRegistry, PublishReceipt, CommitJournal, Abort,
       StartRollback, UndoInspect, RestoreRegistry, RestoreReceipt, FinishRollback
<1>6. UNCHANGED vars => UNCHANGED <<runtime, backup>>
    BY DEF vars
<1> QED
    BY <1>1, <1>2, <1>3, <1>4, <1>5, <1>6, MovesKeepCopies DEF Next, Step

\* The copies of bytes a user wrote become fewer by an edit of the user's own, or by
\* the os.RemoveAll of a rollback, and in no other way: mutateRuntimeTarget and
\* moveDir never overwrite one.  Nothing is assumed: calls may fail, processes may
\* crash, and live holders may lose the lock.
THEOREM UserBytesAreKept == Spec => UserBytesKept
<1>1. Typing /\ BackedUpOnce /\ [Next]_vars
        => [Cardinality(UserCopies') < Cardinality(UserCopies)
            => \/ count'.edits # count.edits
               \/ \E p \in Procs : pc[p] = "remove" /\ pc'[p] # "remove"]_vars
    BY NextKeepsCopies
<1> QED
    BY <1>1, BackedUpAlways, PTL DEF Spec, UserBytesKept

-----------------------------------------------------------------------------
(* Where the bytes of each target are while a transaction is undecided, when no  *)
(* call fails and no live holder outlives the stale window.                      *)

\* The mutation puts in place the very bytes that were there.
Twin(t, k) ==
    LET m == journal[t].mutations[k]
    IN  m # None /\ origin[t][k] # None /\ m.result = origin[t][k]

\* With mutation m, original o, target r and backup b of one target: untouched; moved
\* to the backups; replaced; or, of two equal copies, the installed one removed.
PlaceOf(m, o, r, b) ==
    /\ m = None => r = o /\ b = None
    /\ m # None =>
          /\ m.existed <=> o # None
          /\ \/ r = o /\ b = None
             \/ o # None /\ r = None /\ b = o
             \/ r = m.result /\ b = o
             \/ o # None /\ m.result = o /\ r = None /\ b = None

PlaceAt(t, k) ==
    /\ PlaceOf(journal[t].mutations[k], origin[t][k], runtime[k], backup[t][k])
    /\ Twin(t, k) => origin[t][k] # journal[t].registryBefore.digest[k]

\* What evaluatePlan says of the plan p holds.
Decision(p, reg, tree, k) ==
    Evaluate(reg, tree, plan[p].op, ProductOf[p], plan[p].desired)[k]

ForwardSteps ==
    {"advance", "stage", "project", "mutate", "backup", "install", "receipt", "commit"}

\* The reviewed decisions are those of the registry and the trees of the beginning.
ReviewAt(p) ==
    /\ pc[p] = "begin" =>
          \A k \in Keys \ edited : plan[p].decisions[k] = Decision(p, registry, runtime, k)
    /\ pc[p] \in ForwardSteps =>
          \A k \in Keys \ edited :
              plan[p].decisions[k] = Decision(p, Before(p), origin[job[p].tx], k)
    /\ pc[p] \in {"begin"} \cup ForwardSteps =>
          \A k \in Keys : plan[p].decisions[k].branch # "digest_conflict"

\* The in-memory journal is the one on disk.
InMemory(p) ==
    /\ pc[p] \in TxSteps => job[p].mutations = journal[job[p].tx].mutations
    /\ pc[p] \in {"begin", "advance", "stage", "project"} => job[p].mutations = NoMutations

\* One target in mutateRuntimeTarget.
CommitKey(p, k) ==
    LET m == job[p].mutations[k]
        o == origin[job[p].tx][k]
        b == backup[job[p].tx][k]
        wanted == plan[p].desired.digest[k]
        mutates == Mutates(plan[p].decisions[k])
    IN  /\ ~mutates => m = None /\ k \notin job[p].pending
        /\ mutates /\ k \notin job[p].pending => m # None /\ runtime[k] = wanted
        /\ k \in job[p].pending /\ (pc[p] = "mutate" \/ k # Target(p)) => m = None
        /\ pc[p] = "backup" /\ k = Target(p)
              => m # None /\ m.result = wanted /\ runtime[k] = o /\ b = None
        /\ pc[p] = "install" /\ k = Target(p)
              => m # None /\ m.result = wanted /\ runtime[k] = None /\ b = o

CommitAt(p) ==
    /\ pc[p] \in {"backup", "install"} => job[p].pending # {}
    /\ pc[p] \in {"receipt", "commit"} => job[p].pending = {}
    /\ pc[p] \in {"mutate", "backup", "install", "receipt", "commit"} =>
          \A k \in Keys \ edited : CommitKey(p, k)

\* A target is as it was, but for a twin whose bytes are gone.
Back(t, k) == runtime[k] = origin[t][k] \/ Twin(t, k)

\* rollbackTransaction
UndoAt(p) ==
    /\ pc[p] \in {"undo", "remove", "restore"} =>
          /\ \A k \in job[p].pending : job[p].mutations[k] # None
          /\ \A k \in Keys \ edited :
                job[p].mutations[k] # None /\ k \notin job[p].pending => Back(job[p].tx, k)
    /\ pc[p] \in {"remove", "restore"} => job[p].pending # {}
    /\ pc[p] = "remove" /\ LastTarget(p) \notin edited
          => runtime[LastTarget(p)] = job[p].mutations[LastTarget(p)].result
    /\ pc[p] = "restore" /\ LastTarget(p) \notin edited => runtime[LastTarget(p)] = None
    /\ pc[p] \in {"rb_receipt", "rb_journal"}
          => \A k \in Keys \ edited : Back(job[p].tx, k)

PlacedAt(p) == ReviewAt(p) /\ InMemory(p) /\ CommitAt(p) /\ UndoAt(p)

Placed ==
    /\ \A t \in Incomplete : \A k \in Keys \ edited : PlaceAt(t, k)
    /\ \A p \in Procs : PlacedAt(p)

\* What the trees are, on top of what is known of locks, registry and backups.
Tracked == Faultless /\ BackedUpOnce /\ Placed

\* The points of which something is said.
PlacedSteps == {"begin"} \cup TxSteps

LEMMA NothingPlaced ==
    ASSUME NEW p \in Procs, pc[p] \notin PlacedSteps
    PROVE  PlacedAt(p)
BY DEF PlacedAt, ReviewAt, InMemory, CommitAt, UndoAt, PlacedSteps, ForwardSteps, TxSteps,
       CommitSteps, RollbackSteps

LEMMA InitPlaced == Init => Placed
<1> SUFFICES ASSUME Init PROVE Placed
    OBVIOUS
<1>1. Incomplete = {}
    BY DEF Init, Incomplete, NoJournal
<1>2. \A p \in Procs : pc[p] \notin PlacedSteps
    BY DEF Init, PlacedSteps, TxSteps, CommitSteps, RollbackSteps
<1> QED
    BY <1>1, <1>2, NothingPlaced DEF Placed

\* An entry is decided by what is in its own target.
LEMMA DecidedByTarget ==
    ASSUME NEW reg, NEW tree1, NEW tree2, NEW op, NEW q, NEW desired, NEW k \in Keys,
           tree1[k] = tree2[k]
    PROVE  Evaluate(reg, tree1, op, q, desired)[k] = Evaluate(reg, tree2, op, q, desired)[k]
BY DEF Evaluate, DesiredBranch, ReleasedBranch

\* A mutation is decided upon for a reason.
LEMMA MutationReason ==
    ASSUME NEW reg \in Registries, NEW tree, NEW op, NEW q, NEW desired \in Snapshots,
           NEW k \in Keys, Mutates(Evaluate(reg, tree, op, q, desired)[k])
    PROVE  /\ desired.digest[k] # None /\ desired.digest[k] = tree[k]
                 => tree[k] # reg.digest[k]
           /\ Evaluate(reg, tree, op, q, desired)[k].branch = "remove"
                 => desired.digest[k] = None
<1> DEFINE wanted == desired.digest[k]
           existing == reg.digest[k]
<1>1. Evaluate(reg, tree, op, q, desired)[k].branch
         = IF wanted # None THEN DesiredBranch(reg, tree, op, q, desired, k)
                            ELSE ReleasedBranch(reg, tree, q, k)
    BY DEF Evaluate
<1>2. ASSUME wanted # None, wanted = tree[k], tree[k] = existing PROVE FALSE
    <2>1. DesiredBranch(reg, tree, op, q, desired, k) \in {"none", "share", "claim"}
        BY <1>2 DEF DesiredBranch
    <2> QED
        BY <1>1, <1>2, <2>1 DEF Mutates, ReplaceBranches
<1>3. ASSUME wanted # None PROVE DesiredBranch(reg, tree, op, q, desired, k) # "remove"
    BY DEF DesiredBranch
<1> QED
    BY <1>1, <1>2, <1>3

\* A step that touches none of it.
LEMMA UnplacedStep ==
    ASSUME Placed, UNCHANGED <<registry, runtime, journal, backup, edited, origin>>,
           \A p \in Procs : pc'[p] \in PlacedSteps
               => pc'[p] = pc[p] /\ job'[p] = job[p] /\ plan'[p] = plan[p]
    PROVE  Placed'
<1>1. Incomplete' = Incomplete
    BY SameIncomplete
<1>2. \A t \in Incomplete' : \A k \in Keys \ edited' : PlaceAt(t, k)'
    BY <1>1 DEF Placed, PlaceAt, Twin
<1>3. ASSUME NEW p \in Procs PROVE PlacedAt(p)'
    <2>1. CASE pc'[p] \in PlacedSteps
        <3>1. PlacedAt(p) /\ pc'[p] = pc[p] /\ job'[p] = job[p] /\ plan'[p] = plan[p]
            BY <2>1 DEF Placed
        <3>2. ReviewAt(p)'
            BY <3>1 DEF PlacedAt, ReviewAt, Decision, Before
        <3>3. InMemory(p)'
            BY <3>1 DEF PlacedAt, InMemory
        <3>4. Target(p)' = Target(p) /\ LastTarget(p)' = LastTarget(p)
            BY <3>1 DEF Target, LastTarget
        <3>5. CommitAt(p)'
            <4>1. ASSUME NEW k PROVE CommitKey(p, k)' <=> CommitKey(p, k)
                BY <3>1, <3>4 DEF CommitKey
            <4> QED
                BY <3>1, <4>1 DEF PlacedAt, CommitAt
        <3>6. UndoAt(p)'
            <4>1. ASSUME NEW k PROVE Back(job[p].tx, k)' <=> Back(job[p].tx, k)
                BY <3>1 DEF Back, Twin
            <4> QED
                BY <3>1, <3>4, <4>1 DEF PlacedAt, UndoAt
        <3> QED
            BY <3>2, <3>3, <3>5, <3>6 DEF PlacedAt
    <2>2. CASE pc'[p] \notin PlacedSteps
        BY <2>2 DEF PlacedAt, ReviewAt, InMemory, CommitAt, UndoAt, PlacedSteps, ForwardSteps,
                    TxSteps, CommitSteps, RollbackSteps
    <2> QED
        BY <2>1, <2>2
<1> QED
    BY <1>2, <1>3 DEF Placed

\* The user edits a target: it is not spoken of any more.
LEMMA PlacedUserEdit ==
    ASSUME Typing, Placed, UserEdit
    PROVE  Placed'
<1>1. /\ UNCHANGED <<registry, journal, backup, pc, plan, job, origin>>
      /\ edited \subseteq edited' /\ \A k \in Keys \ edited' : runtime'[k] = runtime[k]
    BY DEF UserEdit, Typing, TypeOK
<1>2. Incomplete' = Incomplete
    BY <1>1, SameIncomplete
<1>3. \A t \in Incomplete' : \A k \in Keys \ edited' : PlaceAt(t, k)'
    BY <1>1, <1>2 DEF Placed, PlaceAt, Twin
<1>4. ASSUME NEW p \in Procs PROVE PlacedAt(p)'
    <2>1. PlacedAt(p) /\ Target(p)' = Target(p) /\ LastTarget(p)' = LastTarget(p)
        BY <1>1 DEF Placed, Target, LastTarget
    <2>2. ReviewAt(p)'
        <3>1. ASSUME NEW k \in Keys \ edited'
              PROVE  Decision(p, registry, runtime, k)' = Decision(p, registry, runtime, k)
            BY <1>1, DecidedByTarget DEF Decision
        <3>2. ASSUME NEW k \in Keys
              PROVE  Decision(p, Before(p), origin[job[p].tx], k)'
                         = Decision(p, Before(p), origin[job[p].tx], k)
            BY <1>1 DEF Decision, Before
        <3> QED
            BY <1>1, <2>1, <3>1, <3>2 DEF PlacedAt, ReviewAt
    <2>3. InMemory(p)'
        BY <1>1, <2>1 DEF PlacedAt, InMemory
    <2>4. CommitAt(p)'
        <3>1. ASSUME NEW k \in Keys \ edited' PROVE CommitKey(p, k)' <=> CommitKey(p, k)
            BY <1>1, <2>1 DEF CommitKey
        <3> QED
            BY <1>1, <2>1, <3>1 DEF PlacedAt, CommitAt
    <2>5. UndoAt(p)'
        <3>1. ASSUME NEW k \in Keys \ edited'
              PROVE  Back(job[p].tx, k)' <=> Back(job[p].tx, k)
            BY <1>1 DEF Back, Twin
        <3>2. pc[p] \in {"remove", "restore"} => LastTarget(p) \in Keys
            <4>1. job[p].pending \in SUBSET Keys
                BY DEF Typing, TypeOK, Jobs
            <4> QED
                BY <2>1, <4>1, MaxInKeys DEF PlacedAt, UndoAt, LastTarget
        <3>3. LastTarget(p) \in Keys /\ LastTarget(p) \notin edited'
                 => runtime'[LastTarget(p)] = runtime[LastTarget(p)]
            BY <1>1
        <3> QED
            BY <1>1, <2>1, <3>1, <3>2, <3>3 DEF PlacedAt, UndoAt
    <2> QED
        BY <2>2, <2>3, <2>4, <2>5 DEF PlacedAt
<1> QED
    BY <1>3, <1>4 DEF Placed

\* A step of p under the lock: nobody else is spoken of.
LEMMA PlacedStep ==
    ASSUME Serial, NEW p \in Procs, pc[p] \in LockedSteps, NEW point,
           pc' = [pc EXCEPT ![p] = point],
           \A t \in Incomplete' : \A k \in Keys \ edited' : PlaceAt(t, k)',
           PlacedAt(p)'
    PROVE  Placed'
<1>1. \A x \in Procs \ {p} : pc'[x] \notin PlacedSteps
    BY InsideStep, WatchedAreLocked DEF PlacedSteps, WatchedSteps
<1>2. ASSUME NEW x \in Procs \ {p} PROVE PlacedAt(x)'
    BY <1>1 DEF PlacedAt, ReviewAt, InMemory, CommitAt, UndoAt, PlacedSteps, ForwardSteps,
                TxSteps, CommitSteps, RollbackSteps
<1> QED
    BY <1>2 DEF Placed

\* A write of the journal of a transaction with the mutations it holds.
LEMMA SameMutations ==
    ASSUME Typing, NEW t \in TxIds, NEW status, NEW mutations,
           UNCHANGED journal \/ journal' = Written(t, status, mutations),
           mutations = journal[t].mutations
    PROVE  \A s \in TxIds : journal'[s].mutations = journal[s].mutations
<1>1. journal \in [TxIds -> Journals]
    BY DEF Typing, TypeOK
<1>2. CASE UNCHANGED journal
    BY <1>2
<1>3. CASE journal' = Written(t, status, mutations)
    BY <1>1, <1>3 DEF Written, Journals
<1> QED
    BY <1>2, <1>3

\* Trees and journalled mutations stay.
LEMMA SamePlaces ==
    ASSUME Placed, UNCHANGED <<runtime, backup, edited, origin>>,
           Incomplete' \subseteq Incomplete,
           \A t \in Incomplete : /\ journal'[t].mutations = journal[t].mutations
                                 /\ journal'[t].registryBefore = journal[t].registryBefore
    PROVE  \A t \in Incomplete' : \A k \in Keys \ edited' : PlaceAt(t, k)'
BY DEF Placed, PlaceAt, Twin

\* Inside a transaction, whose saved registry stays.
LEMMA InsideTracked ==
    ASSUME Tracked, NEW p \in Procs, Within(p), job'[p].tx = job[p].tx
    PROVE  /\ job[p].tx \in TxIds /\ Incomplete = {job[p].tx} /\ Incomplete' = Incomplete
           /\ Before(p)' = Before(p) /\ pc[p] \in LockedSteps /\ Owned(p) /\ PlacedAt(p)
           /\ \A k \in Keys \ edited : PlaceAt(job[p].tx, k)
<1>1. /\ job[p].tx \in TxIds /\ Incomplete = {job[p].tx} /\ Incomplete' = {job[p].tx}
      /\ journal'[job[p].tx].registryBefore = journal[job[p].tx].registryBefore
    BY WithinJournal DEF Tracked
<1>2. pc[p] \in LockedSteps
    BY WatchedAreLocked DEF Within, WatchedSteps
<1>3. lock = p
    BY <1>2 DEF Tracked, Faultless, Serial, LockDiscipline
<1> QED
    BY <1>1, <1>2, <1>3 DEF Before, Owned, Tracked, Placed

\* What was reviewed goes on being what was reviewed.
LEMMA ReviewKept ==
    ASSUME NEW p \in Procs, ReviewAt(p), pc[p] \in ForwardSteps, pc'[p] # "begin",
           UNCHANGED <<plan, origin, edited>>, job'[p].tx = job[p].tx,
           Before(p)' = Before(p)
    PROVE  ReviewAt(p)'
<1>1. ASSUME NEW k \in Keys
      PROVE  Decision(p, Before(p), origin[job[p].tx], k)'
                 = Decision(p, Before(p), origin[job[p].tx], k)
    BY DEF Decision
<1> QED
    BY <1>1 DEF ReviewAt

\* A step of commitPlan that moves no directory.
LEMMA PlacedForwardStep ==
    ASSUME Tracked, NEW p \in Procs, Within(p), pc[p] \in ForwardSteps, NEW point,
           pc' = [pc EXCEPT ![p] = point],
           UNCHANGED <<runtime, backup, edited, origin, plan>>,
           job'[p].tx = job[p].tx, job'[p].mutations = job[p].mutations,
           job'[p].pending = job[p].pending,
           UNCHANGED journal \/ \E status :
               journal' = Written(job[p].tx, status, journal[job[p].tx].mutations),
           \/ point \in {"stage", "project"} /\ pc[p] \in {"advance", "stage"}
           \/ point = "receipt" /\ pc[p] = "mutate" /\ job[p].pending = {}
           \/ point = "commit" /\ pc[p] = "receipt"
           \/ point = "abort"
    PROVE  Placed'
<1>1. /\ job[p].tx \in TxIds /\ Incomplete = {job[p].tx} /\ Incomplete' = Incomplete
      /\ Before(p)' = Before(p) /\ pc[p] \in LockedSteps /\ PlacedAt(p)
    BY InsideTracked
<1>2. Typing /\ Serial /\ Placed /\ pc'[p] = point
    BY DEF Tracked, Faultless, Serial, Typing, TypeOK
<1>3. \A s \in TxIds : journal'[s].mutations = journal[s].mutations
    BY <1>1, <1>2, SameMutations
<1>4. \A t \in Incomplete' : \A k \in Keys \ edited' : PlaceAt(t, k)'
    BY <1>1, <1>2, <1>3, SamePlaces DEF Before
<1>5. ReviewAt(p)'
    BY <1>1, <1>2, ReviewKept DEF PlacedAt
<1>6. InMemory(p)'
    BY <1>1, <1>2, <1>3 DEF PlacedAt, InMemory, ForwardSteps, TxSteps, CommitSteps
<1>7. CommitAt(p)'
    <2>1. ASSUME pc[p] \in {"mutate", "receipt"}, job[p].pending = {},
                 pc'[p] \in {"receipt", "commit"}, NEW k \in Keys \ edited, CommitKey(p, k)
          PROVE  CommitKey(p, k)'
        BY <2>1 DEF CommitKey
    <2>2. CASE point \in {"receipt", "commit"}
        <3>1. job[p].pending = {} /\ pc[p] \in {"mutate", "receipt"}
            BY <1>1, <2>2 DEF PlacedAt, CommitAt
        <3>2. \A k \in Keys \ edited : CommitKey(p, k)
            BY <1>1, <3>1 DEF PlacedAt, CommitAt
        <3> QED
            BY <1>2, <2>1, <2>2, <3>1, <3>2 DEF CommitAt
    <2>3. CASE point \notin {"receipt", "commit"}
        BY <1>2, <2>3 DEF CommitAt
    <2> QED
        BY <2>2, <2>3
<1>8. UndoAt(p)'
    BY <1>2 DEF UndoAt
<1> QED
    BY <1>1, <1>2, <1>4, <1>5, <1>6, <1>7, <1>8, PlacedStep DEF PlacedAt

LEMMA PlacedForward ==
    ASSUME MaxFaults = 0, Tracked, NEW p \in Procs,
           \/ Advance(p) \/ Stage(p) \/ PublishRegistry(p) \/ PublishReceipt(p)
    PROVE  Placed'
<1> USE DEF Advance, Stage, PublishRegistry, PublishReceipt, Goto, files, ghosts
<1>0. WriteResults = {"ok"} /\ job \in [Procs -> Jobs]
    BY NoFault DEF Tracked, Faultless, Serial, Typing, TypeOK
<1>1. Within(p) /\ Faultless
    BY WithinSteps DEF Tracked
<1>2. pc[p] \in {"advance", "stage", "mutate", "receipt"}
    OBVIOUS
<1>3. /\ job'[p].tx = job[p].tx /\ job'[p].mutations = job[p].mutations
      /\ job'[p].pending = job[p].pending
    BY <1>0 DEF Jobs
<1>4. UNCHANGED journal \/ \E status :
          journal' = Written(job[p].tx, status, journal[job[p].tx].mutations)
    <2>1. CASE Advance(p)
        <3>1. pc[p] = "advance" /\ PlacedAt(p) /\ pc[p] \in TxSteps
            BY <2>1 DEF Tracked, Placed, TxSteps, CommitSteps
        <3>2. journal[job[p].tx].mutations = NoMutations
            BY <3>1 DEF PlacedAt, InMemory
        <3> QED
            BY <2>1, <3>2
    <2>2. CASE ~Advance(p)
        BY <2>2
    <2> QED
        BY <2>1, <2>2
<1>5. Owned(p)
    BY <1>1, <1>3, InsideTracked
<1>6. \E point : /\ pc' = [pc EXCEPT ![p] = point]
                 /\ \/ point \in {"stage", "project"} /\ pc[p] \in {"advance", "stage"}
                    \/ point = "receipt" /\ pc[p] = "mutate" /\ job[p].pending = {}
                    \/ point = "commit" /\ pc[p] = "receipt"
                    \/ point = "abort"
    BY <1>0
<1>7. UNCHANGED <<runtime, backup, edited, origin, plan>>
    OBVIOUS
<1>8. pc[p] \in ForwardSteps
    BY <1>2 DEF ForwardSteps
<1> HIDE DEF Advance, Stage, PublishRegistry, PublishReceipt, Goto, files, ghosts
<1> QED
    BY <1>1, <1>3, <1>4, <1>6, <1>7, <1>8, PlacedForwardStep

\* projectRegistry: the targets to change are those the plan mutates.
LEMMA PlacedProject ==
    ASSUME MaxFaults = 0, Tracked, NEW p \in Procs, ProjectRegistry(p)
    PROVE  Placed'
<1> USE DEF Goto, files, ghosts
<1>0. /\ job \in [Procs -> Jobs] /\ pc \in [Procs -> Points] /\ Placed /\ Serial /\ Typing
    BY DEF Tracked, Faultless, Serial, Typing, TypeOK
<1>1. Within(p) /\ Faultless
    BY WithinSteps DEF Tracked
<1>2. /\ pc[p] = "project" /\ pc[p] \in ForwardSteps
      /\ UNCHANGED <<runtime, backup, edited, origin, plan, journal>>
    BY DEF ProjectRegistry, ForwardSteps
<1>3. job'[p].tx = job[p].tx /\ job'[p].mutations = job[p].mutations
    BY <1>0 DEF ProjectRegistry, Jobs
<1>4. /\ job[p].tx \in TxIds /\ Incomplete' = Incomplete /\ Before(p)' = Before(p)
      /\ pc[p] \in LockedSteps /\ PlacedAt(p)
    BY <1>1, <1>3, InsideTracked
<1>5. \A t \in Incomplete' : \A k \in Keys \ edited' : PlaceAt(t, k)'
    BY <1>0, <1>2, <1>4, SamePlaces
<1>6. CASE pc' = [pc EXCEPT ![p] = "abort"] /\ job' = job
    <2>1. UNCHANGED journal
        BY <1>2
    <2> QED
        BY <1>1, <1>2, <1>3, <1>6, <2>1, PlacedForwardStep
<1>7. CASE /\ pc' = [pc EXCEPT ![p] = "mutate"]
           /\ job'[p].pending = {k \in Keys : Mutates(plan[p].decisions[k])}
    <2>1. pc'[p] = "mutate"
        BY <1>0, <1>7
    <2>2. ReviewAt(p)'
        BY <1>2, <1>3, <1>4, <2>1, ReviewKept DEF PlacedAt
    <2>3. InMemory(p)' /\ job[p].mutations = NoMutations
        BY <1>2, <1>3, <1>4, <2>1 DEF PlacedAt, InMemory, TxSteps, CommitSteps
    <2>4. \A k \in Keys : CommitKey(p, k)'
        BY <1>2, <1>3, <1>7, <2>1, <2>3 DEF CommitKey, NoMutations
    <2>5. CommitAt(p)' /\ UndoAt(p)'
        BY <2>1, <2>4 DEF CommitAt, UndoAt
    <2> QED
        BY <1>0, <1>4, <1>5, <1>7, <2>2, <2>3, <2>5, PlacedStep DEF PlacedAt
<1>8. \/ pc' = [pc EXCEPT ![p] = "abort"] /\ job' = job
      \/ \E x : /\ pc' = [pc EXCEPT ![p] = "mutate"]
                /\ job' = [job EXCEPT ![p].reg = x,
                     ![p].pending = {k \in Keys : Mutates(plan[p].decisions[k])}]
    BY DEF ProjectRegistry
<1> QED
    BY <1>0, <1>6, <1>7, <1>8 DEF Jobs

\* A step of the rollback that moves no directory.
LEMMA PlacedUndoStep ==
    ASSUME Tracked, NEW p \in Procs, Within(p), NEW point,
           pc' = [pc EXCEPT ![p] = point], point \in RollbackSteps \cup {"release"},
           UNCHANGED <<runtime, backup, edited, origin>>,
           job'[p].tx = job[p].tx, job'[p].mutations = job[p].mutations,
           UNCHANGED journal \/ \E status :
               journal' = Written(job[p].tx, status, journal[job[p].tx].mutations),
           UndoAt(p)'
    PROVE  Placed'
<1>1. /\ job[p].tx \in TxIds /\ Incomplete = {job[p].tx} /\ Incomplete' = Incomplete
      /\ Before(p)' = Before(p) /\ pc[p] \in LockedSteps /\ PlacedAt(p)
    BY InsideTracked
<1>2. Typing /\ Serial /\ Placed /\ pc'[p] = point
    BY DEF Tracked, Faultless, Serial, Typing, TypeOK
<1>3. \A s \in TxIds : journal'[s].mutations = journal[s].mutations
    BY <1>1, <1>2, SameMutations
<1>4. \A t \in Incomplete' : \A k \in Keys \ edited' : PlaceAt(t, k)'
    BY <1>1, <1>2, <1>3, SamePlaces DEF Before
<1>5. ReviewAt(p)' /\ CommitAt(p)'
    BY <1>2 DEF ReviewAt, CommitAt, ForwardSteps, RollbackSteps
<1>6. InMemory(p)'
    BY <1>1, <1>2, <1>3 DEF PlacedAt, InMemory, Within, RollbackSteps
<1> QED
    BY <1>1, <1>2, <1>4, <1>5, <1>6, PlacedStep DEF PlacedAt

LEMMA PlacedUndo ==
    ASSUME MaxFaults = 0, Tracked, NEW p \in Procs,
           \/ Abort(p) \/ StartRollback(p) \/ UndoInspect(p) \/ RestoreRegistry(p)
           \/ RestoreReceipt(p)
    PROVE  Placed'
<1> USE DEF Goto, files, ghosts
<1>0. /\ WriteResults = {"ok"} /\ job \in [Procs -> Jobs] /\ pc \in [Procs -> Points]
    BY NoFault DEF Tracked, Faultless, Serial, Typing, TypeOK
<1>1. Within(p) /\ Faultless
    BY WithinSteps DEF Tracked
<1>2. /\ job'[p].tx = job[p].tx /\ job'[p].mutations = job[p].mutations
    BY <1>0 DEF Abort, StartRollback, UndoInspect, RestoreRegistry, RestoreReceipt, Return,
                RollbackFails, Jobs
<1>3. /\ job[p].tx \in TxIds /\ PlacedAt(p) /\ pc[p] \in TxSteps
      /\ \A k \in Keys \ edited : PlaceAt(job[p].tx, k)
    BY <1>1, <1>2, InsideTracked DEF Within
<1>4. UNCHANGED <<runtime, backup, edited, origin>>
    BY DEF Abort, StartRollback, UndoInspect, RestoreRegistry, RestoreReceipt
<1>5. UNCHANGED journal \/ \E status :
          journal' = Written(job[p].tx, status, journal[job[p].tx].mutations)
    BY <1>3 DEF Abort, StartRollback, UndoInspect, RestoreRegistry, RestoreReceipt, PlacedAt,
                InMemory
<1>6. ASSUME NEW point \in RollbackSteps \cup {"release"}, pc' = [pc EXCEPT ![p] = point],
             UndoAt(p)'
      PROVE  Placed'
    BY <1>1, <1>2, <1>4, <1>5, <1>6, PlacedUndoStep
<1>7. ASSUME pc' = [pc EXCEPT ![p] = "release"] \/ pc' = [pc EXCEPT ![p] = "rollback"]
      PROVE  Placed'
    <2>1. PICK point \in {"release", "rollback"} : pc' = [pc EXCEPT ![p] = point]
        BY <1>7
    <2>2. UndoAt(p)'
        BY <1>0, <2>1 DEF UndoAt
    <2>3. point \in RollbackSteps \cup {"release"}
        BY DEF RollbackSteps
    <2> QED
        BY <1>6, <2>1, <2>2, <2>3
<1>8. CASE Abort(p)
    BY <1>7, <1>8 DEF Abort
<1>9. CASE StartRollback(p)
    <2>1. CASE pc' = [pc EXCEPT ![p] = "release"]
        BY <1>7, <2>1
    <2>2. CASE /\ job' = [job EXCEPT ![p].pending = {k \in Keys : job[p].mutations[k] # None}]
               /\ pc' = [pc EXCEPT ![p] = "undo"]
        <3>1. pc'[p] = "undo" /\ job'[p].pending = {k \in Keys : job[p].mutations[k] # None}
            BY <1>0, <2>2 DEF Jobs
        <3>2. UndoAt(p)'
            BY <1>2, <3>1 DEF UndoAt
        <3> QED
            BY <1>6, <2>2, <3>2 DEF RollbackSteps
    <2> QED
        BY <1>9, <2>1, <2>2 DEF StartRollback, Return
<1>10. CASE UndoInspect(p)
    <2>1. CASE pc' = [pc EXCEPT ![p] = "release"]
        BY <1>7, <2>1
    <2>2. ASSUME NEW point, point \in {"remove", "restore"}, pc' = [pc EXCEPT ![p] = point],
                 job' = job, job[p].pending # {}, pc[p] = "undo",
                 point = "restore" => runtime[LastTarget(p)] = None,
                 point = "remove" => runtime[LastTarget(p)]
                                        = job[p].mutations[LastTarget(p)].result
          PROVE  Placed'
        <3>1. pc'[p] = point
            BY <1>0, <2>2
        <3>2. UndoAt(p)'
            <4>1. \A k : Back(job[p].tx, k)' <=> Back(job[p].tx, k)
                BY <1>4, <1>10, <2>2 DEF UndoInspect, Back, Twin
            <4>2. LastTarget(p)' = LastTarget(p)
                BY <2>2 DEF LastTarget
            <4> QED
                BY <1>3, <1>4, <2>2, <3>1, <4>1, <4>2 DEF UndoAt, PlacedAt
        <3> QED
            BY <1>6, <2>2, <3>2 DEF RollbackSteps
    <2> QED
        BY <1>10, <2>1, <2>2 DEF UndoInspect, RollbackFails, Return
<1>11. CASE RestoreRegistry(p) \/ RestoreReceipt(p)
    <2>1. /\ UNCHANGED <<journal, job>>
          /\ \/ pc' = [pc EXCEPT ![p] = "rb_receipt"] /\ pc[p] = "undo" /\ job[p].pending = {}
             \/ pc' = [pc EXCEPT ![p] = "rb_journal"] /\ pc[p] = "rb_receipt"
        BY <1>0, <1>11 DEF RestoreRegistry, RestoreReceipt
    <2>2. pc'[p] \in {"rb_receipt", "rb_journal"}
        BY <1>0, <2>1
    <2>3. \A k \in Keys \ edited : Back(job[p].tx, k)
        <3>1. CASE pc[p] = "rb_receipt"
            BY <1>3, <3>1 DEF PlacedAt, UndoAt
        <3>2. ASSUME pc[p] = "undo", job[p].pending = {}, NEW k \in Keys \ edited
              PROVE  Back(job[p].tx, k)
            <4>1. CASE job[p].mutations[k] # None
                BY <1>3, <3>2, <4>1 DEF PlacedAt, UndoAt
            <4>2. CASE job[p].mutations[k] = None
                <5>1. journal[job[p].tx].mutations[k] = None
                    BY <1>3, <4>2 DEF PlacedAt, InMemory
                <5> QED
                    BY <1>3, <5>1 DEF PlaceAt, PlaceOf, Back
            <4> QED
                BY <4>1, <4>2
        <3> QED
            BY <2>1, <3>1, <3>2
    <2>4. UndoAt(p)'
        BY <1>4, <2>1, <2>2, <2>3 DEF UndoAt, Back, Twin
    <2> QED
        BY <1>6, <2>1, <2>4 DEF RollbackSteps
<1> QED
    BY <1>8, <1>9, <1>10, <1>11

\* A step of p that moves one target.
LEMMA PlacedMoveStep ==
    ASSUME Tracked, NEW p \in Procs, Within(p), NEW point, NEW x \in Keys,
           pc' = [pc EXCEPT ![p] = point], UNCHANGED <<edited, origin>>,
           job'[p].tx = job[p].tx,
           \A k \in Keys \ {x} :
               /\ runtime'[k] = runtime[k] /\ backup'[job[p].tx][k] = backup[job[p].tx][k]
               /\ journal'[job[p].tx].mutations[k] = journal[job[p].tx].mutations[k],
           x \notin edited => PlaceAt(job[p].tx, x)',
           PlacedAt(p)'
    PROVE  Placed'
<1>1. /\ job[p].tx \in TxIds /\ Incomplete' = {job[p].tx} /\ pc[p] \in LockedSteps
      /\ Before(p)' = Before(p) /\ \A k \in Keys \ edited : PlaceAt(job[p].tx, k)
    BY InsideTracked
<1>2. journal'[job[p].tx].registryBefore = journal[job[p].tx].registryBefore
    BY <1>1 DEF Before
<1>3. ASSUME NEW k \in Keys \ edited, k # x PROVE PlaceAt(job[p].tx, k)'
    <2>1. /\ journal'[job[p].tx].mutations[k] = journal[job[p].tx].mutations[k]
          /\ runtime'[k] = runtime[k] /\ backup'[job[p].tx][k] = backup[job[p].tx][k]
        BY <1>3
    <2>2. PlaceAt(job[p].tx, k)
        BY <1>1
    <2>3. Twin(job[p].tx, k)' <=> Twin(job[p].tx, k)
        BY <2>1 DEF Twin
    <2> QED
        BY <1>2, <2>1, <2>2, <2>3 DEF PlaceAt
<1>4. \A t \in Incomplete' : \A k \in Keys \ edited' : PlaceAt(t, k)'
    BY <1>1, <1>3
<1>5. Serial
    BY DEF Tracked, Faultless
<1> QED
    BY <1>1, <1>4, <1>5, PlacedStep

\* A target that is not the one at hand.
LEMMA OtherTarget ==
    ASSUME NEW p \in Procs, NEW k, k # Target(p), CommitKey(p, k),
           job'[p].tx = job[p].tx, UNCHANGED <<origin, plan>>,
           runtime'[k] = runtime[k], backup'[job[p].tx][k] = backup[job[p].tx][k],
           job'[p].mutations[k] = job[p].mutations[k],
           k \in job'[p].pending <=> k \in job[p].pending,
           pc'[p] \in {"backup", "install"} => Target(p)' = Target(p)
    PROVE  CommitKey(p, k)'
BY DEF CommitKey

\* The target at hand is one of those still to change.
LEMMA TargetAtHand ==
    ASSUME Tracked, NEW p \in Procs, pc[p] \in {"mutate", "backup", "install"},
           job[p].pending # {}
    PROVE  /\ Target(p) \in Keys /\ Target(p) \in job[p].pending
           /\ Target(p) \notin edited => CommitKey(p, Target(p))
           /\ Target(p) \notin edited => Mutates(plan[p].decisions[Target(p)])
<1>1. job[p].pending \in SUBSET Keys
    BY DEF Tracked, Faultless, Serial, Typing, TypeOK, Jobs
<1>2. Target(p) \in job[p].pending
    BY <1>1, MinInKeys DEF Target
<1>3. PlacedAt(p)
    BY DEF Tracked, Placed
<1>4. Target(p) \notin edited => CommitKey(p, Target(p))
    BY <1>1, <1>2, <1>3 DEF PlacedAt, CommitAt
<1>5. CommitKey(p, Target(p)) => Mutates(plan[p].decisions[Target(p)])
    BY <1>2 DEF CommitKey
<1> QED
    BY <1>1, <1>2, <1>4, <1>5

\* The mutation is journalled: it says what is there, and what will be.
LEMMA PlacedRecord ==
    ASSUME MaxFaults = 0, Tracked, NEW p \in Procs, RecordMutation(p)
    PROVE  Placed'
<1> DEFINE t == job[p].tx
           x == Target(p)
           m == [existed |-> runtime[x] # None, result |-> plan[p].desired.digest[x]]
           mutations == [job[p].mutations EXCEPT ![x] = m]
<1>0. /\ WriteResults = {"ok"} /\ job \in [Procs -> Jobs] /\ pc \in [Procs -> Points]
      /\ journal \in [TxIds -> Journals] /\ Typing /\ pc[p] = "mutate" /\ job[p].pending # {}
    BY NoFault DEF Tracked, Faultless, Serial, Typing, TypeOK, RecordMutation
<1>1. Within(p) /\ Faultless
    BY WithinSteps DEF Tracked
<1>2. job'[p].tx = t
    BY <1>0 DEF RecordMutation, Jobs
<1>3. /\ t \in TxIds /\ Owned(p) /\ PlacedAt(p) /\ Before(p)' = Before(p)
      /\ \A k \in Keys \ edited : PlaceAt(t, k)
    BY <1>1, <1>2, InsideTracked
<1>4. /\ UNCHANGED <<runtime, backup, plan, edited, origin>>
      /\ pc' = [pc EXCEPT ![p] = "backup"]
      /\ job' = [job EXCEPT ![p].mutations = mutations]
      /\ journal' = Written(t, job[p].status, mutations)
    BY <1>0, <1>3 DEF RecordMutation, Landed, Goto, files, ghosts
<1>5. /\ x \in Keys /\ x \in job[p].pending
      /\ x \notin edited => CommitKey(p, x) /\ Mutates(plan[p].decisions[x])
    BY <1>0, TargetAtHand
<1>6. /\ job[p].mutations \in [Keys -> Mutations \cup {None}] /\ plan[p].desired \in Snapshots
      /\ Before(p) \in Registries
    BY <1>0, InTransaction DEF Typing, TxSteps, CommitSteps, Before
<1>7. /\ pc'[p] = "backup" /\ job'[p].mutations = mutations
      /\ job'[p].pending = job[p].pending /\ journal'[t].mutations = mutations
      /\ job[p].mutations = journal[t].mutations
    <2>1. journal'[t].mutations = mutations
        BY <1>0, <1>3, <1>4 DEF Written, Journals
    <2>2. job[p].mutations = journal[t].mutations
        BY <1>0, <1>3 DEF PlacedAt, InMemory, TxSteps, CommitSteps
    <2> QED
        BY <1>0, <1>4, <2>1, <2>2 DEF Jobs
<1>8. /\ mutations[x] = m /\ \A k \in Keys \ {x} : mutations[k] = job[p].mutations[k]
      /\ m # None
    <2>1. m \in Mutations
        BY <1>5, <1>6 DEF Mutations, Snapshots
    <2> QED
        BY <1>5, <1>6, <2>1, NullAssumption
<1> HIDE DEF mutations, m, x, t
<1>9. ASSUME x \notin edited
      PROVE  /\ runtime[x] = origin[t][x] /\ backup[t][x] = None
             /\ plan[p].desired.digest[x] # None /\ plan[p].desired.digest[x] = origin[t][x]
                   => origin[t][x] # Before(p).digest[x]
    <2>1. job[p].mutations[x] = None
        BY <1>0, <1>5, <1>9 DEF CommitKey
    <2>2. PlaceAt(t, x)
        BY <1>3, <1>5, <1>9
    <2>3. plan[p].decisions[x] = Decision(p, Before(p), origin[t], x)
        BY <1>0, <1>3, <1>5, <1>9 DEF PlacedAt, ReviewAt, ForwardSteps, t
    <2>4. Mutates(Decision(p, Before(p), origin[t], x))
        BY <1>5, <1>9, <2>3
    <2> QED
        BY <1>5, <1>6, <1>7, <2>1, <2>2, <2>4, MutationReason DEF PlaceAt, PlaceOf, Decision
<1>10. m.existed = (runtime[x] # None) /\ m.result = plan[p].desired.digest[x]
    BY DEF m
<1>11. x \notin edited => PlaceAt(t, x)'
    <2>1. SUFFICES ASSUME x \notin edited
                   PROVE  /\ PlaceOf(m, origin[t][x], runtime[x], backup[t][x])
                          /\ m # None /\ origin[t][x] # None /\ m.result = origin[t][x]
                                => origin[t][x] # Before(p).digest[x]
        <3>1. journal'[t].mutations[x] = m /\ journal'[t].registryBefore = Before(p)
            BY <1>2, <1>3, <1>7, <1>8 DEF Before, t
        <3>2. origin' = origin /\ runtime' = runtime /\ backup' = backup
            BY <1>4
        <3>3. x' = x => (PlaceAt(t, x)' <=>
                /\ PlaceOf(m, origin[t][x], runtime[x], backup[t][x])
                /\ m # None /\ origin[t][x] # None /\ m.result = origin[t][x]
                      => origin[t][x] # Before(p).digest[x])
            BY <1>2, <3>1, <3>2 DEF PlaceAt, Twin, t
        <3>4. x' = x
            BY <1>7 DEF x, Target
        <3> QED
            BY <3>3, <3>4
    <2> QED
        BY <1>8, <1>9, <1>10, <2>1 DEF PlaceOf
<1>12. ReviewAt(p)'
    BY <1>0, <1>2, <1>3, <1>4, <1>7, ReviewKept DEF PlacedAt, ForwardSteps, t
<1>13. InMemory(p)' /\ UndoAt(p)'
    BY <1>2, <1>7 DEF InMemory, UndoAt, t
<1>14. CommitAt(p)'
    <2>1. Target(p)' = x
        BY <1>7 DEF Target, x
    <2>2. ASSUME NEW k \in Keys \ edited, k # x PROVE CommitKey(p, k)'
        <3>1. CommitKey(p, k)
            BY <1>0, <1>3 DEF PlacedAt, CommitAt
        <3>2. /\ k # Target(p) /\ runtime'[k] = runtime[k] /\ backup'[t][k] = backup[t][k]
              /\ job'[p].mutations[k] = job[p].mutations[k]
              /\ k \in job'[p].pending <=> k \in job[p].pending
              /\ Target(p)' = Target(p)
            BY <1>4, <1>7, <1>8, <2>1, <2>2 DEF x
        <3> QED
            BY <1>2, <1>4, <3>1, <3>2, OtherTarget DEF t
    <2>3. ASSUME x \notin edited PROVE CommitKey(p, x)'
        <3>1. /\ x \in job'[p].pending /\ job'[p].mutations[x] = m /\ pc'[p] = "backup"
              /\ Mutates(plan[p].decisions[x])
            BY <1>5, <1>7, <1>8, <2>3
        <3>2. x' = x
            BY <2>1 DEF x
        <3>3. /\ m # None /\ m.result = plan[p].desired.digest[x]
              /\ runtime[x] = origin[t][x] /\ backup[t][x] = None
            BY <1>8, <1>9, <1>10, <2>3
        <3>4. UNCHANGED <<runtime, backup, origin, plan>> /\ job'[p].tx = t
            BY <1>2, <1>4
        <3> QED
            BY <2>1, <3>1, <3>2, <3>3, <3>4 DEF CommitKey
    <2>4. x' = x
        BY <2>1 DEF x
    <2> QED
        BY <1>0, <1>4, <1>7, <2>2, <2>3, <2>4 DEF CommitAt
<1>15. \A k \in Keys \ {x} :
          /\ runtime'[k] = runtime[k] /\ backup'[t][k] = backup[t][k]
          /\ journal'[t].mutations[k] = journal[t].mutations[k]
    BY <1>4, <1>7, <1>8
<1>16. x' = x /\ t' = t
    BY <1>2, <1>7 DEF x, t, Target
<1> QED
    BY <1>1, <1>2, <1>4, <1>5, <1>11, <1>12, <1>13, <1>14, <1>15, <1>16, PlacedMoveStep
       DEF PlacedAt, t

\* A step of mutateRuntimeTarget on the target at hand, which stays the one journalled.
LEMMA PlacedMutationStep ==
    ASSUME Tracked, NEW p \in Procs, Within(p), NEW point \in {"install", "mutate"},
           pc[p] = IF point = "install" THEN "backup" ELSE "install",
           pc' = [pc EXCEPT ![p] = point],
           UNCHANGED <<journal, edited, origin, plan>>,
           job'[p].tx = job[p].tx, job'[p].mutations = job[p].mutations,
           job'[p].pending = IF point = "install" THEN job[p].pending
                             ELSE job[p].pending \ {Target(p)},
           \A k \in Keys \ {Target(p)} :
               runtime'[k] = runtime[k] /\ backup'[job[p].tx][k] = backup[job[p].tx][k],
           Target(p) \notin edited =>
               /\ PlaceOf(job[p].mutations[Target(p)], origin[job[p].tx][Target(p)],
                          runtime'[Target(p)], backup'[job[p].tx][Target(p)])
               /\ point = "install" => /\ runtime'[Target(p)] = None
                                       /\ backup'[job[p].tx][Target(p)]
                                             = origin[job[p].tx][Target(p)]
               /\ point = "mutate"
                     => runtime'[Target(p)] = plan[p].desired.digest[Target(p)]
    PROVE  Placed'
<1> PICK t, x : t = job[p].tx /\ x = Target(p)
    OBVIOUS
<1>0. Typing /\ pc \in [Procs -> Points] /\ pc[p] \in {"backup", "install"}
    BY DEF Tracked, Faultless, Serial, Typing, TypeOK
<1>1. /\ t \in TxIds /\ PlacedAt(p) /\ Before(p)' = Before(p)
      /\ \A k \in Keys \ edited : PlaceAt(t, k)
    BY InsideTracked
<1>2. job[p].pending # {}
    BY <1>0, <1>1 DEF PlacedAt, CommitAt
<1>3. /\ x \in Keys /\ x \in job[p].pending
      /\ x \notin edited => CommitKey(p, x) /\ Mutates(plan[p].decisions[x])
    BY <1>0, <1>2, TargetAtHand
<1>4. /\ pc'[p] = point /\ pc'[p] \in ForwardSteps /\ pc[p] \in ForwardSteps
      /\ pc[p] \in TxSteps /\ job[p].mutations = journal[t].mutations
    BY <1>0, <1>1 DEF ForwardSteps, PlacedAt, InMemory, TxSteps, CommitSteps
<1>5. ASSUME x \notin edited PROVE PlaceAt(t, x)'
    <2>1. PlaceOf(journal[t].mutations[x], origin[t][x], runtime'[x], backup'[t][x])
        BY <1>4, <1>5
    <2>2. Twin(t, x) => origin[t][x] # journal[t].registryBefore.digest[x]
        BY <1>1, <1>3, <1>5 DEF PlaceAt
    <2> QED
        BY <2>1, <2>2 DEF PlaceAt, Twin
<1>6. ReviewAt(p)'
    BY <1>1, <1>4, ReviewKept DEF PlacedAt
<1>7. InMemory(p)' /\ UndoAt(p)'
    BY <1>0, <1>4 DEF InMemory, UndoAt
<1>8. /\ pc'[p] = "install" => Target(p)' = Target(p) /\ job'[p].pending # {}
      /\ pc'[p] \in {"install", "mutate"}
    BY <1>2, <1>4 DEF Target
<1>9. ASSUME NEW k \in Keys \ edited PROVE CommitKey(p, k)'
    <2>1. CASE k # x
        <3>1. CommitKey(p, k)
            BY <1>0, <1>1, <1>9 DEF PlacedAt, CommitAt
        <3>2. /\ runtime'[k] = runtime[k] /\ backup'[t][k] = backup[t][k]
              /\ k \in job'[p].pending <=> k \in job[p].pending
            BY <1>9, <2>1
        <3> QED
            BY <1>8, <2>1, <3>1, <3>2, OtherTarget
    <2>2. CASE k = x
        <3>1. /\ job[p].mutations[x] # None
              /\ job[p].mutations[x].result = plan[p].desired.digest[x]
              /\ Mutates(plan[p].decisions[x])
            BY <1>0, <1>3, <1>9, <2>2 DEF CommitKey
        <3>2. CASE point = "install"
            BY <1>3, <1>4, <1>8, <1>9, <2>2, <3>1, <3>2 DEF CommitKey
        <3>3. CASE point = "mutate"
            BY <1>4, <1>9, <2>2, <3>1, <3>3 DEF CommitKey
        <3> QED
            BY <3>2, <3>3
    <2> QED
        BY <2>1, <2>2
<1>10. CommitAt(p)'
    BY <1>8, <1>9 DEF CommitAt
<1> QED
    BY <1>1, <1>3, <1>5, <1>6, <1>7, <1>10, PlacedMoveStep DEF PlacedAt

\* What there was is moved to the backups.
LEMMA PlacedBackUp ==
    ASSUME MaxFaults = 0, Tracked, NEW p \in Procs, BackUp(p)
    PROVE  Placed'
<1>0. /\ MoveResults = {"ok"} /\ runtime \in [Keys -> Contents] /\ Typing
      /\ backup \in [TxIds -> [Keys -> Contents]] /\ pc[p] = "backup"
    BY NoFault DEF Tracked, Faultless, Serial, Typing, TypeOK, BackUp
<1>1. Within(p) /\ Faultless
    BY WithinSteps DEF Tracked
<1>2. UNCHANGED <<journal, edited, origin, plan, job>>
    BY DEF BackUp, ghosts
<1>3. /\ job[p].tx \in TxIds /\ PlacedAt(p) /\ \A k \in Keys \ edited : PlaceAt(job[p].tx, k)
    BY <1>1, <1>2, InsideTracked
<1>4. PICK t, x : t = job[p].tx /\ x = Target(p)
    OBVIOUS
<1>5. /\ x \in Keys
      /\ x \notin edited => CommitKey(p, x)
      /\ job[p].mutations = journal[t].mutations
    <2>1. job[p].pending # {}
        BY <1>0, <1>3 DEF PlacedAt, CommitAt
    <2>2. job[p].mutations = journal[t].mutations
        BY <1>0, <1>3, <1>4 DEF PlacedAt, InMemory, TxSteps, CommitSteps
    <2> QED
        BY <1>0, <1>4, <2>1, <2>2, TargetAtHand
<1>6. x \notin edited =>
          /\ job[p].mutations[x] # None /\ runtime[x] = origin[t][x] /\ backup[t][x] = None
          /\ job[p].mutations[x].existed <=> origin[t][x] # None
    <2>1. SUFFICES ASSUME x \notin edited
                   PROVE  /\ job[p].mutations[x] # None
                          /\ runtime[x] = origin[t][x] /\ backup[t][x] = None
                          /\ job[p].mutations[x].existed <=> origin[t][x] # None
        OBVIOUS
    <2>2. PlaceAt(t, x)
        BY <1>3, <1>4, <1>5, <2>1
    <2>3. job[p].mutations[x] # None /\ runtime[x] = origin[t][x] /\ backup[t][x] = None
        BY <1>0, <1>4, <1>5, <2>1 DEF CommitKey
    <2> QED
        BY <1>5, <2>2, <2>3 DEF PlaceAt, PlaceOf
<1>7. CASE pc' = [pc EXCEPT ![p] = "abort"] /\ UNCHANGED <<runtime, backup>>
    BY <1>0, <1>1, <1>2, <1>7, PlacedForwardStep DEF ForwardSteps
<1>8. ASSUME pc' = [pc EXCEPT ![p] = "install"],
             \A k \in Keys \ {x} : runtime'[k] = runtime[k] /\ backup'[t][k] = backup[t][k],
             x \notin edited =>
                 /\ PlaceOf(job[p].mutations[x], origin[t][x], runtime'[x], backup'[t][x])
                 /\ runtime'[x] = None /\ backup'[t][x] = origin[t][x]
      PROVE  Placed'
    <2>1. /\ "install" \in {"install", "mutate"}
          /\ pc[p] = IF "install" = "install" THEN "backup" ELSE "install"
          /\ job'[p].pending = IF "install" = "install" THEN job[p].pending
                              ELSE job[p].pending \ {x}
          /\ job'[p].tx = job[p].tx /\ job'[p].mutations = job[p].mutations
        BY <1>0, <1>2
    <2>2. x \notin edited =>
              /\ PlaceOf(job[p].mutations[x], origin[t][x], runtime'[x], backup'[t][x])
              /\ "install" = "install" => runtime'[x] = None /\ backup'[t][x] = origin[t][x]
              /\ "install" = "mutate" => runtime'[x] = plan[p].desired.digest[x]
        BY <1>8
    <2> QED
        BY <1>1, <1>2, <1>4, <1>8, <2>1, <2>2, PlacedMutationStep
<1>9. CASE /\ ~job[p].mutations[x].existed /\ UNCHANGED <<runtime, backup>>
           /\ pc' = [pc EXCEPT ![p] = "install"]
    BY <1>6, <1>8, <1>9 DEF PlaceOf
<1>10. CASE /\ runtime[x] # None /\ pc' = [pc EXCEPT ![p] = "install"]
            /\ backup' = [backup EXCEPT ![t][x] = runtime[x]]
            /\ runtime' = [runtime EXCEPT ![x] = None]
    <2>1. /\ runtime'[x] = None /\ backup'[t][x] = runtime[x]
          /\ \A k \in Keys \ {x} : runtime'[k] = runtime[k] /\ backup'[t][k] = backup[t][k]
        BY <1>0, <1>3, <1>4, <1>5, <1>10
    <2>2. x \notin edited =>
              PlaceOf(job[p].mutations[x], origin[t][x], runtime'[x], backup'[t][x])
        BY <1>6, <1>10, <2>1 DEF PlaceOf
    <2> QED
        BY <1>6, <1>8, <1>10, <2>1, <2>2
<1>11. \/ pc' = [pc EXCEPT ![p] = "abort"] /\ UNCHANGED <<runtime, backup>>
       \/ /\ ~job[p].mutations[x].existed /\ UNCHANGED <<runtime, backup>>
          /\ pc' = [pc EXCEPT ![p] = "install"]
       \/ /\ runtime[x] # None /\ pc' = [pc EXCEPT ![p] = "install"]
          /\ backup' = [backup EXCEPT ![t][x] = runtime[x]]
          /\ runtime' = [runtime EXCEPT ![x] = None]
    BY <1>0, <1>4 DEF BackUp, Goto
<1> QED
    BY <1>7, <1>9, <1>10, <1>11

\* The copy from the store is put in place, or nothing is.
LEMMA PlacedInstall ==
    ASSUME MaxFaults = 0, Tracked, NEW p \in Procs, InstallTarget(p)
    PROVE  Placed'
<1>0. /\ MoveResults = {"ok"} /\ runtime \in [Keys -> Contents] /\ Typing
      /\ job \in [Procs -> Jobs] /\ pc[p] = "install"
    BY NoFault DEF Tracked, Faultless, Serial, Typing, TypeOK, InstallTarget
<1>1. Within(p) /\ Faultless
    BY WithinSteps DEF Tracked
<1>2. UNCHANGED <<journal, backup, edited, origin, plan>>
    BY DEF InstallTarget, ghosts
<1>3. job'[p].tx = job[p].tx /\ job'[p].mutations = job[p].mutations
    BY <1>0 DEF InstallTarget, NextTarget, Jobs
<1>4. /\ job[p].tx \in TxIds /\ PlacedAt(p) /\ \A k \in Keys \ edited : PlaceAt(job[p].tx, k)
    BY <1>1, <1>3, InsideTracked
<1>5. PICK t, x : t = job[p].tx /\ x = Target(p)
    OBVIOUS
<1>6. /\ x \in Keys
      /\ x \notin edited => CommitKey(p, x) /\ Mutates(plan[p].decisions[x])
      /\ plan[p].desired \in Snapshots /\ Before(p) \in Registries
    <2>1. job[p].pending # {}
        BY <1>0, <1>4 DEF PlacedAt, CommitAt
    <2>2. plan[p].desired \in Snapshots /\ Before(p) \in Registries
        BY <1>0, InTransaction DEF Typing, TxSteps, CommitSteps, Before
    <2> QED
        BY <1>0, <1>5, <2>1, <2>2, TargetAtHand
<1>7. x \notin edited =>
          /\ job[p].mutations[x] # None /\ runtime[x] = None /\ backup[t][x] = origin[t][x]
          /\ job[p].mutations[x].result = plan[p].desired.digest[x]
          /\ job[p].mutations[x].existed <=> origin[t][x] # None
          /\ plan[p].decisions[x].branch = "remove" => plan[p].desired.digest[x] = None
    <2>1. SUFFICES ASSUME x \notin edited
                   PROVE  /\ job[p].mutations[x] # None /\ runtime[x] = None
                          /\ backup[t][x] = origin[t][x]
                          /\ job[p].mutations[x].result = plan[p].desired.digest[x]
                          /\ job[p].mutations[x].existed <=> origin[t][x] # None
                          /\ plan[p].decisions[x].branch = "remove"
                                => plan[p].desired.digest[x] = None
        OBVIOUS
    <2>2. PlaceAt(t, x) /\ job[p].mutations = journal[t].mutations
        BY <1>0, <1>4, <1>5, <1>6, <2>1 DEF PlacedAt, InMemory, TxSteps, CommitSteps
    <2>3. /\ job[p].mutations[x] # None /\ runtime[x] = None /\ backup[t][x] = origin[t][x]
          /\ job[p].mutations[x].result = plan[p].desired.digest[x]
        BY <1>0, <1>5, <1>6, <2>1 DEF CommitKey
    <2>4. job[p].mutations[x].existed <=> origin[t][x] # None
        BY <2>2, <2>3 DEF PlaceAt, PlaceOf
    <2>5. plan[p].decisions[x] = Decision(p, Before(p), origin[t], x)
        BY <1>0, <1>4, <1>5, <1>6, <2>1 DEF PlacedAt, ReviewAt, ForwardSteps
    <2>6. plan[p].decisions[x].branch = "remove" => plan[p].desired.digest[x] = None
        BY <1>6, <2>1, <2>5, MutationReason DEF Decision
    <2> QED
        BY <2>3, <2>4, <2>6
<1>8. CASE pc' = [pc EXCEPT ![p] = "abort"] /\ UNCHANGED <<runtime, job>>
    BY <1>0, <1>1, <1>2, <1>8, PlacedForwardStep DEF ForwardSteps
<1>9. ASSUME pc' = [pc EXCEPT ![p] = "mutate"], job'[p].pending = job[p].pending \ {x},
             \A k \in Keys \ {x} : runtime'[k] = runtime[k],
             x \notin edited => runtime'[x] = plan[p].desired.digest[x]
      PROVE  Placed'
    <2>1. x \notin edited =>
              PlaceOf(job[p].mutations[x], origin[t][x], runtime'[x], backup'[t][x])
        BY <1>2, <1>7, <1>9 DEF PlaceOf
    <2>2. \A k \in Keys \ {x} : runtime'[k] = runtime[k] /\ backup'[t][k] = backup[t][k]
        BY <1>2, <1>9
    <2>3. /\ "mutate" \in {"install", "mutate"}
          /\ pc[p] = IF "mutate" = "install" THEN "backup" ELSE "install"
          /\ job'[p].pending = IF "mutate" = "install" THEN job[p].pending
                              ELSE job[p].pending \ {x}
        BY <1>0, <1>9
    <2>4. x \notin edited =>
              /\ PlaceOf(job[p].mutations[x], origin[t][x], runtime'[x], backup'[t][x])
              /\ "mutate" = "install" => runtime'[x] = None /\ backup'[t][x] = origin[t][x]
              /\ "mutate" = "mutate" => runtime'[x] = plan[p].desired.digest[x]
        BY <1>9, <2>1
    <2> QED
        BY <1>1, <1>2, <1>3, <1>5, <1>9, <2>2, <2>3, <2>4, PlacedMutationStep
<1>10. CASE /\ plan[p].decisions[x].branch = "remove" /\ UNCHANGED runtime
            /\ pc' = [pc EXCEPT ![p] = "mutate"]
            /\ job' = [job EXCEPT ![p].pending = @ \ {x}]
    <2>1. job'[p].pending = job[p].pending \ {x}
        BY <1>0, <1>10 DEF Jobs
    <2> QED
        BY <1>7, <1>9, <1>10, <2>1
<1>11. CASE /\ runtime' = [runtime EXCEPT ![x] = plan[p].desired.digest[x]]
            /\ pc' = [pc EXCEPT ![p] = "mutate"]
            /\ job' = [job EXCEPT ![p].pending = @ \ {x}]
    <2>1. job'[p].pending = job[p].pending \ {x}
        BY <1>0, <1>11 DEF Jobs
    <2> QED
        BY <1>0, <1>6, <1>9, <1>11, <2>1
<1>12. \/ pc' = [pc EXCEPT ![p] = "abort"] /\ UNCHANGED <<runtime, job>>
       \/ /\ pc' = [pc EXCEPT ![p] = "mutate"]
          /\ job' = [job EXCEPT ![p].pending = @ \ {x}]
          /\ \/ plan[p].decisions[x].branch = "remove" /\ UNCHANGED runtime
             \/ runtime' = [runtime EXCEPT ![x] = plan[p].desired.digest[x]]
    BY <1>0, <1>5 DEF InstallTarget, NextTarget, Goto
<1> QED
    BY <1>8, <1>10, <1>11, <1>12

\* A step of the rollback on the last target still to undo.
LEMMA PlacedUndoMove ==
    ASSUME Tracked, NEW p \in Procs, Within(p), NEW point \in {"restore", "undo"},
           pc[p] = IF point = "restore" THEN "remove" ELSE "restore",
           pc' = [pc EXCEPT ![p] = point],
           UNCHANGED <<journal, edited, origin>>,
           job'[p].tx = job[p].tx, job'[p].mutations = job[p].mutations,
           job'[p].pending = IF point = "restore" THEN job[p].pending
                             ELSE job[p].pending \ {LastTarget(p)},
           \A k \in Keys \ {LastTarget(p)} :
               runtime'[k] = runtime[k] /\ backup'[job[p].tx][k] = backup[job[p].tx][k],
           LastTarget(p) \notin edited =>
               /\ PlaceOf(job[p].mutations[LastTarget(p)],
                          origin[job[p].tx][LastTarget(p)],
                          runtime'[LastTarget(p)], backup'[job[p].tx][LastTarget(p)])
               /\ point = "restore" => runtime'[LastTarget(p)] = None
               /\ point = "undo"
                     => \/ runtime'[LastTarget(p)] = origin[job[p].tx][LastTarget(p)]
                        \/ Twin(job[p].tx, LastTarget(p))
    PROVE  Placed'
<1> PICK t, x : t = job[p].tx /\ x = LastTarget(p)
    OBVIOUS
<1>0. Typing /\ pc \in [Procs -> Points] /\ pc[p] \in {"remove", "restore"}
    BY DEF Tracked, Faultless, Serial, Typing, TypeOK
<1>1. /\ t \in TxIds /\ PlacedAt(p) /\ Before(p)' = Before(p)
      /\ \A k \in Keys \ edited : PlaceAt(t, k)
    BY InsideTracked
<1>2. job[p].pending # {} /\ x \in job[p].pending /\ x \in Keys
    <2>1. job[p].pending \in SUBSET Keys
        BY <1>0 DEF Typing, TypeOK, Jobs
    <2>2. job[p].pending # {}
        BY <1>0, <1>1 DEF PlacedAt, UndoAt
    <2> QED
        BY <2>1, <2>2, MaxInKeys DEF LastTarget
<1>3. /\ pc'[p] = point /\ pc[p] \in TxSteps /\ job[p].mutations = journal[t].mutations
      /\ pc'[p] \in RollbackSteps
    BY <1>0, <1>1 DEF PlacedAt, InMemory, TxSteps, RollbackSteps
<1>4. ASSUME x \notin edited PROVE PlaceAt(t, x)'
    <2>1. PlaceOf(journal[t].mutations[x], origin[t][x], runtime'[x], backup'[t][x])
        BY <1>3, <1>4
    <2>2. Twin(t, x) => origin[t][x] # journal[t].registryBefore.digest[x]
        BY <1>1, <1>2, <1>4 DEF PlaceAt
    <2> QED
        BY <2>1, <2>2 DEF PlaceAt, Twin
<1>5. ReviewAt(p)' /\ CommitAt(p)' /\ InMemory(p)'
    BY <1>1, <1>3 DEF ReviewAt, CommitAt, InMemory, ForwardSteps, RollbackSteps
<1>6. ASSUME NEW k \in Keys \ edited, job'[p].mutations[k] # None, k \notin job'[p].pending
      PROVE  Back(t, k)'
    <2>1. Twin(t, k)' <=> Twin(t, k)
        BY DEF Twin
    <2>2. CASE k = x
        BY <1>2, <1>6, <2>1, <2>2 DEF Back
    <2>3. CASE k # x
        <3>1. Back(t, k)
            BY <1>0, <1>1, <1>6, <2>3 DEF PlacedAt, UndoAt
        <3>2. runtime'[k] = runtime[k]
            BY <1>6, <2>3
        <3> QED
            BY <2>1, <3>1, <3>2 DEF Back
    <2> QED
        BY <2>2, <2>3
<1>7. \A k \in job'[p].pending : job'[p].mutations[k] # None
    BY <1>0, <1>1 DEF PlacedAt, UndoAt
<1>8. UndoAt(p)'
    <2>1. CASE point = "restore"
        <3>1. LastTarget(p)' = x /\ pc'[p] = "restore" /\ job'[p].pending # {}
            BY <1>2, <1>3, <2>1 DEF LastTarget
        <3>2. x \notin edited => runtime'[x] = None
            BY <2>1
        <3> QED
            BY <1>6, <1>7, <3>1, <3>2 DEF UndoAt
    <2>2. CASE point = "undo"
        <3>1. pc'[p] = "undo"
            BY <1>3, <2>2
        <3> QED
            BY <1>6, <1>7, <3>1 DEF UndoAt
    <2> QED
        BY <2>1, <2>2
<1> QED
    BY <1>1, <1>2, <1>4, <1>5, <1>8, PlacedMoveStep DEF PlacedAt

\* What the rollback removes is what the transaction put there.
LEMMA PlacedUndoRemove ==
    ASSUME MaxFaults = 0, Tracked, NEW p \in Procs, UndoRemove(p)
    PROVE  Placed'
<1>0. /\ MoveResults = {"ok"} /\ runtime \in [Keys -> Contents] /\ Typing
      /\ pc[p] = "remove"
    BY NoFault DEF Tracked, Faultless, Serial, Typing, TypeOK, UndoRemove
<1>1. Within(p) /\ Faultless
    BY WithinSteps DEF Tracked
<1>2. /\ UNCHANGED <<journal, backup, edited, origin, job>>
      /\ pc' = [pc EXCEPT ![p] = "restore"]
      /\ runtime' = [runtime EXCEPT ![LastTarget(p)] = None]
    BY <1>0 DEF UndoRemove, Goto, ghosts
<1>3. /\ job[p].tx \in TxIds /\ PlacedAt(p) /\ \A k \in Keys \ edited : PlaceAt(job[p].tx, k)
    BY <1>1, <1>2, InsideTracked
<1>4. PICK t, x : t = job[p].tx /\ x = LastTarget(p)
    OBVIOUS
<1>5. x \in Keys /\ x \in job[p].pending
    <2>1. job[p].pending \in SUBSET Keys /\ job[p].pending # {}
        BY <1>0, <1>3 DEF Typing, TypeOK, Jobs, PlacedAt, UndoAt
    <2> QED
        BY <1>4, <2>1, MaxInKeys DEF LastTarget
<1>6. runtime'[x] = None /\ \A k \in Keys \ {x} : runtime'[k] = runtime[k]
    BY <1>0, <1>2, <1>4, <1>5
<1>7. ASSUME x \notin edited
      PROVE  PlaceOf(job[p].mutations[x], origin[t][x], runtime'[x], backup'[t][x])
    <2>1. /\ PlaceOf(job[p].mutations[x], origin[t][x], runtime[x], backup[t][x])
          /\ job[p].mutations[x] # None /\ runtime[x] = job[p].mutations[x].result
        BY <1>0, <1>3, <1>4, <1>5, <1>7 DEF PlaceAt, PlacedAt, InMemory, UndoAt, TxSteps,
                                            RollbackSteps
    <2> QED
        BY <1>2, <1>6, <2>1 DEF PlaceOf
<1>8. /\ "restore" \in {"restore", "undo"}
      /\ pc[p] = IF "restore" = "restore" THEN "remove" ELSE "restore"
      /\ job'[p].pending = IF "restore" = "restore" THEN job[p].pending
                         ELSE job[p].pending \ {LastTarget(p)}
      /\ job'[p].tx = job[p].tx /\ job'[p].mutations = job[p].mutations
      /\ \A k \in Keys \ {LastTarget(p)} :
            runtime'[k] = runtime[k] /\ backup'[job[p].tx][k] = backup[job[p].tx][k]
    BY <1>0, <1>2, <1>4, <1>6
<1> QED
    BY <1>1, <1>2, <1>4, <1>6, <1>7, <1>8, PlacedUndoMove

\* The backup is moved back, when there is one.
LEMMA PlacedUndoRestore ==
    ASSUME MaxFaults = 0, Tracked, NEW p \in Procs, UndoRestore(p)
    PROVE  Placed'
<1>0. /\ MoveResults = {"ok"} /\ runtime \in [Keys -> Contents] /\ Typing
      /\ backup \in [TxIds -> [Keys -> Contents]] /\ job \in [Procs -> Jobs]
      /\ pc \in [Procs -> Points] /\ pc[p] = "restore"
    BY NoFault DEF Tracked, Faultless, Serial, Typing, TypeOK, UndoRestore
<1>1. Within(p) /\ Faultless
    BY WithinSteps DEF Tracked
<1>2. UNCHANGED <<journal, edited, origin>>
    BY DEF UndoRestore, ghosts
<1>3. job'[p].tx = job[p].tx /\ job'[p].mutations = job[p].mutations
    BY <1>0 DEF UndoRestore, RollbackFails, Return, Jobs
<1>4. /\ job[p].tx \in TxIds /\ PlacedAt(p) /\ \A k \in Keys \ edited : PlaceAt(job[p].tx, k)
    BY <1>1, <1>3, InsideTracked
<1>5. PICK t, x : t = job[p].tx /\ x = LastTarget(p)
    OBVIOUS
<1>6. x \in Keys /\ x \in job[p].pending
    <2>1. job[p].pending \in SUBSET Keys /\ job[p].pending # {}
        BY <1>0, <1>4 DEF Typing, TypeOK, Jobs, PlacedAt, UndoAt
    <2> QED
        BY <1>5, <2>1, MaxInKeys DEF LastTarget
<1>7. ASSUME x \notin edited
      PROVE  /\ PlaceOf(job[p].mutations[x], origin[t][x], runtime[x], backup[t][x])
             /\ job[p].mutations[x] # None /\ runtime[x] = None
             /\ job[p].mutations = journal[t].mutations
    BY <1>0, <1>4, <1>5, <1>6, <1>7 DEF PlaceAt, PlacedAt, InMemory, UndoAt, TxSteps,
                                        RollbackSteps
<1>8. CASE pc' = [pc EXCEPT ![p] = "release"] /\ UNCHANGED <<runtime, backup>>
    <2>1. UndoAt(p)'
        BY <1>0, <1>8 DEF UndoAt
    <2> QED
        BY <1>1, <1>2, <1>3, <1>8, <2>1, PlacedUndoStep DEF RollbackSteps
<1>9. ASSUME pc' = [pc EXCEPT ![p] = "undo"], job' = [job EXCEPT ![p].pending = @ \ {x}],
             \A k \in Keys \ {x} : runtime'[k] = runtime[k] /\ backup'[t][k] = backup[t][k],
             x \notin edited =>
                 /\ PlaceOf(job[p].mutations[x], origin[t][x], runtime'[x], backup'[t][x])
                 /\ runtime'[x] = origin[t][x] \/ Twin(t, x)
      PROVE  Placed'
    <2>1. job'[p].pending = job[p].pending \ {x}
        BY <1>0, <1>9 DEF Jobs
    <2>2. /\ "undo" \in {"restore", "undo"}
          /\ pc[p] = IF "undo" = "restore" THEN "remove" ELSE "restore"
          /\ job'[p].pending = IF "undo" = "restore" THEN job[p].pending
                             ELSE job[p].pending \ {LastTarget(p)}
        BY <1>0, <1>5, <2>1
    <2> QED
        BY <1>1, <1>2, <1>3, <1>5, <1>9, <2>2, PlacedUndoMove
<1>10. CASE /\ ~job[p].mutations[x].existed \/ backup[t][x] = None
            /\ pc' = [pc EXCEPT ![p] = "undo"] /\ job' = [job EXCEPT ![p].pending = @ \ {x}]
            /\ UNCHANGED <<runtime, backup>>
    <2>1. x \notin edited => runtime[x] = origin[t][x] \/ Twin(t, x)
        BY <1>7, <1>10 DEF PlaceOf, Twin
    <2> QED
        BY <1>7, <1>9, <1>10, <2>1
<1>11. CASE /\ job[p].mutations[x].existed /\ backup[t][x] # None /\ runtime[x] = None
            /\ runtime' = [runtime EXCEPT ![x] = backup[t][x]]
            /\ backup' = [backup EXCEPT ![t][x] = None]
            /\ pc' = [pc EXCEPT ![p] = "undo"] /\ job' = [job EXCEPT ![p].pending = @ \ {x}]
    <2>1. /\ runtime'[x] = backup[t][x] /\ backup'[t][x] = None
          /\ \A k \in Keys \ {x} : runtime'[k] = runtime[k] /\ backup'[t][k] = backup[t][k]
        BY <1>0, <1>4, <1>5, <1>6, <1>11
    <2>2. x \notin edited => backup[t][x] = origin[t][x]
        BY <1>7, <1>11 DEF PlaceOf
    <2>3. x \notin edited =>
              PlaceOf(job[p].mutations[x], origin[t][x], runtime'[x], backup'[t][x])
        BY <1>7, <1>11, <2>1, <2>2 DEF PlaceOf
    <2> QED
        BY <1>9, <1>11, <2>1, <2>2, <2>3
<1>12. \/ pc' = [pc EXCEPT ![p] = "release"] /\ UNCHANGED <<runtime, backup>>
       \/ /\ ~job[p].mutations[x].existed \/ backup[t][x] = None
          /\ pc' = [pc EXCEPT ![p] = "undo"] /\ job' = [job EXCEPT ![p].pending = @ \ {x}]
          /\ UNCHANGED <<runtime, backup>>
       \/ /\ job[p].mutations[x].existed /\ backup[t][x] # None /\ runtime[x] = None
          /\ runtime' = [runtime EXCEPT ![x] = backup[t][x]]
          /\ backup' = [backup EXCEPT ![t][x] = None]
          /\ pc' = [pc EXCEPT ![p] = "undo"] /\ job' = [job EXCEPT ![p].pending = @ \ {x}]
    BY <1>0, <1>5 DEF UndoRestore, RollbackFails, Return, Goto
<1> QED
    BY <1>8, <1>10, <1>11, <1>12

\* A step to a point of which nothing is said.
LEMMA NothingPlacedNext ==
    ASSUME NEW p \in Procs, pc'[p] \notin PlacedSteps
    PROVE  PlacedAt(p)'
BY DEF PlacedAt, ReviewAt, InMemory, CommitAt, UndoAt, PlacedSteps, ForwardSteps, TxSteps,
       CommitSteps, RollbackSteps

\* The transaction is decided.
LEMMA PlacedDecided ==
    ASSUME MaxFaults = 0, Tracked, NEW p \in Procs, CommitJournal(p) \/ FinishRollback(p)
    PROVE  Placed'
<1>0. WriteResults = {"ok"} /\ Serial /\ Faultless /\ pc[p] \in TxSteps
    BY NoFault DEF Tracked, Faultless, Serial, CommitJournal, FinishRollback, TxSteps,
                   CommitSteps, RollbackSteps
<1>1. Incomplete' = {}
    <2>1. CASE CommitJournal(p)
        <3>1. Decides(p, "commit", "committed")
            BY <1>0, <2>1 DEF Decides, CommitJournal, Landed
        <3> QED
            BY <1>0, <2>1, <3>1, DecidesJournal DEF CommitJournal
    <2>2. CASE FinishRollback(p)
        <3>1. Decides(p, "rb_journal", "rolled_back")
            BY <1>0, <2>2 DEF Decides, FinishRollback, Landed
        <3> QED
            BY <1>0, <2>2, <3>1, DecidesJournal DEF FinishRollback
    <2> QED
        BY <2>1, <2>2
<1>2. \E point \in {"release", "recover"} : pc' = [pc EXCEPT ![p] = point]
    BY <1>0 DEF CommitJournal, FinishRollback, Return, Goto
<1>3. PICK point \in {"release", "recover"} : pc' = [pc EXCEPT ![p] = point]
    BY <1>2
<1>4. pc'[p] \notin PlacedSteps
    BY <1>0, <1>3 DEF PlacedSteps, TxSteps, CommitSteps, RollbackSteps, Serial, Typing, TypeOK
<1>5. pc[p] \in LockedSteps
    BY <1>0, WatchedAreLocked DEF WatchedSteps
<1> QED
    BY <1>0, <1>1, <1>3, <1>4, <1>5, NothingPlacedNext, PlacedStep

\* What is read back from disk is what the process works with.
LEMMA PlacedRecover ==
    ASSUME Tracked, NEW p \in Procs, Recover(p)
    PROVE  Placed'
<1>0. /\ job \in [Procs -> Jobs] /\ pc \in [Procs -> Points] /\ Serial /\ Placed
      /\ pc[p] \in LockedSteps
    BY DEF Tracked, Faultless, Serial, Typing, TypeOK, Recover, LockedSteps
<1>1. UNCHANGED <<journal, runtime, backup, edited, origin>>
    BY DEF Recover, files, ghosts
<1>2. Incomplete' = Incomplete
    BY <1>1, SameIncomplete
<1>3. \A t \in Incomplete' : \A k \in Keys \ edited' : PlaceAt(t, k)'
    BY <1>0, <1>1, <1>2, SamePlaces
<1>4. CASE pc' = [pc EXCEPT ![p] = "recheck"]
    <2>1. pc'[p] \notin PlacedSteps
        BY <1>0, <1>4 DEF PlacedSteps, TxSteps, CommitSteps, RollbackSteps
    <2> QED
        BY <1>0, <1>3, <1>4, <2>1, NothingPlacedNext, PlacedStep
<1>5. ASSUME NEW t, pc' = [pc EXCEPT ![p] = "rollback"],
             job'[p].tx = t, job'[p].mutations = journal[t].mutations
      PROVE  Placed'
    <2>1. pc'[p] = "rollback"
        BY <1>0, <1>5
    <2>2. PlacedAt(p)'
        BY <1>1, <1>5, <2>1 DEF PlacedAt, ReviewAt, InMemory, CommitAt, UndoAt, ForwardSteps
    <2> QED
        BY <1>0, <1>3, <1>5, <2>2, PlacedStep
<1>6. ASSUME NEW t \in job[p].todo, pc' = [pc EXCEPT ![p] = "rollback"],
             job' = [job EXCEPT ![p].tx = t, ![p].status = journal[t].status,
                                ![p].mutations = journal[t].mutations,
                                ![p].recovering = TRUE]
      PROVE  job'[p].tx = t /\ job'[p].mutations = journal[t].mutations
    BY <1>0, <1>6 DEF Jobs
<1>7. \/ pc' = [pc EXCEPT ![p] = "recheck"]
      \/ \E t \in job[p].todo :
            /\ pc' = [pc EXCEPT ![p] = "rollback"]
            /\ job' = [job EXCEPT ![p].tx = t, ![p].status = journal[t].status,
                                  ![p].mutations = journal[t].mutations,
                                  ![p].recovering = TRUE]
    BY DEF Recover, Goto
<1> QED
    BY <1>4, <1>5, <1>6, <1>7

\* The plan is reviewed again, on the files as they are.
LEMMA PlacedRecheck ==
    ASSUME Tracked, NEW p \in Procs, Recheck(p)
    PROVE  Placed'
<1> DEFINE fresh == Evaluate(registry, runtime, plan[p].op, ProductOf[p], plan[p].desired)
<1>0. /\ job \in [Procs -> Jobs] /\ pc \in [Procs -> Points] /\ Serial /\ Placed
      /\ pc[p] \in LockedSteps
    BY DEF Tracked, Faultless, Serial, Typing, TypeOK, Recheck, LockedSteps
<1>1. UNCHANGED <<registry, journal, runtime, backup, edited, origin, plan>>
    BY DEF Recheck, files, ghosts
<1>2. Incomplete' = Incomplete
    BY <1>1, SameIncomplete
<1>3. \A t \in Incomplete' : \A k \in Keys \ edited' : PlaceAt(t, k)'
    BY <1>0, <1>1, <1>2, SamePlaces
<1>4. CASE pc' = [pc EXCEPT ![p] = "release"]
    <2>1. pc'[p] \notin PlacedSteps
        BY <1>0, <1>4 DEF PlacedSteps, TxSteps, CommitSteps, RollbackSteps
    <2> QED
        BY <1>0, <1>3, <1>4, <2>1, NothingPlacedNext, PlacedStep
<1>5. ASSUME pc' = [pc EXCEPT ![p] = "begin"], fresh = plan[p].decisions,
             job' = [job EXCEPT ![p] = [NoJob EXCEPT !.reg = registry]],
             \A k \in Keys : fresh[k].branch # "digest_conflict"
      PROVE  Placed'
    <2>1. pc'[p] = "begin" /\ job'[p].mutations = NoMutations
        BY <1>0, <1>5 DEF NoJob
    <2>2. ReviewAt(p)'
        BY <1>1, <1>5, <2>1 DEF ReviewAt, Decision, ForwardSteps
    <2>3. InMemory(p)' /\ CommitAt(p)' /\ UndoAt(p)'
        BY <2>1 DEF InMemory, CommitAt, UndoAt, TxSteps, CommitSteps, RollbackSteps
    <2> QED
        BY <1>0, <1>3, <1>5, <2>2, <2>3, PlacedStep DEF PlacedAt
<1>6. \/ pc' = [pc EXCEPT ![p] = "release"]
      \/ /\ pc' = [pc EXCEPT ![p] = "begin"]
         /\ job' = [job EXCEPT ![p] = [NoJob EXCEPT !.reg = registry]]
         /\ fresh = plan[p].decisions
         /\ \E replace \in BOOLEAN : ~Stopped(fresh, replace)
    <2> HIDE DEF fresh
    <2>1. /\ pc[p] = "recheck"
          /\ IF registry.revision # plan[p].revision \/ fresh # plan[p].decisions
             THEN Return(p, "stale")
             ELSE \E replace \in BOOLEAN :
                     IF Stopped(fresh, replace)
                     THEN Return(p, "conflict")
                     ELSE /\ job' = [job EXCEPT ![p] = [NoJob EXCEPT !.reg = registry]]
                          /\ Goto(p, "begin")
        BY DEF Recheck, fresh
    <2> QED
        BY <2>1 DEF Return, Goto
<1>7. ASSUME NEW replace \in BOOLEAN, ~Stopped(fresh, replace)
      PROVE  \A k \in Keys : fresh[k].branch # "digest_conflict"
    BY <1>7 DEF Stopped
<1> HIDE DEF fresh
<1> QED
    BY <1>4, <1>5, <1>6, <1>7

\* The first write of a transaction: nothing has moved.
LEMMA PlacedBegin ==
    ASSUME MaxFaults = 0, Tracked, NEW p \in Procs, Begin(p)
    PROVE  Placed'
<1>0. /\ job \in [Procs -> Jobs] /\ pc \in [Procs -> Points] /\ Serial /\ Placed /\ Faultless
      /\ pc[p] = "begin" /\ pc[p] \in LockedSteps /\ BackedUpOnce
      /\ journal \in [TxIds -> Journals] /\ origin \in [TxIds -> [Keys -> Contents]]
    BY DEF Tracked, Faultless, Serial, Typing, TypeOK, Begin, LockedSteps, CommitSteps
<1>1. UNCHANGED <<registry, receipt, runtime, backup, plan, edited>>
    BY DEF Begin
<1>2. CASE pc' = [pc EXCEPT ![p] = "release"] /\ UNCHANGED <<journal, origin>>
    <2>1. pc'[p] \notin PlacedSteps
        BY <1>0, <1>2 DEF PlacedSteps, TxSteps, CommitSteps, RollbackSteps
    <2>2. Incomplete' = Incomplete
        BY <1>2, SameIncomplete
    <2>3. \A t \in Incomplete' : \A k \in Keys \ edited' : PlaceAt(t, k)'
        BY <1>0, <1>1, <1>2, <2>2, SamePlaces
    <2> QED
        BY <1>0, <1>2, <2>1, <2>3, NothingPlacedNext, PlacedStep
<1>3. ASSUME NEW t \in FreshTx, BegunWith(p, t), origin' = [origin EXCEPT ![t] = runtime],
             \/ pc' = [pc EXCEPT ![p] = "release"]
             \/ /\ pc' = [pc EXCEPT ![p] = "advance"]
                /\ job' = [job EXCEPT ![p].tx = t, ![p].status = "prepared"]
      PROVE  Placed'
    <2>1. t \in TxIds /\ Unused(t) /\ Begun(p, t)
        BY <1>0, <1>1, <1>3 DEF FreshTx, Unused, Begun, BegunWith
    <2>2. Incomplete' = {t} /\ journal'[t].registryBefore = registry
        BY <1>0, <2>1, BegunJournal
    <2>3. /\ origin'[t] = runtime /\ journal'[t].mutations = NoMutations
          /\ \A k \in Keys : backup[t][k] = None
        BY <1>0, <1>3, <2>1 DEF BegunWith, BackedUpOnce
    <2>4. ASSUME NEW k \in Keys PROVE PlaceAt(t, k)'
        <3>1. journal'[t].mutations[k] = None
            BY <2>3 DEF NoMutations
        <3> QED
            BY <1>1, <2>3, <3>1 DEF PlaceAt, PlaceOf, Twin
    <2>5. CASE pc' = [pc EXCEPT ![p] = "release"]
        <3>1. pc'[p] \notin PlacedSteps
            BY <1>0, <2>5 DEF PlacedSteps, TxSteps, CommitSteps, RollbackSteps
        <3> QED
            BY <1>0, <2>2, <2>4, <2>5, <3>1, NothingPlacedNext, PlacedStep
    <2>6. CASE /\ pc' = [pc EXCEPT ![p] = "advance"]
               /\ job' = [job EXCEPT ![p].tx = t, ![p].status = "prepared"]
        <3>1. pc'[p] = "advance" /\ job'[p].tx = t /\ job'[p].mutations = job[p].mutations
            BY <1>0, <2>6 DEF Jobs
        <3>2. PlacedAt(p)
            BY <1>0 DEF Placed
        <3>3. InMemory(p)' /\ CommitAt(p)' /\ UndoAt(p)'
            BY <1>0, <2>3, <3>1, <3>2 DEF PlacedAt, InMemory, CommitAt, UndoAt
        <3>4. ReviewAt(p)'
            BY <1>0, <1>1, <2>2, <2>3, <3>1, <3>2
               DEF PlacedAt, ReviewAt, Decision, Before, ForwardSteps
        <3> QED
            BY <1>0, <2>2, <2>4, <2>6, <3>3, <3>4, PlacedStep DEF PlacedAt
    <2> QED
        BY <1>3, <2>5, <2>6
<1> QED
    BY <1>2, <1>3, BegunShape

\* A process that plans, waits, or leaves.
LEMMA PlacedOutside ==
    ASSUME Tracked, NEW p \in Procs,
           \/ PlanRequest(p) \/ PlanLoad(p) \/ PlanEvaluate(p) \/ Apply(p)
           \/ AcquireLock(p) \/ AcquireTimeout(p) \/ Release(p) \/ Crash(p) \/ Scan(p)
    PROVE  Placed'
<1> USE DEF Goto, files, ghosts
<1>0. /\ job \in [Procs -> Jobs] /\ pc \in [Procs -> Points] /\ Placed
      /\ plan \in [Procs -> Plans \cup {None}]
    BY DEF Tracked, Faultless, Serial, Typing, TypeOK
<1>1. UNCHANGED <<registry, runtime, journal, backup, edited, origin>>
    BY DEF PlanRequest, PlanLoad, PlanEvaluate, Apply, AcquireLock, AcquireTimeout, Release,
           Crash, Scan
<1>2. \A x \in Procs \ {p} : job'[x] = job[x] /\ plan'[x] = plan[x]
    BY <1>0 DEF PlanRequest, PlanLoad, PlanEvaluate, Apply, AcquireLock, AcquireTimeout,
                Release, Crash, Scan
<1>3. \E point \in {"load", "evaluate", "idle", "acquire", "scan", "recover"} :
         pc' = [pc EXCEPT ![p] = point]
    BY DEF PlanRequest, PlanLoad, PlanEvaluate, Apply, AcquireLock, AcquireTimeout, Release,
           Crash, Scan
<1>4. pc'[p] \notin PlacedSteps /\ \A x \in Procs \ {p} : pc'[x] = pc[x]
    BY <1>0, <1>3 DEF PlacedSteps, TxSteps, CommitSteps, RollbackSteps
<1> QED
    BY <1>0, <1>1, <1>2, <1>4, UnplacedStep

LEMMA NextPlaced ==
    ASSUME MaxFaults = 0, Tracked, [Next]_vars
    PROVE  Placed'
<1>1. CASE UNCHANGED vars \/ \E p \in Procs : ReapStaleLock(p)
    <2>1. UNCHANGED <<registry, runtime, journal, backup, edited, origin, pc, job, plan>>
        BY <1>1 DEF vars, ReapStaleLock, files, ghosts
    <2> QED
        BY <2>1, UnplacedStep DEF Tracked
<1>2. CASE UserEdit
    BY <1>2, PlacedUserEdit DEF Tracked, Faultless, Serial
<1>3. ASSUME NEW p \in Procs,
             \/ PlanRequest(p) \/ PlanLoad(p) \/ PlanEvaluate(p) \/ Apply(p) \/ Step(p)
             \/ Crash(p)
      PROVE  Placed'
    BY <1>1, <1>3, PlacedOutside, PlacedRecover, PlacedRecheck, PlacedBegin, PlacedForward,
       PlacedProject, PlacedRecord, PlacedBackUp, PlacedInstall, PlacedDecided, PlacedUndo,
       PlacedUndoRemove, PlacedUndoRestore DEF Step
<1> QED
    BY <1>1, <1>2, <1>3 DEF Next

LEMMA TrackedAlways ==
    ASSUME MaxExpiries = 0, MaxFaults = 0
    PROVE  Spec => []Tracked
<1>1. Faultless /\ (Typing /\ BackedUpOnce) /\ Placed /\ [Next]_vars => Placed'
    BY NextPlaced DEF Tracked
<1> QED
    BY <1>1, InitPlaced, FaultlessAlways, BackedUpAlways, PTL DEF Spec, Tracked

-----------------------------------------------------------------------------
(* Until a transaction is decided the bytes of its beginning are kept, and  *)
(* a rollback puts them back.                                               *)

\* No mutation in flight puts in place the very bytes it takes away.
ReplacesOtherBytes == \A t \in Incomplete : \A k \in Keys \ edited : ~Twin(t, k)

\* At no point of mutateRuntimeTarget and of rollbackTransaction is the only copy of the
\* bytes a target began with deleted.  Left out are targets in which the bundle's own bytes
\* were found although nobody managed them: when they are still in place, because the
\* process died before the backup or because a rollback just restored them, recovery takes
\* them for what the transaction installed and removes them (v_original_lost).
THEOREM OriginalsAreKept ==
    ASSUME MaxExpiries = 0, MaxFaults = 0
    PROVE  Spec /\ []ReplacesOtherBytes => []OriginalsKept
<1>1. Tracked /\ ReplacesOtherBytes => OriginalsKept
    <2> SUFFICES ASSUME Tracked, ReplacesOtherBytes,
                        NEW t \in Incomplete, NEW k \in Keys \ edited
                 PROVE  origin[t][k] \in {runtime[k], backup[t][k]}
        BY DEF OriginalsKept
    <2>1. PlaceAt(t, k) /\ ~Twin(t, k)
        BY DEF Tracked, Placed, ReplacesOtherBytes
    <2> QED
        BY <2>1 DEF PlaceAt, PlaceOf, Twin
<1> QED
    BY <1>1, TrackedAlways, PTL

\* The step that marks a transaction rolled_back is rollbackTransaction's last.
LEMMA RolledBackBy ==
    ASSUME MaxFaults = 0, Faultless, [Next]_vars, NEW t \in TxIds,
           journal[t].status # "rolled_back", journal'[t].status = "rolled_back"
    PROVE  \E p \in Procs : Decides(p, "rb_journal", "rolled_back") /\ job[p].tx = t
<1>1. StepKind /\ Typing
    BY StepKinds DEF Faultless, Serial
<1>2. ~UNCHANGED journal
    OBVIOUS
<1>3. ASSUME NEW p \in Procs, NEW s \in TxIds, Begun(p, s) PROVE FALSE
    BY <1>1, <1>3 DEF Begun, Typing, TypeOK, Journals
<1>4. ASSUME NEW p \in Procs, NEW status, NEW mutations, pc[p] \in TxSteps,
             journal' = Written(job[p].tx, status, mutations)
      PROVE  job[p].tx = t /\ status = "rolled_back"
    <2>1. job[p].tx \in TxIds
        BY <1>1, <1>4 DEF Typing, InHand
    <2> QED
        BY <1>1, <1>4, <2>1, WrittenKeeps
<1>5. ASSUME NEW p \in Procs PROVE ~Within(p)
    BY <1>2, <1>4 DEF Within
<1>6. ASSUME NEW p \in Procs PROVE ~Decides(p, "commit", "committed")
    BY <1>4 DEF Decides, TxSteps, CommitSteps
<1>7. ASSUME NEW p \in Procs, Decides(p, "rb_journal", "rolled_back") PROVE job[p].tx = t
    BY <1>4, <1>7 DEF Decides, TxSteps, RollbackSteps
<1> QED
    BY <1>1, <1>2, <1>3, <1>5, <1>6, <1>7 DEF StepKind

LEMMA RollbackRestores ==
    ASSUME MaxFaults = 0, Tracked, Receipted, OwnRecovery, ReplacesOtherBytes, [Next]_vars,
           NEW t \in TxIds,
           journal[t].status # "rolled_back", journal'[t].status = "rolled_back"
    PROVE  /\ registry = journal[t].registryBefore
           /\ receipt[journal[t].product] = journal[t].receiptBefore
           /\ \A k \in Keys \ edited : runtime[k] = origin[t][k]
<1>1. PICK p \in Procs : pc[p] = "rb_journal" /\ job[p].tx = t
    BY RolledBackBy DEF Tracked, Decides
<1>2. pc[p] \in TxSteps /\ Faultless
    BY <1>1 DEF TxSteps, RollbackSteps, Tracked
<1>3. registry = Before(p) /\ t \in Incomplete
    BY <1>1, <1>2 DEF Faultless, Undecided, UndecidedAt
<1>4. receipt[ProductOf[p]] = Saved(p) /\ OwnerOf(p) = ProductOf[p]
    BY <1>1, <1>2, OwnTransaction DEF Receipted, ReceiptAt
<1>5. ASSUME NEW k \in Keys \ edited PROVE runtime[k] = origin[t][k]
    <2>1. Back(t, k)
        BY <1>1 DEF Tracked, Placed, PlacedAt, UndoAt
    <2> QED
        BY <1>3, <2>1 DEF Back, ReplacesOtherBytes
<1> QED
    BY <1>1, <1>3, <1>4, <1>5 DEF Before, Saved, OwnerOf

\* A transaction is marked rolled_back only when registry, receipt and the targets no
\* user touched are as they were when it began.  The receipt rollbackTransaction restores
\* is that of the product at work, so the theorem is about recoveries of a process's own
\* product.
THEOREM RollbacksRestore ==
    ASSUME MaxExpiries = 0, MaxFaults = 0
    PROVE  Spec /\ []ReplacesOtherBytes /\ []OwnRecovery => RolledBackRestores
<1> DEFINE Restores ==
        \A t \in TxIds :
          journal[t].status # "rolled_back" /\ journal'[t].status = "rolled_back"
          => /\ registry = journal[t].registryBefore
             /\ receipt[journal[t].product] = journal[t].receiptBefore
             /\ \A k \in Keys \ edited : runtime[k] = origin[t][k]
<1>1. Tracked /\ (Faultless /\ Desired /\ Receipted) /\ OwnRecovery /\ ReplacesOtherBytes
          /\ [Next]_vars => [Restores]_vars
    BY RollbackRestores
<1>2. RolledBackRestores <=> [][Restores]_vars
    BY DEF RolledBackRestores
<1> HIDE DEF Restores
<1> QED
    BY <1>1, <1>2, TrackedAlways, DesiredAlways, PTL DEF Spec

-----------------------------------------------------------------------------
(* The registry a commit publishes, next to the trees it leaves.            *)

ProjectedSteps == {"mutate", "backup", "install", "receipt", "commit"}

\* projectRegistry looked at the trees as they were when the transaction began.
ProjectedAt(p) ==
    pc[p] \in ProjectedSteps =>
        \A k \in Keys \ edited :
            job[p].reg.digest[k] = Project(Before(p), origin[job[p].tx], ProductOf[p],
                                           plan[p].desired).digest[k]

Projections == \A p \in Procs : ProjectedAt(p)

\* A step of p under the lock.
LEMMA ProjectionsStep ==
    ASSUME Serial, NEW p \in Procs, pc[p] \in LockedSteps, NEW point,
           pc' = [pc EXCEPT ![p] = point], point \in ProjectedSteps => ProjectedAt(p)'
    PROVE  Projections'
<1>1. pc'[p] = point /\ \A x \in Procs \ {p} : pc'[x] \notin ProjectedSteps
    BY InsideStep DEF ProjectedSteps, LockedSteps, CommitSteps
<1> QED
    BY <1>1 DEF Projections, ProjectedAt

\* An entry is projected from what is in its own target.
LEMMA ProjectedByTarget ==
    ASSUME NEW reg, NEW tree1, NEW tree2, NEW q, NEW desired, NEW k \in Keys,
           tree1[k] = tree2[k]
    PROVE  Project(reg, tree1, q, desired).digest[k] = Project(reg, tree2, q, desired).digest[k]
BY DEF Project

LEMMA NextProjections ==
    ASSUME MaxFaults = 0, Tracked, Projections, [Next]_vars
    PROVE  Projections'
<1> USE DEF Goto, files, ghosts
<1>0. /\ job \in [Procs -> Jobs] /\ pc \in [Procs -> Points] /\ Serial /\ Faultless
      /\ plan \in [Procs -> Plans \cup {None}] /\ WriteResults = {"ok"}
    BY NoFault DEF Tracked, Faultless, Serial, Typing, TypeOK
<1>1. ASSUME UNCHANGED <<pc, job, journal, origin, plan>>, edited \subseteq edited'
      PROVE  Projections'
    BY <1>1 DEF Projections, ProjectedAt, Before
<1>2. CASE UNCHANGED vars \/ UserEdit \/ \E p \in Procs : ReapStaleLock(p)
    BY <1>1, <1>2 DEF vars, UserEdit, ReapStaleLock
<1>3. ASSUME NEW p \in Procs,
             \/ PlanRequest(p) \/ PlanLoad(p) \/ PlanEvaluate(p) \/ Apply(p)
             \/ AcquireLock(p) \/ AcquireTimeout(p) \/ Release(p) \/ Crash(p) \/ Scan(p)
      PROVE  Projections'
    <2>1. UNCHANGED <<journal, origin, edited>>
        BY <1>3 DEF PlanRequest, PlanLoad, PlanEvaluate, Apply, AcquireLock, AcquireTimeout,
               Release, Crash, Scan
    <2>2. \A x \in Procs \ {p} : job'[x] = job[x] /\ plan'[x] = plan[x]
        BY <1>0, <1>3 DEF PlanRequest, PlanLoad, PlanEvaluate, Apply, AcquireLock,
                          AcquireTimeout, Release, Crash, Scan
    <2>3. \E point \in {"load", "evaluate", "idle", "acquire", "scan", "recover"} :
             pc' = [pc EXCEPT ![p] = point]
        BY <1>3 DEF PlanRequest, PlanLoad, PlanEvaluate, Apply, AcquireLock, AcquireTimeout,
               Release, Crash, Scan
    <2>4. pc'[p] \notin ProjectedSteps /\ \A x \in Procs \ {p} : pc'[x] = pc[x]
        BY <1>0, <2>3 DEF ProjectedSteps
    <2> QED
        BY <2>1, <2>2, <2>4 DEF Projections, ProjectedAt, Before
<1>4. ASSUME NEW p \in Procs,
             \/ Recover(p) \/ Recheck(p) \/ Begin(p) \/ Advance(p) \/ Stage(p)
             \/ CommitJournal(p) \/ Abort(p) \/ StartRollback(p) \/ UndoInspect(p)
             \/ UndoRemove(p) \/ UndoRestore(p) \/ RestoreRegistry(p) \/ RestoreReceipt(p)
             \/ FinishRollback(p)
      PROVE  Projections'
    <2>1. pc[p] \in LockedSteps
        BY <1>4 DEF Recover, Recheck, Begin, Advance, Stage, CommitJournal, Abort,
           StartRollback, UndoInspect, UndoRemove, UndoRestore, RestoreRegistry,
           RestoreReceipt, FinishRollback, LockedSteps, CommitSteps, RollbackSteps
    <2>2. CASE Recover(p) \/ Recheck(p) \/ Advance(p) \/ Stage(p) \/ CommitJournal(p) \/ Abort(p)
        <3>1. \E point \in {"recheck", "rollback", "release", "begin", "stage", "project",
                            "abort"} : pc' = [pc EXCEPT ![p] = point]
            BY <2>2 DEF Recover, Recheck, Advance, Stage, CommitJournal, Abort, Return
        <3> QED
            BY <1>0, <2>1, <3>1, ProjectionsStep DEF ProjectedSteps
    <2>3. CASE Begin(p)
        <3>1. \E point \in {"release", "advance"} : pc' = [pc EXCEPT ![p] = point]
            BY <2>3, BegunShape
        <3> QED
            BY <1>0, <2>1, <3>1, ProjectionsStep DEF ProjectedSteps
    <2>4. CASE \/ StartRollback(p) \/ UndoInspect(p) \/ UndoRemove(p) \/ UndoRestore(p)
               \/ RestoreRegistry(p) \/ RestoreReceipt(p) \/ FinishRollback(p)
        <3>1. \E point \in {"undo", "release", "remove", "restore", "rb_receipt", "rb_journal",
                            "recover"} : pc' = [pc EXCEPT ![p] = point]
            BY <2>4 DEF StartRollback, UndoInspect, UndoRemove, UndoRestore, RestoreRegistry,
               RestoreReceipt, FinishRollback, RollbackFails, Return
        <3> QED
            BY <1>0, <2>1, <3>1, ProjectionsStep DEF ProjectedSteps
    <2> QED
        BY <1>4, <2>2, <2>3, <2>4
<1>5. ASSUME NEW p \in Procs, ProjectRegistry(p) PROVE Projections'
    <2>1. /\ pc[p] = "project" /\ pc[p] \in LockedSteps /\ pc[p] \in TxSteps
          /\ UNCHANGED <<journal, runtime, edited, origin, plan>>
        BY <1>5 DEF ProjectRegistry, LockedSteps, CommitSteps, TxSteps
    <2>2. CASE pc' = [pc EXCEPT ![p] = "abort"]
        BY <1>0, <2>1, <2>2, ProjectionsStep DEF ProjectedSteps
    <2>3. CASE /\ pc' = [pc EXCEPT ![p] = "mutate"]
               /\ job' = [job EXCEPT
                     ![p].reg = Project(@, runtime, ProductOf[p], plan[p].desired),
                     ![p].pending = {k \in Keys : Mutates(plan[p].decisions[k])}]
        <3>1. /\ job'[p].tx = job[p].tx
              /\ job'[p].reg = Project(job[p].reg, runtime, ProductOf[p], plan[p].desired)
            BY <1>0, <2>3 DEF Jobs
        <3>2. job[p].reg = Before(p)
            BY <1>0, <2>1 DEF Faultless, UnderLock, RegistryAt
        <3>3. ASSUME NEW k \in Keys \ edited PROVE runtime[k] = origin[job[p].tx][k]
            <4>1. PlaceAt(job[p].tx, k)
                BY <1>0, <2>1, UnfinishedOne DEF Tracked, Placed
            <4>2. journal[job[p].tx].mutations[k] = None
                BY <2>1 DEF Tracked, Placed, PlacedAt, InMemory, NoMutations
            <4> QED
                BY <4>1, <4>2 DEF PlaceAt, PlaceOf
        <3>4. \A k \in Keys \ edited :
                  job'[p].reg.digest[k] = Project(Before(p), origin[job[p].tx], ProductOf[p],
                                                  plan[p].desired).digest[k]
            BY <3>1, <3>2, <3>3, ProjectedByTarget
        <3>5. ProjectedAt(p)'
            BY <2>1, <3>1, <3>4 DEF ProjectedAt, Before
        <3> QED
            BY <1>0, <2>1, <2>3, <3>5, ProjectionsStep
    <2> QED
        BY <1>5, <2>2, <2>3 DEF ProjectRegistry
<1>6. ASSUME NEW p \in Procs,
             \/ RecordMutation(p) \/ BackUp(p) \/ InstallTarget(p) \/ PublishRegistry(p)
             \/ PublishReceipt(p)
      PROVE  Projections'
    <2>1. /\ pc[p] \in LockedSteps /\ pc[p] \in ProjectedSteps
          /\ UNCHANGED <<edited, origin, plan>>
        BY <1>6 DEF RecordMutation, BackUp, InstallTarget, PublishRegistry, PublishReceipt,
           LockedSteps, CommitSteps, ProjectedSteps
    <2>2. job'[p].tx = job[p].tx /\ job'[p].reg = job[p].reg
        BY <1>0, <1>6 DEF RecordMutation, BackUp, InstallTarget, PublishRegistry,
           PublishReceipt, NextTarget, Jobs
    <2>3. \E point : pc' = [pc EXCEPT ![p] = point]
        BY <1>6 DEF RecordMutation, BackUp, InstallTarget, PublishRegistry, PublishReceipt
    <2>4. Before(p)' = Before(p)
        BY <1>0, <1>6, <2>2, WithinSteps, InsideTracked
    <2>5. ProjectedAt(p)'
        BY <2>1, <2>2, <2>4 DEF Projections, ProjectedAt
    <2> QED
        BY <1>0, <2>1, <2>3, <2>5, ProjectionsStep
<1> QED
    BY <1>2, <1>3, <1>4, <1>5, <1>6 DEF Next, Step

LEMMA InitProjections == Init => Projections
BY DEF Init, Projections, ProjectedAt, ProjectedSteps

LEMMA ProjectionsAlways ==
    ASSUME MaxExpiries = 0, MaxFaults = 0
    PROVE  Spec => [](Tracked /\ Projections)
<1>1. Tracked /\ Projections /\ [Next]_vars => Projections'
    BY NextProjections
<1> QED
    BY <1>1, InitProjections, TrackedAlways, PTL DEF Spec

\* What a target holds when the journal is about to say "committed".
LEMMA CommitLeaves ==
    ASSUME Tracked, Projections, NEW p \in Procs, pc[p] = "commit"
    PROVE  /\ \E tree \in [Keys -> Contents] :
                 registry = Project(Before(p), tree, ProductOf[p], plan[p].desired)
           /\ ~ProjectionConflict(Before(p), ProductOf[p], plan[p].desired)
           /\ \A k \in Keys \ edited :
                 /\ registry.digest[k] = Project(Before(p), origin[job[p].tx], ProductOf[p],
                                                 plan[p].desired).digest[k]
                 /\ Decision(p, Before(p), origin[job[p].tx], k).branch # "digest_conflict"
                 /\ runtime[k] = IF Mutates(Decision(p, Before(p), origin[job[p].tx], k))
                                 THEN plan[p].desired.digest[k] ELSE origin[job[p].tx][k]
<1>1. pc[p] \in TxSteps /\ pc[p] \in ForwardSteps /\ Faultless /\ PlacedAt(p)
    BY DEF TxSteps, CommitSteps, ForwardSteps, Tracked, Placed
<1>2. registry = job[p].reg /\ Projected(p)
    BY DEF Tracked, Faultless, UnderLock, RegistryAt
<1>3. Incomplete = {job[p].tx} /\ job[p].mutations = journal[job[p].tx].mutations
    BY <1>1, UnfinishedOne DEF PlacedAt, InMemory
<1>4. ASSUME NEW k \in Keys \ edited
      PROVE  /\ Decision(p, Before(p), origin[job[p].tx], k).branch # "digest_conflict"
             /\ runtime[k] = IF Mutates(Decision(p, Before(p), origin[job[p].tx], k))
                             THEN plan[p].desired.digest[k] ELSE origin[job[p].tx][k]
    <2>1. /\ plan[p].decisions[k] = Decision(p, Before(p), origin[job[p].tx], k)
          /\ plan[p].decisions[k].branch # "digest_conflict"
        BY <1>1 DEF PlacedAt, ReviewAt
    <2>2. CommitKey(p, k) /\ job[p].pending = {} /\ PlaceAt(job[p].tx, k)
        BY <1>1, <1>3 DEF PlacedAt, CommitAt, Tracked, Placed
    <2> QED
        BY <1>3, <2>1, <2>2 DEF CommitKey, PlaceAt, PlaceOf
<1>5. \A k \in Keys \ edited :
         registry.digest[k] = Project(Before(p), origin[job[p].tx], ProductOf[p],
                                      plan[p].desired).digest[k]
    BY <1>2 DEF Projections, ProjectedAt, ProjectedSteps
<1> QED
    BY <1>2, <1>4, <1>5 DEF Projected

\* What a step of the system is to registry and trees together: of no account, the
\* beginning of a transaction, its commit, or the end of its rollback.
LEMMA TreeSteps ==
    ASSUME MaxFaults = 0, Tracked, [Next]_vars
    PROVE  /\ edited \subseteq edited'
           /\ \/ /\ Incomplete' = Incomplete
                 /\ \A t \in Incomplete :
                       /\ origin'[t] = origin[t]
                       /\ journal'[t].registryBefore = journal[t].registryBefore
                 /\ Incomplete = {} =>
                       /\ registry' = registry
                       /\ \A k \in Keys \ edited' : runtime'[k] = runtime[k]
              \/ \E t \in TxIds :
                       /\ Incomplete = {} /\ Incomplete' = {t}
                       /\ journal'[t].registryBefore = registry /\ origin'[t] = runtime
                       /\ UNCHANGED <<registry, runtime>>
              \/ \E p \in Procs :
                       /\ job[p].tx \in Incomplete /\ Incomplete' = {}
                       /\ UNCHANGED <<registry, runtime, edited>>
                       /\ \/ pc[p] = "commit" /\ pc'[p] = "release"
                          \/ /\ pc[p] = "rb_journal" /\ registry = Before(p)
                             /\ \A k \in Keys \ edited : Back(job[p].tx, k)
<1> USE DEF Goto, files, ghosts
<1>0. /\ pc \in [Procs -> Points] /\ WriteResults = {"ok"} /\ Faultless /\ Serial
      /\ origin \in [TxIds -> [Keys -> Contents]] /\ runtime \in [Keys -> Contents]
    BY NoFault DEF Tracked, Faultless, Serial, Typing, TypeOK
<1> DEFINE Same ==
        /\ Incomplete' = Incomplete
        /\ \A t \in Incomplete :
              /\ origin'[t] = origin[t]
              /\ journal'[t].registryBefore = journal[t].registryBefore
        /\ Incomplete = {} =>
              /\ registry' = registry
              /\ \A k \in Keys \ edited' : runtime'[k] = runtime[k]
           Begins == \E t \in TxIds :
              /\ Incomplete = {} /\ Incomplete' = {t}
              /\ journal'[t].registryBefore = registry /\ origin'[t] = runtime
              /\ UNCHANGED <<registry, runtime>>
           Ends == \E p \in Procs :
              /\ job[p].tx \in Incomplete /\ Incomplete' = {}
              /\ UNCHANGED <<registry, runtime, edited>>
              /\ \/ pc[p] = "commit" /\ pc'[p] = "release"
                 \/ /\ pc[p] = "rb_journal" /\ registry = Before(p)
                    /\ \A k \in Keys \ edited : Back(job[p].tx, k)
<1>1. ASSUME UNCHANGED <<registry, journal, origin, edited, runtime>>
      PROVE  edited \subseteq edited' /\ Same
    BY <1>1, SameIncomplete
<1>2. ASSUME UNCHANGED vars \/ \E p \in Procs : ReapStaleLock(p)
      PROVE  edited \subseteq edited' /\ Same
    BY <1>1, <1>2 DEF vars, ReapStaleLock
<1>3. ASSUME UserEdit PROVE edited \subseteq edited' /\ Same
    <2>1. /\ UNCHANGED <<registry, journal, origin>> /\ edited \subseteq edited'
          /\ \A k \in Keys \ edited' : runtime'[k] = runtime[k]
        BY <1>0, <1>3 DEF UserEdit
    <2> QED
        BY <2>1, SameIncomplete
<1>4. ASSUME NEW p \in Procs,
             \/ PlanRequest(p) \/ PlanLoad(p) \/ PlanEvaluate(p) \/ Apply(p)
             \/ AcquireLock(p) \/ AcquireTimeout(p) \/ Release(p) \/ Crash(p) \/ Scan(p)
             \/ Recover(p) \/ Recheck(p)
      PROVE  UNCHANGED <<registry, journal, origin, edited, runtime>>
    BY <1>4 DEF PlanRequest, PlanLoad, PlanEvaluate, Apply, AcquireLock, AcquireTimeout,
       Release, Crash, Scan, Recover, Recheck
<1>5. ASSUME NEW p \in Procs, Begin(p) PROVE edited \subseteq edited' /\ (Same \/ Begins)
    <2>1. UNCHANGED <<registry, receipt, edited, runtime>> /\ pc[p] = "begin"
        BY <1>5 DEF Begin
    <2>2. CASE UNCHANGED <<journal, origin>>
        BY <1>1, <2>1, <2>2
    <2>3. ASSUME NEW t \in FreshTx, BegunWith(p, t), origin' = [origin EXCEPT ![t] = runtime]
          PROVE  Begins
        <3>1. t \in TxIds /\ Begun(p, t)
            BY <2>1, <2>3 DEF FreshTx, Begun, BegunWith
        <3> QED
            BY <1>0, <2>1, <2>3, <3>1, BegunJournal
    <2> HIDE DEF Begins, Same
    <2> QED
        BY <1>5, <2>1, <2>2, <2>3, <1>1, BegunShape
<1>6. ASSUME NEW p \in Procs,
             \/ Advance(p) \/ Stage(p) \/ ProjectRegistry(p) \/ RecordMutation(p)
             \/ BackUp(p) \/ InstallTarget(p) \/ PublishRegistry(p) \/ PublishReceipt(p)
             \/ Abort(p) \/ StartRollback(p) \/ UndoInspect(p) \/ UndoRemove(p)
             \/ UndoRestore(p) \/ RestoreRegistry(p) \/ RestoreReceipt(p)
      PROVE  edited \subseteq edited' /\ Same
    <2>1. UNCHANGED <<edited, origin>>
        BY <1>6 DEF Advance, Stage, ProjectRegistry, RecordMutation, BackUp, InstallTarget,
           PublishRegistry, PublishReceipt, Abort, StartRollback, UndoInspect, UndoRemove,
           UndoRestore, RestoreRegistry, RestoreReceipt
    <2>2. Within(p)
        BY <1>0, <1>6, WithinSteps
    <2> QED
        BY <1>0, <2>1, <2>2, WithinJournal
<1>7. ASSUME NEW p \in Procs, CommitJournal(p) PROVE Ends /\ UNCHANGED edited
    <2>1. /\ Decides(p, "commit", "committed") /\ pc'[p] = "release" /\ pc[p] = "commit"
          /\ UNCHANGED <<registry, runtime, edited>> /\ pc[p] \in TxSteps
        BY <1>0, <1>7 DEF CommitJournal, Decides, Landed, TxSteps, CommitSteps
    <2> QED
        BY <1>0, <2>1, DecidesJournal
<1>8. ASSUME NEW p \in Procs, FinishRollback(p) PROVE Ends /\ UNCHANGED edited
    <2>1. /\ Decides(p, "rb_journal", "rolled_back") /\ pc[p] = "rb_journal"
          /\ UNCHANGED <<registry, runtime, edited>> /\ pc[p] \in TxSteps
        BY <1>0, <1>8 DEF FinishRollback, Decides, Landed, TxSteps, RollbackSteps
    <2>2. registry = Before(p)
        BY <1>0, <2>1 DEF Faultless, Undecided, UndecidedAt
    <2>3. \A k \in Keys \ edited : Back(job[p].tx, k)
        BY <2>1 DEF Tracked, Placed, PlacedAt, UndoAt
    <2> QED
        BY <1>0, <2>1, <2>2, <2>3, DecidesJournal
<1>9. edited \subseteq edited' /\ (Same \/ Begins \/ Ends)
    <2> HIDE DEF Same, Begins, Ends
    <2> QED
        BY <1>1, <1>2, <1>3, <1>4, <1>5, <1>6, <1>7, <1>8 DEF Next, Step
<1> QED
    BY <1>9

-----------------------------------------------------------------------------
(* What the registry says of the trees whenever nothing is in flight.       *)

Claimed(reg, k) == \E q \in Products : reg.claims[k][q] # None

\* A claim is on an entry, which names a digest.
Entries(reg) == \A k \in Keys : Claimed(reg, k) => reg.digest[k] # None

\* A claimed target holds the bytes its entry names.
Matched(reg, tree) ==
    \A k \in Keys \ edited : Claimed(reg, k) => tree[k] = reg.digest[k]

\* The bytes of a bundle are found in claimed targets only, those their entry names.
Managed(reg, tree) ==
    \A k \in Keys \ edited :
        \/ tree[k] \in {None, UserBytes}
        \/ tree[k] = reg.digest[k] /\ Claimed(reg, k)

\* The claims and the entry a projection leaves.
LEMMA ProjectedKey ==
    ASSUME NEW reg \in Registries, NEW tree, NEW q \in Products,
           NEW desired \in Snapshots, NEW k \in Keys
    PROVE  LET reg1 == Project(reg, tree, q, desired)
               wanted == desired.digest[k]
           IN  /\ Claimed(reg1, k) <=> wanted # None \/ Shared(reg, k, q)
               /\ Shared(reg, k, q) => Claimed(reg, k)
               /\ Claimed(reg, k) <=> Shared(reg, k, q) \/ reg.claims[k][q] # None
               /\ reg1.digest[k] =
                     IF wanted # None THEN wanted
                     ELSE IF Shared(reg, k, q) \/ tree[k] \notin {None, reg.digest[k]}
                     THEN reg.digest[k] ELSE None
<1> DEFINE reg1 == Project(reg, tree, q, desired)
           wanted == desired.digest[k]
<1>1. reg1.claims[k] = [reg.claims[k] EXCEPT ![q] = IF wanted # None THEN desired.version
                                                   ELSE None]
    BY DEF Project
<1>2. reg.claims[k] \in [Products -> Versions \cup {None}] /\ desired.version # None
    BY NoneAssumption DEF Registries, Snapshots
<1>3. /\ reg1.claims[k][q] # None <=> wanted # None
      /\ \A r \in Products \ {q} : reg1.claims[k][r] = reg.claims[k][r]
    BY <1>1, <1>2
<1>4. reg1.digest[k] =
          IF wanted # None THEN wanted
          ELSE IF Shared(reg, k, q) \/ tree[k] \notin {None, reg.digest[k]}
          THEN reg.digest[k] ELSE None
    BY DEF Project
<1> HIDE DEF reg1
<1>5. Claimed(reg1, k) <=> wanted # None \/ Shared(reg, k, q)
    BY <1>3 DEF Claimed, Shared
<1>6. /\ Shared(reg, k, q) => Claimed(reg, k)
      /\ Claimed(reg, k) <=> Shared(reg, k, q) \/ reg.claims[k][q] # None
    BY DEF Claimed, Shared
<1> QED
    BY <1>4, <1>5, <1>6 DEF reg1

\* The branches that leave a target alone.
LEMMA LeftAlone ==
    ASSUME NEW reg \in Registries, NEW tree, NEW op, NEW q \in Products,
           NEW desired \in Snapshots, NEW k \in Keys,
           ~Mutates(Evaluate(reg, tree, op, q, desired)[k]),
           Evaluate(reg, tree, op, q, desired)[k].branch # "digest_conflict"
    PROVE  /\ desired.digest[k] # None /\ reg.digest[k] = None => op = "adopt"
           /\ desired.digest[k] # None /\ reg.digest[k] # None
                 => reg.digest[k] = desired.digest[k] /\ tree[k] = reg.digest[k]
           /\ desired.digest[k] = None =>
                 \/ reg.claims[k][q] = None
                 \/ Shared(reg, k, q)
                 \/ tree[k] \notin {None, reg.digest[k]}
<1> DEFINE wanted == desired.digest[k]
           existing == reg.digest[k]
           branch == Evaluate(reg, tree, op, q, desired)[k].branch
<1>1. branch = IF wanted # None THEN DesiredBranch(reg, tree, op, q, desired, k)
                                ELSE ReleasedBranch(reg, tree, q, k)
    BY DEF Evaluate
<1>2. branch \notin {"unmanaged", "restore_new", "drift_new", "upgrade", "missing", "drift",
                     "install", "remove", "digest_conflict"}
    BY DEF Mutates, ReplaceBranches
<1> HIDE DEF branch
<1>3. ASSUME wanted # None, existing = None PROVE op = "adopt"
    BY <1>1, <1>2, <1>3 DEF DesiredBranch
<1>4. ASSUME wanted # None, existing # None PROVE existing = wanted /\ tree[k] = existing
    BY <1>1, <1>2, <1>4 DEF DesiredBranch
<1>5. ASSUME wanted = None
      PROVE  \/ reg.claims[k][q] = None \/ Shared(reg, k, q)
             \/ tree[k] \notin {None, reg.digest[k]}
    BY <1>1, <1>2, <1>5 DEF ReleasedBranch
<1> QED
    BY <1>3, <1>4, <1>5

\* The branches that change a target: not one another product claims and nobody changed.
LEMMA ChangedForReason ==
    ASSUME NEW reg \in Registries, NEW tree, NEW op, NEW q \in Products,
           NEW desired \in Snapshots, NEW k \in Keys,
           Mutates(Evaluate(reg, tree, op, q, desired)[k]),
           Shared(reg, k, q), reg.digest[k] # None
    PROVE  /\ desired.digest[k] = reg.digest[k]
           /\ tree[k] # reg.digest[k]
<1> DEFINE wanted == desired.digest[k]
           existing == reg.digest[k]
           branch == Evaluate(reg, tree, op, q, desired)[k].branch
<1>1. branch = IF wanted # None THEN DesiredBranch(reg, tree, op, q, desired, k)
                                ELSE ReleasedBranch(reg, tree, q, k)
    BY DEF Evaluate
<1>2. branch \in {"unmanaged", "restore_new", "drift_new", "upgrade", "missing", "drift",
                  "install", "remove"}
    BY DEF Mutates, ReplaceBranches
<1> HIDE DEF branch
<1>3. wanted # None
    <2>1. wanted = None => branch \in {"none", "release"}
        BY <1>1 DEF ReleasedBranch
    <2> QED
        BY <1>2, <2>1
<1>4. wanted = existing
    <2>1. wanted # existing => branch = "digest_conflict"
        BY <1>1, <1>3 DEF DesiredBranch
    <2> QED
        BY <1>2, <2>1
<1>5. tree[k] # existing
    <2>1. tree[k] = existing => branch \in {"none", "share", "claim"}
        BY <1>1, <1>3, <1>4 DEF DesiredBranch
    <2> QED
        BY <1>2, <2>1
<1> QED
    BY <1>4, <1>5

\* A claimed target, once the plan is carried out.
LEMMA MatchedKey ==
    ASSUME NEW reg \in Registries, NEW tree, NEW op, NEW q \in Products,
           NEW desired \in Snapshots, NEW k \in Keys, NEW r, NEW digest1,
           Evaluate(reg, tree, op, q, desired)[k].branch # "digest_conflict",
           r = IF Mutates(Evaluate(reg, tree, op, q, desired)[k]) THEN desired.digest[k]
               ELSE tree[k],
           digest1 = Project(reg, tree, q, desired).digest[k],
           Claimed(reg, k) => reg.digest[k] # None /\ tree[k] = reg.digest[k],
           op = "adopt" => desired.digest[k] \in {None, r},
           desired.digest[k] # None \/ Shared(reg, k, q)
    PROVE  r = digest1
<1>1. /\ Shared(reg, k, q) => Claimed(reg, k)
      /\ digest1 = IF desired.digest[k] # None THEN desired.digest[k]
                   ELSE IF Shared(reg, k, q) \/ tree[k] \notin {None, reg.digest[k]}
                   THEN reg.digest[k] ELSE None
    BY ProjectedKey
<1>2. CASE Mutates(Evaluate(reg, tree, op, q, desired)[k])
    <2>1. CASE desired.digest[k] # None
        BY <1>1, <1>2, <2>1
    <2>2. CASE desired.digest[k] = None
        BY <1>1, <1>2, <2>2, ChangedForReason
    <2> QED
        BY <2>1, <2>2
<1>3. CASE ~Mutates(Evaluate(reg, tree, op, q, desired)[k])
    <2>1. CASE desired.digest[k] # None
        BY <1>1, <1>3, <2>1, LeftAlone
    <2>2. CASE desired.digest[k] = None
        BY <1>1, <1>3, <2>2
    <2> QED
        BY <2>1, <2>2
<1> QED
    BY <1>2, <1>3

LEMMA ManagedKey ==
    ASSUME NEW reg \in Registries, NEW tree, NEW op, NEW q \in Products,
           NEW desired \in Snapshots, NEW k \in Keys, NEW r, NEW digest1,
           Evaluate(reg, tree, op, q, desired)[k].branch # "digest_conflict",
           r = IF Mutates(Evaluate(reg, tree, op, q, desired)[k]) THEN desired.digest[k]
               ELSE tree[k],
           digest1 = Project(reg, tree, q, desired).digest[k],
           \/ tree[k] \in {None, UserBytes}
           \/ tree[k] = reg.digest[k] /\ Claimed(reg, k)
    PROVE  \/ r \in {None, UserBytes}
           \/ r = digest1 /\ (desired.digest[k] # None \/ Shared(reg, k, q))
<1>1. /\ Claimed(reg, k) <=> Shared(reg, k, q) \/ reg.claims[k][q] # None
      /\ digest1 = IF desired.digest[k] # None THEN desired.digest[k]
                   ELSE IF Shared(reg, k, q) \/ tree[k] \notin {None, reg.digest[k]}
                   THEN reg.digest[k] ELSE None
    BY ProjectedKey
<1>2. CASE Mutates(Evaluate(reg, tree, op, q, desired)[k])
    BY <1>1, <1>2
<1>3. CASE ~Mutates(Evaluate(reg, tree, op, q, desired)[k])
    <2>1. r = tree[k]
        BY <1>3
    <2>2. CASE tree[k] \in {None, UserBytes}
        BY <2>1, <2>2
    <2>3. CASE tree[k] \notin {None, UserBytes} /\ desired.digest[k] # None
        BY <1>1, <1>3, <2>1, <2>3, LeftAlone
    <2>4. CASE tree[k] \notin {None, UserBytes} /\ desired.digest[k] = None
        BY <1>1, <1>3, <2>1, <2>4, LeftAlone
    <2> QED
        BY <2>2, <2>3, <2>4
<1> QED
    BY <1>2, <1>3

\* The process that commits, and what it commits.
LEMMA Committing ==
    ASSUME Tracked, NEW p \in Procs, pc[p] = "commit" \/ pc[p] = "rb_journal"
    PROVE  /\ Incomplete = {job[p].tx} /\ job[p].tx \in TxIds
           /\ Before(p) \in Registries /\ ProductOf[p] \in Products
           /\ plan[p].desired \in Snapshots
           /\ \A k \in Keys : journal[job[p].tx].mutations[k] \in Mutations \cup {None}
<1>1. Typing /\ pc[p] \in TxSteps
    BY DEF Tracked, Faultless, Serial, TxSteps, CommitSteps, RollbackSteps
<1>2. Incomplete = {job[p].tx} /\ job[p].tx \in TxIds
    BY <1>1, UnfinishedOne DEF Tracked
<1>3. Before(p) \in Registries /\ plan[p].desired \in Snapshots
    BY <1>1, InTransaction DEF Typing, Before
<1>4. \A k \in Keys : journal[job[p].tx].mutations[k] \in Mutations \cup {None}
    BY <1>1, <1>2 DEF Typing, TypeOK, Journals
<1> QED
    BY <1>2, <1>3, <1>4, ProductOfAssumption

\* The trees a transaction began with are those its process found.
EntriesInv ==
    /\ Incomplete = {} => Entries(registry)
    /\ \A t \in Incomplete : Entries(journal[t].registryBefore)

LEMMA NextEntries ==
    ASSUME MaxFaults = 0, Tracked, Projections, EntriesInv, [Next]_vars
    PROVE  EntriesInv'
<1>1. ASSUME NEW p \in Procs, pc[p] = "commit", job[p].tx \in Incomplete
      PROVE  Entries(registry)
    <2>1. PICK tree \in [Keys -> Contents] :
              registry = Project(Before(p), tree, ProductOf[p], plan[p].desired)
        BY <1>1, CommitLeaves
    <2>2. /\ Before(p) \in Registries /\ ProductOf[p] \in Products
          /\ plan[p].desired \in Snapshots
        BY <1>1, Committing
    <2>3. Entries(Before(p))
        BY <1>1 DEF EntriesInv, Before
    <2>4. ASSUME NEW k \in Keys, Claimed(registry, k) PROVE registry.digest[k] # None
        BY <2>1, <2>2, <2>3, <2>4, ProjectedKey DEF Entries
    <2> QED
        BY <2>4 DEF Entries
<1>2. ASSUME NEW p \in Procs, job[p].tx \in Incomplete, registry = Before(p)
      PROVE  Entries(registry)
    BY <1>2 DEF EntriesInv, Before
<1> HIDE DEF Entries
<1> QED
    BY <1>1, <1>2, TreeSteps DEF EntriesInv

LEMMA InitEntries == Init => EntriesInv
BY DEF Init, EntriesInv, Entries, Claimed, EmptyRegistry, Incomplete, NoJournal

MatchInv ==
    /\ Incomplete = {} => Matched(registry, runtime)
    /\ \A t \in Incomplete : Matched(journal[t].registryBefore, origin[t])

\* Adoption, which writes nothing, claims the bytes that are there.
AdoptsMatching ==
    \A p \in Procs :
        /\ pc[p] = "commit" /\ pc'[p] = "release"
        /\ plan[p].op = "adopt"
        => \A k \in Keys \ edited :
              plan[p].desired.digest[k] \in {None, runtime[k]}

LEMMA CommitMatches ==
    ASSUME Tracked, Projections, EntriesInv, MatchInv, NEW p \in Procs, pc[p] = "commit",
           plan[p].op = "adopt" => \A k \in Keys \ edited :
               plan[p].desired.digest[k] \in {None, runtime[k]}
    PROVE  Matched(registry, runtime)
<1>1. PICK tree \in [Keys -> Contents] :
          registry = Project(Before(p), tree, ProductOf[p], plan[p].desired)
    BY CommitLeaves
<1>2. /\ Before(p) \in Registries /\ ProductOf[p] \in Products
      /\ plan[p].desired \in Snapshots /\ Incomplete = {job[p].tx}
    BY Committing
<1>3. Entries(Before(p)) /\ Matched(Before(p), origin[job[p].tx])
    BY <1>2 DEF EntriesInv, MatchInv, Before
<1>4. ASSUME NEW k \in Keys \ edited, Claimed(registry, k)
      PROVE  runtime[k] = registry.digest[k]
    <2>1. plan[p].desired.digest[k] # None \/ Shared(Before(p), k, ProductOf[p])
        BY <1>1, <1>2, <1>4, ProjectedKey
    <2>2. /\ registry.digest[k] = Project(Before(p), origin[job[p].tx], ProductOf[p],
                                          plan[p].desired).digest[k]
          /\ Decision(p, Before(p), origin[job[p].tx], k).branch # "digest_conflict"
          /\ runtime[k] = IF Mutates(Decision(p, Before(p), origin[job[p].tx], k))
                          THEN plan[p].desired.digest[k] ELSE origin[job[p].tx][k]
        BY CommitLeaves
    <2>3. Claimed(Before(p), k)
              => Before(p).digest[k] # None /\ origin[job[p].tx][k] = Before(p).digest[k]
        BY <1>3 DEF Entries, Matched
    <2>4. plan[p].op = "adopt" => plan[p].desired.digest[k] \in {None, runtime[k]}
        OBVIOUS
    <2> QED
        BY <1>2, <2>1, <2>2, <2>3, <2>4, MatchedKey DEF Decision
<1> QED
    BY <1>4 DEF Matched

LEMMA RollbackMatches ==
    ASSUME Tracked, MatchInv, NEW p \in Procs, pc[p] = "rb_journal", registry = Before(p),
           \A k \in Keys \ edited : Back(job[p].tx, k)
    PROVE  Matched(registry, runtime)
<1>1. Incomplete = {job[p].tx}
    BY Committing
<1>2. Matched(Before(p), origin[job[p].tx])
    BY <1>1 DEF MatchInv, Before
<1>3. ASSUME NEW k \in Keys \ edited, Claimed(registry, k)
      PROVE  runtime[k] = registry.digest[k]
    <2>1. PlaceAt(job[p].tx, k) /\ Back(job[p].tx, k)
        BY <1>1 DEF Tracked, Placed
    <2>2. origin[job[p].tx][k] = Before(p).digest[k]
        BY <1>2, <1>3 DEF Matched
    <2> QED
        BY <2>1, <2>2 DEF PlaceAt, Back, Before
<1> QED
    BY <1>3 DEF Matched

LEMMA NextMatch ==
    ASSUME MaxFaults = 0, Tracked, Projections, EntriesInv, MatchInv, [Next]_vars,
           [AdoptsMatching]_vars
    PROVE  MatchInv'
<1>1. ASSUME NEW p \in Procs, pc[p] = "commit", pc'[p] = "release"
      PROVE  Matched(registry, runtime)
    <2>1. AdoptsMatching
        BY <1>1 DEF vars
    <2> QED
        BY <1>1, <2>1, CommitMatches DEF AdoptsMatching
<1>2. ASSUME NEW reg, NEW tree, Matched(reg, tree), edited \subseteq edited',
             NEW tree1, \A k \in Keys \ edited' : tree1[k] = tree[k]
      PROVE  \A k \in Keys \ edited' : Claimed(reg, k) => tree1[k] = reg.digest[k]
    BY <1>2 DEF Matched
<1>3. edited \subseteq edited'
    BY TreeSteps
<1>4. ASSUME /\ Incomplete' = Incomplete
             /\ \A t \in Incomplete :
                   /\ origin'[t] = origin[t]
                   /\ journal'[t].registryBefore = journal[t].registryBefore
             /\ Incomplete = {} =>
                   /\ registry' = registry
                   /\ \A k \in Keys \ edited' : runtime'[k] = runtime[k]
      PROVE  MatchInv'
    BY <1>2, <1>3, <1>4 DEF MatchInv, Matched, Claimed
<1>5. ASSUME NEW t \in TxIds, Incomplete = {}, Incomplete' = {t},
             journal'[t].registryBefore = registry, origin'[t] = runtime
      PROVE  MatchInv'
    BY <1>3, <1>5 DEF MatchInv, Matched, Claimed
<1>6. ASSUME Matched(registry, runtime), Incomplete' = {}, UNCHANGED <<registry, runtime>>
      PROVE  MatchInv'
    BY <1>3, <1>6 DEF MatchInv, Matched, Claimed
<1> QED
    BY <1>1, <1>4, <1>5, <1>6, TreeSteps, RollbackMatches

LEMMA InitMatch == Init => MatchInv
BY DEF Init, MatchInv, Matched, Claimed, EmptyRegistry, Incomplete, NoJournal

LEMMA EntriesAlways ==
    ASSUME MaxExpiries = 0, MaxFaults = 0
    PROVE  Spec => [](Tracked /\ Projections /\ EntriesInv)
<1>1. (Tracked /\ Projections) /\ EntriesInv /\ [Next]_vars => EntriesInv'
    BY NextEntries
<1> QED
    BY <1>1, InitEntries, ProjectionsAlways, PTL DEF Spec

LEMMA MatchAlways ==
    ASSUME MaxExpiries = 0, MaxFaults = 0
    PROVE  Spec /\ AdoptedBytesMatch => []MatchInv
<1>1. (Tracked /\ Projections /\ EntriesInv) /\ MatchInv /\ [Next]_vars /\ [AdoptsMatching]_vars
          => MatchInv'
    BY NextMatch
<1>2. AdoptedBytesMatch <=> [][AdoptsMatching]_vars
    BY DEF AdoptedBytesMatch, AdoptsMatching
<1> QED
    BY <1>1, <1>2, InitMatch, EntriesAlways, PTL DEF Spec

LEMMA MatchedWhenSettled == MatchInv => RuntimeMatchesRegistry
BY DEF MatchInv, Matched, Claimed, RuntimeMatchesRegistry, Settled

\* When the system is settled, a claimed target no user touched holds the bytes its
\* registry entry names: commits, rollbacks and crashes, in any order, leave the two in
\* step.  The one thing they rest on is an adoption, which claims the bytes it finds: the
\* code lets a reviewed adopt_drift be adopted as it is.
THEOREM RuntimeMatches ==
    ASSUME MaxExpiries = 0, MaxFaults = 0
    PROVE  Spec /\ AdoptedBytesMatch => []RuntimeMatchesRegistry
BY MatchAlways, MatchedWhenSettled, PTL

\* No plan adopts.
NoAdoption == \A p \in Procs : plan[p] # None => plan[p].op # "adopt"

LEMMA NextNoAdoption ==
    ASSUME \A q \in Products : Legacies[q] = {}, Typing, NoAdoption, [Next]_vars
    PROVE  NoAdoption'
<1> USE DEF Goto, files, ghosts
<1>0. plan \in [Procs -> Plans \cup {None}] /\ InHand
    BY DEF Typing, TypeOK
<1>1. ASSUME NEW p \in Procs, PlanRequest(p) PROVE NoAdoption'
    <2>1. PICK request \in Requests(ProductOf[p], receipt[ProductOf[p]]) :
              plan' = [plan EXCEPT ![p] = [ op |-> request.op, desired |-> request.desired,
                                            revision |-> 0, decisions |-> None ]]
        BY <1>1 DEF PlanRequest
    <2>2. request.op # "adopt"
        BY ProductOfAssumption DEF Requests
    <2> QED
        BY <1>0, <2>1, <2>2 DEF NoAdoption
<1>2. ASSUME NEW p \in Procs, PlanLoad(p) \/ PlanEvaluate(p) PROVE NoAdoption'
    <2>1. plan[p] # None
        BY <1>0, <1>2 DEF PlanLoad, PlanEvaluate, InHand
    <2>2. \A x \in Procs \ {p} : plan'[x] = plan[x]
        BY <1>0, <1>2 DEF PlanLoad, PlanEvaluate
    <2>3. plan'[p].op = plan[p].op
        BY <1>0, <1>2, <2>1 DEF PlanLoad, PlanEvaluate, Plans
    <2> QED
        BY <2>1, <2>2, <2>3 DEF NoAdoption
<1>3. ASSUME NEW p \in Procs, Release(p) \/ Crash(p) PROVE NoAdoption'
    BY <1>0, <1>3 DEF NoAdoption, Release, Crash
<1>4. ASSUME UNCHANGED plan PROVE NoAdoption'
    BY <1>4 DEF NoAdoption
<1>5. CASE UNCHANGED vars \/ UserEdit
    BY <1>4, <1>5 DEF vars, UserEdit
<1>6. ASSUME NEW p \in Procs,
             \/ Apply(p) \/ AcquireLock(p) \/ AcquireTimeout(p) \/ ReapStaleLock(p)
             \/ Scan(p) \/ Recover(p) \/ Recheck(p) \/ Begin(p) \/ Advance(p) \/ Stage(p)
             \/ ProjectRegistry(p) \/ RecordMutation(p) \/ BackUp(p) \/ InstallTarget(p)
             \/ PublishRegistry(p) \/ PublishReceipt(p) \/ CommitJournal(p) \/ Abort(p)
             \/ StartRollback(p) \/ UndoInspect(p) \/ UndoRemove(p) \/ UndoRestore(p)
             \/ RestoreRegistry(p) \/ RestoreReceipt(p) \/ FinishRollback(p)
      PROVE  UNCHANGED plan
    BY <1>6 DEF Apply, AcquireLock, AcquireTimeout, ReapStaleLock, Scan, Recover, Recheck,
       Begin, Advance, Stage, ProjectRegistry, RecordMutation, BackUp, InstallTarget,
       PublishRegistry, PublishReceipt, CommitJournal, Abort, StartRollback, UndoInspect,
       UndoRemove, UndoRestore, RestoreRegistry, RestoreReceipt, FinishRollback
<1> QED
    BY <1>1, <1>2, <1>3, <1>4, <1>5, <1>6 DEF Next, Step

LEMMA NothingAdopted ==
    ASSUME \A q \in Products : Legacies[q] = {}
    PROVE  Spec => AdoptedBytesMatch
<1>1. Init => NoAdoption
    BY DEF Init, NoAdoption
<1>2. Typing /\ NoAdoption /\ [Next]_vars => NoAdoption'
    BY NextNoAdoption
<1>3. Typing /\ NoAdoption => AdoptsMatching
    <2> SUFFICES ASSUME Typing, NoAdoption, NEW p \in Procs, pc[p] = "commit"
                 PROVE  plan[p].op # "adopt"
        BY DEF AdoptsMatching
    <2> QED
        BY DEF Typing, InHand, NoAdoption
<1>4. AdoptedBytesMatch <=> [][AdoptsMatching]_vars
    BY DEF AdoptedBytesMatch, AdoptsMatching
<1> QED
    BY <1>1, <1>2, <1>3, <1>4, TypingInvariant, PTL DEF Spec

\* Without adoptions no premise is left.
THEOREM RuntimeMatchesInstalled ==
    ASSUME MaxExpiries = 0, MaxFaults = 0, \A q \in Products : Legacies[q] = {}
    PROVE  Spec => []RuntimeMatchesRegistry
BY RuntimeMatches, NothingAdopted, PTL

-----------------------------------------------------------------------------
(* When no unmanaged target holds a bundle's own bytes at the start, no     *)
(* mutation ever replaces equal bytes.                                      *)

ManagedInv ==
    /\ Incomplete = {} => Managed(registry, runtime)
    /\ \A t \in Incomplete : Managed(journal[t].registryBefore, origin[t])

\* Equal bytes would be unmanaged bytes of a bundle.
LEMMA ManagedReplacesOther ==
    ASSUME Tracked, ManagedInv
    PROVE  ReplacesOtherBytes
<1> SUFFICES ASSUME NEW t \in Incomplete, NEW k \in Keys \ edited, Twin(t, k)
             PROVE  FALSE
    BY DEF ReplacesOtherBytes
<1>1. PlaceAt(t, k)
    BY DEF Tracked, Placed
<1>2. \/ origin[t][k] \in {None, UserBytes}
      \/ origin[t][k] = journal[t].registryBefore.digest[k]
    BY DEF ManagedInv, Managed
<1>3. t \in TxIds /\ Typing
    BY DEF Incomplete, Tracked, Faultless, Serial
<1>4. journal[t].mutations[k] \in Mutations \cup {None}
    BY <1>3 DEF Typing, TypeOK, Journals
<1>5. journal[t].mutations[k].result \in Digests \cup {None}
    BY <1>4 DEF Twin, Mutations
<1> QED
    BY <1>1, <1>2, <1>5, UserBytesAssumption DEF PlaceAt, Twin

LEMMA CommitManages ==
    ASSUME Tracked, Projections, ManagedInv, NEW p \in Procs, pc[p] = "commit"
    PROVE  Managed(registry, runtime)
<1>1. PICK tree \in [Keys -> Contents] :
          registry = Project(Before(p), tree, ProductOf[p], plan[p].desired)
    BY CommitLeaves
<1>2. /\ Before(p) \in Registries /\ ProductOf[p] \in Products
      /\ plan[p].desired \in Snapshots /\ Incomplete = {job[p].tx}
    BY Committing
<1>3. Managed(Before(p), origin[job[p].tx])
    BY <1>2 DEF ManagedInv, Before
<1>4. ASSUME NEW k \in Keys \ edited
      PROVE  \/ runtime[k] \in {None, UserBytes}
             \/ runtime[k] = registry.digest[k] /\ Claimed(registry, k)
    <2>1. Claimed(registry, k)
              <=> plan[p].desired.digest[k] # None \/ Shared(Before(p), k, ProductOf[p])
        BY <1>1, <1>2, ProjectedKey
    <2>2. /\ registry.digest[k] = Project(Before(p), origin[job[p].tx], ProductOf[p],
                                          plan[p].desired).digest[k]
          /\ Decision(p, Before(p), origin[job[p].tx], k).branch # "digest_conflict"
          /\ runtime[k] = IF Mutates(Decision(p, Before(p), origin[job[p].tx], k))
                          THEN plan[p].desired.digest[k] ELSE origin[job[p].tx][k]
        BY CommitLeaves
    <2>3. \/ origin[job[p].tx][k] \in {None, UserBytes}
          \/ origin[job[p].tx][k] = Before(p).digest[k] /\ Claimed(Before(p), k)
        BY <1>3 DEF Managed
    <2>4. \/ runtime[k] \in {None, UserBytes}
          \/ /\ runtime[k] = registry.digest[k]
             /\ plan[p].desired.digest[k] # None \/ Shared(Before(p), k, ProductOf[p])
        BY <1>2, <2>2, <2>3, ManagedKey DEF Decision
    <2> QED
        BY <2>1, <2>4
<1> QED
    BY <1>4 DEF Managed

LEMMA NextManaged ==
    ASSUME MaxFaults = 0, Tracked, Projections, ManagedInv, [Next]_vars
    PROVE  ManagedInv'
<1>1. edited \subseteq edited'
    BY TreeSteps
<1>2. ASSUME /\ Incomplete' = Incomplete
             /\ \A t \in Incomplete :
                   /\ origin'[t] = origin[t]
                   /\ journal'[t].registryBefore = journal[t].registryBefore
             /\ Incomplete = {} =>
                   /\ registry' = registry
                   /\ \A k \in Keys \ edited' : runtime'[k] = runtime[k]
      PROVE  ManagedInv'
    BY <1>1, <1>2 DEF ManagedInv, Managed, Claimed
<1>3. ASSUME NEW t \in TxIds, Incomplete = {}, Incomplete' = {t},
             journal'[t].registryBefore = registry, origin'[t] = runtime
      PROVE  ManagedInv'
    BY <1>1, <1>3 DEF ManagedInv, Managed, Claimed
<1>4. ASSUME Managed(registry, runtime), Incomplete' = {}, UNCHANGED <<registry, runtime>>
      PROVE  ManagedInv'
    BY <1>1, <1>4 DEF ManagedInv, Managed, Claimed
<1>5. ASSUME NEW p \in Procs, pc[p] = "rb_journal", job[p].tx \in Incomplete,
             registry = Before(p), \A k \in Keys \ edited : Back(job[p].tx, k)
      PROVE  Managed(registry, runtime)
    <2>1. Managed(Before(p), origin[job[p].tx])
        BY <1>5 DEF ManagedInv, Before
    <2>2. \A k \in Keys \ edited : runtime[k] = origin[job[p].tx][k]
        BY <1>5, ManagedReplacesOther DEF ReplacesOtherBytes, Back
    <2> QED
        BY <1>5, <2>1, <2>2 DEF Managed
<1> QED
    BY <1>2, <1>3, <1>4, <1>5, TreeSteps, CommitManages

LEMMA ManagedAlways ==
    ASSUME MaxExpiries = 0, MaxFaults = 0, InitialTrees \subseteq [Keys -> {None, UserBytes}]
    PROVE  Spec => []ReplacesOtherBytes
<1>1. Init => ManagedInv
    BY DEF Init, ManagedInv, Managed, Incomplete, NoJournal
<1>2. (Tracked /\ Projections) /\ ManagedInv /\ [Next]_vars => ManagedInv'
    BY NextManaged
<1>3. (Tracked /\ Projections) /\ ManagedInv => ReplacesOtherBytes
    BY ManagedReplacesOther
<1> QED
    BY <1>1, <1>2, <1>3, ProjectionsAlways, PTL DEF Spec

\* OriginalsAreKept when every target starts missing or with bytes of the user's: no
\* premise on the behaviour is left.
THEOREM OriginalsAreKeptFromClean ==
    ASSUME MaxExpiries = 0, MaxFaults = 0, InitialTrees \subseteq [Keys -> {None, UserBytes}]
    PROVE  Spec => []OriginalsKept
BY OriginalsAreKept, ManagedAlways, PTL

\* RollbacksRestore for such a start and one product.
THEOREM RollbacksRestoreAlone ==
    ASSUME MaxExpiries = 0, MaxFaults = 0, InitialTrees \subseteq [Keys -> {None, UserBytes}],
           \A q, r \in Products : q = r
    PROVE  Spec => RolledBackRestores
<1>1. Faultless => OwnRecovery
    BY AloneOwnRecovery
<1> QED
    BY <1>1, FaultlessAlways, RollbacksRestore, ManagedAlways, PTL

-----------------------------------------------------------------------------
(* What another product claims.                                             *)

LEMMA NextKeepsShared ==
    ASSUME MaxFaults = 0, Tracked, EntriesInv, [Next]_vars, NEW p \in Procs,
           NEW k \in Keys \ edited, pc[p] \in {"backup", "install"},
           runtime'[k] # runtime[k], pc'[p] # pc[p],
           Shared(registry, k, ProductOf[p]), runtime[k] = registry.digest[k]
    PROVE  FALSE
<1>0. /\ Faultless /\ Serial /\ pc[p] \in TxSteps /\ pc[p] \in ForwardSteps
      /\ pc \in [Procs -> Points] /\ runtime \in [Keys -> Contents]
    BY DEF Tracked, Faultless, Serial, Typing, TypeOK, TxSteps, CommitSteps, ForwardSteps
<1>1. registry = Before(p) /\ Incomplete = {job[p].tx} /\ PlacedAt(p)
    BY <1>0, UnfinishedOne DEF Tracked, Faultless, UnderLock, RegistryAt, Placed
<1>2. registry.digest[k] # None
    <2>1. Entries(registry) /\ Claimed(registry, k)
        BY <1>1 DEF EntriesInv, Before, Claimed, Shared
    <2> QED
        BY <2>1 DEF Entries
<1>3. /\ Before(p) \in Registries /\ ProductOf[p] \in Products
      /\ plan[p].desired \in Snapshots
    BY <1>0, InTransaction, ProductOfAssumption DEF Serial, Typing, Before
<1>4. CASE pc[p] = "backup" /\ k = Target(p)
    <2>1. job[p].pending # {}
        BY <1>1, <1>4 DEF PlacedAt, CommitAt
    <2>2. CommitKey(p, k) /\ Mutates(plan[p].decisions[k])
        BY <1>4, <2>1, TargetAtHand
    <2>3. plan[p].decisions[k] = Decision(p, Before(p), origin[job[p].tx], k)
        BY <1>0, <1>1 DEF PlacedAt, ReviewAt
    <2>4. runtime[k] = origin[job[p].tx][k]
        BY <1>4, <2>2 DEF CommitKey
    <2> QED
        BY <1>1, <1>2, <1>3, <2>2, <2>3, <2>4, ChangedForReason DEF Decision
<1>5. CASE pc[p] = "install" /\ k = Target(p)
    <2>1. job[p].pending # {}
        BY <1>1, <1>5 DEF PlacedAt, CommitAt
    <2>2. CommitKey(p, k) /\ k \in job[p].pending
        BY <1>5, <2>1, TargetAtHand
    <2>3. runtime[k] = None
        <3>1. Mutates(plan[p].decisions[k])
            BY <2>2 DEF CommitKey
        <3> QED
            BY <1>5, <2>2, <3>1 DEF CommitKey
    <2> QED
        BY <1>2, <2>3
<1>6. ASSUME NEW x \in Procs, UNCHANGED runtime \/ pc' = pc PROVE FALSE
    BY <1>6
<1>7. ASSUME NEW x \in Procs, UndoRemove(x) \/ UndoRestore(x) PROVE FALSE
    <2>1. pc[x] \in TxSteps /\ \E point : pc' = [pc EXCEPT ![x] = point]
        BY <1>7 DEF UndoRemove, UndoRestore, Return, RollbackFails, Goto, TxSteps, RollbackSteps
    <2>2. x = p
        BY <1>0, <2>1
    <2> QED
        BY <1>7, <2>2 DEF UndoRemove, UndoRestore
<1>8. ASSUME NEW x \in Procs, BackUp(x) \/ InstallTarget(x) PROVE FALSE
    <2>1. \E point : pc' = [pc EXCEPT ![x] = point]
        BY <1>8 DEF BackUp, InstallTarget, Goto
    <2>2. x = p
        BY <1>0, <2>1
    <2>3. UNCHANGED runtime \/ \E c : runtime' = [runtime EXCEPT ![Target(p)] = c]
        BY <1>8, <2>2 DEF BackUp, InstallTarget
    <2>4. k = Target(p)
        BY <1>0, <2>3
    <2> QED
        BY <1>4, <1>5, <2>4
<1>9. UNCHANGED vars => UNCHANGED runtime
    BY DEF vars
<1>10. UserEdit => UNCHANGED pc
    BY DEF UserEdit
<1>11. ASSUME NEW x \in Procs,
             \/ PlanRequest(x) \/ PlanLoad(x) \/ PlanEvaluate(x) \/ Apply(x)
             \/ AcquireLock(x) \/ AcquireTimeout(x) \/ ReapStaleLock(x) \/ Release(x)
             \/ Crash(x) \/ Scan(x) \/ Recover(x) \/ Recheck(x) \/ Begin(x) \/ Advance(x)
             \/ Stage(x) \/ ProjectRegistry(x) \/ RecordMutation(x) \/ PublishRegistry(x)
             \/ PublishReceipt(x) \/ CommitJournal(x) \/ Abort(x) \/ StartRollback(x)
             \/ UndoInspect(x) \/ RestoreRegistry(x) \/ RestoreReceipt(x) \/ FinishRollback(x)
      PROVE  UNCHANGED runtime
    BY <1>11 DEF PlanRequest, PlanLoad, PlanEvaluate, Apply, AcquireLock, AcquireTimeout,
       ReapStaleLock, Release, Crash, Scan, Recover, Recheck, Begin, Advance, Stage,
       ProjectRegistry, RecordMutation, PublishRegistry, PublishReceipt, CommitJournal, Abort,
       StartRollback, UndoInspect, RestoreRegistry, RestoreReceipt, FinishRollback, files
<1> QED
    BY <1>6, <1>7, <1>8, <1>9, <1>10, <1>11 DEF Next, Step

\* The bytes of a target another product claims, and no user touched, never change under
\* it: what commitPlan moves was reviewed, a digest conflict stopped the plan, and a
\* release is no mutation.
THEOREM SharedBytesAreKept ==
    ASSUME MaxExpiries = 0, MaxFaults = 0
    PROVE  Spec => SharedBytesKept
<1> DEFINE Keeps ==
        \A p \in Procs : \A k \in Keys \ edited :
          pc[p] \in {"backup", "install"} /\ runtime'[k] # runtime[k] /\ pc'[p] # pc[p]
          => \/ ~Shared(registry, k, ProductOf[p])
             \/ runtime[k] # registry.digest[k]
<1>1. (Tracked /\ Projections /\ EntriesInv) /\ [Next]_vars => [Keeps]_vars
    BY NextKeepsShared
<1>2. SharedBytesKept <=> [][Keeps]_vars
    BY DEF SharedBytesKept
<1> HIDE DEF Keeps
<1> QED
    BY <1>1, <1>2, EntriesAlways, PTL DEF Spec
=============================================================================
