--------------------------- MODULE DoctorReaderProofs ---------------------------
(***************************************************************************)
(* What the answers of Doctor and CompatibleSkills are worth, for every    *)
(* number of processes, products, targets and transactions: the reader     *)
(* takes no lock, so its proof carries what it has read next to what the   *)
(* files hold as long as nothing changed them, and the invariants of the   *)
(* transactions for when something did.                                    *)
(***************************************************************************)
EXTENDS DoctorReader, SkillsTransactionTreesProofs

-----------------------------------------------------------------------------
(* The steps of the reader and of the system.                              *)

LEMMA DoctorSteps == [DoctorNext]_doctorVars => [Next]_vars
<1> SUFFICES ASSUME [DoctorNext]_doctorVars PROVE [Next]_vars
    OBVIOUS
<1>1. CASE UNCHANGED doctorVars
    BY <1>1 DEF doctorVars
<1>2. CASE ReadRegistry \/ ReadReceipt \/ VerifyEntry \/ ReadJournals
    BY <1>2 DEF ReadRegistry, ReadReceipt, VerifyEntry, ReadJournals, Reads
<1>3. CASE UseReport
    BY <1>3 DEF UseReport
<1>4. CASE SystemStep
    BY <1>4 DEF SystemStep
<1> QED
    BY <1>1, <1>2, <1>3, <1>4 DEF DoctorNext

\* The processes behave beside the reader as they do without it.
LEMMA DoctorIsSpec == DoctorSpec => Spec
BY DoctorSteps, PTL DEF DoctorSpec, Spec

\* A change of the files leaves a trace in the ghost.
LEMMA SinceSees ==
    ASSUME SystemStep, at # "idle", since' = {}
    PROVE  files' = files /\ since = {}
<1> DEFINE Cause(cause) ==
        /\ files' # files
        /\ (cause = "user") <=> (pc' = pc)
        /\ (cause = "rollback") <=>
              \E p \in Procs : pc[p] \in RollbackSteps /\ pc'[p] # pc[p]
<1>1. since' = since \cup {cause \in {"apply", "rollback", "user"} : Cause(cause)}
    BY DEF SystemStep
<1>2. ~Cause("user") /\ ~Cause("rollback") /\ ~Cause("apply")
    BY <1>1
<1>3. (\E p \in Procs : pc[p] \in RollbackSteps /\ pc'[p] # pc[p]) => pc' # pc
    OBVIOUS
<1> QED
    BY <1>1, <1>2, <1>3

LEMMA RollbackSeen ==
    ASSUME SystemStep, at # "idle", files' # files,
           NEW p \in Procs, pc[p] \in RollbackSteps, pc'[p] # pc[p]
    PROVE  "rollback" \in since'
<1>1. pc' # pc
    OBVIOUS
<1> QED
    BY <1>1 DEF SystemStep

LEMMA SinceGrows ==
    ASSUME SystemStep
    PROVE  since \subseteq since' /\ (sound => sound')
BY DEF SystemStep

-----------------------------------------------------------------------------
(* What the reader holds.                                                  *)

\* Receipt, registry and bytes say the same of a target.
Intact(r, k) ==
    /\ registry.claims[k][Subject] # None
    /\ r.current.digest[k] = registry.digest[k]
    /\ r.current.digest[k] = runtime[k]

NotInstalled == \E i \in issues : i.code = "not_installed"

Named(k) == \E i \in issues : i.key = k

\* An issue says what is so.
Justified(i) ==
    /\ i.code \in Codes
    /\ i.code # "not_installed" => receipt[Subject] # None
    /\ i.code = "future" => receipt[Subject].revision > registry.revision
    /\ i.code \in {"disagree", "unclaimed", "drift"} =>
          i.key \in EntriesOf(receipt[Subject]) /\ ~Intact(receipt[Subject], i.key)
    /\ i.code = "incomplete" => Incomplete # {}

\* What was read and what was concluded is so, as long as nothing changed.
InHandIsTrue ==
    /\ at # "idle" => seen.registry = registry
    /\ at \in {"entries", "journals", "reported"} =>
          /\ seen.receipt = receipt[Subject]
          /\ toVerify \subseteq EntriesOf(receipt[Subject])
          /\ \A i \in issues : Justified(i)
          /\ NotInstalled \/ \A k \in EntriesOf(receipt[Subject]) \ toVerify :
                                 Named(k) \/ Intact(receipt[Subject], k)

ReaderAt ==
    /\ seen = [registry |-> seen.registry, receipt |-> seen.receipt]
    /\ toVerify \subseteq Keys
    /\ at \in {"journals", "reported"} => toVerify = {}
    /\ at \in {"entries", "journals"} => seen.receipt # None
    /\ at = "reported" => NotInstalled \/ seen.receipt # None
    /\ since = {} => InHandIsTrue
    /\ at = "reported" /\ since = {} /\ issues = {} => sound

LEMMA InitReader == ReaderInit => ReaderAt
BY DEF ReaderInit, ReaderAt, InHandIsTrue, NothingSeen

\* A step that leaves the files alone leaves what is true of them.
LEMMA SameFiles ==
    ASSUME UNCHANGED <<files, seen, toVerify, issues, at>>, InHandIsTrue
    PROVE  InHandIsTrue'
<1>1. UNCHANGED <<registry, receipt, runtime, journal, seen, toVerify, issues, at>>
    BY DEF files
<1>2. Incomplete' = Incomplete
    BY <1>1, SameIncomplete
<1> QED
    BY <1>1, <1>2 DEF InHandIsTrue, Justified, NotInstalled, Named, Intact, EntriesOf

LEMMA ReaderSystemStep ==
    ASSUME ReaderAt, SystemStep
    PROVE  ReaderAt'
<1>1. UNCHANGED <<at, seen, toVerify, issues>>
    BY DEF SystemStep
<1>2. CASE at = "idle"
    BY <1>1, <1>2 DEF ReaderAt, InHandIsTrue
<1>3. CASE at # "idle" /\ since' = {}
    <2>1. files' = files /\ since = {} /\ (sound => sound')
        BY <1>3, SinceSees, SinceGrows
    <2>2. InHandIsTrue'
        BY <1>1, <2>1, SameFiles DEF ReaderAt
    <2> QED
        BY <1>1, <2>1, <2>2 DEF ReaderAt, NotInstalled
<1>4. CASE at # "idle" /\ since' # {}
    BY <1>1, <1>4 DEF ReaderAt, NotInstalled
<1> QED
    BY <1>2, <1>3, <1>4

LEMMA ReaderReadRegistry ==
    ASSUME ReaderAt, ReadRegistry
    PROVE  ReaderAt'
<1>1. /\ at = "idle" /\ at' = "receipt" /\ UNCHANGED <<toVerify, issues, registry>>
      /\ seen' = [registry |-> registry, receipt |-> seen.receipt]
    BY DEF ReadRegistry, Reads, ReaderAt, vars
<1>2. seen'.registry = registry' /\ seen'.receipt = seen.receipt
    BY <1>1
<1>3. InHandIsTrue'
    BY <1>1, <1>2 DEF InHandIsTrue
<1> QED
    BY <1>1, <1>2, <1>3 DEF ReaderAt

LEMMA ReaderReadReceipt ==
    ASSUME ReaderAt, ReadReceipt
    PROVE  ReaderAt'
<1> DEFINE r == receipt[Subject]
           missing == r = None \/ r.product # Subject \/ EntriesOf(r) = {}
<1>1. /\ at = "receipt" /\ at' = IF missing THEN "reported" ELSE "entries"
      /\ toVerify' = IF missing THEN {} ELSE EntriesOf(r)
      /\ seen' = [registry |-> seen.registry, receipt |-> r]
      /\ UNCHANGED <<registry, receipt, runtime, journal, since>>
    BY DEF ReadReceipt, Reads, ReaderAt, vars
<1>2. PICK expected \in Expected :
         issues' = IF missing THEN {Issue("not_installed", 0)}
                   ELSE {Issue(c, 0) : c \in
                          (IF r.revision > seen.registry.revision THEN {"future"} ELSE {})
                          \cup (IF expected \notin {None, r.current.version}
                                THEN {"version"} ELSE {})}
    BY DEF ReadReceipt
<1>3. seen'.registry = seen.registry /\ seen'.receipt = r
    BY <1>1
<1>4. CASE missing
    <2>1. issues' = {Issue("not_installed", 0)}
        BY <1>2, <1>4
    <2>2. Issue("not_installed", 0) \in issues' /\ Issue("not_installed", 0).code = "not_installed"
        BY <2>1 DEF Issue
    <2>3. NotInstalled' /\ issues' # {}
        BY <2>2 DEF NotInstalled
    <2>4. \A i \in issues' : i.code = "not_installed"
        BY <2>1 DEF Issue
    <2>5. ASSUME since = {} PROVE InHandIsTrue'
        BY <1>1, <1>3, <2>3, <2>4, <2>5 DEF InHandIsTrue, ReaderAt, Justified, Codes
    <2>6. at' = "reported" /\ toVerify' = {}
        BY <1>1, <1>4
    <2> QED
        BY <1>1, <1>3, <2>3, <2>5, <2>6 DEF ReaderAt
<1>5. CASE ~missing
    <2>1. at' = "entries" /\ toVerify' = EntriesOf(r) /\ r # None
        BY <1>1, <1>5
    <2>2. ASSUME NEW i \in issues'
          PROVE  /\ i.code \in {"future", "version"}
                 /\ i.code = "future" => r.revision > seen.registry.revision
        BY <1>2, <1>5 DEF Issue
    <2>3. ASSUME since = {} PROVE InHandIsTrue'
        <3>1. seen.registry = registry
            BY <1>1, <2>3 DEF ReaderAt, InHandIsTrue
        <3>2. \A i \in issues' : Justified(i)'
            BY <1>1, <2>1, <2>2, <3>1 DEF Justified, Codes
        <3>3. EntriesOf(receipt'[Subject]) = toVerify'
            BY <1>1, <2>1 DEF EntriesOf
        <3> QED
            BY <1>1, <1>3, <2>1, <3>1, <3>2, <3>3 DEF InHandIsTrue
    <2>4. toVerify' \subseteq Keys
        BY <2>1 DEF EntriesOf
    <2> HIDE DEF r
    <2> QED
        BY <1>1, <1>3, <2>1, <2>3, <2>4 DEF ReaderAt
<1> QED
    BY <1>4, <1>5

LEMMA ReaderVerifyEntry ==
    ASSUME ReaderAt, VerifyEntry
    PROVE  ReaderAt'
<1>1. PICK k \in toVerify :
         /\ at = "entries" /\ at' = IF toVerify = {k} THEN "journals" ELSE "entries"
         /\ toVerify' = toVerify \ {k}
         /\ issues' = issues \cup
               {Issue(c, k) : c \in EntryIssues(k, seen.receipt.current.digest[k])}
         /\ UNCHANGED <<registry, receipt, runtime, journal, since, seen>>
    <2>1. Min(toVerify) \in toVerify
        BY MinInKeys DEF ReaderAt, VerifyEntry
    <2> QED
        BY <2>1 DEF VerifyEntry, Reads, vars
<1>2. PICK found : found = EntryIssues(k, seen.receipt.current.digest[k])
    OBVIOUS
<1>0. Incomplete' = Incomplete
    BY <1>1, SameIncomplete
<1>3. ASSUME since = {} PROVE InHandIsTrue'
    <2>1. /\ seen.registry = registry /\ seen.receipt = receipt[Subject]
          /\ \A i \in issues : Justified(i)
          /\ NotInstalled \/ \A x \in EntriesOf(receipt[Subject]) \ toVerify :
                                 Named(x) \/ Intact(receipt[Subject], x)
        BY <1>1, <1>3 DEF ReaderAt, InHandIsTrue
    <2>2. found = {} => Intact(receipt[Subject], k)
        BY <1>2, <2>1 DEF EntryIssues, Intact
    <2>3. ASSUME NEW c \in found
          PROVE  c \in {"disagree", "unclaimed", "drift"} /\ ~Intact(receipt[Subject], k)
        BY <1>2, <2>1, <2>3 DEF EntryIssues, Intact
    <2>4. k \in EntriesOf(receipt[Subject]) /\ receipt[Subject] # None
        BY <1>1, <1>2, <1>3 DEF ReaderAt, InHandIsTrue
    <2>5. \A i \in issues' : i \in issues \/ \E c \in found : i = Issue(c, k)
        BY <1>1, <1>2
    <2>6. \A i \in issues : Justified(i)'
        BY <1>0, <1>1, <2>1 DEF Justified, Intact, EntriesOf
    <2>7. ASSUME NEW c \in found
          PROVE  Justified(Issue(c, k))' /\ Issue(c, k).key = k /\ Issue(c, k) \in issues'
        <3>1. Issue(c, k).code = c /\ Issue(c, k).key = k
            BY DEF Issue
        <3> QED
            BY <1>1, <1>2, <2>3, <2>4, <3>1 DEF Justified, Codes, Intact, EntriesOf
    <2>8. \A i \in issues' : Justified(i)'
        BY <2>5, <2>6, <2>7
    <2>9. ASSUME ~NotInstalled', NEW x \in EntriesOf(receipt[Subject]) \ toVerify'
          PROVE  Named(x)' \/ Intact(receipt[Subject], x)'
        <3>0. ~NotInstalled /\ issues \subseteq issues'
            BY <1>1, <2>9 DEF NotInstalled
        <3>1. CASE x = k
            <4>1. CASE found = {}
                BY <1>1, <2>2, <3>1, <4>1 DEF Intact
            <4>2. CASE found # {}
                BY <2>7, <3>1, <4>2 DEF Named
            <4> QED
                BY <4>1, <4>2
        <3>2. CASE x # k
            <4>1. x \in EntriesOf(receipt[Subject]) \ toVerify
                BY <1>1, <2>9, <3>2
            <4>2. Named(x) \/ Intact(receipt[Subject], x)
                BY <2>1, <3>0, <4>1
            <4> QED
                BY <1>1, <3>0, <4>2 DEF Named, Intact
        <3> QED
            BY <3>1, <3>2
    <2>10. /\ seen'.registry = registry' /\ seen'.receipt = receipt'[Subject]
           /\ EntriesOf(receipt'[Subject]) = EntriesOf(receipt[Subject])
           /\ toVerify' \subseteq EntriesOf(receipt[Subject])
        BY <1>1, <1>3, <2>1 DEF EntriesOf, ReaderAt, InHandIsTrue
    <2> QED
        BY <1>1, <2>8, <2>9, <2>10 DEF InHandIsTrue
<1>4. /\ toVerify' \subseteq Keys /\ at' # "reported"
      /\ at' = "journals" => toVerify' = {}
    BY <1>1, <1>2 DEF ReaderAt
<1>5. seen' = [registry |-> seen'.registry, receipt |-> seen'.receipt] /\ seen'.receipt # None
    BY <1>1 DEF ReaderAt
<1> QED
    BY <1>1, <1>3, <1>4, <1>5 DEF ReaderAt

\* What has been verified when the journals are all that is left.
LEMMA VerifiedIsConsistent ==
    ASSUME ReaderAt, at = "journals", issues = {}, since = {}
    PROVE  Consistent
<1>1. /\ toVerify = {} /\ seen.receipt # None /\ seen.receipt = receipt[Subject]
      /\ \A k \in EntriesOf(receipt[Subject]) : Intact(receipt[Subject], k)
    BY DEF ReaderAt, InHandIsTrue, NotInstalled, Named
<1> QED
    BY <1>1 DEF Consistent, Intact

LEMMA ReaderReadJournals ==
    ASSUME ReaderAt, ReadJournals
    PROVE  ReaderAt'
<1>1. /\ at = "journals" /\ at' = "reported" /\ sound' = (sound \/ Consistent)
      /\ UNCHANGED <<registry, receipt, runtime, journal, since, seen, toVerify>>
      /\ issues' = issues \cup (IF Incomplete # {} THEN {Issue("incomplete", 0)} ELSE {})
    BY DEF ReadJournals, Reads, vars
<1>2. Incomplete' = Incomplete
    BY <1>1, SameIncomplete
<1>3. issues \subseteq issues'
    BY <1>1
<1>4. ASSUME since = {} PROVE InHandIsTrue'
    <2>1. InHandIsTrue
        BY <1>4 DEF ReaderAt
    <2>2. \A i \in issues : Justified(i)'
        BY <1>1, <1>2, <2>1 DEF InHandIsTrue, Justified, Intact, EntriesOf
    <2>3. \A i \in issues' \ issues : i = Issue("incomplete", 0) /\ Incomplete # {}
        BY <1>1
    <2>4. \A i \in issues' \ issues : i.code = "incomplete" /\ Incomplete # {}
        BY <2>3 DEF Issue
    <2>5. \A i \in issues' \ issues : Justified(i)'
        BY <1>1, <1>2, <2>1, <2>4 DEF Justified, Codes, InHandIsTrue, ReaderAt
    <2>6. EntriesOf(receipt'[Subject]) = EntriesOf(receipt[Subject])
        BY <1>1 DEF EntriesOf
    <2>7. ASSUME ~NotInstalled', NEW x \in EntriesOf(receipt[Subject]) \ toVerify'
          PROVE  Named(x)' \/ Intact(receipt[Subject], x)'
        <3>1. Named(x) \/ Intact(receipt[Subject], x)
            BY <1>1, <1>3, <2>1, <2>7 DEF InHandIsTrue, NotInstalled
        <3> QED
            BY <1>1, <1>3, <3>1 DEF Named, Intact
    <2> QED
        BY <1>1, <2>1, <2>2, <2>5, <2>6, <2>7 DEF InHandIsTrue
<1>5. issues' = {} /\ since' = {} => sound'
    BY <1>1, <1>3, VerifiedIsConsistent
<1> QED
    BY <1>1, <1>4, <1>5 DEF ReaderAt

LEMMA NextReader == ReaderAt /\ [DoctorNext]_doctorVars => ReaderAt'
<1> SUFFICES ASSUME ReaderAt, [DoctorNext]_doctorVars PROVE ReaderAt'
    OBVIOUS
<1>1. CASE UNCHANGED doctorVars
    <2>1. UNCHANGED <<files, at, seen, toVerify, issues, since, sound>>
        BY <1>1 DEF doctorVars, vars, reader, files
    <2>2. InHandIsTrue => InHandIsTrue'
        BY <2>1, SameFiles
    <2> QED
        BY <2>1, <2>2 DEF ReaderAt, NotInstalled
<1>2. CASE UseReport
    BY <1>2 DEF UseReport, ReaderAt, InHandIsTrue, NothingSeen
<1> QED
    BY <1>1, <1>2, ReaderReadRegistry, ReaderReadReceipt, ReaderVerifyEntry, ReaderReadJournals,
       ReaderSystemStep DEF DoctorNext

LEMMA ReaderAlways == DoctorSpec => []ReaderAt
BY InitReader, NextReader, PTL DEF DoctorSpec

\* Of one Skill all entries are blocked or none is, and one that is not blocked was
\* found as the receipt says.
LEMMA UnblockedIsIntact ==
    ASSUME ReaderAt, SubjectAssumption
    PROVE  CompatibleAreIntact
<1> SUFFICES ASSUME at = "reported", since = {}, receipt[Subject] # None,
                    NEW k \in EntriesOf(receipt[Subject]),
                    SkillOf[k] \in CompatibleSkills(receipt[Subject])
             PROVE  Intact(receipt[Subject], k)
    BY DEF CompatibleAreIntact, Intact
<1>1. PICK e \in EntriesOf(receipt[Subject]) : SkillOf[e] = SkillOf[k] /\ ~Blocked(e)
    BY DEF CompatibleSkills
<1>2. ~NotInstalled
    BY DEF CompatibleSkills, NotInstalled
<1>3. k # 0
    BY NumKeysAssumption DEF EntriesOf, Keys
<1>4. ~Named(k)
    BY <1>1, <1>3 DEF Blocked, Named
<1> QED
    BY <1>2, <1>4 DEF ReaderAt, InHandIsTrue

\* A Skill CompatibleSkills lets through is intact in every runtime, whatever happened
\* before Doctor was called: lost locks, failed writes and user edits included.
THEOREM CompatibleSkillsAreIntact == DoctorSpec => []CompatibleAreIntact
BY ReaderAlways, UnblockedIsIntact, SubjectAssumption, PTL


-----------------------------------------------------------------------------
(* What the transactions keep of the product's receipt.                    *)

\* No receipt that counts is ahead of the registry that counts.
NotAhead ==
    \A q \in Products :
        DecidedReceipt[q] # None => DecidedReceipt[q].revision <= DecidedRegistry.revision

\* A product that committed has a receipt that counts.
Received == \A t \in Committed : DecidedReceipt[journal[t].product] # None

LEMMA InitReceived == Init => NotAhead /\ Received
<1> SUFFICES ASSUME Init PROVE NotAhead /\ Received
    OBVIOUS
<1>1. DecidedReceipt = [q \in Products |-> None]
    BY InitAtomic DEF Atomic!Init
<1>2. Committed = {}
    BY DEF Init, Committed, NoJournal
<1> QED
    BY <1>1, <1>2 DEF NotAhead, Received

LEMMA NextNotAhead ==
    ASSUME MaxFaults = 0, Faultless, Desired, Receipted, OwnRecovery, NotAhead, [Next]_vars
    PROVE  NotAhead'
<1>0. /\ DecidedRegistry.revision \in Nat
      /\ DecidedReceipt \in [Products -> Receipts \cup {None}]
    BY DecidedRegistryType, DecidedReceiptType DEF Faultless, Serial, Registries
<1>1. CASE UNCHANGED <<DecidedRegistry, DecidedReceipt>>
    BY <1>1 DEF NotAhead
<1>2. ASSUME NEW q \in Products, NEW desired \in Atomic!Desirable(q), Atomic!Commit(q, desired)
      PROVE  NotAhead'
    <2>1. PICK new :
             /\ DecidedReceipt' = [DecidedReceipt EXCEPT ![q] = new]
             /\ new.revision = DecidedRegistry.revision + 1
        <3> DEFINE new == [ product |-> q, revision |-> DecidedRegistry.revision + 1,
                            current |-> desired,
                            previous |-> IF DecidedReceipt[q] = None THEN None
                                         ELSE DecidedReceipt[q].current ]
        <3>1. DecidedReceipt' = [DecidedReceipt EXCEPT ![q] = new]
            BY <1>2 DEF Atomic!Commit
        <3>2. new.revision = DecidedRegistry.revision + 1
            OBVIOUS
        <3> HIDE DEF new
        <3> QED
            BY <3>1, <3>2
    <2>2. DecidedRegistry'.revision = DecidedRegistry.revision + 1
        BY <1>2 DEF Atomic!Commit
    <2>3. ASSUME NEW r \in Products, DecidedReceipt'[r] # None
          PROVE  DecidedReceipt'[r].revision <= DecidedRegistry'.revision
        <3>1. CASE r = q
            BY <1>0, <2>1, <2>2, <3>1
        <3>2. CASE r # q
            <4>1. DecidedReceipt'[r] = DecidedReceipt[r]
                BY <1>0, <2>1, <3>2
            <4>2. DecidedReceipt[r].revision <= DecidedRegistry.revision
                BY <2>3, <4>1 DEF NotAhead
            <4>3. DecidedReceipt[r].revision \in Nat
                BY <1>0, <2>3, <4>1 DEF Receipts
            <4> QED
                BY <1>0, <2>2, <4>1, <4>2, <4>3
        <3> QED
            BY <3>1, <3>2
    <2> QED
        BY <2>3 DEF NotAhead
<1> QED
    BY <1>1, <1>2, AtomicStep DEF Atomic!Next

\* A receipt a commit writes is one.
LEMMA NewReceiptIsOne ==
    ASSUME Typing, NEW p \in Procs, pc[p] \in TxSteps \ RollbackSteps
    PROVE  NewReceipt(p) # None
<1>1. /\ job[p].reg \in Registries /\ plan[p].desired \in Snapshots
      /\ Saved(p) \in Receipts \cup {None} /\ ProductOf[p] \in Products
    BY InTransaction, ProductOfAssumption DEF Typing, Saved
<1>2. NewReceipt(p) \in Receipts
    BY <1>1 DEF NewReceipt, Saved, Registries, Receipts
<1> QED
    BY <1>2, NoRecordAssumption

LEMMA NextReceived ==
    ASSUME MaxFaults = 0, Faultless, Receipted, OwnRecovery, Received, [Next]_vars
    PROVE  Received'
<1>0. DecidedReceipt \in [Products -> Receipts \cup {None}] /\ Typing
    BY DecidedReceiptType DEF Faultless, Serial
<1>1. \A t \in Committed : journal'[t].product = journal[t].product
    <2>1. ASSUME NEW p \in Procs, NEW x \in TxIds, Begun(p, x)
          PROVE  \A t \in Committed : journal'[t].product = journal[t].product
        BY <2>1, BegunJournal DEF Committed
    <2>2. ASSUME NEW p \in Procs,
                 \/ Within(p) \/ Decides(p, "commit", "committed")
                 \/ Decides(p, "rb_journal", "rolled_back")
          PROVE  \A t \in Committed : journal'[t].product = journal[t].product
        BY <2>2, WithinJournal, DecidesJournal DEF Committed, TxSteps, CommitSteps, RollbackSteps
    <2> QED
        BY <2>1, <2>2, StepKinds DEF StepKind
<1>2. CASE UNCHANGED <<DecidedReceipt, Committed>>
    BY <1>1, <1>2 DEF Received
<1>3. ASSUME NEW p \in Procs, Decides(p, "commit", "committed"),
             DecidedReceipt' = [DecidedReceipt EXCEPT ![ProductOf[p]] = NewReceipt(p)]
      PROVE  Received'
    <2>1. pc[p] = "commit" /\ "commit" \in TxSteps \ RollbackSteps
        BY <1>3 DEF Decides, TxSteps, CommitSteps, RollbackSteps
    <2>2. NewReceipt(p) # None /\ ProductOf[p] \in Products
        BY <1>0, <2>1, NewReceiptIsOne, ProductOfAssumption
    <2>3. /\ Committed' = Committed \cup {job[p].tx} /\ job[p].tx \in TxIds
          /\ journal'[job[p].tx].product = journal[job[p].tx].product
        BY <1>3, <2>1, DecidesJournal
    <2>4. journal[job[p].tx].product = ProductOf[p]
        BY <2>1, OwnTransaction DEF OwnerOf
    <2>5. ASSUME NEW t \in Committed' PROVE DecidedReceipt'[journal'[t].product] # None
        <3>1. CASE t = job[p].tx
            BY <1>0, <1>3, <2>2, <2>3, <2>4, <3>1
        <3>2. CASE t \in Committed
            BY <1>0, <1>1, <1>3, <2>2, <3>2 DEF Received
        <3> QED
            BY <2>3, <2>5, <3>1, <3>2
    <2> QED
        BY <2>5 DEF Received
<1> QED
    BY <1>2, <1>3, DecidedReceiptSteps

\* All the proof of a reader's answer needs to know of the transactions.
System == Tracked /\ Agreed /\ MatchInv /\ NotAhead /\ Received

LEMMA SystemAlways ==
    ASSUME MaxExpiries = 0, MaxFaults = 0
    PROVE  Spec /\ []OwnRecovery /\ AdoptedBytesMatch => []System
<1>1. (Faultless /\ Desired /\ Receipted /\ Agreed) /\ OwnRecovery /\ (NotAhead /\ Received)
         /\ [Next]_vars => (NotAhead /\ Received)'
    BY NextNotAhead, NextReceived
<1> QED
    BY <1>1, InitReceived, AgreedAlways, MatchAlways, TrackedAlways, PTL DEF Spec, System

\* With nothing unfinished, an installed product's files say the same, in every target
\* the user left alone.
LEMMA AtRest ==
    ASSUME System, Incomplete = {}, receipt[Subject] # None
    PROVE  /\ \A k \in EntriesOf(receipt[Subject]) \ edited : Intact(receipt[Subject], k)
           /\ receipt[Subject].revision <= registry.revision
<1>1. DecidedReceipt = receipt /\ DecidedRegistry = registry /\ Matched(registry, runtime)
    BY DEF DecidedReceipt, DecidedRegistry, System, MatchInv
<1>2. Subject \in Products
    BY SubjectAssumption
<1>3. ASSUME NEW k \in EntriesOf(receipt[Subject]) \ edited
      PROVE  Intact(receipt[Subject], k)
    <2>1. k \in Keys /\ receipt[Subject].current.digest[k] # None
        BY DEF EntriesOf
    <2>2. /\ registry.claims[k][Subject] # None
          /\ registry.digest[k] = receipt[Subject].current.digest[k]
        BY <1>1, <1>2, <2>1 DEF System, Agreed
    <2> QED
        BY <1>1, <1>2, <2>1, <2>2 DEF Matched, Claimed, Intact
<1> QED
    BY <1>1, <1>2, <1>3 DEF System, NotAhead

LEMMA ConsistentAtRest ==
    ASSUME System, Incomplete = {}, receipt[Subject] # None, edited = {}
    PROVE  Consistent
BY AtRest DEF Consistent, Intact

LEMMA NoFalseAlarm ==
    ASSUME System, ReaderAt
    PROVE  SettledIsHealthy
<1> SUFFICES ASSUME at = "reported", since = {}, Settled, edited = {}, NEW i \in issues,
                    i.code \notin {"not_installed", "version"}
             PROVE  FALSE
    BY DEF SettledIsHealthy
<1>1. Justified(i) /\ Incomplete = {} /\ receipt[Subject] # None
    BY DEF ReaderAt, InHandIsTrue, Settled, Justified
<1>2. /\ \A k \in EntriesOf(receipt[Subject]) : Intact(receipt[Subject], k)
      /\ receipt[Subject].revision <= registry.revision
    BY <1>1, AtRest
<1>3. receipt[Subject].revision \in Nat /\ registry.revision \in Nat
    <2>1. Typing /\ Subject \in Products
        BY SubjectAssumption DEF System, Tracked, Faultless, Serial
    <2> QED
        BY <1>1, <2>1 DEF Typing, TypeOK, Receipts, Registries
<1>4. i.code = "future"
    BY <1>1, <1>2 DEF Justified, Codes
<1> QED
    BY <1>1, <1>2, <1>3, <1>4 DEF Justified

\* No false alarm: nothing to say of a product at rest whose targets the user left alone,
\* whatever committed, crashed and was recovered before, as long as each product recovers
\* its own transactions and adoptions claim the bytes that are there.
THEOREM SettledAnswersAreHealthy ==
    ASSUME MaxExpiries = 0, MaxFaults = 0
    PROVE  DoctorSpec /\ []OwnRecovery /\ AdoptedBytesMatch => []SettledIsHealthy
<1>1. System /\ ReaderAt => SettledIsHealthy
    BY NoFalseAlarm
<1> QED
    BY <1>1, DoctorIsSpec, SystemAlways, ReaderAlways, PTL

-----------------------------------------------------------------------------
(* A healthy answer beside transactions.                                   *)

\* A receipt goes by a rollback alone.
LEMMA ReceiptGoes ==
    ASSUME MaxFaults = 0, System, [Next]_vars,
           receipt[Subject] # None, receipt'[Subject] = None
    PROVE  \E p \in Procs : pc[p] \in RollbackSteps /\ pc'[p] # pc[p]
<1>0. /\ WriteResults = {"ok"} /\ Typing /\ Subject \in Products
      /\ receipt \in [Products -> Receipts \cup {None}] /\ pc \in [Procs -> Points]
    BY NoFault, SubjectAssumption DEF System, Tracked, Faultless, Serial, Typing, TypeOK
<1>1. PICK p \in Procs : PublishReceipt(p) \/ RestoreReceipt(p)
    BY ReceiptWrites
<1>2. ~PublishReceipt(p)
    <2> SUFFICES ASSUME PublishReceipt(p) PROVE FALSE
        OBVIOUS
    <2>1. pc[p] \in TxSteps \ RollbackSteps
        BY DEF PublishReceipt, TxSteps, CommitSteps, RollbackSteps
    <2>2. NewReceipt(p) # None
        BY <1>0, <2>1, NewReceiptIsOne
    <2>3. receipt' = [receipt EXCEPT ![ProductOf[p]] = NewReceipt(p)]
        BY <1>0 DEF PublishReceipt, Landed
    <2> QED
        BY <1>0, <2>2, <2>3
<1>3. RestoreReceipt(p)
    BY <1>1, <1>2
<1>4. pc[p] = "rb_receipt" /\ pc'[p] = "rb_journal"
    BY <1>0, <1>3 DEF RestoreReceipt, Goto
<1> QED
    BY <1>4 DEF RollbackSteps

\* As long as no rollback was seen the receipt in hand has not gone, and a healthy
\* answer is true, or no transaction of the product was ever committed.
HealthyAt ==
    /\ at \in {"entries", "journals"} /\ "rollback" \notin since => receipt[Subject] # None
    /\ at = "reported" /\ issues = {} /\ "user" \notin since /\ edited = {}
          => sound \/ ("rollback" \in since /\ ~Installed)

\* With the product installed and nothing unfinished there is a receipt.
LEMMA InstalledHasReceipt ==
    ASSUME System, Incomplete = {}, Installed
    PROVE  receipt[Subject] # None
BY DEF System, Received, Committed, Installed, DecidedReceipt

\* The step that makes the first commit of a product ends its transaction.
LEMMA FirstCommit ==
    ASSUME MaxFaults = 0, System, [Next]_vars, ~Installed, Installed'
    PROVE  Incomplete' = {}
<1>0. Faultless
    BY DEF System, Tracked
<1>1. PICK t \in TxIds : journal'[t].status = "committed" /\ journal'[t].product = Subject
    BY DEF Installed
<1>2. t \in Committed'
    BY <1>1 DEF Committed
<1>3. ASSUME journal'[t].product = journal[t].product PROVE t \notin Committed
    BY <1>1, <1>3 DEF Installed, Committed
<1>4. ~UNCHANGED <<registry, receipt, journal>>
    BY DEF Installed
<1>5. ASSUME NEW p \in Procs, NEW x \in TxIds, Begun(p, x) PROVE FALSE
    BY <1>0, <1>2, <1>3, <1>5, BegunJournal
<1>6. ASSUME NEW p \in Procs, Within(p) PROVE FALSE
    BY <1>0, <1>2, <1>3, <1>6, WithinJournal
<1>7. ASSUME NEW p \in Procs, Decides(p, "commit", "committed") \/ Decides(p, "rb_journal", "rolled_back")
      PROVE  Incomplete' = {}
    BY <1>0, <1>7, DecidesJournal DEF TxSteps, CommitSteps, RollbackSteps
<1> QED
    BY <1>0, <1>4, <1>5, <1>6, <1>7, StepKinds DEF StepKind

RestIsConsistent == Incomplete = {} /\ Installed /\ edited = {} => Consistent

LEMMA SystemAtRest == System => RestIsConsistent
BY InstalledHasReceipt, ConsistentAtRest DEF RestIsConsistent

LEMMA HealthySystemStep ==
    ASSUME MaxFaults = 0, System, RestIsConsistent', HealthyAt, SystemStep
    PROVE  HealthyAt'
<1>0. [Next]_vars /\ UNCHANGED <<at, issues>> /\ since \subseteq since' /\ (sound => sound')
    BY SinceGrows DEF SystemStep
<1>1. ASSUME at \in {"entries", "journals"}, "rollback" \notin since'
      PROVE  receipt'[Subject] # None
    <2>1. receipt[Subject] # None
        BY <1>0, <1>1 DEF HealthyAt
    <2> SUFFICES ASSUME receipt'[Subject] = None PROVE FALSE
        OBVIOUS
    <2>2. PICK p \in Procs : pc[p] \in RollbackSteps /\ pc'[p] # pc[p]
        BY <1>0, <2>1, ReceiptGoes
    <2>3. files' # files
        BY <2>1 DEF files
    <2> QED
        BY <1>1, <2>2, <2>3, RollbackSeen
<1>2. ASSUME at = "reported", issues = {}, "user" \notin since', edited' = {}
      PROVE  sound' \/ ("rollback" \in since' /\ ~Installed')
    <2>1. "user" \notin since /\ edited = {}
        BY <1>0, <1>2, TreeSteps DEF System
    <2>2. CASE sound
        BY <1>0, <2>2
    <2>3. CASE "rollback" \in since /\ ~Installed
        <3> SUFFICES ASSUME Installed' PROVE sound'
            BY <1>0, <2>3
        <3>1. Incomplete' = {}
            BY <1>0, <2>3, FirstCommit
        <3>2. Consistent'
            BY <1>2, <3>1 DEF RestIsConsistent
        <3> QED
            BY <1>2, <3>2 DEF SystemStep
    <2> QED
        BY <1>2, <2>1, <2>2, <2>3 DEF HealthyAt
<1> QED
    BY <1>0, <1>1, <1>2 DEF HealthyAt

LEMMA HealthyReadReceipt ==
    ASSUME ReadReceipt
    PROVE  HealthyAt'
<1> DEFINE r == receipt[Subject]
           missing == r = None \/ r.product # Subject \/ EntriesOf(r) = {}
<1>1. /\ at' = IF missing THEN "reported" ELSE "entries"
      /\ missing => issues' = {Issue("not_installed", 0)}
      /\ receipt' = receipt
    BY DEF ReadReceipt, Reads, vars
<1>2. missing => issues' # {}
    BY <1>1
<1> QED
    BY <1>1, <1>2 DEF HealthyAt

LEMMA HealthyReadJournals ==
    ASSUME System, HealthyAt, ReaderAt, ReadJournals
    PROVE  HealthyAt'
<1>1. /\ at = "journals" /\ at' = "reported" /\ sound' = (sound \/ Consistent)
      /\ UNCHANGED <<vars, since>>
      /\ issues' = issues \cup (IF Incomplete # {} THEN {Issue("incomplete", 0)} ELSE {})
    BY DEF ReadJournals, Reads
<1>2. SUFFICES ASSUME issues' = {}, edited' = {}
               PROVE  sound' \/ ("rollback" \in since' /\ ~Installed')
    BY <1>1 DEF HealthyAt
<1>3. Incomplete = {} /\ edited = {} /\ Installed' = Installed
    BY <1>1, <1>2 DEF vars, Installed
<1>4. CASE receipt[Subject] # None
    BY <1>1, <1>3, <1>4, ConsistentAtRest
<1>5. CASE receipt[Subject] = None
    <2>1. "rollback" \in since
        BY <1>1, <1>5 DEF HealthyAt
    <2> QED
        BY <1>1, <1>3, <1>5, <2>1, InstalledHasReceipt
<1> QED
    BY <1>4, <1>5

LEMMA NextHealthy ==
    ASSUME MaxFaults = 0, System, RestIsConsistent', ReaderAt, HealthyAt, [DoctorNext]_doctorVars
    PROVE  HealthyAt'
<1>1. CASE UNCHANGED doctorVars
    BY <1>1 DEF doctorVars, vars, reader, HealthyAt, Installed
<1>2. CASE ReadRegistry \/ UseReport
    BY <1>2 DEF ReadRegistry, UseReport, Reads, HealthyAt
<1>3. CASE VerifyEntry
    <2>1. at = "entries" /\ at' \in {"entries", "journals"} /\ UNCHANGED <<receipt, since>>
        BY <1>3 DEF VerifyEntry, Reads, vars
    <2> QED
        BY <2>1 DEF HealthyAt
<1> QED
    BY <1>1, <1>2, <1>3, HealthyReadReceipt, HealthyReadJournals, HealthySystemStep
       DEF DoctorNext

LEMMA InitHealthy == ReaderInit => HealthyAt
BY DEF ReaderInit, HealthyAt

LEMMA HealthyAnswer == ReaderAt /\ HealthyAt => HealthyWasTrue
BY DEF ReaderAt, HealthyAt, HealthyWasTrue

\* Doctor takes no lock and composes its answer of reads from different moments, while
\* transactions are applied, rolled back, interrupted by crashes and recovered.  A healthy
\* answer is nevertheless true of one moment of the call, with the premises under which
\* the files agree at rest.
THEOREM HealthyAnswersWereTrue ==
    ASSUME MaxExpiries = 0, MaxFaults = 0
    PROVE  DoctorSpec /\ []OwnRecovery /\ AdoptedBytesMatch => []HealthyWasTrue
<1>1. System /\ RestIsConsistent' /\ ReaderAt /\ HealthyAt /\ [DoctorNext]_doctorVars
         => HealthyAt'
    BY NextHealthy
<1> QED
    BY <1>1, InitHealthy, HealthyAnswer, SystemAtRest, DoctorIsSpec, SystemAlways, ReaderAlways,
       PTL DEF DoctorSpec

\* A product on its own that adopts nothing needs no premise on the behaviour.
THEOREM HealthyAnswersWereTrueAlone ==
    ASSUME MaxExpiries = 0, MaxFaults = 0, \A q, r \in Products : q = r,
           \A q \in Products : Legacies[q] = {}
    PROVE  DoctorSpec => [](HealthyWasTrue /\ SettledIsHealthy)
<1>1. Faultless => OwnRecovery
    BY AloneOwnRecovery
<1> QED
    BY <1>1, FaultlessAlways, NothingAdopted, DoctorIsSpec, HealthyAnswersWereTrue,
       SettledAnswersAreHealthy, PTL
=============================================================================
