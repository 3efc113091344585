------------------------------ MODULE DoctorReader ------------------------------
(***************************************************************************)
(* Doctor and CompatibleSkills (manager.go) beside the processes of        *)
(* SkillsTransaction.  The reader takes no lock: the registry, the receipt,*)
(* each target and the journals are read at different moments, and an      *)
(* Apply, its recovery, a crash or the user may come between any two.      *)
(***************************************************************************)
EXTENDS SkillsTransaction

CONSTANTS
    Subject,      \* the product Doctor is asked about
    Expected,     \* versions the caller may be of, and None when it does not say
    Skills,       \* Skill names
    SkillOf       \* the Skill of a key: one Skill may be in several runtimes

ASSUME SubjectAssumption == Subject \in Products /\ SkillOf \in [Keys -> Skills]
ASSUME ExpectedAssumption == Expected \subseteq Versions \cup {None}

VARIABLES
    at,           \* how far the caller is
    seen,         \* the registry and the receipt Doctor holds
    toVerify,     \* receipt entries still to look at
    issues,       \* report.Issues: a code, and the key when the issue names a Skill
    since,        \* ghost: what changed files since Doctor read the registry
    sound         \* ghost: since then there was a moment without inconsistency

reader == <<at, seen, toVerify, issues, since, sound>>
doctorVars == <<vars, reader>>

Codes == {"not_installed", "version", "future", "disagree", "unclaimed", "drift", "incomplete"}

Issue(code, k) == [code |-> code, key |-> k]

\* The entries of a receipt
EntriesOf(r) == {k \in Keys : r.current.digest[k] # None}

\* The product is installed, and its receipt, claims and bytes agree right now.
Consistent ==
    LET r == receipt[Subject]
    IN  /\ r # None
        /\ \A k \in EntriesOf(r) :
              /\ registry.claims[k][Subject] # None
              /\ r.current.digest[k] = registry.digest[k]
              /\ r.current.digest[k] = runtime[k]

ReaderTypeOK ==
    /\ at \in {"idle", "receipt", "entries", "journals", "reported"}
    /\ seen \in [registry: Registries, receipt: Receipts \cup {None}]
    /\ toVerify \subseteq Keys
    /\ issues \subseteq [code: Codes, key: Keys \cup {0}]
    /\ since \subseteq {"apply", "rollback", "user"}
    /\ sound \in BOOLEAN

NothingSeen == [registry |-> EmptyRegistry, receipt |-> None]

ReaderInit ==
    /\ at = "idle" /\ seen = NothingSeen /\ toVerify = {} /\ issues = {}
    /\ since = {} /\ sound = FALSE

\* Doctor's own steps change no file.
Reads(from, to) ==
    /\ at = from
    /\ at' = to
    /\ sound' = (sound \/ Consistent)
    /\ UNCHANGED <<vars, since>>

\* Doctor: loadRegistry
ReadRegistry ==
    /\ Reads("idle", "receipt")
    /\ seen' = [seen EXCEPT !.registry = registry]
    /\ UNCHANGED <<toVerify, issues>>

\* Doctor: loadReceipt, and what is compared of the two files as a whole;
\* expected is the identity of the running release, or nil.
ReadReceipt ==
    LET r == receipt[Subject]
        missing == r = None \/ r.product # Subject \/ EntriesOf(r) = {}
    IN  /\ Reads("receipt", IF missing THEN "reported" ELSE "entries")
        /\ seen' = [seen EXCEPT !.receipt = r]
        /\ toVerify' = IF missing THEN {} ELSE EntriesOf(r)
        /\ \E expected \in Expected :
              issues' =
                 IF missing THEN {Issue("not_installed", 0)}
                 ELSE {Issue(c, 0) : c \in
                          (IF r.revision > seen.registry.revision THEN {"future"} ELSE {})
                          \cup (IF expected \notin {None, r.current.version}
                                THEN {"version"} ELSE {})}

\* Faulty: the bytes are looked at only when the registry has no claim.
EntryIssuesUnclaimed(k, wanted) ==
    IF seen.registry.digest[k] # wanted THEN {"disagree"}
    ELSE IF seen.registry.claims[k][Subject] # None THEN {}
    ELSE {"unclaimed"} \cup (IF runtime[k] # wanted THEN {"drift"} ELSE {})

\* What Doctor has to say of one receipt entry
EntryIssues(k, wanted) ==
    IF seen.registry.digest[k] # wanted THEN {"disagree"}
    ELSE (IF seen.registry.claims[k][Subject] = None THEN {"unclaimed"} ELSE {})
         \cup (IF runtime[k] # wanted THEN {"drift"} ELSE {})

\* Doctor: the next receipt entry, against the registry in hand and the runtime
VerifyEntry ==
    /\ toVerify # {}
    /\ LET k == Min(toVerify)
       IN  /\ Reads("entries", IF toVerify = {k} THEN "journals" ELSE "entries")
           /\ toVerify' = toVerify \ {k}
           /\ issues' = issues \cup
                 {Issue(c, k) : c \in EntryIssues(k, seen.receipt.current.digest[k])}
    /\ UNCHANGED seen

\* Doctor: incompleteTransactionPaths, and the report is returned
ReadJournals ==
    /\ Reads("journals", "reported")
    /\ issues' = issues \cup (IF Incomplete # {} THEN {Issue("incomplete", 0)} ELSE {})
    /\ UNCHANGED <<seen, toVerify>>

\* Faulty: an issue blocks its own entry, not the Skill.
BlockedEntry(k) == \E i \in issues : i.key = k

\* CompatibleSkills: blocked[entry.Skill]
Blocked(k) == \E i \in issues : i.key # 0 /\ SkillOf[i.key] = SkillOf[k]

\* CompatibleSkills, of the report and a receipt
CompatibleSkills(r) ==
    IF r = None \/ \E i \in issues : i.code \in {"version", "not_installed"} THEN {}
    ELSE {SkillOf[k] : k \in {e \in EntriesOf(r) : ~Blocked(e)}}

\* The caller reads the receipt again, asks CompatibleSkills, and is done.
UseReport ==
    /\ at = "reported"
    /\ at' = "idle" /\ seen' = NothingSeen /\ toVerify' = {} /\ issues' = {}
    /\ since' = {} /\ sound' = FALSE
    /\ UNCHANGED vars

\* A step of the system, and what the ghosts see of it
SystemStep ==
    /\ Next
    /\ IF at = "idle" THEN UNCHANGED <<since, sound>>
       ELSE /\ since' = since \cup
                   {cause \in {"apply", "rollback", "user"} :
                       /\ files' # files
                       /\ (cause = "user") <=> (pc' = pc)
                       /\ (cause = "rollback") <=>
                             \E p \in Procs : pc[p] \in RollbackSteps /\ pc'[p] # pc[p]}
            /\ sound' = (sound \/ Consistent')
    /\ UNCHANGED <<at, seen, toVerify, issues>>

DoctorNext ==
    ReadRegistry \/ ReadReceipt \/ VerifyEntry \/ ReadJournals \/ UseReport \/ SystemStep

DoctorSpec == Init /\ ReaderInit /\ [][DoctorNext]_doctorVars

-----------------------------------------------------------------------------
(* Properties *)

\* The product has committed a transaction.
Installed == \E t \in TxIds : journal[t].status = "committed" /\ journal[t].product = Subject

\* Doctor composes its answer of reads taken while an Apply moves directories,
\* publishes, crashes or is rolled back.  A healthy answer is still true of some
\* moment of the call at which receipt, claims and bytes agreed: when the user wrote
\* nothing during it, nor before it when a transaction was at work during it, and no
\* transaction was undone during it that would have been the product's first.
HealthyWasTrue ==
    /\ at = "reported" /\ issues = {}
    /\ "user" \notin since
    /\ since # {} => edited = {}
    /\ "rollback" \in since => Installed
    => sound

\* Without the last two conditions it is not so.  Doctor sees one target before a
\* transaction changes it, and another one repaired by that transaction, whose
\* rollback takes the repair back; or it sees the receipt of a first transaction that
\* is being undone, and the targets of the next one, which is undone as well.
HealthyIsTrue ==
    at = "reported" /\ issues = {} /\ "user" \notin since => sound

\* No false alarm: when nothing changed during the call, no transaction is in
\* flight, and no user touched the targets, Doctor has nothing to say but that
\* the product is not installed or is another version: whatever commits,
\* crashes, rollbacks and recoveries came before.
SettledIsHealthy ==
    at = "reported" /\ since = {} /\ Settled /\ edited = {}
        => \A i \in issues : i.code \in {"not_installed", "version"}

\* A Skill CompatibleSkills lets through is intact in every runtime the receipt
\* names it in, when nothing changed since Doctor began: a bad copy in one
\* runtime takes the Skill out, although an unfinished transaction alone does not.
CompatibleAreIntact ==
    at = "reported" /\ since = {} =>
        LET r == receipt[Subject]
        IN  r # None =>
              \A k \in EntriesOf(r) :
                 SkillOf[k] \in CompatibleSkills(r)
                 => /\ runtime[k] = r.current.digest[k]
                    /\ registry.digest[k] = r.current.digest[k]
                    /\ registry.claims[k][Subject] # None
=============================================================================
