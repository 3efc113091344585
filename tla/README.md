# TLA+ project for agent-skills-runtime

`agent-skills-runtime` is a Go library that product CLIs use to install Agent
Skills (directories of text files) into the runtime homes of a user. Several
CLIs share one state directory, `~/.yeisme/agent-skills`, and no server: each
call of the library reads and writes files, under one lock, and must leave the
registry, the receipts and the runtime directories consistent whatever other
processes, the user, failing calls and crashes do. A release reaches that point through a
download, an archive and a bundle that are checked file by file. This project
specifies both halves, model-checks them on small instances, and proves the
invariants they rest on for all instances.

## 1. Inventory

### Components, their state and their operations

| Component | Code | State | Operations |
| --- | --- | --- | --- |
| Planner | `manager.go` 20-211 | none; reads receipt, registry, runtime directories | `PlanInstall`, `PlanUninstall`, `PlanRollback`, `PlanLegacyAdoption`, `evaluatePlan` |
| Apply and transactions | `manager.go` 214-250, `transaction.go` | `registry.json`, one receipt per product, `transactions/<id>` (journal, two snapshots, backups), `store/sha256`, runtime directories | `Apply`: acquire, recover, recheck, `commitPlan` (journal, stage, project, mutate, publish registry, publish receipt, commit), `rollbackTransaction` |
| Registry lock | `state.go` 288-361 | the directory `registry.lock` with `owner.json` | `acquireLock`, `reapStaleLock`, `assertOwned`, `release` |
| State files | `state.go` 133-269, `jsonio.go` | files | `loadRegistry`, `loadReceipt`, `writeJSONAtomic`, `replaceFile`, `syncDir` |
| Skill directories | `fs.go`, `digest.go` | directories | `inspectSkillDir`, `verifySkillDir`, `copySkillDir`, `moveDir` |
| Doctor | `manager.go` 253-328 | none; reads everything without the lock | `Doctor`, `CompatibleSkills` |
| Runtime detection and paths | `runtime.go`, `state.go` 18-121 | none | `DetectRuntimes`, `ResolveRuntimes`, `NewManager` |
| Bundle validation | `bundle.go`, `assets.go` | none | `LoadBundle`, `Validate`, manifest and catalog files |
| Dist release | `dist.go` | a staging directory | `ResolveDistRelease` and its cleanup |
| Catalog | `catalog.go` | none | `List`, `Describe`, `Search`, `Suggest` |
| Contracts and errors | `contracts.go`, `errors.go` | record types | |

### Interactions

Processes never talk to each other. They meet in the files: the lock directory
orders the calls of `Apply`; the registry revision tells a plan made earlier
whether it is stale; an unfinished journal tells the next `Apply`, of whatever
product, to undo what a crashed one left. Users and other programs write to the
runtime directories without the lock. Planning and Doctor read without it.

### What is hard

- Five kinds of durable state change one after the other in a commit, and a
  crash or an error may fall between any two.
- A rollback runs the same moves backwards, may fail or crash itself, and is run
  again, possibly by another product.
- Plans are computed before the lock is taken and compared with a fresh
  evaluation under it; what happens between that evaluation and the moves is
  seen by nobody.
- The lock is a directory found by path. Every call on it acts on whichever
  directory is there at that moment, and the age of a record is the only sign
  that its owner died.
- A write may report an error after it took effect, and a move across devices is a
  copy and a removal, file by file.
- A path is resolved when a target is asked for and again before it is changed, and
  the user may move the directory and leave a link in between.
- The five assets of a release are downloaded one by one while its tag may be
  replaced, and whatever is packed in the archive is written before it is compared
  with the manifest.

PROJECT.json lists these hazards one by one with their lines.

### What makes each component correct

| Component | Properties |
| --- | --- |
| Lock | a holder keeps its record; once it is out of the directory the holder never passes `assertOwned` again; `acquireLock` returns; the lock of a dead holder goes away; it implements a lock with one holder |
| Transactions | one unfinished transaction at a time; originals never lost; rollback restores; registry and receipts agree; one revision per commit; `Apply` is one atomic step; `Apply` returns and its result is true |
| Planner | other products' claims and shared bytes kept; drift and user bytes kept |
| State files | the old content is at the path or beside it until the whole new one is there |
| Skill directories | the original is complete in one place, and a rollback or a commit is whole, unless the original is taken for the result (section 3); user files are not overwritten; moves end |
| Doctor | a healthy answer was true of one moment, but for edits and undone transactions in between (section 3); no false alarm in a settled system; compatible Skills are intact |
| Bundle and dist release | what is accepted is one build and exactly what it declares; nothing outside `skills/`, nothing past the limits; no sound release within the limits refused |
| Catalog | results do not depend on the order of the entries; suggestions are the most relevant compatible ones |
| Runtime paths | only reviewed places below the allowed roots change; a claim's bytes stay in its own directory |

## 2. Modules

| Module | What it is |
| --- | --- |
| `InstallPlanner` | `evaluatePlan` and `projectRegistry` as operators on a registry and a runtime tree, and the record types |
| `SkillsTransaction` | the state machine of planning and `Apply`; EXTENDS `InstallPlanner` |
| `AtomicApply` | the abstract specification: registry and receipt change in one step |
| `SkillsTransactionRefinement` | the refinement mapping from `SkillsTransaction` to `AtomicApply` |
| `DocumentedClaims` | claims of the documents, comments and messages that the code does not keep |
| `RegistryLock` | the lock directory, one file-system call a step |
| `LockService` | the abstract specification of the lock |
| `DoctorReader` | `Doctor`, `CompatibleSkills` and their caller, an unlocked reader; EXTENDS `SkillsTransaction`, whose steps come between any two reads |
| `AtomicFile` | `writeJSONAtomic`, `replaceFile` and `syncDir`, one file-system call a step |
| `TargetFiles` | one target of a transaction file by file: the moves with their copy fallback, mutation, rollback and recovery; EXTENDS `AtomicFile` for the journal |
| `BundleInventory` | directory trees, `InventorySkillDirectory` and `Bundle.Validate` as operators |
| `CatalogSearch` | `Search`, `Suggest` and `scoreCatalogEntry` as operators |
| `DistRelease` | the state machine of `ResolveDistRelease` and of the publisher; EXTENDS `BundleInventory` and `CatalogSearch` |
| `RuntimePaths` | plans, `Apply` and rollback on directories the user moves and links |
| `MC...` | constants for TLC, one module for each state machine |
| `SkillsTransactionProofs` | type correctness of `SkillsTransaction`, lock discipline, one transaction at a time, other products' claims and true outcomes, proved |
| `SkillsTransactionRefinementProofs` | the refinement of `AtomicApply`, revisions and receipts, proved |
| `SkillsTransactionTreesProofs` | what is in targets and backups: user bytes, originals, restoring rollbacks, the runtime against the registry, shared bytes, proved |
| `DoctorReaderProofs` | the answers of `Doctor` and `CompatibleSkills`, proved |
| `RegistryLockProofs` | the refinement of `LockService` and the safety of the lock directory, proved |
| `TargetFilesProofs` | the theorems of section 4 about `AtomicFile` and `TargetFiles`, proved |
| `DistReleaseProofs` | those about `DistRelease`, `BundleInventory` and `CatalogSearch`, proved |
| `RuntimePathsProofs` | those about `RuntimePaths`, proved |

Operators marked "Faulty" stand next to the definition they are a variant of.
No specification uses them: each is a plausible mistake in that piece of code,
and PROJECT.json says which property notices it.

### How the state corresponds to the code

- A *key* is one (runtime, skills directory, Skill) triple; keys are numbered in
  the order of `registryKey`, so a sorted list of entries is a function on keys.
- A Skill *tree* is its digest. `verifySkillDir` compares the whole inventory, so
  trees differ for the code exactly when digests do. `UserBytes` is any directory
  that matches no known digest (also one that cannot be read, which the code
  treats like a difference); `None` is a missing directory.
- `ProductIdentity` is a *version*; claims and receipts carry it. `transaction_id`
  and times in claims, which nothing compares, are left out.
- `registry`, `receipt[q]`, `runtime[k]`, `store`, `journal[t]`, `backup[t][k]` are
  the files. `journal[t]` holds `journal.json` and the two `-before` files.
- `pc[p]` is where a process is between two file-system effects; `plan[p]` and
  `job[p]` are its local variables: the reviewed plan, the journal in memory, the
  mutations still to make or undo, the recovery list, the registry in hand.
- `edited` and `origin` are ghosts: which targets a user touched, and the tree
  each transaction found.
- Every action of `SkillsTransaction` is one effect with the checks before it and
  the error path after it. A write of JSON is `"ok"`, `"lost"` or `"late"` (in
  place although an error is returned); moves and copies are `"ok"` or `"lost"`.
- In `RegistryLock`, `dir` is the directory at the lock path: an identity, the
  token that made it, the token in `owner.json`, and whether that record is older
  than `StaleLockAfter`. `temp[p]` is the directory a process has a temporary file
  in; a directory with one cannot be removed by `RemoveAll`'s last call. `aside[p]` is
  the record the process renamed to `owner.json.backup-*` in the fallback of
  `replaceFile`, with the directory it is in. The calls of `writeJSONAtomic` are steps of
  their own here, and not those of `AtomicFile`, because each goes to whichever directory
  is at the path.
- In `DoctorReader`, `at` is how far the caller is and `seen`, `toVerify`, `issues`
  are Doctor's local variables; `since` and `sound` are ghosts: what kinds of change (an
  Apply, a rollback, a user's) came since the first read, and whether receipt, claims and bytes agreed at some moment since.
- In `AtomicFile`, `file`, `temp` and `aside` are the path, the temporary file and
  `<path>.backup-*`. In `TargetFiles` that file is `journal.json`; `tree` holds the trees
  at the target and the backup, `mode` and `left` are how far `moveDir` is, and
  `memory` is the journal of the process. A file is old, new, the user's, cut short
  or not there. `mistaken` is a ghost: a rollback found the original, not yet in the
  backup and with the bytes of the result, and took it for the result.
- In `BundleInventory` a path is the sequence of its names and a tree a function from
  paths; a digest is the content it is the digest of, so the digest of a Skill is the
  set of its (path, content) pairs. `DistRelease` has `mirror` and `uploading` for the
  publisher, and `got`, `stage`, `entry`, `bytes` for the variables of
  `ResolveDistRelease`. A content has a size, an asset a length to download. `Discard` is
  the cleanup on the way out of an error, `Cleanup` the consumer's; the `RemoveAll` of both
  may fail and leave what it did not reach.
- In `CatalogSearch` an entry says which of its fields each term of a query is, or is a
  part of; everything after that, the weights and what excludes what, is the code's.
- In `RuntimePaths`, `link` is what each path resolves to and `bytes` what is in each
  place; a key is a runtime and a place, for one product and one Skill.

### Abstractions, and why they keep the behaviour

- `SkillsTransaction` sees the lock as `LockService` describes it, plus
  `MaxExpiries` for live holders that are reaped. `RegistryLock` shows the directory
  protocol implements that abstraction, and where it does not.
- `assertOwned` and the write after it are one step of `SkillsTransaction`. The lock
  can still be lost before the check and after the write; the moment between the
  two is in `RegistryLock` (`AssertOwned`, `Act`).
- `RemoveAll` of a Skill tree, and `moveDir`, are single steps of `SkillsTransaction` that
  succeed or leave the source; `TargetFiles` opens them up: its `OriginalInOnePlace` and
  `RolledBackIsWhole` say what the coarser step takes for granted. Writes of JSON are
  opened up in `AtomicFile` in the same way.
- `TargetFiles` has one target and no lock. Registry and receipt, which no mutation of a
  target reads, are not in it; `StageTarget`, the copy next to the target, is one step
  because what it leaves behind has a random name.
- `RuntimePaths` has no lock, store or crash: those are `SkillsTransaction`'s. A rollback
  that stops leaves `"incomplete"`, where the module ends. Links are one deep.
- In `DistRelease` the limits are small numbers, those of the downloads
  (`DistMaxBundleBytes`, `DistMaxMetadataBytes`) and those of the extraction, and the
  publisher replaces assets in any order. What a product's workflow does is outside of this
  repository: `BuiltOf` says what it makes of the directories of its Skills, in terms of
  `InventorySkillDirectory`, and `SourceOf` which releases were made so. A download that ends early is `checksums.txt` with a line
  missing, or a content that matches nothing. Options and URLs are validated before
  the first download and left out.
- JSON that is in place can be parsed: every file is written by this library through
  `writeJSONAtomic`.
- Transaction directories are read in the order of their random names: recovery
  picks any.
- Input validation (`validateSnapshot`, `validatePlan`) is an assumption on `Bundles` and
  `Legacies` of `SkillsTransaction`, except for the checks of paths, which are in
  `RuntimePaths`; `Bundle.Validate` is in `BundleInventory`.

## 3. Runs

All bounds are constants of the configuration. Deadlock is not checked because the
system really stops: when the calls of `Apply` (or of `acquireLock`) a
configuration allows are used up, nothing is left to do.

Two processes are enough for the file protocol, because two critical sections and
one outsider (the user) already interleave; two keys, because the order between
mutations, and one changed while another is not, need two; two versions and two
digests, because replacing needs an old and a new one. Three applies give
"install, replace, and recover or roll back".

| Run | Instance | States | Shows |
| --- | --- | --- | --- |
| `crash` | one product, 3 applies, 2 crashes | 969k | typing, exclusion, `InFlightIsOwn`, rollback restores, receipt and registry agree, `ImplementsAtomicApply` |
| `share` | two products, 4 applies | 48k | `SharedBytesKept`, `ImplementsAtomicApply` |
| `fault` | one product, 3 applies, one failed call, fairness | 262k | `OriginalsKept`, `OutcomeIsTrue`, rollback restores, `ApplyTerminates` |
| `drift` | 2 applies, legacy trees, a crash, a user edit, a live holder reaped | 1.54M | `UserBytesKept`: the user's bytes are moved, not deleted, even with two holders; `RuntimeMatchesRegistry` |
| `cross` | two products, 3 applies, a crash | 133k | recovery by another product keeps the runtime, the revisions and the other claims |
| `lock_crash` | 2 processes, a crash, two failed calls, 3 rounds, fairness | 1.8k | `HolderKeepsRecord`, `ImplementsLockService`, `AcquireReturns`, `DeadHolderReaped` |
| `lock_steal` | live holders age, a crash, a failed call | 111k | `LossIsFinal` |
| `doctor` | one process, 3 applies, a crash, an edit, beside Doctor | 4.0M | `HealthyWasTrue`, `SettledIsHealthy`, `CompatibleAreIntact` |
| `files` | 3 files, an upgrade, a removal, an install and results equal to the original; 2 failed calls, 2 crashes, an edit; fairness | 116k | `OriginalInOnePlace`, `RolledBackIsWhole`, `CommittedIsWhole`, `UserFilesKept`, `ContentReplacedWhole`, `MoveEnds` |
| `dist` | some ninety releases, good ones and every single mistake of a list; a tag replaced once, a failed call | 317k | `OneBuild`, `AcceptedIsExact`, `ExtractionContained`, `NoFalseReject`, `SearchIgnoresOrder`, `SuggestKeepsBest` |
| `paths` | 2 runtimes, 4 places of which 3 allowed, 3 plans, 2 links, an edit | 5.2M | `ReviewedPlacesOnly`, `ClaimsHold` |

`lock_crash` has two processes so that one contender is left after the crash: with
more, `v_reap_race` shows, the reaper of an old record may move aside the lock the
other has just made, and the abstract lock is not implemented. So in this run no reaper
is late and no `RemoveAll` meets another process's lock: what `HolderKeepsRecord` and
`ImplementsLockService` say of more processes is in the theorems, on their premise.
`lock_steal` is where locks change hands under their holders. `ReceiptRegistryAgreement`
is not among the properties of `cross` for the reason `v_cross_receipt` shows, and no
passing run of `SkillsTransaction` combines faults and crashes, for the reason
`v_torn_commit` shows.
A fault without a crash still exercises recovery: a first journal write that reports
a late error, and a rollback that fails, leave a journal for the next `Apply`.
`RuntimeMatchesRegistry` holds as long as no live holder was reaped (its definition says
so); `drift` has the reaped holder for `UserBytesKept`.

One crash is enough for `doctor`: the hazard is one transaction seen between two of its
steps, or its recovery. Two failed calls in `files` are the fewest that break the move
and then the call that repairs it. Three files are one every release has, one an
upgrade drops, and one only the user has, copied in this order. In `dist`, sizes 0 to 4
stand at, below and above the limit 3 of a file and 7 of all, an archive of six files is one
past the limit on entries, the archive and the manifest of one release are as long as a
download may be and those of two others are longer; each wrong release has one mistake, so
that no other check hides the one it is about. In `paths` a link and a second one between
two checks are the shortest history that leads back to a place, and a third plan is what
releases the claim of a moved directory.

### Run that shows a disagreement

It checks one documented claim, and TLC finds a behaviour of the code that breaks it;
PROJECT.json quotes the claim.

| Run | Property | In short |
| --- | --- | --- |
| `v_cross_receipt` | `ReceiptRegistryAgreement` | recovery writes the receipt of the recovering product, not of the transaction's |

### Configurations kept beside the runs

Other disagreements between what the documents, comments and messages say and what the
code does. They are not part of the list of runs; `tlc -config MC_<name>.cfg
MCSkillsTransaction` (`MCRegistryLock` for `v_reap_race`, `v_record_returns` and
`v_ownerless`, `MCRuntimePaths` for `v_alias`) gives the counterexample in seconds.

| Configuration | Property | Claim | What the code does |
| --- | --- | --- | --- |
| `v_wedged` | `RecoveryFailsOnlyAfterEdits` | architecture.md:75, recovery fails closed when the user changed a target | a crash between journalling a mutation and its backup blocks every later Apply |
| `v_torn_commit` | `ReceiptRegistryAgreement` | architecture.md:74, an error or a crash restores runtime, registry and receipt | a failed last write undoes a committed transaction, and a crash during that leaves half of each, for good |
| `v_reap_race` | `LiveLockKept` | architecture.md:35, a live lock is not taken away at once | the slower of two reapers takes a fresh lock away |
| `v_alias` | `ClaimedBytesStay` | architecture.md:40 and 48, an entry is a runtime with its canonical directory, which goes with the last claim | a link makes two runtimes' directories one, with two entries; releasing one removes the bytes of both |
| `v_original_lost` | `OriginalsKept` | architecture.md:74, a rollback restores the runtime | as `v_wedged`, and the unmanaged original has the plan's digest: recovery takes it for its own and deletes it |
| `v_revision` | `RevisionMonotonic` | design.md:28, a monotonic revision | a rollback puts the old revision back and it is given out again |
| `v_commit_undone` | `CommittedStays` | the message of transaction.go:165 | a late error of the last journal write undoes a transaction whose journal said committed |
| `v_stolen_lock` | `OnlyTheOwnerCommits` | architecture.md:36, an old owner verifies its token before it goes on | the receipt is written without looking at the token again |
| `v_record_returns` | `RefusedStaysRefused` | architecture.md:36, as above: who is refused has lost the lock | a late writer of `owner.json`, whose directory was moved aside, renames the holder's record away and back in the fallback of `replaceFile`; the holder is refused and then let through |
| `v_rollback_race` | `UserBytesDeletedByUserOnly` | architecture.md:76, new changes are not overwritten | the rollback inspects, a user writes, the rollback deletes by path |
| `v_unreviewed_drift` | `DriftReplacedOnlyWhenReviewed` | spec.md:43, drift is kept unless reviewed | an edit after the recheck is replaced |
| `v_adopt_unverified` | `AdoptedBytesMatch` | manager.go:82 and 132, adopted bytes are the validated ones | a confirmed adoption of other bytes claims them when the store has the digest |
| `v_stale_rollback` | `RollbackRestoresPrevious` | manager.go:70 | the plan mixes an old receipt with a newer revision |
| `v_ownerless` | `AbandonedLockReaped` | architecture.md:35, a stale lock is moved aside | a lock directory without a record is never reaped |

### What the properties leave out

Some properties exempt a case, or would hold although a check were missing. PROJECT.json
says so at the hazards concerned:

- `RevisionCountsCommits` and `ImplementsAtomicApply` would not notice if a stale plan were
  committed (manager.go:234), nor one whose revision number was given out twice
  (`v_revision`): such a commit is whole and counted.
- `OthersClaimsKept` lets a process change the claims of its own product, also when it is
  recovering another product's transaction.
- `LossIsFinal` counts a record that a late writer's fallback has set aside as not lost: it
  may come back (`v_record_returns`). A record that is in no place of the lock directory
  never does.
- `OriginalInOnePlace` and `RolledBackIsWhole` say nothing once a rollback has found the
  original still at the target with the very bytes of the result: the code removes it
  (`v_original_lost`). A reviewed replace of an unmanaged directory makes such
  transactions (manager.go:138-141), and run `files` has them, also those in which the
  original is already in the backup, where it must come back.
- `fault` has no crash and starts without bytes in the targets.
- `CompatibleAreIntact` is about answers with nothing changed since `Doctor` began; a
  receipt that is read later than the report is not looked at.
- `ClaimsHold` leaves out rollbacks that work through a link, and directories that two
  runtimes shared (`v_alias`).
- `ExtractionContained` ends where the removal of the staging directory begins. A failing
  `RemoveAll` leaves it there, and its error is dropped (dist.go:120): that no staging
  directory stays behind is not a property of this code.

### Facts found on the way

Behaviours of the code that no document speaks about, which the models have:

- After a late error of the last journal write the deferred rollback works under a journal
  that says `committed` (transaction.go:161-166, 91-98). When a second call fails during it,
  a partly removed target is left that no recovery looks at. `CommittedIsWhole` is stated
  for executions without such a fault for this reason.
- Between the two renames of `replaceFile` (state.go:243-247) there is no file. A reader
  takes a missing registry for an empty one, and a crash there while the journal is
  written makes recovery pass over the transaction (transaction.go:404): its original
  stays complete in the backup, which is what `OriginalInOnePlace` says, and is not put
  back.
- A healthy answer of `Doctor` may never have been true (`HealthyIsTrue`, `tlc -config
  MC_v_doctor.cfg MCDoctorReader`, some two minutes): it sees one target before a
  transaction changes it, and another, which the user had edited, after that transaction
  has repaired it; then a rollback takes the repair back. The attempt to prove
  `HealthyWasTrue` found a second history, for which TLC needs one crash more than run
  `doctor` has: the receipt Doctor reads is that of a product's first transaction, which
  is being undone; the targets it then sees are those the next transaction puts there,
  which is undone as well, so that a receipt with those targets never was. No document promises more of an unlocked reader, so `HealthyWasTrue`
  leaves these two out and no other.
- `RuntimeMatchesRegistry` and what Doctor says of a settled system need more than a
  settled system: an adoption writes no bytes, and one of a directory that was changed
  after it was read claims bytes that are not there (`v_adopt_unverified`). The theorems
  have `AdoptedBytesMatch` as a premise, or no legacy directories.
- Bytes a user writes into a target another product claims are edits like any other: a
  commit may replace them when its plan does. `SharedBytesKept` is about targets nobody
  edited.
- In `scoreCatalogEntry` a term that is a field and a part of it counts once, as the first
  case that fits; the model's `Base` is an `IF` chain because a `CASE` with overlapping
  guards promises no order.
- A rollback does not resolve its targets again (transaction.go:416-440) as the mutation
  did (transaction.go:320): through a link made in between it works where the link
  leads, and only the comparison of digests stands before the removal.
- A link the user makes in the place of a claimed directory that is to be released makes
  the mutation fail, so upgrades and uninstalls that release it are rolled back until the
  link is gone.

### Fairness

`SkillsTransaction!FairSpec` is weak fairness of `Step(p)`: a process inside `Apply`
runs on unless it crashes; a crash sends it to `idle`. Nothing is assumed of
planning, of calling `Apply`, of users or of crashes. A waiting contender may time
out at any moment, because `acquireLock` has a deadline and honours its context.
`RegistryLock!FairSpec` is weak fairness of the steps inside `acquireLock` and
`RemoveAll`, and of `Age`: time passes. A holder need not release. The deadline is
a bound on rounds, `MaxTries`. `TargetFiles!FairSpec` is weak fairness of `Effects`, the
calls of the one process that is running; crashes, the next `Apply` and the user are free.
`WF_vars(Effects)` is enough because each point of the code has one next call; it says
nothing about whether that call succeeds.

## 4. Proofs

Proved by TLAPS for every value of the constants that satisfies the assumptions
named in the modules (products, keys and bounds are arbitrary; `None` and `Dead` are
distinct from the values they stand beside):

- `TypeCorrect`: `Spec => []TypeOK`. `TypeOK` is not inductive: an action between
  `begin` and `release` writes `journal[job[p].tx]` and evaluates `plan[p].decisions`,
  which have a value only there. `Typing` adds `InHand`, which says what a process has
  in hand at each point. The lemmas give the types of `Evaluate`, `Project`,
  `Requests` and of the updates the actions are made of; `NextTyping` has one step per
  action.
- `LockSafety`: if `MaxExpiries = 0`, `Spec => []LockDiscipline`. `LockDiscipline` is an
  equivalence, "in the locked part iff holder", and inductive with `Typing`: the
  equivalence gives both that a second process is outside and that the holder is
  inside. Without the assumption it is false, which is what `MaxExpiries` is for.
- `OneTransactionAtATime`: under the same assumption,
  `Spec => [](InFlightIsOwn /\ AtMostOneIncomplete)`. The inductive invariant is
  `Serial`, the conjunction of `Typing`, `LockDiscipline`, `InFlightIsOwn` and
  `AtMostOneIncomplete`. The argument: a process other than the holder changes no
  journal; the holder starts a transaction only when recovery left none; what it
  finds unfinished is on its list until the journal says rolled back.
- `ClaimsOfOthersAreKept`: under the same assumption, `Spec => OthersClaimsKept`, with any
  number of faults, crashes and products. `Serial` is strengthened with `UnderLock`:
  the registry a process projects from is the one on disk, and the copy a transaction
  saved differs from the registry only in the claims of the product it is for, at
  each of its steps and again while it is undone, by whichever process undoes it.
- `OutcomesAreTrue`: under the same assumption, `Spec => []OutcomeIsTrue`. `Reported`
  says, for each step, what the journal on disk and the result in hand have to do with
  each other: `committed` is written before the result becomes a success, and from
  there to the release of the lock nobody else may recover.
- `RevisionsCountCommits`: if `MaxExpiries = 0` and `MaxFaults = 0`,
  `Spec => []RevisionCountsCommits`. `Undecided`: until its last journal write the
  transaction a process is in is the unfinished one. The registry that counts,
  `DecidedRegistry`, is the saved copy of the unfinished transaction, or the one on disk;
  `Revisions` says that its revision is the number of committed journals, and that the
  revisions those began with are below it and differ from each other.
- `ApplyIsAtomic`: with the same two assumptions,
  `Spec /\ []OwnRecovery => ImplementsAtomicApply`. The initial states map to an initial
  state, and `StepKind` sorts the steps: the last journal write of a commit maps to the
  abstract commit, every other step, crashes and recoveries included, leaves the mapped
  registry and receipts alone. While a transaction is unfinished they are those it
  saved, so `Receipted` ties the receipt on disk at each step to the one saved or the
  one wanted. `OwnRecovery` says that whoever rolls back is of the product of the
  transaction. It is a premise because the code does not give it:
  `RestoreReceipt` writes the file of the recovering product, and `v_cross_receipt` is
  the behaviour in which receipts diverge. `ApplyIsAtomicAlone` is the same with one
  product, where it holds by itself.
- `ReceiptsAgree` and `ReceiptsAgreeAlone`: `ReceiptRegistryAgreement` on the premises of
  the two theorems before. It is proved from the refinement: agreement is an invariant
  of `AtomicApply`, and what is mapped is what is on disk once no transaction is
  unfinished.

- `UserBytesAreKept`: `Spec => UserBytesKept` without a premise: failing calls, crashes, lost
  locks and any number of processes at work at once. `BackedUpOnce` is what needs an
  invariant: the place in the backups a process is about to move a target to is empty,
  and is its own, so that a rename never lands on a copy. `MovesKeepCopies` counts: a
  move adds a copy where it removes one, and only the edit of a user and the removal of
  a rollback remove one alone.
- `OriginalsAreKept` and `RollbacksRestore`: if `MaxExpiries = 0` and `MaxFaults = 0`,
  `Spec /\ []ReplacesOtherBytes => []OriginalsKept`, and with `[]OwnRecovery` also
  `=> RolledBackRestores`. `Placed` says of each target of the unfinished transaction what
  its mutation, the tree it began with, the tree at the target and the one in the backup
  have to do with each other (`PlaceAt`), and of each process how far it is along the
  targets: what its review decided is still so (`ReviewAt`), the mutations in memory are
  those on disk (`InMemory`), the targets behind it are changed and those ahead are not
  (`CommitAt`), or the other way round (`UndoAt`). A process that finds the transaction
  later only knows `PlaceAt`, which is enough to undo it. `ReplacesOtherBytes`: no mutation
  puts in place the very bytes it takes away; `v_original_lost` is the behaviour without
  it. `OriginalsAreKeptFromClean` and `RollbacksRestoreAlone` need no premise on the
  behaviour: when targets start missing or with bytes of the user's own, what has the
  digest of a plan is managed, and such a plan leaves it alone (`ManagedInv`).
- `RuntimeMatches`: with the same two assumptions `Spec /\ AdoptedBytesMatch =>
  []RuntimeMatchesRegistry`, for recoveries by any product. `Projections`: the registry a
  transaction publishes is `Project` of the one it saved; `EntriesInv` and `MatchInv`: the
  claimed targets of the decided registry, with the trees the transaction began with,
  match. A commit moves both to the new one key by key, a rollback leaves both, and at
  rest they are what is on disk. `RuntimeMatchesInstalled`: without legacy directories the
  premise holds by itself (`NothingAdopted`).
- `SharedBytesAreKept`: with the same two assumptions `Spec => SharedBytesKept`. A target a
  transaction mutates was reviewed when its plan was evaluated again under the lock; for
  a target somebody else claims that review allows no other digest, and an equal one is
  no mutation.
- `CompatibleSkillsAreIntact`: `DoctorSpec => []CompatibleAreIntact` without a premise.
  `ReaderAt` follows the reader through its unlocked reads: what it has in hand was so when
  it was read, and is so still when nothing changed since (`InHandIsTrue`); each issue it
  raised is `Justified` in the same sense.
- `SettledAnswersAreHealthy` and `HealthyAnswersWereTrue`: if `MaxExpiries = 0` and
  `MaxFaults = 0`, `DoctorSpec /\ []OwnRecovery /\ AdoptedBytesMatch => []SettledIsHealthy` and
  `=> []HealthyWasTrue`. The first joins `ReaderAt` with what the theorems above say of a
  system at rest (`RestIsConsistent`). For the second, `HealthyAt` says that,
  unless a rollback was at work during the call, the reader past the entries has a receipt in
  place, and that an answer of healthy comes with a moment of the call that was consistent
  (or with a rollback that took the product out of the registry). It rests on three facts of
  the system: a decided receipt is of no later revision than the decided registry
  (`NotAhead`), a product that committed has a receipt that counts (`Received`), and the step
  that makes the first commit of a product ends its transaction (`FirstCommit`), so that a
  moment of the call with nothing unfinished is a consistent one.
  `HealthyAnswersWereTrueAlone` has both for one product that adopts nothing, without a
  premise on the behaviour.

The premises are the bounds of the runs that check the same properties: `crash`, `share` and
`cross` have no faults and reap no live holder; `fault` has no crash. What the theorems
add is any number of processes, products, keys, applies, crashes and edits. `v_stolen_lock`,
`v_torn_commit` and `v_commit_undone` are behaviours outside of the premises.

- `RegistryLockTypes`, `LossIsFinalAlways`: `TypeOK` and `LossIsFinal` of `RegistryLock`
  without a premise. `Tokens` is inductive: every request draws its own token, no
  more directories are made than calls account for (`Counted`, by cardinality), so that
  a token or an identity never comes back, and what is set aside lies in a directory
  made before and is set aside by the fallback (`AsidesKnown`). A process between
  `acquireLock` and `release` keeps its token (`TokenStays`).
- `HolderKeepsRecordAlways`, `RegistryLockIsLockService`: if `~LiveAges`,
  `Spec /\ LiveLockKept => []HolderKeepsRecord` and `=> ImplementsLockService`, for any
  number of contenders, crashes and failed writes. The two premises are what the
  documents say of the lock: the stale window outlasts a live holder, and what is moved
  aside is stale. The second is not true of the code with two contenders and a crash
  (`v_reap_race`: the rename is by path), so it is stated and not assumed away;
  the theorem says that nothing else can go wrong. `Kept` is inductive: the working
  process made the directory at the path, the record is its maker's, and `RemoveAll`
  reaches the directory only when it is empty.
- `CrashFreeLock`: with `~LiveAges` and no crashes `LiveLockKept` follows (no record is ever
  old), and with it both results.

- `FileTypeCorrect` and `ContentIsReplacedWhole`: `FileSpec => ContentReplacedWhole`, for any
  values. The step property needs `FileInv`: which of `file`, `temp` and `aside` hold what
  at each call, above all that in the gap the old content is in `aside` and that
  `putback` and `drop` are reached only where it is.
- `AcceptedWasBuiltTogether`: `Spec => []OneBuild` of `DistRelease`, for any releases,
  uploads and bounds. It rests on `ChecksumsAssumption`, that a release's `checksums.txt`
  lists the digests of its other assets. `BuildInv` says that the mirror's
  `checksums` belongs to one release or another, and that whatever was downloaded after
  it was checked against its lines: at the end all four other assets were,
  so they are that release's, whatever the mirror holds by then.
- `ExtractionIsContained`: `Spec => []ExtractionContained`, for any archive. `CleanType`: a
  cleaned path has `..` only at its front, so one whose first name is `skills`
  stays there. `EntryExtracted`: an entry that is taken is a directory that changes no
  file, or one file. `EntryCounted`: so the files are at most as many as the entries
  read, and their sizes together at most the bytes counted, also when a file is
  packed again. It rests on `DecodedAssumption`: archives, manifests and catalogs
  decode to lists, their paths to lists of names, and a member has a size.
- `AcceptedBundleIsExact`: `Spec => []AcceptedIsExact`. `TreeInv` keeps that the two JSON
  files in the tree are what was downloaded. `ValidIsExact`: what `Validate` asks one
  way of the Skills (each declared file is there, with its digest) and the other way
  of the tree (each file is declared) makes them equal. `ValidCatalogIsExact`: as
  many entries as Skills, with distinct names, each of a Skill: by counting, one for
  each.
- `SoundIsAccepted`: `Spec => []NoFalseReject`, for releases built from any directories. It
  rests on `SoundAssumption`, what a workflow makes of them. `AsPlanned`: what is in the
  staging directory is in the source, and the same there. `EntryTaken`: so an entry of the
  archive finds directories above it (`PlannedAbove`) and nothing else in its place
  (`PlannedOnce`: a path says of which Skill and which of its files it is), in whatever
  order the archive has them. `EntryFits`: what is ahead of the reader has room, because
  the sizes of the whole archive have; each download is within its limit because `BuiltOf`
  says so of the release. `BuiltIsValid`: the tree at the end has every
  declared file (`UnpackedFile`) and nothing undeclared (`NothingUndeclared`). `SoundInv`
  joins these with the downloads, which are the release's while no call failed and the
  mirror did not change.
- `SearchHasOneAnswer`: `Spec => []SearchIgnoresOrder`. `Searches` are all the orders
  `sort.Slice` may leave. Score and name order the matches totally (`HitsAreOrdered`, from
  `SearchAssumption`: names have numbers for ranks, different ones for different names), and a finite set has
  one sequence in a total order (`OneOrder`): the place of an element is the number of
  those up to it, in any such sequence (`InPlace`, `PlacesFill`).
- `SuggestionsAreTheBest`: `Spec => []SuggestKeepsBest`. `TermIsBest` and `ScoreIsRelevance`: the
  cases of `scoreCatalogEntry` and the later raises give the best weight of a term, and
  their sum is the relevance. `Kept` is the invariant of Suggest's loop: what it has after
  some matches is the first compatible ones, as many as it may have (`TakenKeeps`); in the
  order of the matches the rest is no more relevant (`MatchesInOrder`).
- `OriginalIsInOnePlace`, `RolledBackTargetIsWhole` and `UserFilesAreKept`: `OriginalInOnePlace`,
  `RolledBackIsWhole` and `UserFilesKept` of `TargetFiles`, for any files, trees and numbers of
  failures, deaths and edits. `FilesInv` says where the original is at each call. `Kept`: it
  is whole, but for what the user wrote, in the backup or at the target. `MoveOutInv` and
  `MoveBackInv`: while a tree is copied its source is whole and the destination holds
  exactly the files already visited, so the last file makes it whole before the first is
  removed. `JournalInv` ties this to the journal, on disk and in memory: a journal without
  the mutation means that nothing moved, and `rolled_back` that the target is whole; it
  needs `FileInv` of `AtomicFile` for the moments in which the file is aside. The result
  may be equal to the original. A rollback removes a target that has the result's bytes:
  either the original is in the backup, or this is the step that sets `mistaken`, after
  which `FilesInv` keeps the types, the order of calls and which trees exist, and says nothing of
  the original's files.
- `CommittedTargetIsWhole`: `Spec => []CommittedIsWhole` of `TargetFiles`; the property itself
  is about executions in which no call fails, with any number of deaths, of copies in the
  place of renames and of edits. `CommitInv`: from the last move on the target is the new
  tree, and after the journal says `committed`, in memory or on disk, nothing is undone.
- `OnlyReviewedPlaces`: `Spec => []ReviewedPlacesOnly` of `RuntimePaths`, for any runtimes,
  places, roots and bounds. `PathsInv` adds that a target between its check and its change
  still resolves to itself unless a link came (`raced`); the order of `sortPlan` is needed
  to know that the target checked is the one changed.
- `PathTypesAlways` and `ClaimedBytesAreKept`: `Spec => []TypeOK` and `Spec => []ClaimsHold`, for
  any number of plans, links and edits. `ClaimsHold` speaks of moments between two Applies;
  `ClaimsInv` says what holds inside one. A place that never was two runtimes' has at most
  one key that is claimed or wanted by a plan that is still good (`OneClaimInv`,
  `PlanInv`); each mutation is of a key of its own (`ActionsInv`); so the bytes of a claim
  are in place, or saved in the one mutation of that place, which a rollback undoes
  (`ClaimInv`), and those of a new claim are in place once its action is done
  (`WantInv`).

`Clean`, `Search`'s scores, `Suggest` and the sum of sizes are folds, functions defined by
recursion. That such a function exists, and what it yields, is proved for lists and sets
of any size by a least counterexample (`FoldExists`, `CleanType`, `SumsExist`, `SumWithout`)
instead of by the library's induction theorems, whose parameter is an operator.

Only model-checked: liveness (`ApplyTerminates`, `AcquireReturns`, `DeadHolderReaped`,
`MoveEnds`), which is outside the prover's reach. Each safety property of a passing run is
stated by a theorem; some have premises the runs do not need: `fault` checks `OriginalsKept`
and `RolledBackRestores` with a call that fails, which the theorems leave out.

Not modelled: the validation of options, URLs and single fields (schema numbers, name
patterns, lengths), the matching of text in the catalog, `List` and `Describe`, plan
files (`WritePlan`, `ReadPlan` give back the plan that was written), the lookup of homes
and environment variables in `DetectRuntimes` and `DefaultPaths`, and the details named
under "Abstractions".

## 5. Plan

Each safety property of the runs is proved. What is left, in this order:

1. `OriginalsKept` and `RolledBackRestores` with failing calls: `Placed` would have to tell,
   for each call, the state in memory from the one on disk, and the late error of the last
   journal write (`v_torn_commit`) shows that a premise on it is needed.
2. `CatalogSearch` over texts: what a term meets, from normalised words.
3. The remaining checks of single fields in `bundle.go`, `assets.go` and `contracts.go`, and
   `List` and `Describe`.
