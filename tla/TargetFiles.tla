------------------------------ MODULE TargetFiles ------------------------------
(***************************************************************************)
(* One runtime target of a transaction, file by file: mutateRuntimeTarget, *)
(* rollbackTransaction and recovery (transaction.go) over moveDir,         *)
(* copyTree, copyFile and os.RemoveAll (fs.go), with the journal written   *)
(* through AtomicFile.  SkillsTransaction takes each of these calls as one *)
(* step; here every file that is copied or removed is a step, between any  *)
(* two of which a call fails, the process dies or the user writes.         *)
(***************************************************************************)
EXTENDS AtomicFile, FiniteSets, FiniteSetsExt

CONSTANTS
    Files,       \* the files of a Skill, in the order WalkDir visits them
    Origins,     \* what the target may be before the transaction
    Results,     \* what the transaction puts there: a tree, or NoTree to remove
    Contents,    \* what the files of a Skill hold
    None, Partial, User,   \* no file; a file cut short; a file the user wrote
    NoTree,      \* nothing at the path
    MaxFaults,   \* bound: calls that fail for no reason in the model
    MaxCrashes,  \* bound: deaths of the process
    MaxEdits     \* bound: files the user writes into the target

ASSUME FilesAssumption == Files \subseteq Nat /\ IsFiniteSet(Files)
ASSUME MarksAssumption ==
    /\ None # Partial /\ None # User /\ User # Partial
    /\ Contents \cap {None, Partial, User} = {}

Empty == [f \in Files |-> None]

\* A directory: what each file holds; or no directory
Trees == [Files -> Contents \cup {None, Partial, User}] \cup {NoTree}
Skills == [Files -> Contents \cup {None}]

\* A desired Skill has a file, SKILL.md at least; a directory found may have none.
ASSUME TreesAssumption ==
    /\ NoTree \notin [Files -> Contents \cup {None, Partial, User}]
    /\ Origins \subseteq Skills \cup {NoTree}
    /\ Results \subseteq (Skills \ {Empty}) \cup {NoTree}

\* transactionJournal: the status, and the one mutation with its Existed flag
Journals == [status: {"applying", "committed", "rolled_back"},
             mutation: {"none", "created", "existed"}]

\* The file of AtomicFile is journal.json.
ASSUME ValuesAssumption == Values = Journals

VARIABLES
    tree,        \* the trees at "target" and "backup"
    origin,      \* ghost: the target before the transaction
    result,      \* desired.Files, what ResultDigest is the digest of
    at,          \* the next call of the process
    memory,      \* the journal in memory
    mode,        \* moveDir: renaming, copying or removing the source
    left,        \* the files WalkDir has still to visit
    count,       \* how much of each bound is used
    edited,      \* ghost: the files the user wrote
    mistaken     \* ghost: a rollback took the original for the transaction's own tree

own == <<tree, origin, result, at, memory, mode, left, edited, mistaken>>
vars == <<fileVars, own, count>>

Calls == {"record", "recording", "out", "stage", "place", "commit", "committing",
          "abort", "aborting", "rollback", "remove", "restore", "back", "settle",
          "settling", "ended", "down"}

TypeOK ==
    /\ FileTypeOK
    /\ tree \in [{"target", "backup"} -> Trees]
    /\ origin \in Origins /\ result \in Results
    /\ at \in Calls
    /\ memory \in Journals
    /\ mode \in {"rename", "copy", "clear"}
    /\ left \subseteq Files /\ edited \subseteq Files
    /\ mistaken \in BOOLEAN

\* The result may be what is there: a reviewed replace of an unmanaged directory
\* compares no digests, and what is to be removed may be gone.
Init ==
    /\ file = [status |-> "applying", mutation |-> "none"]
    /\ value = file /\ memory = file
    /\ temp = NoFile /\ aside = NoFile /\ moved = FALSE /\ step = "idle"
    /\ origin \in Origins /\ result \in Results
    /\ tree = [target |-> origin, backup |-> NoTree]
    /\ at = "record"
    /\ mode = "rename" /\ left = {} /\ edited = {} /\ mistaken = FALSE
    /\ count = [faults |-> 0, crashes |-> 0, edits |-> 0]

-----------------------------------------------------------------------------
(* Helpers *)

MayFail == count.faults < MaxFaults

Count(event) == count' = [count EXCEPT ![event] = @ + 1]

\* The call at this point succeeds, or fails for no reason the model knows.
Outcome(ok) == IF ok THEN UNCHANGED count ELSE MayFail /\ Count("faults")

Goto(point) == at' = point

\* The error path of moveDir and RemoveAll: commitPlan's rollback, or
\* TRANSACTION_INCOMPLETE from a rollback.
OnError == IF at = "out" THEN "abort" ELSE "ended"

From == IF at = "back" THEN "backup" ELSE "target"
To == IF at = "out" THEN "backup" ELSE "target"

HasFile(t, f) == t # NoTree /\ t[f] # None
FilesOf(t) == {f \in Files : HasFile(t, f)}

\* os.Rename of a directory: onto nothing, an empty directory neither
CanRename(t) == t = NoTree

FileAt(t, f) == IF t = NoTree THEN None ELSE t[f]

\* The original, every file of it and no other, but for what the user wrote
Original(t) ==
    \A f \in Files : \/ FileAt(t, f) = FileAt(origin, f)
                     \/ f \in edited /\ FileAt(t, f) = User

\* mutateRuntimeTarget once the target is in the backup, or there was none
AfterBackup == IF result = NoTree THEN "commit" ELSE "stage"

-----------------------------------------------------------------------------
(* moveDir, from "out" (target to backup) and "back" (backup to target) *)

Moving == at \in {"out", "back"}

MoveDone == Goto(IF at = "out" THEN AfterBackup ELSE "settle")

\* os.Rename; it fails onto a directory, and across devices.  Then copyTree begins:
\* the destination is made and the source's files are listed.
MoveRename ==
    /\ Moving /\ mode = "rename"
    /\ \/ /\ CanRename(tree[To])
          /\ tree' = [tree EXCEPT ![To] = tree[From], ![From] = NoTree]
          /\ MoveDone
          /\ UNCHANGED <<mode, left>>
       \/ /\ mode' = "copy"
          /\ left' = FilesOf(tree[From])
          /\ tree' = [tree EXCEPT ![To] = IF @ = NoTree THEN Empty ELSE @]
          /\ UNCHANGED at
    /\ UNCHANGED <<fileVars, origin, result, memory, count, edited, mistaken>>

\* Faulty: the file is opened without O_EXCL, over what is there.
CopyFileOver(ok) ==
    LET f == Min(left) IN
    /\ Moving /\ mode = "copy" /\ left # {} /\ ok
    /\ tree' = [tree EXCEPT ![To][f] = tree[From][f]]
    /\ left' = left \ {f}
    /\ UNCHANGED <<fileVars, origin, result, at, memory, mode, count, edited, mistaken>>

\* Faulty: a file that is in the way is waited for.
CopyFileWaiting(ok) ==
    LET f == Min(left) IN
    /\ Moving /\ mode = "copy" /\ left # {} /\ ok
    /\ HasFile(tree[From], f) /\ ~HasFile(tree[To], f)
    /\ tree' = [tree EXCEPT ![To][f] = tree[From][f]]
    /\ left' = left \ {f}
    /\ UNCHANGED <<fileVars, origin, result, at, memory, mode, count, edited, mistaken>>

\* copyFile: O_EXCL; a failed copy stays behind.
CopyFile(ok) ==
    LET f == Min(left)
        clear == HasFile(tree[From], f) /\ ~HasFile(tree[To], f)
        fails == Goto(OnError) /\ mode' = "rename" /\ left' = {}
    IN  /\ Moving /\ mode = "copy" /\ left # {}
        /\ IF ~clear THEN fails /\ ok /\ UNCHANGED <<tree, count>>
           ELSE /\ Outcome(ok)
                /\ tree' = [tree EXCEPT ![To][f] = IF ok THEN tree[From][f] ELSE Partial]
                /\ IF ok THEN left' = left \ {f} /\ UNCHANGED <<at, mode>> ELSE fails
        /\ UNCHANGED <<fileVars, origin, result, memory, edited, mistaken>>

\* copyTree is done: os.RemoveAll(source) begins.
CopyDone ==
    /\ Moving /\ mode = "copy" /\ left = {}
    /\ mode' = "clear"
    /\ UNCHANGED <<fileVars, tree, origin, result, at, memory, left, count, edited, mistaken>>

\* os.RemoveAll removes the files of the source one by one, then the directory.
Clear(ok) ==
    /\ (Moving /\ mode = "clear") \/ at = "remove"
    /\ Outcome(ok)
    /\ IF ~ok
       THEN Goto(OnError) /\ mode' = "rename" /\ UNCHANGED tree
       ELSE \/ \E f \in FilesOf(tree[From]) :
                  /\ tree' = [tree EXCEPT ![From][f] = None]
                  /\ UNCHANGED <<at, mode>>
            \/ /\ FilesOf(tree[From]) = {}
               /\ tree' = [tree EXCEPT ![From] = NoTree]
               /\ mode' = "rename"
               /\ IF Moving THEN MoveDone ELSE Goto("restore")
    /\ UNCHANGED <<fileVars, origin, result, memory, left, edited, mistaken>>

-----------------------------------------------------------------------------
(* mutateRuntimeTarget, and the end of commitPlan *)

Write(journal, point) ==
    /\ memory' = journal
    /\ StartWrite(journal)
    /\ Goto(point)
    /\ UNCHANGED <<tree, origin, result, mode, left, count, edited, mistaken>>

\* The mutation enters the journal in memory and on disk before anything moves.
RecordMutation ==
    /\ at = "record"
    /\ Write([memory EXCEPT !.mutation =
                 IF tree.target = NoTree THEN "created" ELSE "existed"], "recording")

\* The copy of the store's tree next to the target
StageTarget(ok) ==
    /\ at = "stage"
    /\ Outcome(ok)
    /\ Goto(IF ok THEN "place" ELSE "abort")
    /\ UNCHANGED <<fileVars, tree, origin, result, memory, mode, left, edited, mistaken>>

\* os.Rename(temp, target)
PlaceTarget(ok) ==
    /\ at = "place"
    /\ IF ~CanRename(tree.target)
       THEN ok /\ Goto("abort") /\ UNCHANGED <<tree, count>>
       ELSE /\ Outcome(ok)
            /\ Goto(IF ok THEN "commit" ELSE "abort")
            /\ tree' = IF ok THEN [tree EXCEPT !.target = result] ELSE tree
    /\ UNCHANGED <<fileVars, origin, result, memory, mode, left, edited, mistaken>>

\* The last write of commitPlan; those of the registry and the receipt before it
\* touch no target.
Commit ==
    at = "commit" /\ Write([memory EXCEPT !.status = "committed"], "committing")

\* The deferred function of commitPlan; a status already "committed" in memory
\* is written again as it is.
Abort == at = "abort" /\ Write(memory, "aborting")

AfterWrite ==
    /\ step \in {"done", "failed"}
    /\ step' = "idle"
    /\ Goto(CASE at = "recording" /\ step = "done" ->
                    IF memory.mutation = "existed" THEN "out" ELSE AfterBackup
              [] at = "aborting" -> "rollback"
              [] at = "settling" \/ (at = "committing" /\ step = "done") -> "ended"
              [] OTHER -> "abort")
    /\ UNCHANGED <<file, temp, aside, moved, value, tree, origin, result, memory,
                   mode, left, count, edited, mistaken>>

-----------------------------------------------------------------------------
(* rollbackTransaction and recovery *)

\* The target is the original, not in the backup yet, and equal to the result.
TakenForResult ==
    /\ memory.mutation # "none" /\ tree.target = result /\ result # NoTree
    /\ Original(tree.target) /\ ~Original(tree.backup)

\* Faulty: whatever is at the target is taken for the transaction's own.
UndoInspectNothing ==
    /\ at = "rollback"
    /\ Goto(IF memory.mutation = "none" THEN "settle"
            ELSE IF tree.target = NoTree THEN "restore" ELSE "remove")
    /\ mistaken' = (mistaken \/ TakenForResult)
    /\ UNCHANGED <<fileVars, tree, origin, result, memory, mode, left, count, edited>>

\* A target that is there must have the bytes of the result.
UndoInspect ==
    /\ at = "rollback"
    /\ Goto(IF memory.mutation = "none" THEN "settle"
            ELSE IF tree.target = NoTree THEN "restore"
            ELSE IF tree.target = result THEN "remove" ELSE "ended")
    /\ mistaken' = (mistaken \/ TakenForResult)
    /\ UNCHANGED <<fileVars, tree, origin, result, memory, mode, left, count, edited>>

\* The backup goes back when there was a target and there is a backup.
UndoRestore ==
    /\ at = "restore"
    /\ Goto(IF memory.mutation = "existed" /\ tree.backup # NoTree
            THEN "back" ELSE "settle")
    /\ UNCHANGED <<fileVars, tree, origin, result, memory, mode, left, count, edited, mistaken>>

Settle == at = "settle" /\ Write([memory EXCEPT !.status = "rolled_back"], "settling")

\* Faulty: only a journal that says rolled_back is passed over.
RecoverCommitted ==
    /\ at \in {"down", "ended"}
    /\ IF file = NoFile \/ file.status = "rolled_back"
       THEN at = "down" /\ Goto("ended") /\ UNCHANGED memory
       ELSE Goto("rollback") /\ memory' = file
    /\ UNCHANGED <<fileVars, tree, origin, result, mode, left, count, edited, mistaken>>

\* The next Apply: a journal that is missing or decided is passed over.
Recover ==
    /\ at \in {"down", "ended"}
    /\ IF file = NoFile \/ file.status # "applying"
       THEN at = "down" /\ Goto("ended") /\ UNCHANGED memory
       ELSE Goto("rollback") /\ memory' = file
    /\ UNCHANGED <<fileVars, tree, origin, result, mode, left, count, edited, mistaken>>

-----------------------------------------------------------------------------
(* The environment, and the specification *)

\* The process dies, in the middle of a file it copies perhaps.
Crash ==
    /\ at \notin {"ended", "down"}
    /\ count.crashes < MaxCrashes
    /\ Count("crashes")
    /\ WriterDies
    /\ Goto("down")
    /\ mode' = "rename" /\ left' = {}
    /\ \/ UNCHANGED tree
       \/ /\ mode = "copy" /\ left # {} /\ tree[To] # NoTree
          /\ ~HasFile(tree[To], Min(left))
          /\ tree' = [tree EXCEPT ![To][Min(left)] = Partial]
    /\ UNCHANGED <<origin, result, memory, edited, mistaken>>

\* The user writes a file, in a new directory when there is none.
UserEdit ==
    /\ count.edits < MaxEdits
    /\ Count("edits")
    /\ \E f \in Files :
          /\ tree' = [tree EXCEPT !.target =
                         [(IF @ = NoTree THEN Empty ELSE @) EXCEPT ![f] = User]]
          /\ edited' = edited \cup {f}
    /\ UNCHANGED <<fileVars, origin, result, at, memory, mode, left, mistaken>>

Effects ==
    \/ MoveRename \/ CopyDone \/ RecordMutation \/ Commit \/ Abort \/ AfterWrite
    \/ UndoInspect \/ UndoRestore \/ Settle
    \/ \E ok \in BOOLEAN :
          \/ CopyFile(ok) \/ Clear(ok) \/ StageTarget(ok) \/ PlaceTarget(ok)
          \/ WriteStep(ok) /\ Outcome(ok) /\ UNCHANGED own

Next == Effects \/ Recover \/ Crash \/ UserEdit

Spec == Init /\ [][Next]_vars

\* A running process goes on until it dies.
FairSpec == Spec /\ WF_vars(Effects)

-----------------------------------------------------------------------------
(* Properties *)

\* moveDir copies the whole tree before it removes any of it, a rollback removes
\* only a tree that has the result's bytes, and both may be cut short and run again:
\* the original is complete in one place, never split between the target and the
\* backup, until the journal says that it is back.  Where the result's bytes are the
\* original's, a rollback from before the move removes the original itself
\* (DocumentedClaims); that much is left out here.
OriginalInOnePlace ==
    Content.status # "rolled_back" /\ ~mistaken =>
        Original(tree.target) \/ Original(tree.backup)

\* A transaction marked rolled_back has every original file at the target again,
\* and none of its own, also when directories were merged with one the user had
\* made in the meantime; unless the rollback took the original for the result.
RolledBackIsWhole ==
    file # NoFile /\ file.status = "rolled_back" /\ ~mistaken => Original(tree.target)

\* The files of t that the user did not write are those of s.
Same(t, s) == \A f \in Files \ edited : FileAt(t, f) = FileAt(s, f)

\* Wherever the process dies and whichever moves become copies, a committed target
\* is the whole new tree, as long as no call fails for a reason of its own: after
\* an error of the last journal write a rollback works under a journal that says
\* "committed", and recovery passes over what it leaves.
CommittedIsWhole ==
    at = "ended" /\ file # NoFile /\ file.status = "committed" /\ count.faults = 0
        => Same(tree.target, result)

\* Where the user's bytes of a file are
UserCopies(f) == {place \in {"target", "backup"} :
                     HasFile(tree[place], f) /\ tree[place][f] = User}

\* A file the user writes is lost only when a tree is removed that was copied, or
\* found to be the transaction's own, before the user wrote: no copy and no
\* rename goes over it, also when a rollback meets a directory of the user's.
UserFilesKept ==
    [][\A f \in Files :
          UserCopies(f) # {} /\ UserCopies(f)' = {}
          => (Moving /\ mode = "clear") \/ at = "remove"]_vars

\* A transaction the process set out to end is ended or its process dies, also
\* when calls fail, and files turn up, in the middle of a copy.
MoveEnds == at = "record" ~> at \in {"ended", "down"}
=============================================================================
