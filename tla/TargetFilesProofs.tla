---------------------------- MODULE TargetFilesProofs ----------------------------
(***************************************************************************)
(* Proofs about TargetFiles, for any files and trees, and any number of    *)
(* failed calls, deaths of the process and edits of the user, and before   *)
(* them the proofs about AtomicFile, through which it writes its journal.  *)
(***************************************************************************)
EXTENDS TargetFiles, TLAPS, WellFoundedInduction

-----------------------------------------------------------------------------
(* writeJSONAtomic and replaceFile, for any values and number of writes *)


\* What the calls still to come rely on: the temporary file is whole until it is
\* renamed, and the path is empty exactly while the old file is aside.
FileInv ==
    /\ FileTypeOK
    /\ step \in {"rename", "aside", "again", "putback"} => temp = value
    /\ step \in {"aside", "drop"} => file # NoFile
    /\ step \in {"again", "putback"} => file = NoFile

LEMMA FileInitInv == FileInit => FileInv
BY DEF FileInit, FileInv, FileTypeOK

\* Every call of the writer, failed or not, and its death keep FileInv.
LEMMA FileStepInv == FileInv /\ [FileNext]_fileVars => FileInv'
<1> SUFFICES ASSUME FileInv, [FileNext]_fileVars PROVE FileInv'
    OBVIOUS
<1> USE NoFileAssumption DEF FileInv, FileTypeOK, WriteSteps
<1>1. CASE \E v \in Values : StartWrite(v)
    BY <1>1 DEF StartWrite
<1>2. ASSUME NEW ok \in BOOLEAN, WriteStep(ok) PROVE FileInv'
    <2>1. CASE CreateTemp(ok)
        BY <2>1 DEF CreateTemp, Fail
    <2>2. CASE Rename(ok)
        BY <2>2 DEF Rename
    <2>3. CASE MoveAside(ok)
        BY <2>3 DEF MoveAside, Fail
    <2>4. CASE RenameAgain(ok)
        BY <2>4 DEF RenameAgain, Fail
    <2>5. CASE PutBack(ok)
        BY <2>5 DEF PutBack, Fail
    <2>6. CASE DropAside(ok)
        BY <2>6 DEF DropAside
    <2>7. CASE SyncDir(ok)
        BY <2>7 DEF SyncDir
    <2> QED BY <1>2, <2>1, <2>2, <2>3, <2>4, <2>5, <2>6, <2>7 DEF WriteStep
<1>3. CASE WriterDies
    BY <1>3 DEF WriterDies
<1>4. CASE UNCHANGED fileVars
    BY <1>4 DEF fileVars
<1> QED BY <1>1, <1>2, <1>3, <1>4 DEF FileNext

\* The path, the file beside it and the temporary file hold whole values at all
\* times.
THEOREM FileTypeCorrect == FileSpec => []FileTypeOK
<1>1. FileInv => FileTypeOK
    BY DEF FileInv
<1> QED BY <1>1, FileInitInv, FileStepInv, PTL DEF FileSpec

\* Whichever calls fail and wherever the writer dies, a step leaves the content
\* or replaces it by the whole value being written.
LEMMA ContentStep ==
    FileInv /\ [FileNext]_fileVars
    => [Content' # Content =>
          /\ Content' = value
          /\ step \in {"rename", "again"}]_fileVars
<1> SUFFICES ASSUME FileInv, FileNext, Content' # Content
             PROVE  Content' = value /\ step \in {"rename", "again"}
    BY DEF fileVars, Content
<1> USE NoFileAssumption DEF FileInv, FileTypeOK, Content
<1>1. CASE \E v \in Values : StartWrite(v)
    BY <1>1 DEF StartWrite
<1>2. ASSUME NEW ok \in BOOLEAN, WriteStep(ok)
      PROVE  Content' = value /\ step \in {"rename", "again"}
    <2>1. CASE Rename(ok)
        BY <2>1 DEF Rename
    <2>2. CASE RenameAgain(ok)
        BY <2>2 DEF RenameAgain
    <2>3. CASE MoveAside(ok)
        BY <2>3 DEF MoveAside
    <2>4. CASE PutBack(ok)
        BY <2>4 DEF PutBack
    <2>5. CASE CreateTemp(ok) \/ SyncDir(ok)
        BY <2>5 DEF CreateTemp, SyncDir
    <2>6. CASE DropAside(ok)
        BY <2>6 DEF DropAside
    <2> QED BY <1>2, <2>1, <2>2, <2>3, <2>4, <2>5, <2>6 DEF WriteStep
<1>3. CASE WriterDies
    BY <1>3 DEF WriterDies
<1> QED BY <1>1, <1>2, <1>3 DEF FileNext

\* A JSON file of the runtime is never seen half written, and its old content is
\* not given up before the new one is at the path.
THEOREM ContentIsReplacedWhole == FileSpec => ContentReplacedWhole
BY FileInitInv, FileStepInv, ContentStep, PTL DEF FileSpec, ContentReplacedWhole

-----------------------------------------------------------------------------
(* The inductive invariant *)

Orig(f) == FileAt(origin, f)

\* The user has overwritten, or added, this file.
Users(t, f) == f \in edited /\ FileAt(t, f) = User

\* What follows says nothing of where the original is once a rollback has removed
\* it for the transaction's own tree; of the directories it goes on to speak.
Whole(t) == mistaken \/ \A f \in Files : FileAt(t, f) = Orig(f) \/ Users(t, f)

\* Nothing but what the user wrote
OnlyUsers(t) == mistaken \/ \A f \in Files : FileAt(t, f) = None \/ Users(t, f)

\* The original is in the backup, or still or again in place.
Kept == Whole(tree.backup) \/ (tree.target # NoTree /\ Whole(tree.target))

\* How far copyTree is: the files it has still to visit are not at the destination.
Copied(t) ==
    /\ t # NoTree
    /\ \/ mistaken
       \/ \A f \in Files : FileAt(t, f) = (IF f \in left THEN None ELSE Orig(f)) \/ Users(t, f)

Created == tree.backup = NoTree /\ (mistaken \/ \A f \in Files : Orig(f) = None)

\* Where the original is at each call
MoveOutInv ==
    at = "out" =>
        /\ memory.mutation = "existed"
        /\ tree.target # NoTree
        /\ mode = "clear" => Whole(tree.backup)
        /\ mode # "clear" => Whole(tree.target)
        /\ mode = "rename" => tree.backup = NoTree
        /\ mode = "copy" => Copied(tree.backup)

MoveBackInv ==
    at = "back" =>
        /\ memory.mutation = "existed"
        /\ tree.backup # NoTree
        /\ mode = "clear" => tree.target # NoTree /\ Whole(tree.target)
        /\ mode # "clear" => Whole(tree.backup)
        /\ mode = "rename" => OnlyUsers(tree.target)
        /\ mode = "copy" => Copied(tree.target)

PlaceInv ==
    /\ ~Moving => mode = "rename"
    /\ at \in {"record", "recording"} => Whole(tree.target) /\ tree.backup = NoTree /\ ~mistaken
    /\ at \in {"stage", "place", "commit", "committing", "remove", "restore"} =>
          Whole(tree.backup)
    /\ at = "restore" => OnlyUsers(tree.target)
    /\ at \in {"settle", "settling"} => Whole(tree.target)
    /\ Kept

\* What the journal says of it, on disk and in memory
JournalInv ==
    /\ Content # NoFile
    /\ step # "idle" =>
          at \in {"recording", "committing", "aborting", "settling"} /\ value = memory
    /\ step \in {"sync", "drop", "done"} => file = value
    /\ Content.mutation \in {"none", memory.mutation}
    /\ at = "record" => memory.mutation = "none"
    /\ at = "recording" =>
          /\ memory.mutation # "none"
          /\ memory.mutation = "existed" => tree.target # NoTree
    /\ memory.mutation = "created" => Created
    /\ Content.mutation = "none" =>
          /\ Whole(tree.target) /\ tree.backup = NoTree
          /\ at \in {"record", "recording", "abort", "aborting", "rollback", "restore",
                     "settle", "settling", "ended", "down"} \/ (mistaken /\ at = "remove")
    /\ memory.status = "rolled_back" => at \in {"settling", "ended", "down"}
    /\ Content.status = "rolled_back" =>
          at \in {"settling", "ended", "down"} /\ Whole(tree.target)

WhereInv == MoveOutInv /\ MoveBackInv /\ PlaceInv /\ JournalInv
TypeInv == TypeOK /\ FileInv
FilesInv == TypeInv /\ WhereInv

-----------------------------------------------------------------------------
(* Lemmas about trees *)

\* WalkDir's next file is one of those left.
LEMMA MinIsIn ==
    ASSUME NEW S \in SUBSET Nat, S # {}
    PROVE  Min(S) \in S
<1> DEFINE Less == OpToRel(<, Nat)
<1>1. IsWellFoundedOn(Less, Nat)
    BY NatLessThanWellFounded
<1>2. ASSUME NEW x \in Nat, NEW y \in Nat, <<y, x>> \notin Less PROVE x <= y
    BY <1>2 DEF OpToRel
<1> HIDE DEF Less
<1>3. PICK x \in S : \A y \in S : <<y, x>> \notin Less
    BY <1>1, WFMin
<1> QED BY <1>2, <1>3 DEF Min

\* What the assumptions say of trees
LEMMA TreeFacts ==
    /\ NoTree # Empty /\ Empty \in Trees
    /\ \A t \in Trees : t # NoTree => t \in [Files -> Contents \cup {None, Partial, User}]
    /\ Origins \cup Results \subseteq Trees
BY TreesAssumption DEF Trees, Empty, Skills

\* Without a mistake Whole is the model's word for it.
LEMMA WholeIsOriginal == \A t : Whole(t) <=> mistaken \/ Original(t)
BY DEF Whole, Original, Users, Orig

-----------------------------------------------------------------------------
(* Types, and the state of the journal's file *)

\* Every call that writes the journal is a step of AtomicFile; the others leave it.
LEMMA FileInvStep == FileInv /\ memory \in Journals /\ [Next]_vars => FileInv'
<1> SUFFICES ASSUME FileInv, memory \in Journals, [Next]_vars PROVE FileInv'
    OBVIOUS
<1>1. CASE [FileNext]_fileVars
    BY <1>1, FileStepInv
<1>2. CASE AfterWrite
    BY <1>2 DEF AfterWrite, FileInv, FileTypeOK, WriteSteps
<1>3. ASSUME NEW journal, NEW point, Write(journal, point), journal \in Journals
      PROVE  [FileNext]_fileVars
    BY <1>3, ValuesAssumption DEF Write, FileNext
<1>4. CASE RecordMutation \/ Commit \/ Abort \/ Settle
    BY <1>1, <1>3, <1>4 DEF RecordMutation, Commit, Abort, Settle, Journals
<1>5. CASE Crash
    BY <1>1, <1>5 DEF Crash, FileNext
<1>6. CASE \E ok \in BOOLEAN : WriteStep(ok) /\ Outcome(ok) /\ UNCHANGED own
    BY <1>1, <1>6 DEF FileNext
<1>7. CASE MoveRename \/ CopyDone \/ UndoInspect \/ UndoRestore \/ Recover \/ UserEdit
    BY <1>1, <1>7 DEF MoveRename, CopyDone, UndoInspect, UndoRestore, Recover, UserEdit
<1>8. CASE \E ok \in BOOLEAN :
               CopyFile(ok) \/ Clear(ok) \/ StageTarget(ok) \/ PlaceTarget(ok)
    BY <1>1, <1>8 DEF CopyFile, Clear, StageTarget, PlaceTarget
<1>9. CASE UNCHANGED vars
    BY <1>1, <1>9 DEF vars
<1> QED BY <1>2, <1>4, <1>5, <1>6, <1>7, <1>8, <1>9 DEF Next, Effects

\* The first state is one of the types' states.
LEMMA TypeInit == Init => TypeInv
<1> SUFFICES ASSUME Init PROVE TypeInv
    OBVIOUS
<1>1. NoTree \in Trees /\ origin \in Trees
    BY TreeFacts DEF Init, Trees
<1>2. tree \in [{"target", "backup"} -> Trees]
    BY <1>1 DEF Init
<1>3. file \in Values /\ memory \in Journals
    BY ValuesAssumption DEF Init, Journals
<1>4. FileInv
    BY <1>3 DEF Init, FileInv, FileTypeOK
<1> QED BY <1>2, <1>3, <1>4 DEF Init, TypeInv, TypeOK, FileInv, Calls

\* The types of the trees: what is copied, cut short, removed or written.
LEMMA TreeUpdates ==
    ASSUME tree \in [{"target", "backup"} -> Trees], NEW p \in {"target", "backup"}
    PROVE  /\ \A t \in Trees : [tree EXCEPT ![p] = t] \in [{"target", "backup"} -> Trees]
           /\ tree[p] # NoTree =>
                 \A f \in Files, c \in Contents \cup {None, Partial, User} :
                    [tree EXCEPT ![p][f] = c] \in [{"target", "backup"} -> Trees]
<1>1. \A t \in Trees : [tree EXCEPT ![p] = t] \in [{"target", "backup"} -> Trees]
    OBVIOUS
<1>2. ASSUME tree[p] # NoTree, NEW f \in Files,
             NEW c \in Contents \cup {None, Partial, User}
      PROVE  [tree[p] EXCEPT ![f] = c] \in Trees
    BY <1>2, TreeFacts DEF Trees
<1> QED BY <1>1, <1>2

\* Every call keeps the types; a file is copied into a directory that is there.
LEMMA TypeStep == TypeInv /\ PlaceInv /\ MoveOutInv /\ MoveBackInv /\ [Next]_vars => TypeOK'
<1> SUFFICES ASSUME TypeInv, PlaceInv, MoveOutInv, MoveBackInv, [Next]_vars PROVE TypeOK'
    OBVIOUS
<1>0. FileTypeOK'
    BY FileInvStep DEF FileInv, TypeInv, TypeOK
<1> USE <1>0 DEF TypeInv, TypeOK, Calls
<1>1. CASE RecordMutation \/ Commit \/ Abort \/ Settle
    BY <1>1 DEF RecordMutation, Commit, Abort, Settle, Write, Goto, Journals
<1>2. CASE AfterWrite
    BY <1>2 DEF AfterWrite, AfterBackup, Goto
<1>3. CASE UndoInspect \/ UndoRestore
    BY <1>3 DEF UndoInspect, UndoRestore, Goto
<1>4. CASE Recover
    BY <1>4, ValuesAssumption DEF Recover, Goto, FileTypeOK
<1>5. CASE MoveRename
    BY <1>5, TreeFacts, TreeUpdates DEF MoveRename, Moving, MoveDone, AfterBackup, Goto,
           From, To, FilesOf, Trees
<1>6. CASE CopyDone
    BY <1>6 DEF CopyDone
<1>7. ASSUME NEW ok \in BOOLEAN, StageTarget(ok) \/ PlaceTarget(ok) PROVE TypeOK'
    BY <1>7, TreeFacts, TreeUpdates DEF StageTarget, PlaceTarget, Goto
<1>8. CASE UNCHANGED vars
    BY <1>8 DEF vars, own
<1>9. CASE \E ok \in BOOLEAN : WriteStep(ok) /\ Outcome(ok) /\ UNCHANGED own
    BY <1>9 DEF own
<1>10. ASSUME NEW ok \in BOOLEAN, CopyFile(ok) PROVE TypeOK'
    <2>1. Min(left) \in left /\ Min(left) \in Files
        BY <1>10, MinIsIn, FilesAssumption DEF CopyFile
    <2>2. To \in {"target", "backup"} /\ From \in {"target", "backup"}
        BY DEF To, From
    <2>3. tree[To] # NoTree
        BY <1>10 DEF CopyFile, Moving, MoveOutInv, MoveBackInv, Copied, To
    <2>4. HasFile(tree[From], Min(left)) =>
              tree[From][Min(left)] \in Contents \cup {None, Partial, User}
        BY <2>1, <2>2, TreeFacts DEF HasFile
    <2>5. tree' \in [{"target", "backup"} -> Trees]
        BY <1>10, <2>1, <2>2, <2>3, <2>4, TreeUpdates DEF CopyFile
    <2> QED BY <1>10, <2>5 DEF CopyFile, Goto, OnError, Moving
<1>11. ASSUME NEW ok \in BOOLEAN, Clear(ok) PROVE TypeOK'
    <2>1. From \in {"target", "backup"}
        BY DEF From
    <2>2. \A f \in FilesOf(tree[From]) : tree[From] # NoTree /\ f \in Files
        BY DEF FilesOf, HasFile
    <2>3. tree' \in [{"target", "backup"} -> Trees]
        BY <1>11, <2>1, <2>2, TreeUpdates DEF Clear, Trees
    <2> QED BY <1>11, <2>3 DEF Clear, Goto, OnError, Moving, MoveDone, AfterBackup
<1>12. CASE Crash
    <2>1. CASE UNCHANGED tree
        BY <1>12, <2>1 DEF Crash, Goto
    <2>2. CASE /\ mode = "copy" /\ left # {} /\ tree[To] # NoTree
               /\ tree' = [tree EXCEPT ![To][Min(left)] = Partial]
        <3>1. Min(left) \in Files
            BY <2>2, MinIsIn, FilesAssumption
        <3>2. To \in {"target", "backup"}
            BY DEF To
        <3> QED BY <1>12, <2>2, <3>1, <3>2, TreeUpdates DEF Crash, Goto
    <2> QED BY <1>12, <2>1, <2>2 DEF Crash
<1>13. CASE UserEdit
    <2>1. PICK f \in Files :
              /\ tree' = [tree EXCEPT !.target =
                             [(IF @ = NoTree THEN Empty ELSE @) EXCEPT ![f] = User]]
              /\ edited' = edited \cup {f}
        BY <1>13 DEF UserEdit
    <2>2. [(IF tree["target"] = NoTree THEN Empty ELSE tree["target"]) EXCEPT ![f] = User]
             \in Trees
        BY TreeFacts DEF Trees, Empty
    <2>3. tree' \in [{"target", "backup"} -> Trees]
        BY <2>1, <2>2, TreeUpdates
    <2> QED BY <1>13, <2>1, <2>3 DEF UserEdit
<1> QED BY <1>1, <1>2, <1>3, <1>4, <1>5, <1>6, <1>7, <1>8, <1>9, <1>10, <1>11, <1>12, <1>13
        DEF Next, Effects

-----------------------------------------------------------------------------
(* Where the original is: the steps that touch no file of a tree *)

\* At first the original is in place and the journal says nothing of a mutation.
LEMMA WhereInit == Init => WhereInv
<1> SUFFICES ASSUME Init PROVE WhereInv
    OBVIOUS
<1>1. tree.target = origin /\ tree.backup = NoTree
    BY DEF Init
<1>2. Whole(tree.target)
    BY <1>1 DEF Whole, Orig
<1>3. Kept
    BY <1>1, <1>2 DEF Kept, Whole, Orig, FileAt
<1>4. Content = file /\ Content # NoFile
    BY ValuesAssumption, NoFileAssumption DEF Init, Content, Journals
<1> QED BY <1>1, <1>2, <1>3, <1>4
        DEF Init, WhereInv, MoveOutInv, MoveBackInv, PlaceInv, JournalInv, Moving

\* A step that leaves the trees leaves what is said of them.
LEMMA SameTrees ==
    ASSUME UNCHANGED <<tree, origin, edited, mistaken>>
    PROVE  /\ Whole(tree.target)' <=> Whole(tree.target)
           /\ Whole(tree.backup)' <=> Whole(tree.backup)
           /\ OnlyUsers(tree.target)' <=> OnlyUsers(tree.target)
           /\ Kept' <=> Kept
           /\ Created' <=> Created
           /\ left' = left => /\ Copied(tree.target)' <=> Copied(tree.target)
                              /\ Copied(tree.backup)' <=> Copied(tree.backup)
BY DEF Whole, OnlyUsers, Kept, Created, Copied, Users, FileAt, Orig

\* A write of the journal begins.
LEMMA WhereWrite ==
    ASSUME FilesInv, RecordMutation \/ Commit \/ Abort \/ Settle
    PROVE  WhereInv'
<1> USE DEF FilesInv, WhereInv, MoveOutInv, MoveBackInv, PlaceInv, JournalInv, Moving
<1>1. UNCHANGED <<tree, origin, edited, mistaken, left, mode>>
    BY DEF RecordMutation, Commit, Abort, Settle, Write
<1>2. Content' = Content /\ step' = "create" /\ value' = memory'
    BY DEF RecordMutation, Commit, Abort, Settle, Write, StartWrite, Content
<1>3. CASE RecordMutation
    <2>1. Content.mutation = "none" /\ memory.mutation = "none"
        BY <1>3 DEF RecordMutation
    <2>2. memory'.mutation \in {"created", "existed"} /\ memory'.status = memory.status
        BY <1>3 DEF RecordMutation, Write, TypeInv, TypeOK, Journals
    <2>3. /\ memory'.mutation = "created" => tree.target = NoTree
          /\ memory'.mutation = "existed" => tree.target # NoTree
        BY <1>3 DEF RecordMutation, Write, TypeInv, TypeOK, Journals
    <2>4. tree.target = NoTree => Created
        BY <1>3, MarksAssumption DEF RecordMutation, Created, Whole, Users, FileAt
    <2> QED BY <1>1, <1>2, <1>3, <2>1, <2>2, <2>3, <2>4, SameTrees
            DEF RecordMutation, Write, Goto
<1>4. CASE Commit \/ Abort
    <2>1. memory'.mutation = memory.mutation /\ memory'.status # "rolled_back"
        BY <1>4 DEF Commit, Abort, Write, TypeInv, TypeOK, Journals
    <2> QED BY <1>1, <1>2, <1>4, <2>1, SameTrees DEF Commit, Abort, Write, Goto
<1>5. CASE Settle
    <2>1. memory'.mutation = memory.mutation
        BY <1>5 DEF Settle, Write, TypeInv, TypeOK, Journals
    <2> QED BY <1>1, <1>2, <1>5, <2>1, SameTrees DEF Settle, Write, Goto
<1> QED BY <1>3, <1>4, <1>5

\* A call of writeJSONAtomic: the content stays, or becomes the journal in memory.
LEMMA WhereWriteStep ==
    ASSUME FilesInv, NEW ok \in BOOLEAN, WriteStep(ok), UNCHANGED own
    PROVE  WhereInv'
<1> USE DEF FilesInv, WhereInv, MoveOutInv, MoveBackInv, PlaceInv, JournalInv, Moving
<1>1. UNCHANGED <<tree, origin, edited, mistaken, left, mode, at, memory>>
    BY DEF own
<1>2. [FileNext]_fileVars /\ FileInv
    BY DEF FileNext, TypeInv
<1>3. Content' = Content \/ Content' = value
    BY <1>2, ContentStep DEF fileVars, Content
<1>4. value \in Values /\ value # NoFile
    BY <1>2, NoFileAssumption DEF FileInv, FileTypeOK
<1>5. step # "idle" /\ value' = value
    BY DEF WriteStep, CreateTemp, Rename, MoveAside, RenameAgain, PutBack, DropAside, SyncDir
<1>6. step' \in {"sync", "drop", "done"} => file' = value
    BY <1>2 DEF WriteStep, CreateTemp, Rename, MoveAside, RenameAgain, PutBack, DropAside,
                SyncDir, Fail, FileInv
<1>7. JournalInv'
    BY <1>1, <1>3, <1>4, <1>5, <1>6, SameTrees
<1> QED BY <1>1, <1>7, SameTrees

\* The calls that only decide what is called next.
LEMMA WhereCalls ==
    ASSUME FilesInv,
           AfterWrite \/ UndoInspect \/ UndoRestore \/ Recover
             \/ \E ok \in BOOLEAN : StageTarget(ok)
    PROVE  WhereInv'
<1> USE DEF FilesInv, WhereInv, MoveOutInv, MoveBackInv, PlaceInv, JournalInv, Moving
<1>1. UNCHANGED <<tree, origin, edited, left, mode, value, Content, file>>
    BY DEF AfterWrite, UndoInspect, UndoRestore, Recover, StageTarget, fileVars, Content
<1>0. UNCHANGED mistaken \/ UndoInspect
    BY DEF AfterWrite, UndoRestore, Recover, StageTarget
<1>2. CASE AfterWrite
    <2>1. UNCHANGED <<memory, mistaken>> /\ step' = "idle"
        BY <1>2 DEF AfterWrite
    <2>2. at = "recording" /\ step = "done" => Content = memory
        BY ValuesAssumption, NoFileAssumption DEF Content, TypeInv, TypeOK
    <2>3. at \in {"recording", "committing", "aborting", "settling"}
        BY <1>2 DEF AfterWrite
    <2>4. memory.mutation \in {"none", "created", "existed"}
        BY DEF TypeInv, TypeOK, Journals
    <2>5. CASE at = "recording" /\ step = "done"
        <3>1. at' \in (IF memory.mutation = "existed" THEN {"out"} ELSE {"stage", "commit"})
            BY <1>2, <2>5 DEF AfterWrite, AfterBackup, Goto
        <3>2. memory.mutation = "created" => Whole(tree.backup)
            BY DEF Created, Whole, FileAt
        <3> QED BY <1>1, <2>1, <2>2, <2>4, <2>5, <3>1, <3>2, SameTrees
    <2>6. CASE at = "recording" /\ step # "done"
        <3>1. at' = "abort"
            BY <1>2, <2>6 DEF AfterWrite, Goto
        <3> QED BY <1>1, <2>1, <2>6, <3>1, SameTrees
    <2>7. CASE at # "recording"
        <3>1. /\ at' \in {"rollback", "ended", "abort"}
              /\ at' = "abort" => at = "committing"
              /\ at' = "rollback" => at = "aborting"
              /\ at' = "ended" => at \in {"settling", "committing"}
            BY <1>2, <2>3, <2>7 DEF AfterWrite, Goto
        <3> QED BY <1>1, <2>1, <2>3, <2>7, <3>1, SameTrees
    <2> QED BY <2>5, <2>6, <2>7
<1>3. CASE UndoInspect
    <2>1. UNCHANGED <<memory, step>> /\ at = "rollback" /\ step = "idle"
        BY <1>3 DEF UndoInspect, fileVars
    <2>2. at' = IF memory.mutation = "none" THEN "settle"
                ELSE IF tree.target = NoTree THEN "restore"
                ELSE IF tree.target = result THEN "remove" ELSE "ended"
        BY <1>3 DEF UndoInspect, Goto
    <2>3. CASE mistaken'
        <3>1. \A t : Whole(t)' /\ OnlyUsers(t)'
            BY <2>3 DEF Whole, OnlyUsers
        <3>2. Created => Created'
            BY <1>1, <2>3 DEF Created
        <3>3. Kept' /\ Whole(tree.target)' /\ Whole(tree.backup)' /\ OnlyUsers(tree.target)'
            BY <3>1 DEF Kept
        <3> QED BY <1>1, <2>1, <2>2, <2>3, <3>2, <3>3
    <2>4. CASE ~mistaken'
        <3>1. ~mistaken /\ ~TakenForResult /\ UNCHANGED mistaken
            BY <1>3, <2>4 DEF UndoInspect, TypeInv, TypeOK
        <3>2. tree.target = NoTree => Whole(tree.backup) /\ OnlyUsers(tree.target)
            BY DEF Kept, OnlyUsers, FileAt
        <3>3. memory.mutation # "none" /\ tree.target # NoTree /\ tree.target = result
                 => Whole(tree.backup)
            BY <3>1, WholeIsOriginal DEF Kept, TakenForResult
        <3>4. Content.mutation = "none" => (Whole(tree.backup) => Created)
            BY <3>1, MarksAssumption DEF Whole, Users, FileAt, Created
        <3>5. ASSUME Content.mutation = "none", memory.mutation # "none",
                     tree.target # NoTree, tree.target = result
              PROVE  FALSE
            <4>1. \A f \in Files : result[f] # User /\ result[f] \in Contents \cup {None}
                BY <3>5, TreesAssumption, MarksAssumption DEF TypeInv, TypeOK, Skills
            <4>2. \A f \in Files : Orig(f) = None
                BY <3>1, <3>3, <3>4, <3>5 DEF Created
            <4>3. Whole(tree.target)
                BY <3>5
            <4>4. \A f \in Files : result[f] = None
                BY <3>1, <3>5, <4>1, <4>2, <4>3 DEF Whole, Users, FileAt
            <4>5. result \in [Files -> Contents \cup {None}] /\ result # Empty
                BY <3>5, TreesAssumption DEF TypeInv, TypeOK, Skills
            <4> QED BY <4>4, <4>5 DEF Empty
        <3>6. memory.mutation = "none" => Whole(tree.target)
            OBVIOUS
        <3> QED BY <1>1, <2>1, <2>2, <3>1, <3>2, <3>3, <3>5, <3>6, SameTrees
    <2> QED BY <2>3, <2>4
<1>4. CASE UndoRestore
    <2>1. UNCHANGED <<memory, step, mistaken>> /\ at = "restore"
        BY <1>4 DEF UndoRestore, fileVars
    <2>2. at' = IF memory.mutation = "existed" /\ tree.backup # NoTree
                THEN "back" ELSE "settle"
        BY <1>4 DEF UndoRestore, Goto
    <2>3. tree.backup = NoTree => Whole(tree.target)
        BY <2>1, MarksAssumption DEF Whole, OnlyUsers, Users, FileAt
    <2>4. memory.mutation # "existed" => Whole(tree.target)
        BY <2>1, <2>3 DEF TypeInv, TypeOK, Journals, Created
    <2> QED BY <1>1, <2>1, <2>2, <2>3, <2>4, SameTrees
<1>5. CASE Recover
    <2>1. UNCHANGED <<step, mistaken>> /\ step = "idle"
        BY <1>5 DEF Recover, fileVars
    <2>2. CASE at' = "ended" /\ UNCHANGED memory
        BY <1>1, <1>5, <2>1, <2>2, SameTrees DEF Recover
    <2>3. CASE at' = "rollback" /\ memory' = file /\ file # NoFile /\ file.status = "applying"
        <3>1. Content = file
            BY <2>3 DEF Content
        <3> QED BY <1>1, <1>5, <2>1, <2>3, <3>1, SameTrees DEF Recover
    <2> QED BY <1>5, <2>2, <2>3, ValuesAssumption
            DEF Recover, Goto, TypeInv, TypeOK, FileTypeOK, Journals
<1>6. ASSUME NEW ok \in BOOLEAN, StageTarget(ok) PROVE WhereInv'
    <2>1. UNCHANGED <<memory, step, mistaken>> /\ at = "stage" /\ at' \in {"place", "abort"}
        BY <1>6 DEF StageTarget, fileVars, Goto
    <2> QED BY <1>1, <2>1, SameTrees
<1> QED BY <1>2, <1>3, <1>4, <1>5, <1>6

\* A tree that is copied to the last file is whole at the destination.
LEMMA WhereCopyDone == ASSUME FilesInv, CopyDone PROVE WhereInv'
<1> USE DEF FilesInv, WhereInv, MoveOutInv, MoveBackInv, PlaceInv, JournalInv, Moving
<1>1. /\ UNCHANGED <<tree, origin, edited, mistaken, left, at, memory, value, file, step, Content>>
      /\ mode' = "clear" /\ at \in {"out", "back"}
    BY DEF CopyDone, fileVars, Content
<1>2. at = "out" => Whole(tree.backup)
    BY DEF CopyDone, Copied, Whole
<1>3. at = "back" => Whole(tree.target) /\ tree.target # NoTree
    BY DEF CopyDone, Copied, Whole
<1> QED BY <1>1, <1>2, <1>3, SameTrees

\* A stuttering step
LEMMA WhereStutter == ASSUME FilesInv, UNCHANGED vars PROVE WhereInv'
<1> USE DEF FilesInv, WhereInv, MoveOutInv, MoveBackInv, PlaceInv, JournalInv, Moving
<1>1. UNCHANGED <<tree, origin, edited, mistaken, left, mode, at, memory, value, file, step, Content>>
    BY DEF vars, own, fileVars, Content
<1> QED BY <1>1, SameTrees

-----------------------------------------------------------------------------
(* The steps that move, copy, remove or write files *)

\* The two trees of a move
LEMMA Ends ==
    /\ at = "out" => From = "target" /\ To = "backup"
    /\ at = "back" => From = "backup" /\ To = "target"
    /\ at = "remove" => From = "target"
    /\ From \in {"target", "backup"} /\ To \in {"target", "backup"}
BY DEF From, To

\* What one assignment to a tree does to the other
LEMMA OtherTree ==
    ASSUME TypeInv, UNCHANGED <<origin, edited, mistaken>>
    PROVE  /\ tree'.backup = tree.backup =>
                 /\ Whole(tree.backup)' <=> Whole(tree.backup)
                 /\ Created' <=> Created
                 /\ left' = left => (Copied(tree.backup)' <=> Copied(tree.backup))
           /\ tree'.target = tree.target =>
                 /\ Whole(tree.target)' <=> Whole(tree.target)
                 /\ OnlyUsers(tree.target)' <=> OnlyUsers(tree.target)
                 /\ left' = left => (Copied(tree.target)' <=> Copied(tree.target))
BY DEF Whole, OnlyUsers, Created, Copied, Users, FileAt, Orig

\* The rename moves the whole tree; a copy begins with an empty destination.
LEMMA WhereMoveRename == ASSUME FilesInv, MoveRename PROVE WhereInv'
<1> USE DEF FilesInv, WhereInv, MoveOutInv, MoveBackInv, PlaceInv, JournalInv, Moving
<1>1. /\ UNCHANGED <<origin, edited, mistaken, memory, value, file, step, Content>>
      /\ at \in {"out", "back"} /\ mode = "rename" /\ step = "idle"
    BY DEF MoveRename, fileVars, Content
<1>2. Content.mutation # "none" /\ memory.mutation = "existed"
      /\ Content.status # "rolled_back" /\ memory.status # "rolled_back"
    BY <1>1
<1>3. CASE /\ tree' = [tree EXCEPT ![To] = tree[From], ![From] = NoTree]
           /\ MoveDone /\ UNCHANGED <<mode, left>>
    <2>1. CASE at = "out"
        <3>1. tree'.backup = tree.target /\ at' \in {"commit", "stage"}
            BY <1>3, <2>1, Ends DEF MoveDone, AfterBackup, Goto, TypeInv, TypeOK
        <3>2. Whole(tree.backup)'
            BY <1>1, <2>1, <3>1 DEF Whole, Users, FileAt, Orig
        <3> QED BY <1>1, <1>2, <1>3, <3>1, <3>2 DEF Kept
    <2>2. CASE at = "back"
        <3>1. tree'.target = tree.backup /\ at' = "settle"
            BY <1>3, <2>2, Ends DEF MoveDone, Goto, TypeInv, TypeOK
        <3>2. Whole(tree.target)'
            BY <1>1, <2>2, <3>1 DEF Whole, Users, FileAt, Orig
        <3> QED BY <1>1, <1>2, <1>3, <2>2, <3>1, <3>2 DEF Kept
    <2> QED BY <1>1, <2>1, <2>2
<1>4. CASE /\ mode' = "copy" /\ left' = FilesOf(tree[From]) /\ UNCHANGED at
           /\ tree' = [tree EXCEPT ![To] = IF @ = NoTree THEN Empty ELSE @]
    <2>1. CASE at = "out"
        <3>1. tree'.backup = Empty /\ tree'.target = tree.target
            BY <1>4, <2>1, Ends, <1>1 DEF TypeInv, TypeOK
        <3>2. left' = FilesOf(tree.target)
            BY <1>4, <2>1, Ends
        <3>3. Whole(tree.target)' /\ Whole(tree.target) /\ tree.target # NoTree
            BY <1>1, <2>1, <3>1, OtherTree
        <3>4. mistaken \/ \A f \in Files : f \notin left' => Orig(f) = None
            BY <3>2, <3>3, MarksAssumption DEF FilesOf, HasFile, Whole, Users, FileAt
        <3>5. Copied(tree.backup)'
            BY <1>1, <3>1, <3>4, TreeFacts DEF Copied, FileAt, Orig, Empty
        <3> QED BY <1>1, <1>2, <1>4, <2>1, <3>1, <3>3, <3>5 DEF Kept
    <2>2. CASE at = "back"
        <3>1. /\ tree'.backup = tree.backup
              /\ tree'.target = IF tree.target = NoTree THEN Empty ELSE tree.target
            BY <1>4, <2>2, Ends DEF TypeInv, TypeOK
        <3>2. left' = FilesOf(tree.backup)
            BY <1>4, <2>2, Ends
        <3>3. Whole(tree.backup)' /\ Whole(tree.backup) /\ tree.backup # NoTree
            BY <1>1, <2>2, <3>1, OtherTree
        <3>4. mistaken \/ \A f \in Files : f \notin left' => Orig(f) = None
            BY <3>2, <3>3, MarksAssumption DEF FilesOf, HasFile, Whole, Users, FileAt
        <3>5. \A f \in Files : FileAt(tree'.target, f) = FileAt(tree.target, f)
            BY <3>1, TreeFacts DEF FileAt, Empty
        <3>6. Copied(tree.target)'
            BY <1>1, <2>2, <3>1, <3>4, <3>5, TreeFacts
               DEF Copied, OnlyUsers, Users, Orig, FileAt
        <3> QED BY <1>1, <1>2, <1>4, <2>2, <3>1, <3>3, <3>6 DEF Kept
    <2> QED BY <1>1, <2>1, <2>2
<1> QED BY <1>3, <1>4 DEF MoveRename

\* One file is copied from a whole tree.
LEMMA CopiedOne ==
    ASSUME TypeInv, UNCHANGED <<origin, edited, mistaken>>,
           NEW p \in {"target", "backup"}, NEW q \in {"target", "backup"},
           NEW f \in Files, left' = left \ {f},
           tree[p] # NoTree, Whole(tree[p]), Copied(tree[q]),
           tree'[q] = [tree[q] EXCEPT ![f] = tree[p][f]]
    PROVE  Copied(tree[q])'
<1>1. tree[q] \in [Files -> Contents \cup {None, Partial, User}]
    BY TreeFacts DEF TypeInv, TypeOK, Copied
<1>2. tree[p] \in [Files -> Contents \cup {None, Partial, User}]
    BY TreeFacts DEF TypeInv, TypeOK
<1>3. tree'[q] # NoTree
    BY <1>1, <1>2, TreesAssumption
<1>4. \A g \in Files : FileAt(tree[q], g)' = IF g = f THEN FileAt(tree[p], g)
                                              ELSE FileAt(tree[q], g)
    BY <1>1, <1>3 DEF FileAt, Copied
<1>5. \A g \in Files : Orig(g)' = Orig(g)
    BY DEF Orig, FileAt
<1> QED BY <1>3, <1>4, <1>5 DEF Copied, Whole, Users

\* A copied file leaves the source whole, also when it is cut short.
LEMMA WhereCopyFile == ASSUME FilesInv, NEW ok \in BOOLEAN, CopyFile(ok) PROVE WhereInv'
<1> USE DEF FilesInv, WhereInv, MoveOutInv, MoveBackInv, PlaceInv, JournalInv, Moving
<1> DEFINE f == Min(left)
<1>1. /\ UNCHANGED <<origin, edited, mistaken, memory, value, file, step, Content>>
      /\ at \in {"out", "back"} /\ mode = "copy" /\ step = "idle"
    BY DEF CopyFile, fileVars, Content
<1>2. Content.mutation # "none" /\ memory.mutation = "existed"
      /\ Content.status # "rolled_back" /\ memory.status # "rolled_back"
    BY <1>1
<1>3. f \in left /\ f \in Files
    BY MinIsIn, FilesAssumption DEF CopyFile, TypeInv, TypeOK
<1> HIDE DEF f
<1>4. /\ at = "out" => tree'.target = tree.target
      /\ at = "back" => tree'.backup = tree.backup
    BY Ends, <1>1 DEF CopyFile, TypeInv, TypeOK
<1>5. /\ at = "out" => Whole(tree.target)' /\ tree'.target # NoTree
      /\ at = "back" => Whole(tree.backup)' /\ tree'.backup # NoTree
    BY <1>1, <1>4, OtherTree
<1>6. Kept'
    BY <1>1, <1>5 DEF Kept
<1>7. CASE at' = OnError /\ mode' = "rename"
    <2>1. at' \in {"abort", "ended"}
        BY <1>7 DEF OnError
    <2> QED BY <1>1, <1>2, <1>6, <1>7, <2>1
<1>8. CASE /\ tree' = [tree EXCEPT ![To][f] = tree[From][f]]
           /\ left' = left \ {f} /\ UNCHANGED <<at, mode>>
           /\ HasFile(tree[From], f)
    <2>1. CASE at = "out"
        <3>1. tree.target # NoTree /\ Whole(tree.target) /\ Copied(tree.backup)
            BY <1>1, <2>1
        <3>2. tree.backup \in [Files -> Contents \cup {None, Partial, User}]
            BY <3>1, TreeFacts DEF TypeInv, TypeOK, Copied
        <3>3. tree'.backup = [tree.backup EXCEPT ![f] = tree.target[f]]
            BY <1>8, <2>1, Ends DEF TypeInv, TypeOK
        <3>4. Copied(tree.backup)'
            BY <1>1, <1>3, <1>8, <3>1, <3>2, <3>3, CopiedOne
        <3> QED BY <1>1, <1>2, <1>5, <1>6, <1>8, <2>1, <3>4
    <2>2. CASE at = "back"
        <3>1. tree.backup # NoTree /\ Whole(tree.backup) /\ Copied(tree.target)
            BY <1>1, <2>2
        <3>2. tree.target \in [Files -> Contents \cup {None, Partial, User}]
            BY <3>1, TreeFacts DEF TypeInv, TypeOK, Copied
        <3>3. tree'.target = [tree.target EXCEPT ![f] = tree.backup[f]]
            BY <1>8, <2>2, Ends DEF TypeInv, TypeOK
        <3>4. Copied(tree.target)'
            BY <1>1, <1>3, <1>8, <3>1, <3>2, <3>3, CopiedOne
        <3> QED BY <1>1, <1>2, <1>5, <1>6, <1>8, <2>2, <3>4
    <2> QED BY <1>1, <2>1, <2>2
<1> QED BY <1>7, <1>8 DEF CopyFile, Goto, f

\* What is removed is whole elsewhere.
LEMMA WhereClear == ASSUME FilesInv, NEW ok \in BOOLEAN, Clear(ok) PROVE WhereInv'
<1> USE DEF FilesInv, WhereInv, MoveOutInv, MoveBackInv, PlaceInv, JournalInv, Moving
<1>1. /\ UNCHANGED <<origin, edited, mistaken, left, memory, value, file, step, Content>>
      /\ (at \in {"out", "back"} /\ mode = "clear") \/ at = "remove"
      /\ step = "idle"
    BY DEF Clear, fileVars, Content
<1>2. /\ Content.mutation = "none" =>
             mistaken /\ at = "remove" /\ Whole(tree.target) /\ tree.backup = NoTree
      /\ Content.status # "rolled_back" /\ memory.status # "rolled_back"
      /\ memory.mutation # "existed" => at = "remove"
    BY <1>1
<1>3. /\ at \in {"out", "remove"} => Whole(tree.backup)
      /\ at = "back" => tree.target # NoTree /\ Whole(tree.target)
    BY <1>1
<1>4. CASE Goto(OnError) /\ mode' = "rename" /\ UNCHANGED tree
    <2>1. at' \in {"abort", "ended"}
        BY <1>4 DEF OnError, Goto
    <2> QED BY <1>1, <1>2, <1>3, <1>4, <2>1, SameTrees
<1>5. CASE /\ \E f \in FilesOf(tree[From]) : tree' = [tree EXCEPT ![From][f] = None]
           /\ UNCHANGED <<at, mode>>
    <2>1. PICK f \in FilesOf(tree[From]) : tree' = [tree EXCEPT ![From][f] = None]
        BY <1>5
    <2>2. f \in Files /\ tree[From] # NoTree
        BY DEF FilesOf, HasFile
    <2>3. CASE at \in {"out", "remove"}
        <3>1. /\ tree'.backup = tree.backup
              /\ tree'.target = [tree.target EXCEPT ![f] = None]
            BY <2>1, <2>3, Ends DEF TypeInv, TypeOK
        <3>2. tree'.target # NoTree
            BY <2>2, <2>3, <3>1, Ends, TreeFacts, TreesAssumption DEF TypeInv, TypeOK
        <3>3. Whole(tree.backup)' /\ Kept' /\ (Created' <=> Created)
            BY <1>1, <1>3, <2>3, <3>1, OtherTree DEF Kept
        <3>4. Content.mutation = "none" => mistaken' /\ Whole(tree.target)'
            BY <1>1, <1>2 DEF Whole
        <3> QED BY <1>1, <1>2, <1>5, <2>3, <3>1, <3>2, <3>3, <3>4
    <2>4. CASE at = "back"
        <3>1. /\ tree'.target = tree.target
              /\ tree'.backup = [tree.backup EXCEPT ![f] = None]
            BY <2>1, <2>4, Ends DEF TypeInv, TypeOK
        <3>2. tree'.backup # NoTree
            BY <2>2, <2>4, <3>1, Ends, TreeFacts, TreesAssumption DEF TypeInv, TypeOK
        <3>3. Whole(tree.target)' /\ Kept'
            BY <1>1, <1>3, <2>4, <3>1, OtherTree DEF Kept
        <3> QED BY <1>1, <1>2, <1>5, <2>4, <3>1, <3>2, <3>3
    <2> QED BY <1>1, <2>3, <2>4
<1>6. CASE /\ tree' = [tree EXCEPT ![From] = NoTree] /\ mode' = "rename"
           /\ IF Moving THEN MoveDone ELSE Goto("restore")
    <2>1. CASE at \in {"out", "remove"}
        <3>1. tree'.backup = tree.backup /\ tree'.target = NoTree
            BY <1>6, <2>1, Ends DEF TypeInv, TypeOK
        <3>2. at' \in {"stage", "commit", "restore"}
            BY <1>6, <2>1 DEF MoveDone, AfterBackup, Goto
        <3>3. Whole(tree.backup)' /\ Kept' /\ (Created' <=> Created)
            BY <1>1, <1>3, <2>1, <3>1, OtherTree DEF Kept
        <3>4. OnlyUsers(tree.target)'
            BY <3>1 DEF OnlyUsers, FileAt
        <3>5. Content.mutation = "none" => /\ mistaken' /\ Whole(tree.target)'
                                           /\ at' = "restore" /\ tree'.backup = NoTree
            BY <1>1, <1>2, <1>6, <3>1 DEF Whole, Goto, Moving
        <3> QED BY <1>1, <1>2, <1>6, <2>1, <3>2, <3>3, <3>4, <3>5
    <2>2. CASE at = "back"
        <3>1. tree'.target = tree.target /\ at' = "settle"
            BY <1>6, <2>2, Ends DEF TypeInv, TypeOK, MoveDone, Goto
        <3>2. Whole(tree.target)' /\ Kept'
            BY <1>1, <1>3, <2>2, <3>1, OtherTree DEF Kept
        <3> QED BY <1>1, <1>2, <1>6, <2>2, <3>1, <3>2
    <2> QED BY <1>1, <2>1, <2>2
<1> QED BY <1>4, <1>5, <1>6 DEF Clear

\* The new tree goes to the target while the backup is whole.
LEMMA WherePlaceTarget ==
    ASSUME FilesInv, NEW ok \in BOOLEAN, PlaceTarget(ok) PROVE WhereInv'
<1> USE DEF FilesInv, WhereInv, MoveOutInv, MoveBackInv, PlaceInv, JournalInv, Moving
<1>1. /\ UNCHANGED <<origin, edited, mistaken, left, mode, memory, value, file, step, Content>>
      /\ at = "place" /\ at' \in {"commit", "abort"}
      /\ tree'.backup = tree.backup
    BY DEF PlaceTarget, fileVars, Content, Goto, TypeInv, TypeOK
<1>2. Whole(tree.backup)' /\ Kept' /\ (Created' <=> Created)
    BY <1>1, OtherTree DEF Kept
<1>3. Content.mutation # "none" /\ step = "idle"
      /\ Content.status # "rolled_back" /\ memory.status # "rolled_back"
    BY <1>1
<1> QED BY <1>1, <1>2, <1>3

\* A death cuts a file short at the destination of a copy and nowhere else.
LEMMA WhereCrash == ASSUME FilesInv, Crash PROVE WhereInv'
<1> USE DEF FilesInv, WhereInv, MoveOutInv, MoveBackInv, PlaceInv, JournalInv, Moving
<1>1. /\ UNCHANGED <<origin, edited, mistaken, memory, value, file, Content>>
      /\ at' = "down" /\ step' = "idle" /\ mode' = "rename"
    BY DEF Crash, WriterDies, Content, Goto
<1>2. CASE UNCHANGED tree
    BY <1>1, <1>2, SameTrees
<1>3. CASE mode = "copy" /\ \E f \in Files : tree' = [tree EXCEPT ![To][f] = Partial]
    <2>1. at \in {"out", "back"} /\ memory.mutation = "existed"
          /\ Content.mutation # "none" /\ Content.status # "rolled_back"
        BY <1>3
    <2>2. /\ at = "out" => tree'.target = tree.target
          /\ at = "back" => tree'.backup = tree.backup
        BY <1>3, Ends DEF TypeInv, TypeOK
    <2>3. Kept'
        BY <1>1, <1>3, <2>1, <2>2, OtherTree DEF Kept
    <2> QED BY <1>1, <2>1, <2>3
<1>4. left # {} => Min(left) \in Files
    BY MinIsIn, FilesAssumption DEF TypeInv, TypeOK
<1> QED BY <1>2, <1>3, <1>4 DEF Crash

\* What the user writes into the target is the user's.
LEMMA WhereUserEdit == ASSUME FilesInv, UserEdit PROVE WhereInv'
<1> USE DEF FilesInv, WhereInv, MoveOutInv, MoveBackInv, PlaceInv, JournalInv, Moving
<1>1. UNCHANGED <<origin, mistaken, result, left, mode, at, memory, value, file, step, Content>>
    BY DEF UserEdit, fileVars, Content
<1>2. PICK f \in Files :
          /\ tree' = [tree EXCEPT !.target =
                         [(IF @ = NoTree THEN Empty ELSE @) EXCEPT ![f] = User]]
          /\ edited' = edited \cup {f}
    BY DEF UserEdit
<1>3. tree'.backup = tree.backup
    BY <1>2 DEF TypeInv, TypeOK
<1>4. tree'.target = [(IF tree.target = NoTree THEN Empty ELSE tree.target) EXCEPT ![f] = User]
    BY <1>2 DEF TypeInv, TypeOK
<1>5. (IF tree.target = NoTree THEN Empty ELSE tree.target)
          \in [Files -> Contents \cup {None, Partial, User}]
    BY TreeFacts DEF TypeInv, TypeOK
<1>6. tree'.target # NoTree
    BY <1>4, <1>5, TreesAssumption
<1>7. \A g \in Files : FileAt(tree.target, g)' = IF g = f THEN User ELSE FileAt(tree.target, g)
    BY <1>4, <1>5, <1>6 DEF FileAt, Empty
<1>8. \A g \in Files : /\ FileAt(tree.backup, g)' = FileAt(tree.backup, g)
                       /\ Orig(g)' = Orig(g)
    BY <1>1, <1>3 DEF FileAt, Orig
<1>9. /\ Whole(tree.backup) => Whole(tree.backup)'
      /\ Copied(tree.backup) => Copied(tree.backup)'
      /\ Created => Created'
    BY <1>1, <1>2, <1>3, <1>8 DEF Whole, Copied, Created, Users
<1>10. /\ Whole(tree.target) => Whole(tree.target)'
       /\ OnlyUsers(tree.target) => OnlyUsers(tree.target)'
       /\ Copied(tree.target) => Copied(tree.target)'
    BY <1>1, <1>2, <1>6, <1>7, <1>8 DEF Whole, OnlyUsers, Copied, Users
<1>11. Kept'
    BY <1>6, <1>9, <1>10 DEF Kept
<1> QED BY <1>1, <1>3, <1>6, <1>9, <1>10, <1>11

-----------------------------------------------------------------------------
(* The theorems *)

\* The invariant is inductive.
LEMMA FilesStep == FilesInv /\ [Next]_vars => FilesInv'
<1> SUFFICES ASSUME FilesInv, [Next]_vars PROVE FilesInv'
    OBVIOUS
<1>1. TypeOK'
    BY TypeStep DEF FilesInv, WhereInv
<1>2. FileInv'
    BY FileInvStep DEF FilesInv, TypeInv, TypeOK
<1>3. UNCHANGED <<origin, result>>
    BY DEF Next, Effects, MoveRename, CopyDone, RecordMutation, Commit, Abort, Settle, Write,
           AfterWrite, UndoInspect, UndoRestore, CopyFile, Clear, StageTarget, PlaceTarget,
           own, Recover, Crash, UserEdit, vars
<1>4. WhereInv'
    <2>1. CASE RecordMutation \/ Commit \/ Abort \/ Settle
        BY <2>1, WhereWrite
    <2>2. CASE \E ok \in BOOLEAN : WriteStep(ok) /\ Outcome(ok) /\ UNCHANGED own
        BY <2>2, WhereWriteStep
    <2>3. CASE \/ AfterWrite \/ UndoInspect \/ UndoRestore \/ Recover
               \/ \E ok \in BOOLEAN : StageTarget(ok)
        BY <2>3, WhereCalls
    <2>4. CASE \E ok \in BOOLEAN : CopyFile(ok) \/ Clear(ok) \/ PlaceTarget(ok)
        BY <2>4, WhereCopyFile, WhereClear, WherePlaceTarget
    <2>5. CASE MoveRename \/ CopyDone \/ Crash \/ UserEdit
        BY <2>5, WhereMoveRename, WhereCopyDone, WhereCrash, WhereUserEdit
    <2>6. CASE UNCHANGED vars
        BY <2>6, WhereStutter
    <2> QED BY <2>1, <2>2, <2>3, <2>4, <2>5, <2>6 DEF Next, Effects
<1> QED BY <1>1, <1>2, <1>3, <1>4 DEF FilesInv, TypeInv

\* The invariant holds of every state.
LEMMA FilesAlways == Spec => []FilesInv
<1>1. Init => FilesInv
    BY TypeInit, WhereInit DEF FilesInv
<1> QED BY <1>1, FilesStep, PTL DEF Spec

\* Whatever fails, dies or is written by the user between two calls of moveDir,
\* copyTree and RemoveAll, the original tree is whole in one place until the
\* journal says that it is back; the result may be anything, also the original, but
\* then nothing is said from where a rollback, before the move, takes one for the other.
THEOREM OriginalIsInOnePlace == Spec => []OriginalInOnePlace
<1>1. FilesInv => OriginalInOnePlace
    BY WholeIsOriginal DEF FilesInv, WhereInv, PlaceInv, Kept, OriginalInOnePlace
<1> QED BY <1>1, FilesAlways, PTL

\* A journal that says rolled_back is true: rollbackTransaction writes it only when
\* every file of the original is at the target again, or when it has removed the
\* original for a result with the same bytes.
THEOREM RolledBackTargetIsWhole == Spec => []RolledBackIsWhole
<1>1. FilesInv => RolledBackIsWhole
    BY WholeIsOriginal DEF FilesInv, WhereInv, JournalInv, Content, RolledBackIsWhole
<1> QED BY <1>1, FilesAlways, PTL

\* A file that is added to a tree, cut short perhaps, goes over no other.
LEMMA FileAdded ==
    ASSUME TypeInv, NEW q \in {"target", "backup"}, NEW g \in Files,
           NEW c \in Contents \cup {None, Partial, User},
           ~HasFile(tree[q], g), tree[q] # NoTree, tree' = [tree EXCEPT ![q][g] = c],
           NEW p \in {"target", "backup"}, NEW f \in Files, HasFile(tree[p], f)
    PROVE  HasFile(tree[p], f)' /\ tree'[p][f] = tree[p][f]
<1>1. tree[q] \in [Files -> Contents \cup {None, Partial, User}]
    BY TreeFacts DEF TypeInv, TypeOK
<1>2. tree'[q] = [tree[q] EXCEPT ![g] = c] /\ tree'[q] # NoTree
    BY <1>1, TreesAssumption DEF TypeInv, TypeOK
<1>3. CASE p = q
    BY <1>1, <1>2, <1>3 DEF HasFile
<1>4. CASE p # q
    BY <1>4 DEF HasFile, TypeInv, TypeOK
<1> QED BY <1>3, <1>4

\* One step keeps the user's bytes of every file, but for the removal of a tree.
LEMMA UserCopyKept ==
    ASSUME FilesInv, [Next]_vars, NEW f \in Files, UserCopies(f) # {},
           ~((Moving /\ mode = "clear") \/ at = "remove")
    PROVE  (UserCopies(f) # {})'
<1> USE DEF FilesInv, WhereInv, TypeInv, TypeOK
<1>1. PICK p \in {"target", "backup"} : HasFile(tree[p], f) /\ tree[p][f] = User
    BY DEF UserCopies
<1> DEFINE Stays == \E q \in {"target", "backup"} : (HasFile(tree[q], f) /\ tree[q][f] = User)'
<1>2. SUFFICES Stays
    BY DEF UserCopies
<1>3. CASE UNCHANGED tree
    BY <1>1, <1>3 DEF HasFile
<1>4. CASE MoveRename
    <2>1. CASE /\ CanRename(tree[To])
               /\ tree' = [tree EXCEPT ![To] = tree[From], ![From] = NoTree]
        <3>1. p = From /\ To # From
            BY <1>1, <1>4, <2>1, Ends DEF MoveRename, Moving, CanRename, HasFile
        <3>2. tree'[To] = tree[p]
            BY <2>1, <3>1, Ends
        <3> QED BY <1>1, <3>2, Ends DEF HasFile
    <2>2. CASE tree' = [tree EXCEPT ![To] = IF @ = NoTree THEN Empty ELSE @]
        <3>1. tree'[p] = tree[p]
            BY <1>1, <2>2 DEF HasFile
        <3> QED BY <1>1, <3>1 DEF HasFile
    <2> QED BY <1>4, <2>1, <2>2 DEF MoveRename
<1>5. ASSUME NEW ok \in BOOLEAN, CopyFile(ok) PROVE Stays
    <2>1. CASE \E g \in Files, c \in Contents \cup {None, Partial, User} :
                  /\ ~HasFile(tree[To], g) /\ tree[To] # NoTree
                  /\ tree' = [tree EXCEPT ![To][g] = c]
        <3>1. PICK g \in Files, c \in Contents \cup {None, Partial, User} :
                  /\ ~HasFile(tree[To], g) /\ tree[To] # NoTree
                  /\ tree' = [tree EXCEPT ![To][g] = c]
            BY <2>1
        <3>2. HasFile(tree[p], f)' /\ tree'[p][f] = tree[p][f]
            BY <1>1, <3>1, FileAdded, Ends
        <3> QED BY <1>1, <3>2
    <2>2. Min(left) \in Files
        BY <1>5, MinIsIn, FilesAssumption DEF CopyFile
    <2>3. tree[To] # NoTree
        BY <1>5 DEF CopyFile, Moving, MoveOutInv, MoveBackInv, Copied, To
    <2>4. HasFile(tree[From], Min(left)) =>
              tree[From][Min(left)] \in Contents \cup {None, Partial, User}
        BY <2>2, Ends, TreeFacts DEF HasFile
    <2> QED BY <1>3, <1>5, <2>1, <2>2, <2>3, <2>4 DEF CopyFile
<1>6. CASE Crash
    <2>1. CASE \E g \in Files :
                  /\ ~HasFile(tree[To], g) /\ tree[To] # NoTree
                  /\ tree' = [tree EXCEPT ![To][g] = Partial]
        BY <1>1, <2>1, FileAdded, Ends
    <2>2. left # {} => Min(left) \in Files
        BY MinIsIn, FilesAssumption
    <2> QED BY <1>3, <1>6, <2>1, <2>2 DEF Crash
<1>7. ASSUME NEW ok \in BOOLEAN, PlaceTarget(ok) PROVE Stays
    <2>1. CASE CanRename(tree.target) /\ tree' = [tree EXCEPT !.target = result]
        BY <1>1, <2>1 DEF CanRename, FilesOf, HasFile
    <2> QED BY <1>3, <1>7, <2>1 DEF PlaceTarget
<1>8. CASE UserEdit
    <2>1. PICK g \in Files :
              tree' = [tree EXCEPT !.target =
                          [(IF @ = NoTree THEN Empty ELSE @) EXCEPT ![g] = User]]
        BY <1>8 DEF UserEdit
    <2>2. tree'.backup = tree.backup
        BY <2>1
    <2>3. tree'.target = [(IF tree.target = NoTree THEN Empty ELSE tree.target)
                             EXCEPT ![g] = User]
        BY <2>1
    <2>4. (IF tree.target = NoTree THEN Empty ELSE tree.target)
             \in [Files -> Contents \cup {None, Partial, User}]
        BY TreeFacts
    <2>5. tree'.target # NoTree
        BY <2>3, <2>4, TreesAssumption
    <2>6. p = "target" => HasFile(tree'.target, f) /\ tree'.target[f] = User
        BY <1>1, <2>3, <2>4, <2>5, MarksAssumption DEF HasFile
    <2> QED BY <1>1, <2>2, <2>6 DEF HasFile
<1>9. ASSUME NEW ok \in BOOLEAN, Clear(ok) PROVE FALSE
    BY <1>9 DEF Clear
<1>10. CASE ~(MoveRename \/ Crash \/ UserEdit
              \/ \E ok \in BOOLEAN : CopyFile(ok) \/ Clear(ok) \/ PlaceTarget(ok))
    BY <1>3, <1>10 DEF Next, Effects, CopyDone, RecordMutation, Commit, Abort, Settle, Write,
           AfterWrite, UndoInspect, UndoRestore, StageTarget, own, Recover, vars
<1> QED BY <1>4, <1>5, <1>6, <1>7, <1>8, <1>9, <1>10

\* The user's bytes of a file are given up only with a tree that is removed: no
\* rename, no copy and no placing of a tree goes over them.
THEOREM UserFilesAreKept == Spec => UserFilesKept
<1>1. FilesInv /\ [Next]_vars =>
         [\A f \in Files :
             UserCopies(f) # {} /\ UserCopies(f)' = {}
             => (Moving /\ mode = "clear") \/ at = "remove"]_vars
    BY UserCopyKept
<1> QED BY <1>1, FilesAlways, PTL DEF Spec, UserFilesKept

-----------------------------------------------------------------------------
(* A committed target, as long as no call fails for a reason of its own *)

CountInv == count \in [faults : Nat, crashes : Nat, edits : Nat]

\* From the last move on the target is the new tree; only the write of a
\* committed journal follows, and neither it nor what comes after undoes anything.
CommitInv ==
    count.faults = 0 =>
        /\ step \in {"idle", "create", "rename", "sync", "done"}
        /\ at \in {"commit", "committing"} => Same(tree.target, result)
        /\ memory.status = "committed" => at \in {"committing", "ended", "down"}
        /\ Content.status = "committed" =>
              at \in {"committing", "ended", "down"} /\ Same(tree.target, result)

\* At first nothing is counted and nothing is committed.
LEMMA CommitInit == Init => CountInv /\ CommitInv
<1> SUFFICES ASSUME Init PROVE CountInv /\ CommitInv
    OBVIOUS
<1>1. Content = file
    BY ValuesAssumption, NoFileAssumption DEF Init, Content, Journals
<1> QED BY <1>1 DEF Init, CountInv, CommitInv

\* Nothing is taken off a count.
LEMMA CountStep ==
    CountInv /\ [Next]_vars => CountInv' /\ (count'.faults = 0 => count.faults = 0)
<1> SUFFICES ASSUME CountInv, [Next]_vars
             PROVE  CountInv' /\ (count'.faults = 0 => count.faults = 0)
    OBVIOUS
<1> USE DEF CountInv
<1>1. CASE UNCHANGED count
    BY <1>1
<1>2. CASE \E event \in {"faults", "crashes", "edits"} : Count(event)
    BY <1>2 DEF Count
<1> QED BY <1>1, <1>2
        DEF Next, Effects, MoveRename, CopyDone, RecordMutation, Commit, Abort, Settle, Write,
            AfterWrite, UndoInspect, UndoRestore, CopyFile, Clear, StageTarget, PlaceTarget,
            Outcome, Recover, Crash, UserEdit, vars

\* A call whose failure would be counted has succeeded.
LEMMA NoFault ==
    ASSUME CountInv, NEW ok \in BOOLEAN, Outcome(ok), count'.faults = 0
    PROVE  ok
BY DEF CountInv, Outcome, Count

\* A file the user writes leaves the others as they are.
LEMMA SameEdited ==
    ASSUME FilesInv, UserEdit, Same(tree.target, result)
    PROVE  Same(tree.target, result)'
<1>1. PICK f \in Files :
          /\ tree' = [tree EXCEPT !.target =
                         [(IF @ = NoTree THEN Empty ELSE @) EXCEPT ![f] = User]]
          /\ edited' = edited \cup {f}
    BY DEF UserEdit
<1>2. tree'.target = [(IF tree.target = NoTree THEN Empty ELSE tree.target) EXCEPT ![f] = User]
    BY <1>1 DEF FilesInv, TypeInv, TypeOK
<1>3. (IF tree.target = NoTree THEN Empty ELSE tree.target)
          \in [Files -> Contents \cup {None, Partial, User}]
    BY TreeFacts DEF FilesInv, TypeInv, TypeOK
<1>4. tree'.target # NoTree
    BY <1>2, <1>3, TreesAssumption
<1>5. \A g \in Files \ {f} : FileAt(tree.target, g)' = FileAt(tree.target, g)
    BY <1>2, <1>3, <1>4 DEF FileAt, Empty
<1>6. \A g \in Files : FileAt(result, g)' = FileAt(result, g)
    BY DEF UserEdit, FileAt
<1> QED BY <1>1, <1>5, <1>6 DEF Same

\* Every step keeps the invariant: the target is moved under a journal that is not
\* committed, and the one write that commits it is not followed by an error.
LEMMA CommitStep == FilesInv /\ CountInv /\ CommitInv /\ [Next]_vars => CommitInv'
<1> SUFFICES ASSUME FilesInv, CountInv, CommitInv, [Next]_vars, count'.faults = 0
             PROVE  CommitInv'
    BY DEF CommitInv
<1>0. count.faults = 0
    BY CountStep
<1> USE <1>0 DEF CommitInv
<1>j. /\ Content # NoFile
      /\ step # "idle" =>
            at \in {"recording", "committing", "aborting", "settling"} /\ value = memory
      /\ step \in {"sync", "done"} => Content = value
    BY ValuesAssumption, NoFileAssumption
       DEF FilesInv, WhereInv, JournalInv, Content, TypeInv, TypeOK
<1>s. ASSUME UNCHANGED <<tree, result, edited>>
      PROVE  Same(tree.target, result) => Same(tree.target, result)'
    BY <1>s DEF Same, FileAt
<1>m. memory \in Journals
    BY DEF FilesInv, TypeInv, TypeOK
<1>1. CASE RecordMutation \/ Commit \/ Abort \/ Settle
    <2>1. /\ UNCHANGED <<tree, result, edited, Content>>
          /\ step' = "create"
          /\ Content.status # "committed"
        BY <1>1 DEF RecordMutation, Commit, Abort, Settle, Write, StartWrite, Content
    <2>2. at' = "committing" => at = "commit"
        BY <1>1 DEF RecordMutation, Commit, Abort, Settle, Write, Goto
    <2>3. memory'.status = "committed" => at' = "committing"
        BY <1>1, <1>m DEF RecordMutation, Commit, Abort, Settle, Write, Goto, Journals
    <2>4. at' # "commit"
        BY <1>1 DEF RecordMutation, Commit, Abort, Settle, Write, Goto
    <2> QED BY <1>s, <2>1, <2>2, <2>3, <2>4
<1>2. ASSUME NEW ok \in BOOLEAN, WriteStep(ok), Outcome(ok), UNCHANGED own PROVE CommitInv'
    <2>1. ok
        BY <1>2, NoFault
    <2>2. UNCHANGED <<tree, result, edited, at, memory>>
        BY <1>2 DEF own
    <2>3. step' \in {"idle", "create", "rename", "sync", "done"} /\ step # "idle"
        BY <1>2, <2>1 DEF WriteStep, CreateTemp, Rename, MoveAside, RenameAgain, PutBack,
                          DropAside, SyncDir
    <2>4. [FileNext]_fileVars /\ FileInv
        BY <1>2 DEF FileNext, FilesInv, TypeInv
    <2>5. Content' = Content \/ Content' = memory
        BY <1>j, <2>3, <2>4, ContentStep DEF fileVars, Content
    <2>6. memory.status = "committed" => at = "committing"
        BY <1>j, <2>3
    <2> QED BY <1>s, <2>2, <2>3, <2>5, <2>6
<1>3. CASE AfterWrite
    <2>1. /\ UNCHANGED <<tree, result, edited, Content, memory>>
          /\ step = "done" /\ step' = "idle"
        BY <1>3 DEF AfterWrite, Content
    <2>2. at \in {"recording", "committing", "aborting", "settling"} /\ Content = memory
        BY <1>j, <2>1
    <2>3. /\ at' \in {"out", "stage", "commit", "rollback", "ended"}
          /\ at = "committing" => at' = "ended"
          /\ at' = "commit" => at = "recording" /\ memory.mutation # "existed" /\ result = NoTree
        BY <1>3, <2>1, <2>2 DEF AfterWrite, AfterBackup, Goto
    <2>4. memory.status = "committed" => at = "committing"
        BY <2>2
    <2>5. at' = "commit" => Same(tree.target, result)
        <3>1. SUFFICES ASSUME at = "recording", memory.mutation # "existed", result = NoTree
                       PROVE  Same(tree.target, result)
            BY <2>3
        <3>2. Whole(tree.target) /\ Created /\ ~mistaken
            BY <1>m, <3>1 DEF FilesInv, WhereInv, PlaceInv, JournalInv, Journals
        <3>3. \A f \in Files \ edited : FileAt(tree.target, f) = None
            BY <3>2 DEF Whole, Created, Users
        <3>4. \A f \in Files : FileAt(result, f) = None
            BY <3>1 DEF FileAt
        <3> QED BY <3>3, <3>4 DEF Same
    <2> QED BY <1>s, <2>1, <2>2, <2>3, <2>4, <2>5
<1>4. CASE UndoInspect \/ UndoRestore
    <2>1. /\ UNCHANGED <<tree, result, edited, Content, memory, step>>
          /\ at \in {"rollback", "restore"} /\ at' \notin {"commit", "committing"}
        BY <1>4 DEF UndoInspect, UndoRestore, fileVars, Content, Goto
    <2> QED BY <1>s, <2>1
<1>5. CASE Recover
    <2>1. /\ UNCHANGED <<tree, result, edited, Content, step>>
          /\ at \in {"ended", "down"} /\ at' \in {"ended", "rollback"}
        BY <1>5 DEF Recover, fileVars, Content, Goto
    <2>2. at' = "ended" => memory' = memory
        BY <1>5 DEF Recover, Goto
    <2>3. at' = "rollback" => memory' = Content /\ Content.status = "applying"
        BY <1>5, <1>m, ValuesAssumption
           DEF Recover, Goto, Content, FilesInv, TypeInv, TypeOK, FileTypeOK, Journals
    <2> QED BY <1>s, <2>1, <2>2, <2>3
<1>6. ASSUME NEW ok \in BOOLEAN, StageTarget(ok) PROVE CommitInv'
    <2>1. /\ UNCHANGED <<tree, result, edited, Content, memory, step>>
          /\ at = "stage" /\ at' \in {"place", "abort"}
        BY <1>6 DEF StageTarget, fileVars, Content, Goto
    <2> QED BY <1>s, <2>1
<1>7. CASE CopyDone
    <2>1. /\ UNCHANGED <<tree, result, edited, Content, memory, step, at>>
        BY <1>7 DEF CopyDone, fileVars, Content
    <2> QED BY <1>s, <2>1
<1>8. ASSUME NEW ok \in BOOLEAN, CopyFile(ok) PROVE CommitInv'
    <2>1. /\ UNCHANGED <<Content, memory, step>>
          /\ at \in {"out", "back"} /\ at' \in {at, "abort", "ended"}
          /\ at = "out" => at' # "ended"
        BY <1>8 DEF CopyFile, fileVars, Content, Goto, OnError, Moving
    <2> QED BY <2>1
<1>9. CASE MoveRename
    <2>1. /\ UNCHANGED <<Content, memory, step, result>>
          /\ at \in {"out", "back"}
          /\ at' \notin {"committing", "down"}
        BY <1>9 DEF MoveRename, fileVars, Content, Goto, MoveDone, AfterBackup, Moving
    <2>2. at' = "commit" => at = "out" /\ result = NoTree /\ tree' = [tree EXCEPT ![To] = tree[From], ![From] = NoTree]
        BY <1>9 DEF MoveRename, Moving, MoveDone, AfterBackup, Goto
    <2>3. at' = "commit" => tree'.target = NoTree
        BY <2>2, Ends DEF FilesInv, TypeInv, TypeOK
    <2>4. at' = "commit" => Same(tree.target, result)'
        BY <2>1, <2>2, <2>3 DEF Same, FileAt
    <2> QED BY <2>1, <2>4
<1>10. ASSUME NEW ok \in BOOLEAN, Clear(ok) PROVE CommitInv'
    <2>1. /\ UNCHANGED <<Content, memory, step, result>>
          /\ at \in {"out", "back", "remove"}
          /\ at' \notin {"committing", "down"}
        BY <1>10 DEF Clear, fileVars, Content, Goto, MoveDone, AfterBackup, Moving, OnError
    <2>2. at' = "commit" => at = "out" /\ result = NoTree /\ tree' = [tree EXCEPT ![From] = NoTree]
        BY <1>10, <2>1 DEF Clear, Moving, MoveDone, AfterBackup, Goto, OnError
    <2>3. at' = "commit" => tree'.target = NoTree
        BY <2>2, Ends DEF FilesInv, TypeInv, TypeOK
    <2>4. at' = "commit" => Same(tree.target, result)'
        BY <2>1, <2>2, <2>3 DEF Same, FileAt
    <2> QED BY <2>1, <2>4
<1>11. ASSUME NEW ok \in BOOLEAN, PlaceTarget(ok) PROVE CommitInv'
    <2>1. /\ UNCHANGED <<Content, memory, step, result>>
          /\ at = "place" /\ at' \in {"commit", "abort"}
          /\ at' = "commit" => tree' = [tree EXCEPT !.target = result]
        BY <1>11 DEF PlaceTarget, fileVars, Content, Goto
    <2>2. at' = "commit" => tree'.target = result'
        BY <2>1 DEF FilesInv, TypeInv, TypeOK
    <2>3. at' = "commit" => Same(tree.target, result)'
        BY <2>1, <2>2 DEF Same, FileAt
    <2> QED BY <2>1, <2>3
<1>12. CASE Crash
    <2>1. /\ UNCHANGED <<Content, memory, result, edited>>
          /\ at' = "down" /\ step' = "idle"
          /\ UNCHANGED tree \/ mode = "copy"
        BY <1>12 DEF Crash, WriterDies, Content, Goto
    <2>2. mode = "copy" => at \in {"out", "back"}
        BY DEF FilesInv, WhereInv, PlaceInv, Moving
    <2> QED BY <1>s, <2>1, <2>2
<1>13. CASE UserEdit
    <2>1. UNCHANGED <<Content, memory, step, at>>
        BY <1>13 DEF UserEdit, fileVars, Content
    <2> QED BY <1>13, <2>1, SameEdited
<1>14. CASE UNCHANGED vars
    <2>1. UNCHANGED <<tree, result, edited, Content, memory, step, at>>
        BY <1>14 DEF vars, own, fileVars, Content
    <2> QED BY <1>s, <2>1
<1> QED BY <1>1, <1>2, <1>3, <1>4, <1>5, <1>6, <1>7, <1>8, <1>9, <1>10, <1>11, <1>12, <1>13,
           <1>14 DEF Next, Effects

\* Wherever the process dies, whatever the user writes and whichever moves become
\* copies: if no call of the transaction fails for a reason of its own, a journal
\* that commitPlan left as committed stands for the whole new tree at the target.
THEOREM CommittedTargetIsWhole == Spec => []CommittedIsWhole
<1>1. CommitInv => CommittedIsWhole
    BY DEF CommitInv, Content, CommittedIsWhole
<1> QED BY <1>1, FilesAlways, CommitInit, CountStep, CommitStep, PTL DEF Spec
=============================================================================
