------------------------------- MODULE AtomicFile -------------------------------
(***************************************************************************)
(* writeJSONAtomic, replaceFile and syncDir (state.go) on one path, one    *)
(* file-system call a step.  Any call may fail and the process may die     *)
(* between any two; readers open the path at any time.                     *)
(*                                                                         *)
(* The caller gives a value, and sees "done" or "failed"; there is one     *)
(* writer, which the registry lock is for.                                 *)
(***************************************************************************)
EXTENDS Naturals

CONSTANTS
    Values,     \* what the caller may write: one JSON value each
    NoFile      \* a path nothing is at

ASSUME NoFileAssumption == NoFile \notin Values

VARIABLES
    file,       \* what is at the path
    temp,       \* the value in .tmp-*.json, written whole or not at all
    aside,      \* what the last <path>.backup-* holds
    moved,      \* targetExists of replaceFile
    value,      \* the value being written
    step        \* the next call of the writer

fileVars == <<file, temp, aside, moved, value, step>>

WriteSteps == {"create", "rename", "aside", "again", "putback", "drop", "sync"}

FileTypeOK ==
    /\ {file, temp, aside} \subseteq Values \cup {NoFile}
    /\ moved \in BOOLEAN
    /\ value \in Values
    /\ step \in WriteSteps \cup {"idle", "done", "failed"}

FileInit ==
    /\ file \in Values \cup {NoFile}
    /\ temp = NoFile /\ aside = NoFile
    /\ moved = FALSE
    /\ value \in Values
    /\ step = "idle"

\* The deferred os.Remove of the temporary file, and the caller's answer
Fail ==
    /\ step' = "failed"
    /\ temp' = NoFile

StartWrite(v) ==
    /\ step \in {"idle", "done", "failed"}
    /\ step' = "create"
    /\ value' = v
    /\ moved' = FALSE
    /\ UNCHANGED <<file, temp, aside>>

\* MkdirAll, CreateTemp, Chmod, Write, Sync and Close
CreateTemp(ok) ==
    /\ step = "create"
    /\ IF ok THEN temp' = value /\ step' = "rename" ELSE Fail
    /\ UNCHANGED <<file, aside, moved, value>>

\* replaceFile: the first rename, and pathExists when it fails
Rename(ok) ==
    /\ step = "rename"
    /\ IF ok
       THEN /\ file' = temp /\ temp' = NoFile
            /\ step' = "sync"
            /\ UNCHANGED moved
       ELSE /\ moved' = (file # NoFile)
            /\ step' = IF file # NoFile THEN "aside" ELSE "again"
            /\ UNCHANGED <<file, temp>>
    /\ UNCHANGED <<aside, value>>

\* Faulty: the old file is removed, the new one being ready.
MoveAsideByRemoving(ok) ==
    /\ step = "aside"
    /\ IF ok THEN file' = NoFile /\ step' = "again" /\ UNCHANGED temp
             ELSE Fail /\ UNCHANGED file
    /\ UNCHANGED <<aside, moved, value>>

\* replaceFile: os.Rename(target, backup)
MoveAside(ok) ==
    /\ step = "aside"
    /\ IF ok
       THEN /\ aside' = file /\ file' = NoFile
            /\ step' = "again"
            /\ UNCHANGED temp
       ELSE Fail /\ UNCHANGED <<file, aside>>
    /\ UNCHANGED <<moved, value>>

\* replaceFile: the second rename
RenameAgain(ok) ==
    /\ step = "again"
    /\ IF ok
       THEN /\ file' = temp /\ temp' = NoFile
            /\ step' = IF moved THEN "drop" ELSE "sync"
       ELSE IF moved THEN step' = "putback" /\ UNCHANGED <<file, temp>>
                     ELSE Fail /\ UNCHANGED file
    /\ UNCHANGED <<aside, moved, value>>

\* replaceFile: the old file is renamed back, and an error of that is dropped.
PutBack(ok) ==
    /\ step = "putback"
    /\ IF ok THEN file' = aside /\ aside' = NoFile ELSE UNCHANGED <<file, aside>>
    /\ Fail
    /\ UNCHANGED <<moved, value>>

\* replaceFile: the old file is removed, and an error of that is dropped.
DropAside(ok) ==
    /\ step = "drop"
    /\ aside' = IF ok THEN NoFile ELSE aside
    /\ step' = "sync"
    /\ UNCHANGED <<file, temp, moved, value>>

\* syncDir
SyncDir(ok) ==
    /\ step = "sync"
    /\ step' = IF ok THEN "done" ELSE "failed"
    /\ UNCHANGED <<file, temp, aside, moved, value>>

WriteStep(ok) ==
    \/ CreateTemp(ok) \/ Rename(ok) \/ MoveAside(ok) \/ RenameAgain(ok)
    \/ PutBack(ok) \/ DropAside(ok) \/ SyncDir(ok)

\* The process dies: temporary and moved files stay behind, under random names.
WriterDies ==
    /\ step' = "idle"
    /\ temp' = NoFile
    /\ UNCHANGED <<file, aside, moved, value>>

FileNext ==
    \/ \E v \in Values : StartWrite(v)
    \/ \E ok \in BOOLEAN : WriteStep(ok)
    \/ WriterDies

FileSpec == FileInit /\ [][FileNext]_fileVars

-----------------------------------------------------------------------------
(* Properties *)

\* What the path holds, or held when it was last moved aside
Content == IF file # NoFile THEN file ELSE aside

\* A write replaces the content by the whole new value in one step or leaves it:
\* whichever of its calls fail and wherever the process dies, the old value is
\* at the path or beside it until the new one is at the path.
ContentReplacedWhole ==
    [][Content' # Content =>
          /\ Content' = value
          /\ step \in {"rename", "again"}]_fileVars
=============================================================================
