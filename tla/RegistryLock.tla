------------------------------ MODULE RegistryLock ------------------------------
(***************************************************************************)
(* The registry.lock directory and its owner.json (acquireLock,            *)
(* reapStaleLock, assertOwned and release of state.go), one file-system    *)
(* call a step, those of writeJSONAtomic and replaceFile included.  Every  *)
(* call but mkdir goes by the path of the directory, so it acts on         *)
(* whichever directory is there when it happens.                           *)
(*                                                                         *)
(* dir.old is that the record in owner.json has outlived StaleLockAfter.   *)
(***************************************************************************)
EXTENDS Integers, FiniteSets

CONSTANTS
    Procs,         \* processes that call acquireLock
    None,          \* no directory, no owner.json
    Dead,          \* the holder after a crash, for LockService
    LiveAges,      \* whether a live holder may outlast StaleLockAfter
    MaxRequests,   \* bound: calls of acquireLock, by all processes
    MaxTries,      \* bound: rounds of acquireLock's loop before the deadline
    MaxCrashes,    \* bound: process crashes
    MaxFaults      \* bound: calls that fail while owner.json is written

ASSUME ProcsAssumption == IsFiniteSet(Procs) /\ Dead \notin Procs
ASSUME BoundsAssumption == /\ {MaxRequests, MaxTries, MaxCrashes, MaxFaults} \subseteq Nat
                           /\ LiveAges \in BOOLEAN

VARIABLES
    dir,     \* registry.lock
    pc,      \* where each process is
    token,   \* the token each process holds or is about to write, 0 for none
    temp,    \* the directory each process has its .tmp-*.json in, 0 for none
    aside,   \* the record each process renamed to owner.json.backup-*, if any
    tries,   \* rounds each process has made
    made,    \* directories made so far; their numbers serve as random ids
    used     \* how much of each bound is used

vars == <<dir, pc, token, temp, aside, tries, made, used>>

\* Every request makes at most two directories: by mkdir, and by the MkdirAll of
\* writeJSONAtomic when the first one is gone.
Ids == 1..(2 * MaxRequests)

Directories == [id: Ids, by: Ids, owner: Ids \cup {None}, old: BOOLEAN]

\* A record set aside, and the directory it is in
Records == [in: Ids, owner: Ids, old: BOOLEAN]

ASSUME NoneAssumption == None \notin Procs \cup {Dead} \cup Ids \cup Directories \cup Records

\* The calls of writeJSONAtomic(owner.json), those from "exists" to "drop" being the
\* fallback of replaceFile
Writing == {"mkdirall", "create", "write", "exists", "aside", "again", "putback", "drop",
            "sync"}

Points == Writing \cup {"idle", "mkdir", "inspect", "move", "wait", "held", "act", "remove",
                        "rmdir"}

Bounds == {"requests", "crashes", "faults"}

TypeOK ==
    /\ dir \in Directories \cup {None}
    /\ pc \in [Procs -> Points]
    /\ token \in [Procs -> Ids \cup {0}]
    /\ temp \in [Procs -> Ids \cup {0}]
    /\ aside \in [Procs -> Records \cup {None}]
    /\ tries \in [Procs -> 0..MaxTries]
    /\ made \in Ids \cup {0}
    /\ used \in [Bounds -> Nat]

Init ==
    /\ dir = None
    /\ pc = [p \in Procs |-> "idle"]
    /\ token = [p \in Procs |-> 0]
    /\ temp = [p \in Procs |-> 0]
    /\ aside = [p \in Procs |-> None]
    /\ tries = [p \in Procs |-> 0]
    /\ made = 0
    /\ used = [b \in Bounds |-> 0]

Goto(p, point) == pc' = [pc EXCEPT ![p] = point]

\* The call returns without the lock, or the lock has been given back.
Return(p) ==
    /\ Goto(p, "idle")
    /\ token' = [token EXCEPT ![p] = 0]
    /\ temp' = [temp EXCEPT ![p] = 0]

FreshDirectory(id, by) == [id |-> id, by |-> by, owner |-> None, old |-> FALSE]

\* The check of assertOwned
OwnRecord(p) == dir # None /\ dir.owner = token[p]

-----------------------------------------------------------------------------
(* acquireLock *)

Request(p) ==
    /\ pc[p] = "idle"
    /\ used["requests"] < MaxRequests
    /\ used' = [used EXCEPT !["requests"] = @ + 1]
    /\ tries' = [tries EXCEPT ![p] = 0]
    /\ Goto(p, "mkdir")
    /\ UNCHANGED <<dir, token, temp, aside, made>>

\* Faulty: the ids two processes draw are the same.
MkdirSameToken(p) ==
    /\ pc[p] = "mkdir"
    /\ IF dir = None
       THEN /\ made' = made + 1
            /\ dir' = FreshDirectory(made + 1, made + 1)
            /\ token' = [token EXCEPT ![p] = 1]
            /\ aside' = [aside EXCEPT ![p] = None]
            /\ Goto(p, "mkdirall")
       ELSE /\ Goto(p, "inspect")
            /\ UNCHANGED <<dir, token, aside, made>>
    /\ UNCHANGED <<temp, tries, used>>

\* os.Mkdir, with a token of its own for every round.  What the process left in
\* another life is in no directory at this path.
Mkdir(p) ==
    /\ pc[p] = "mkdir"
    /\ IF dir = None
       THEN /\ made' = made + 1
            /\ dir' = FreshDirectory(made + 1, made + 1)
            /\ token' = [token EXCEPT ![p] = made + 1]
            /\ aside' = [aside EXCEPT ![p] = None]
            /\ Goto(p, "mkdirall")
       ELSE /\ Goto(p, "inspect")
            /\ UNCHANGED <<dir, token, aside, made>>
    /\ UNCHANGED <<temp, tries, used>>

\* Faulty: the comparison of the record's age is the wrong way round.
InspectOwnerReversed(p) ==
    /\ pc[p] = "inspect"
    /\ Goto(p, IF dir # None /\ dir.owner # None /\ ~dir.old THEN "move" ELSE "wait")
    /\ UNCHANGED <<dir, token, temp, aside, tries, made, used>>

\* reapStaleLock up to the age check: a directory without a record is left alone
InspectOwner(p) ==
    /\ pc[p] = "inspect"
    /\ Goto(p, IF dir # None /\ dir.owner # None /\ dir.old THEN "move" ELSE "wait")
    /\ UNCHANGED <<dir, token, temp, aside, tries, made, used>>

\* reapStaleLock: os.Rename of the directory at the path
MoveAside(p) ==
    /\ pc[p] = "move"
    /\ dir' = None
    /\ Goto(p, "wait")
    /\ UNCHANGED <<token, temp, aside, tries, made, used>>

\* Faulty: the deadline is looked at one round late.
WaitLonger(p) ==
    /\ pc[p] = "wait"
    /\ IF tries[p] <= MaxTries
       THEN /\ tries' = [tries EXCEPT ![p] = @ + 1]
            /\ Goto(p, "mkdir")
       ELSE /\ Goto(p, "idle")
            /\ UNCHANGED tries
    /\ UNCHANGED <<dir, token, temp, aside, made, used>>

\* Faulty: every round has a deadline of its own.
WaitForever(p) ==
    /\ pc[p] = "wait"
    /\ Goto(p, "mkdir")
    /\ UNCHANGED <<dir, token, temp, aside, tries, made, used>>

\* The loop goes round again until the deadline has passed.
Wait(p) ==
    /\ pc[p] = "wait"
    /\ IF tries[p] < MaxTries
       THEN /\ tries' = [tries EXCEPT ![p] = @ + 1]
            /\ Goto(p, "mkdir")
       ELSE /\ Goto(p, "idle")
            /\ UNCHANGED tries
    /\ UNCHANGED <<dir, token, temp, aside, made, used>>

-----------------------------------------------------------------------------
(* writeJSONAtomic(owner.json) *)

\* A call that fails for no reason in the model.
Fault ==
    /\ used["faults"] < MaxFaults
    /\ used' = [used EXCEPT !["faults"] = @ + 1]

\* What the error of a call is: there is nothing to act on, or no reason in the model.
Fails(possible) == IF possible THEN Fault ELSE UNCHANGED used

\* An error of writeJSONAtomic, after the deferred os.Remove of the temporary file:
\* acquireLock answers it with RemoveAll.
GiveUp(p) ==
    /\ Goto(p, "remove")
    /\ temp' = [temp EXCEPT ![p] = 0]

HasRecord == dir # None /\ dir.owner # None

MkdirAll(p) ==
    /\ pc[p] = "mkdirall"
    /\ IF dir = None
       THEN /\ made' = made + 1
            /\ dir' = FreshDirectory(made + 1, token[p])
       ELSE UNCHANGED <<dir, made>>
    /\ Goto(p, "create")
    /\ UNCHANGED <<token, temp, aside, tries, used>>

\* CreateTemp, and the writes to the open file
CreateTemp(p) ==
    /\ pc[p] = "create"
    /\ \/ /\ dir # None
          /\ temp' = [temp EXCEPT ![p] = dir.id]
          /\ Goto(p, "write")
          /\ UNCHANGED used
       \/ Fails(dir # None) /\ GiveUp(p)
    /\ UNCHANGED <<dir, token, aside, tries, made>>

\* The directory at the path is the one the temporary file was made in.
TempInPlace(p) == dir # None /\ dir.id = temp[p]

\* The temporary file becomes owner.json.
PutRecord(p) ==
    /\ TempInPlace(p)
    /\ dir' = [dir EXCEPT !.owner = token[p], !.old = FALSE]
    /\ temp' = [temp EXCEPT ![p] = 0]

\* replaceFile: the first rename, which fails when the temporary file is no longer
\* under that path
WriteOwner(p) ==
    /\ pc[p] = "write"
    /\ \/ PutRecord(p) /\ Goto(p, "sync") /\ UNCHANGED used
       \/ Fails(TempInPlace(p)) /\ Goto(p, "exists") /\ UNCHANGED <<dir, temp>>
    /\ UNCHANGED <<token, aside, tries, made>>

\* replaceFile: pathExists of owner.json, whoever's it is
LookForRecord(p) ==
    /\ pc[p] = "exists"
    /\ Goto(p, IF HasRecord THEN "aside" ELSE "again")
    /\ UNCHANGED <<dir, token, temp, aside, tries, made, used>>

\* replaceFile: the record at the path is renamed to a name of the process's own.
SetAside(p) ==
    /\ pc[p] = "aside"
    /\ \/ /\ HasRecord
          /\ aside' = [aside EXCEPT ![p] =
                          [in |-> dir.id, owner |-> dir.owner, old |-> dir.old]]
          /\ dir' = [dir EXCEPT !.owner = None, !.old = FALSE]
          /\ Goto(p, "again")
          /\ UNCHANGED <<temp, used>>
       \/ Fails(HasRecord) /\ GiveUp(p) /\ UNCHANGED <<dir, aside>>
    /\ UNCHANGED <<token, tries, made>>

\* replaceFile: the second rename
WriteAgain(p) ==
    /\ pc[p] = "again"
    /\ \/ /\ PutRecord(p)
          /\ Goto(p, IF aside[p] = None THEN "sync" ELSE "drop")
          /\ UNCHANGED used
       \/ /\ Fails(TempInPlace(p))
          /\ IF aside[p] = None THEN GiveUp(p) ELSE Goto(p, "putback") /\ UNCHANGED temp
          /\ UNCHANGED dir
    /\ UNCHANGED <<token, aside, tries, made>>

\* The record that p set aside is in the directory at the path.
AsideInPlace(p) == dir # None /\ aside[p] # None /\ aside[p].in = dir.id

\* replaceFile: what was set aside goes back, over whatever record is there by then;
\* an error of that is dropped.
PutBack(p) ==
    /\ pc[p] = "putback"
    /\ \/ /\ AsideInPlace(p)
          /\ dir' = [dir EXCEPT !.owner = aside[p].owner, !.old = aside[p].old]
          /\ aside' = [aside EXCEPT ![p] = None]
          /\ UNCHANGED used
       \/ Fails(AsideInPlace(p)) /\ UNCHANGED <<dir, aside>>
    /\ GiveUp(p)
    /\ UNCHANGED <<token, tries, made>>

\* replaceFile: what was set aside is removed; an error of that is dropped.
DropAside(p) ==
    /\ pc[p] = "drop"
    /\ \/ AsideInPlace(p) /\ aside' = [aside EXCEPT ![p] = None] /\ UNCHANGED used
       \/ Fails(AsideInPlace(p)) /\ UNCHANGED aside
    /\ Goto(p, "sync")
    /\ UNCHANGED <<dir, token, temp, tries, made>>

\* syncDir, which opens the directory at the path
SyncDir(p) ==
    /\ pc[p] = "sync"
    /\ \/ dir # None /\ Goto(p, "held") /\ UNCHANGED <<temp, used>>
       \/ Fails(dir # None) /\ GiveUp(p)
    /\ UNCHANGED <<dir, token, aside, tries, made>>

-----------------------------------------------------------------------------
(* assertOwned and release *)

\* assertOwned before a write: a lost lock ends the caller's work.
AssertOwned(p) ==
    /\ pc[p] = "held"
    /\ IF OwnRecord(p)
       THEN /\ Goto(p, "act")
            /\ UNCHANGED <<token, temp>>
       ELSE Return(p)
    /\ UNCHANGED <<dir, aside, tries, made, used>>

\* The write that assertOwned guards
Act(p) ==
    /\ pc[p] = "act"
    /\ Goto(p, "held")
    /\ UNCHANGED <<dir, token, temp, aside, tries, made, used>>

\* release: assertOwned, then RemoveAll
Release(p) ==
    /\ pc[p] = "held"
    /\ IF OwnRecord(p)
       THEN /\ Goto(p, "remove")
            /\ UNCHANGED <<token, temp>>
       ELSE Return(p)
    /\ UNCHANGED <<dir, aside, tries, made, used>>

\* RemoveAll: the files in the directory go first, whoever's they are
RemoveFiles(p) ==
    /\ pc[p] = "remove"
    /\ IF dir = None
       THEN UNCHANGED <<dir, temp, aside>>
       ELSE /\ dir' = [dir EXCEPT !.owner = None, !.old = FALSE]
            /\ temp' = [q \in Procs |-> IF temp[q] = dir.id THEN 0 ELSE temp[q]]
            /\ aside' = [q \in Procs |-> IF AsideInPlace(q) THEN None ELSE aside[q]]
    /\ Goto(p, "rmdir")
    /\ UNCHANGED <<token, tries, made, used>>

\* RemoveAll: the directory, unless something is in it again
RemoveDirectory(p) ==
    /\ pc[p] = "rmdir"
    /\ dir' = IF /\ dir # None
                 /\ dir.owner = None
                 /\ \A q \in Procs : temp[q] # dir.id /\ ~AsideInPlace(q)
              THEN None ELSE dir
    /\ Return(p)
    /\ UNCHANGED <<aside, tries, made, used>>

-----------------------------------------------------------------------------
(* The environment *)

\* The process dies; its directory, record, temporary file and what it set aside stay.
Crash(p) ==
    /\ pc[p] # "idle"
    /\ used["crashes"] < MaxCrashes
    /\ used' = [used EXCEPT !["crashes"] = @ + 1]
    /\ Goto(p, "idle")
    /\ token' = [token EXCEPT ![p] = 0]
    /\ UNCHANGED <<dir, temp, aside, tries, made>>

\* The process that wrote a record, or made the directory, is still at work.
Alive(t) == \E p \in Procs : token[p] = t

\* StaleLockAfter passes since the record was written.
Age ==
    /\ dir # None /\ dir.owner # None /\ ~dir.old
    /\ LiveAges \/ ~Alive(dir.owner)
    /\ dir' = [dir EXCEPT !.old = TRUE]
    /\ UNCHANGED <<pc, token, temp, aside, tries, made, used>>

\* The steps of acquireLock and of RemoveAll, which run to their end.
Step(p) ==
    \/ Mkdir(p) \/ InspectOwner(p) \/ MoveAside(p) \/ Wait(p)
    \/ MkdirAll(p) \/ CreateTemp(p) \/ WriteOwner(p) \/ LookForRecord(p) \/ SetAside(p)
    \/ WriteAgain(p) \/ PutBack(p) \/ DropAside(p) \/ SyncDir(p)
    \/ RemoveFiles(p) \/ RemoveDirectory(p)

Next ==
    \/ \E p \in Procs :
          \/ Request(p) \/ Step(p) \/ AssertOwned(p) \/ Act(p) \/ Release(p) \/ Crash(p)
    \/ Age

Spec == Init /\ [][Next]_vars

\* A process inside acquireLock or RemoveAll runs on until it crashes, and time
\* passes.
FairSpec == Spec /\ WF_vars(Age) /\ \A p \in Procs : WF_vars(Step(p))

-----------------------------------------------------------------------------
(* Properties *)

\* Who is between acquireLock and release has his record in the lock, and so
\* nobody else has: the record is not moved aside, removed or overwritten by a
\* contender that reaps, cleans up after a failed write, or releases.
HolderKeepsRecord ==
    \A p \in Procs : pc[p] \in {"held", "act"} => OwnRecord(p)

\* The holder's record is in the lock under a name that another process gave it, one
\* whose own write failed and who will put it back.
IsAside(p) ==
    \E q \in Procs : /\ pc[q] \in {"again", "putback"}
                     /\ AsideInPlace(q) /\ aside[q].owner = token[p]

\* A holder who lost the lock, to a contender that found his record old or was
\* late with its rename, never finds a record of his own there again: from the
\* moment the record is not in the directory at the path, as owner.json or set
\* aside by the fallback of a late writer, assertOwned refuses until he has
\* returned, whatever directories are made, moved and put back at that path.
LossIsFinal ==
    [][\A p \in Procs :
          /\ pc[p] \in {"held", "act"} /\ pc'[p] \in {"held", "act"}
          /\ ~OwnRecord(p) /\ ~IsAside(p)
          => ~OwnRecord(p)' /\ ~IsAside(p)']_vars

\* The process inside; else the one whose token made the directory at the path.
Holder ==
    IF \E p \in Procs : pc[p] \in {"held", "act"}
    THEN CHOOSE p \in Procs : pc[p] \in {"held", "act"}
    ELSE IF dir = None THEN None
    ELSE IF Alive(dir.by) THEN CHOOSE p \in Procs : token[p] = dir.by
    ELSE Dead

\* The directory protocol gives the callers the lock they rely on: it passes from
\* a holder to nobody or to the dead, and from nobody to a holder, never straight
\* from one to another, with failed writes of the record and one crash.
Service == INSTANCE LockService WITH holder <- Holder
ImplementsLockService == Service!Spec

\* acquireLock always returns: with the lock, or because the deadline passed.
AcquireReturns ==
    \A p \in Procs : pc[p] = "mkdir" ~> pc[p] \in {"held", "idle"}

\* A lock whose dead holder left a record is out of the way once a contender has
\* found the record old, so a crash between acquireLock and release blocks the
\* others for the stale window only.
DeadHolderReaped ==
    \A p \in Procs : \A t \in Ids :
        pc[p] = "inspect" /\ dir # None /\ dir.owner = t /\ dir.old
            ~> dir = None \/ dir.owner # t

-----------------------------------------------------------------------------
(* What the documents say, where the code does something else *)

\* docs/architecture.md: the old owner verifies its token before it goes on.  So who
\* has not got the lock by that check has it no more.
RefusedStaysRefused ==
    [][\A p \in Procs :
          /\ pc[p] \in {"held", "act"} /\ pc'[p] \in {"held", "act"}
          /\ ~OwnRecord(p)
          => ~OwnRecord(p)']_vars

\* docs/architecture.md: a live lock is not taken away before it is stale.
LiveLockKept ==
    [][\A p \in Procs :
          pc[p] = "move" /\ pc'[p] = "wait" /\ dir # None => dir.old]_vars

\* docs/architecture.md: a lock past the stale window is moved aside.  So a
\* directory whose maker died, with an old record or with none, is gone once a
\* contender has looked at it.
AbandonedLockReaped ==
    \A p \in Procs :
        /\ pc[p] = "inspect"
        /\ dir # None /\ ~Alive(dir.by)
        /\ dir.owner = None \/ dir.old
        ~> dir = None \/ Alive(dir.by)
=============================================================================
