--------------------------- MODULE RegistryLockProofs ---------------------------
(***************************************************************************)
(* RegistryLock, for any number of processes, requests, crashes and failed *)
(* writes of owner.json.                                                   *)
(*                                                                         *)
(* A token names one working process, so a lost lock stays lost            *)
(* (LossIsFinal).  Where no live holder outlasts the stale window and no   *)
(* contender renames the directory later than it looked at it, the         *)
(* directory protocol is the lock of LockService.                          *)
(***************************************************************************)
EXTENDS RegistryLock, FiniteSetTheorems, TLAPS

-----------------------------------------------------------------------------
(* Types.  A request makes two directories at most, and the requests are   *)
(* counted, so the ids are.                                                *)

Waiting == {p \in Procs : pc[p] \in {"mkdir", "inspect", "move", "wait"}}

Creating == {p \in Procs : pc[p] = "mkdirall"}

\* The directories made, and those the calls under way may still make.
Counted ==
    /\ used["requests"] <= MaxRequests
    /\ made + 2 * Cardinality(Waiting) + Cardinality(Creating) <= 2 * used["requests"]

\* From the mkdir that succeeded to the return from release.
Working == Writing \cup {"held", "act", "remove", "rmdir"}

\* Who works on the directory has a token, and it is nobody else's.
TokensApart ==
    /\ \A p \in Procs : token[p] # 0 <=> pc[p] \in Working
    /\ \A p \in Procs : token[p] <= made
    /\ \A p, q \in Procs : token[p] = token[q] /\ token[p] # 0 => p = q
    /\ dir # None => /\ dir.id <= made /\ dir.by <= made
                     /\ dir.owner # None => dir.owner <= made

\* What is set aside is in a directory made before, and is set aside by the fallback.
AsidesKnown ==
    \A p \in Procs :
        /\ aside[p] # None => aside[p].in <= made /\ aside[p].owner <= made
        /\ pc[p] \in {"mkdirall", "create", "write", "exists", "aside"} => aside[p] = None

Tokens == TypeOK /\ Counted /\ TokensApart /\ AsidesKnown

LEMMA FiniteParts ==
    /\ IsFiniteSet(Waiting) /\ Cardinality(Waiting) \in Nat
    /\ IsFiniteSet(Creating) /\ Cardinality(Creating) \in Nat
BY ProcsAssumption, FS_Subset, FS_CardinalityType DEF Waiting, Creating

\* A set a process enters or leaves is one larger or smaller.
LEMMA OneMoves ==
    ASSUME NEW S, NEW T, NEW p, IsFiniteSet(S), T \ {p} = S \ {p}
    PROVE  /\ IsFiniteSet(T)
           /\ Cardinality(T) = Cardinality(S) - (IF p \in S THEN 1 ELSE 0)
                                              + (IF p \in T THEN 1 ELSE 0)
<1>1. IsFiniteSet(S \ {p}) /\ IsFiniteSet((S \ {p}) \cup {p})
    BY FS_RemoveElement, FS_AddElement
<1>2. T = S \ {p} \/ T = (S \ {p}) \cup {p}
    OBVIOUS
<1>3. IsFiniteSet(T)
    BY <1>1, <1>2
<1>4. /\ Cardinality(S \ {p}) = IF p \in S THEN Cardinality(S) - 1 ELSE Cardinality(S)
      /\ Cardinality(T \ {p}) = IF p \in T THEN Cardinality(T) - 1 ELSE Cardinality(T)
    BY <1>3, FS_RemoveElement
<1>5. Cardinality(S) \in Nat /\ Cardinality(T) \in Nat
    BY <1>3, FS_CardinalityType
<1> QED
    BY <1>3, <1>4, <1>5

\* What a step of one process does to the two sets.
LEMMA OneStep ==
    ASSUME TypeOK, NEW p \in Procs, NEW point \in Points, Goto(p, point)
    PROVE  /\ Cardinality(Waiting') = Cardinality(Waiting)
                  - (IF pc[p] \in {"mkdir", "inspect", "move", "wait"} THEN 1 ELSE 0)
                  + (IF point \in {"mkdir", "inspect", "move", "wait"} THEN 1 ELSE 0)
           /\ Cardinality(Creating') = Cardinality(Creating)
                  - (IF pc[p] = "mkdirall" THEN 1 ELSE 0)
                  + (IF point = "mkdirall" THEN 1 ELSE 0)
<1>1. \A q \in Procs : pc'[q] = IF q = p THEN point ELSE pc[q]
    BY DEF TypeOK, Goto
<1>2. Waiting' \ {p} = Waiting \ {p} /\ Creating' \ {p} = Creating \ {p}
    BY <1>1 DEF Waiting, Creating
<1>3. /\ p \in Waiting <=> pc[p] \in {"mkdir", "inspect", "move", "wait"}
      /\ p \in Waiting' <=> point \in {"mkdir", "inspect", "move", "wait"}
      /\ p \in Creating <=> pc[p] = "mkdirall"
      /\ p \in Creating' <=> point = "mkdirall"
    BY <1>1 DEF Waiting, Creating
<1>4. Cardinality(Waiting') = Cardinality(Waiting) - (IF p \in Waiting THEN 1 ELSE 0)
                                              + (IF p \in Waiting' THEN 1 ELSE 0)
    BY <1>2, FiniteParts, OneMoves
<1>5. Cardinality(Creating') = Cardinality(Creating) - (IF p \in Creating THEN 1 ELSE 0)
                                              + (IF p \in Creating' THEN 1 ELSE 0)
    BY <1>2, FiniteParts, OneMoves
<1> QED
    BY <1>3, <1>4, <1>5

LEMMA InitTokens == Init => Tokens
<1> SUFFICES ASSUME Init PROVE Tokens
    OBVIOUS
<1>1. Waiting = {} /\ Creating = {}
    BY DEF Init, Waiting, Creating
<1>2. Counted
    BY <1>1, FS_EmptySet, BoundsAssumption DEF Init, Counted, Bounds
<1>3. TypeOK
    BY BoundsAssumption DEF Init, TypeOK, Points, Writing, Bounds
<1>4. TokensApart
    BY DEF Init, TokensApart, Working, Writing
<1>5. AsidesKnown
    BY DEF Init, AsidesKnown
<1> QED
    BY <1>2, <1>3, <1>4, <1>5 DEF Tokens

\* A process in one of the two sets has a directory left to make.
LEMMA RoomForOne ==
    ASSUME Tokens, NEW p \in Procs, pc[p] \in {"mkdir", "mkdirall"}
    PROVE  made + 1 \in Ids /\ made + 1 # 0
<1>1. p \in Waiting \/ p \in Creating
    BY DEF Waiting, Creating
<1>2. Cardinality(Waiting) >= 1 \/ Cardinality(Creating) >= 1
    BY <1>1, FiniteParts, FS_EmptySet
<1>3. made \in Nat /\ used["requests"] \in Nat /\ MaxRequests \in Nat
    BY BoundsAssumption DEF Tokens, TypeOK, Ids, Bounds
<1>4. made + 1 <= 2 * used["requests"] /\ used["requests"] <= MaxRequests
    BY <1>2, <1>3, FiniteParts DEF Tokens, Counted
<1> QED
    BY <1>3, <1>4 DEF Ids

LEMMA FreshIsDirectory ==
    ASSUME NEW id \in Ids, NEW by \in Ids
    PROVE  /\ FreshDirectory(id, by) \in Directories
           /\ FreshDirectory(id, by) # None
           /\ FreshDirectory(id, by).id = id
           /\ FreshDirectory(id, by).by = by
           /\ FreshDirectory(id, by).owner = None
           /\ FreshDirectory(id, by).old = FALSE
<1>1. FreshDirectory(id, by) \in Directories
    BY DEF FreshDirectory, Directories
<1> QED
    BY <1>1, NoneAssumption DEF FreshDirectory

\* Another record, or none, in the same directory
WithRecord(d, owner, old) == [d EXCEPT !.owner = owner, !.old = old]

LEMMA RecordChanged ==
    ASSUME NEW d \in Directories, NEW owner \in Ids \cup {None}, NEW old \in BOOLEAN
    PROVE  /\ WithRecord(d, owner, old) \in Directories
           /\ WithRecord(d, owner, old) # None
           /\ WithRecord(d, owner, old).id = d.id
           /\ WithRecord(d, owner, old).by = d.by
           /\ WithRecord(d, owner, old).owner = owner
           /\ WithRecord(d, owner, old).old = old
<1>1. WithRecord(d, owner, old) \in Directories
    BY DEF Directories, WithRecord
<1>2. WithRecord(d, owner, old) # None
    BY <1>1, NoneAssumption
<1> QED
    BY <1>1, <1>2 DEF Directories, WithRecord

LEMMA OwnerWritten ==
    ASSUME Tokens, NEW p \in Procs, pc[p] \in Working, PutRecord(p)
    PROVE  /\ dir # None /\ dir' \in Directories /\ dir' # None /\ dir'.id = dir.id
           /\ dir'.by = dir.by /\ dir'.owner = token[p] /\ dir'.old = FALSE
           /\ token[p] \in Ids
<1>1. dir # None /\ dir' = WithRecord(dir, token[p], FALSE)
    BY DEF PutRecord, TempInPlace, WithRecord
<1>2. dir \in Directories /\ token[p] \in Ids
    BY <1>1 DEF Tokens, TypeOK, TokensApart
<1> QED
    BY <1>1, <1>2, RecordChanged

LEMMA FilesRemoved ==
    ASSUME Tokens, NEW p \in Procs, RemoveFiles(p), dir # None
    PROVE  /\ dir' \in Directories /\ dir' # None /\ dir'.id = dir.id
           /\ dir'.by = dir.by /\ dir'.owner = None /\ dir'.old = FALSE
<1>1. dir' = WithRecord(dir, None, FALSE) /\ dir \in Directories
    BY DEF RemoveFiles, Tokens, TypeOK, WithRecord
<1> QED
    BY <1>1, RecordChanged

\* The record is renamed away, and back.
LEMMA RecordMovedAside ==
    ASSUME Tokens, NEW p \in Procs, SetAside(p), dir' # dir
    PROVE  /\ HasRecord /\ pc'[p] = "again"
           /\ dir' \in Directories /\ dir' # None /\ dir'.id = dir.id
           /\ dir'.by = dir.by /\ dir'.owner = None /\ dir'.old = FALSE
<1>1. HasRecord /\ dir' = WithRecord(dir, None, FALSE) /\ Goto(p, "again")
    BY DEF SetAside, WithRecord
<1>2. dir \in Directories /\ pc \in [Procs -> Points]
    BY <1>1 DEF Tokens, TypeOK, HasRecord
<1>3. pc'[p] = "again"
    BY <1>1, <1>2 DEF Goto
<1> QED
    BY <1>1, <1>2, <1>3, RecordChanged

LEMMA RecordMovedBack ==
    ASSUME Tokens, NEW p \in Procs, PutBack(p), dir' # dir
    PROVE  /\ AsideInPlace(p) /\ aside[p].owner \in Ids
           /\ dir' \in Directories /\ dir' # None /\ dir'.id = dir.id
           /\ dir'.by = dir.by /\ dir'.owner = aside[p].owner /\ dir'.old = aside[p].old
<1>1. /\ AsideInPlace(p)
      /\ dir' = WithRecord(dir, aside[p].owner, aside[p].old)
    BY DEF PutBack, WithRecord
<1>2. dir \in Directories /\ aside[p] \in Records
    BY <1>1 DEF Tokens, TypeOK, AsideInPlace
<1>3. aside[p].owner \in Ids /\ aside[p].old \in BOOLEAN
    BY <1>2 DEF Records
<1> QED
    BY <1>1, <1>2, <1>3, RecordChanged

\* A step of one process that makes no directory only has to leave the number of
\* directories still to come as it is.
LEMMA CountedKept ==
    ASSUME Tokens, NEW p \in Procs, NEW point \in Points, Goto(p, point),
           made' = made, used'["requests"] = used["requests"],
           \/ point \notin {"mkdir", "inspect", "move", "wait", "mkdirall"}
           \/ /\ pc[p] \in {"mkdir", "inspect", "move", "wait"}
              /\ point \in {"mkdir", "inspect", "move", "wait"}
    PROVE  Counted'
<1>1. made \in Nat /\ used["requests"] \in Nat
    BY DEF Tokens, TypeOK, Ids, Bounds
<1> QED
    BY <1>1, OneStep, FiniteParts DEF Tokens, Counted

LEMMA CountedSame ==
    ASSUME Counted, UNCHANGED <<pc, made>>, used'["requests"] = used["requests"]
    PROVE  Counted'
BY DEF Counted, Waiting, Creating

LEMMA NextTokens == Tokens /\ [Next]_vars => Tokens'
<1> SUFFICES ASSUME Tokens, [Next]_vars PROVE Tokens'
    OBVIOUS
<1> USE NoneAssumption, BoundsAssumption
<1>a. TypeOK /\ Counted /\ TokensApart /\ AsidesKnown
    BY DEF Tokens
<1>b. made \in Nat /\ \A p \in Procs : token[p] \in Nat
    BY <1>a DEF TypeOK, Ids
<1>c. used["requests"] \in Nat
    BY <1>a DEF TypeOK, Bounds
<1>d. Ids \subseteq Nat /\ 0 \notin Ids
    BY DEF Ids
<1>e. dir # None => /\ dir \in Directories /\ dir.id \in Ids /\ dir.by \in Ids
                    /\ dir.owner \in Ids \cup {None} /\ dir.old \in BOOLEAN
    BY <1>a DEF TypeOK, Directories
<1>f. \A p \in Procs : pc[p] \in Working => token[p] \in Ids
    BY <1>a DEF TypeOK, TokensApart
<1>g. \A p \in Procs : aside[p] # None =>
                          /\ aside[p] \in Records /\ aside[p].in \in Ids
                          /\ aside[p].owner \in Ids /\ aside[p].old \in BOOLEAN
    BY <1>a DEF TypeOK, Records
<1>1. ASSUME NEW p \in Procs, Request(p) PROVE Tokens'
    <2>1. TypeOK'
        BY <1>1, <1>a, <1>d, <1>f DEF TypeOK, Goto, Points, Writing, Bounds, Request
    <2>2. Counted'
        BY <1>1, <1>a, <1>b, <1>c, OneStep, FiniteParts DEF Request, Counted, TypeOK, Bounds, Points
    <2>3. TokensApart'
        BY <1>1, <1>a, <1>b, <1>d, <1>e, <1>f DEF TokensApart, TypeOK, Goto, Working, Writing,
           Request
    <2>4. AsidesKnown'
        BY <1>1, <1>a, <1>b, <1>d, <1>g DEF AsidesKnown, TypeOK, Goto, Request
    <2> QED
        BY <2>1, <2>2, <2>3, <2>4 DEF Tokens
<1>2. ASSUME NEW p \in Procs, Mkdir(p) PROVE Tokens'
    <2>0. dir = None => made + 1 \in Ids /\ dir' = FreshDirectory(made + 1, made + 1)
        BY <1>2, RoomForOne DEF Mkdir
    <2>5. dir = None => dir' \in Directories
        BY <2>0, FreshIsDirectory
    <2>1. TypeOK'
        <3>1. CASE dir = None
            BY <2>0, <2>5, <3>1, <1>2, <1>a DEF TypeOK, Goto, Points, Writing, Mkdir
        <3>2. CASE dir # None
            BY <3>2, <1>2, <1>a DEF TypeOK, Goto, Points, Writing, Mkdir
        <3> QED
            BY <3>1, <3>2
    <2>2. Counted'
        <3>1. CASE dir = None
            BY <3>1, <1>2, <1>a, <1>b, <1>c, OneStep, FiniteParts DEF Mkdir, Counted, Points, Writing
        <3>2. CASE dir # None
            BY <3>2, <1>2, CountedKept DEF Mkdir, Points
        <3> QED
            BY <3>1, <3>2
    <2>3. TokensApart'
        BY <1>2, <1>a, <1>b, <1>d, <1>e, <1>f, RoomForOne
           DEF TokensApart, TypeOK, Goto, Working, Writing, FreshDirectory, Mkdir
    <2>4. AsidesKnown'
        <3>1. made' \in Nat /\ made <= made'
            BY <1>2, <1>b DEF Mkdir
        <3>2. \A q \in Procs : aside'[q] # None => aside'[q] = aside[q]
            BY <1>2, <1>a DEF TypeOK, Goto, Mkdir
        <3>3. \A q \in Procs : pc'[q] \in {"mkdirall", "create", "write", "exists", "aside"} =>
                  \/ pc[q] \in {"mkdirall", "create", "write", "exists", "aside"}
                  \/ aside'[q] = None
            BY <1>2, <1>a DEF TypeOK, Goto, Mkdir
        <3>4. \A q \in Procs : aside[q] # None =>
                  /\ aside[q].in \in Nat /\ aside[q].owner \in Nat
                  /\ aside[q].in <= made /\ aside[q].owner <= made
            BY <1>a, <1>d, <1>g DEF AsidesKnown
        <3>5. \A q \in Procs : aside'[q] # None =>
                                 aside'[q].in <= made' /\ aside'[q].owner <= made'
            <4> SUFFICES ASSUME NEW q \in Procs, aside'[q] # None
                         PROVE  aside'[q].in <= made' /\ aside'[q].owner <= made'
                OBVIOUS
            <4>1. aside'[q] = aside[q]
                BY <3>2
            <4>2. /\ aside[q].in \in Nat /\ aside[q].owner \in Nat
                  /\ aside[q].in <= made /\ aside[q].owner <= made
                BY <3>4, <4>1
            <4> QED
                BY <4>1, <4>2, <3>1, <1>b
        <3>6. \A q \in Procs : pc[q] \in {"mkdirall", "create", "write", "exists", "aside"} =>
                                 aside'[q] = None
            BY <1>2, <1>a DEF TypeOK, Mkdir, AsidesKnown
        <3> QED
            BY <3>3, <3>5, <3>6 DEF AsidesKnown
    <2> QED
        BY <2>1, <2>2, <2>3, <2>4 DEF Tokens
<1>3. ASSUME NEW p \in Procs, InspectOwner(p) PROVE Tokens'
    <2>1. TypeOK'
        BY <1>3, <1>a, <1>d, <1>f DEF TypeOK, Goto, Points, Writing, Bounds, InspectOwner
    <2>2. Counted'
        BY <1>3, <1>a, CountedKept DEF InspectOwner, Points, Writing, Bounds, TypeOK
    <2>3. TokensApart'
        BY <1>3, <1>a, <1>b, <1>d, <1>e, <1>f DEF TokensApart, TypeOK, Goto, Working, Writing,
           InspectOwner
    <2>4. AsidesKnown'
        BY <1>3, <1>a, <1>b, <1>d, <1>g DEF AsidesKnown, TypeOK, Goto, InspectOwner
    <2> QED
        BY <2>1, <2>2, <2>3, <2>4 DEF Tokens
<1>4. ASSUME NEW p \in Procs, MoveAside(p) PROVE Tokens'
    <2>1. TypeOK'
        BY <1>4, <1>a, <1>d, <1>f DEF TypeOK, Goto, Points, Writing, Bounds, MoveAside
    <2>2. Counted'
        BY <1>4, <1>a, CountedKept DEF MoveAside, Points, Writing, Bounds, TypeOK
    <2>3. TokensApart'
        BY <1>4, <1>a, <1>b, <1>d, <1>e, <1>f DEF TokensApart, TypeOK, Goto, Working, Writing,
           MoveAside
    <2>4. AsidesKnown'
        BY <1>4, <1>a, <1>b, <1>d, <1>g DEF AsidesKnown, TypeOK, Goto, MoveAside
    <2> QED
        BY <2>1, <2>2, <2>3, <2>4 DEF Tokens
<1>5. ASSUME NEW p \in Procs, Wait(p) PROVE Tokens'
    <2>1. TypeOK'
        BY <1>5, <1>a, <1>d, <1>f DEF TypeOK, Goto, Points, Writing, Bounds, Wait
    <2>2. Counted'
        BY <1>5, <1>a, CountedKept DEF Wait, Points, Writing, Bounds, TypeOK
    <2>3. TokensApart'
        BY <1>5, <1>a, <1>b, <1>d, <1>e, <1>f DEF TokensApart, TypeOK, Goto, Working, Writing,
           Wait
    <2>4. AsidesKnown'
        BY <1>5, <1>a, <1>b, <1>d, <1>g DEF AsidesKnown, TypeOK, Goto, Wait
    <2> QED
        BY <2>1, <2>2, <2>3, <2>4 DEF Tokens
<1>6. ASSUME NEW p \in Procs, MkdirAll(p) PROVE Tokens'
    <2>0. /\ dir = None => made + 1 \in Ids /\ dir' = FreshDirectory(made + 1, token[p])
          /\ token[p] \in Ids
        BY <1>6, <1>f, RoomForOne DEF MkdirAll, Working, Writing
    <2>5. dir = None => dir' \in Directories
        BY <2>0, FreshIsDirectory
    <2>1. TypeOK'
        <3>1. CASE dir = None
            BY <2>0, <2>5, <3>1, <1>6, <1>a DEF TypeOK, Goto, Points, Writing, MkdirAll
        <3>2. CASE dir # None
            BY <3>2, <1>6, <1>a DEF TypeOK, Goto, Points, Writing, MkdirAll
        <3> QED
            BY <3>1, <3>2
    <2>2. Counted'
        BY <1>6, <1>a, <1>b, <1>c, OneStep, FiniteParts DEF MkdirAll, Counted, Points, Writing
    <2>3. TokensApart'
        BY <1>6, <1>a, <1>b, <1>d, <1>e, <1>f, RoomForOne
           DEF TokensApart, TypeOK, Goto, Working, Writing, FreshDirectory, MkdirAll
    <2>4. AsidesKnown'
        <3>1. made' \in Nat /\ made <= made' /\ aside' = aside
            BY <1>6, <1>b DEF MkdirAll
        <3>2. \A q \in Procs : pc'[q] \in {"mkdirall", "create", "write", "exists", "aside"} =>
                                 pc[q] \in {"mkdirall", "create", "write", "exists", "aside"}
            BY <1>6, <1>a DEF TypeOK, Goto, MkdirAll
        <3>4. \A q \in Procs : aside[q] # None =>
                  /\ aside[q].in \in Nat /\ aside[q].owner \in Nat
                  /\ aside[q].in <= made /\ aside[q].owner <= made
            BY <1>a, <1>d, <1>g DEF AsidesKnown
        <3>5. \A q \in Procs : aside'[q] # None =>
                                 aside'[q].in <= made' /\ aside'[q].owner <= made'
            BY <3>1, <3>4, <1>b
        <3> QED
            BY <1>a, <3>1, <3>2, <3>5 DEF AsidesKnown
    <2> QED
        BY <2>1, <2>2, <2>3, <2>4 DEF Tokens
<1>7. ASSUME NEW p \in Procs, CreateTemp(p) PROVE Tokens'
    <2>1. TypeOK'
        BY <1>7, <1>a, <1>d, <1>f, <1>e DEF TypeOK, Goto, Points, Writing, Bounds, CreateTemp, GiveUp, Fails, Fault
    <2>2. Counted'
        BY <1>7, <1>a, CountedKept DEF CreateTemp, GiveUp, Fails, Fault, Points, Writing, Bounds, TypeOK
    <2>3. TokensApart'
        BY <1>7, <1>a, <1>b, <1>d, <1>e, <1>f DEF TokensApart, TypeOK, Goto, Working, Writing,
           CreateTemp, GiveUp, Fails, Fault
    <2>4. AsidesKnown'
        BY <1>7, <1>a, <1>b, <1>d, <1>g DEF AsidesKnown, TypeOK, Goto, CreateTemp, GiveUp, Fails, Fault
    <2> QED
        BY <2>1, <2>2, <2>3, <2>4 DEF Tokens
<1>8. ASSUME NEW p \in Procs, WriteOwner(p) PROVE Tokens'
    <2>0. dir' = dir \/ PutRecord(p)
        BY <1>8 DEF WriteOwner
    <2>5. pc[p] \in Working
        BY <1>8 DEF WriteOwner, Working, Writing
    <2>6. PutRecord(p) => /\ dir # None /\ dir' \in Directories /\ dir' # None
                          /\ dir'.id = dir.id /\ dir'.by = dir.by /\ dir'.owner = token[p]
        BY <2>5, OwnerWritten
    <2>1. TypeOK'
        <3>1. dir' \in Directories \cup {None}
            BY <2>0, <2>6, <1>a DEF TypeOK
        <3> QED
            BY <3>1, <1>8, <1>a DEF TypeOK, WriteOwner, PutRecord, GiveUp, Fails, Fault, Goto, Points,
                                  Writing, Bounds
    <2>2. Counted'
        BY <1>8, <1>a, CountedKept DEF WriteOwner, GiveUp, Fails, Fault, Points, Writing, Bounds, TypeOK
    <2>3. TokensApart'
        <3>1. \A q \in Procs : pc'[q] \in Working <=> pc[q] \in Working
            BY <1>8, <1>a DEF TypeOK, WriteOwner, GiveUp, Goto, Working, Writing
        <3> QED
            BY <2>0, <2>6, <3>1, <1>8, <1>a DEF TokensApart, WriteOwner
    <2>4. AsidesKnown'
        BY <1>8, <1>a, <1>b, <1>d, <1>g DEF AsidesKnown, TypeOK, Goto, GiveUp, WriteOwner
    <2> QED
        BY <2>1, <2>2, <2>3, <2>4 DEF Tokens
<1>9. ASSUME NEW p \in Procs, LookForRecord(p) PROVE Tokens'
    <2>1. TypeOK'
        BY <1>9, <1>a, <1>d, <1>f DEF TypeOK, Goto, Points, Writing, Bounds, LookForRecord
    <2>2. Counted'
        BY <1>9, <1>a, CountedKept DEF LookForRecord, Points, Writing, Bounds, TypeOK
    <2>3. TokensApart'
        BY <1>9, <1>a, <1>b, <1>d, <1>e, <1>f DEF TokensApart, TypeOK, Goto, Working, Writing,
           LookForRecord
    <2>4. AsidesKnown'
        BY <1>9, <1>a, <1>b, <1>d, <1>g DEF AsidesKnown, TypeOK, Goto, LookForRecord
    <2> QED
        BY <2>1, <2>2, <2>3, <2>4 DEF Tokens
<1>10. ASSUME NEW p \in Procs, SetAside(p) PROVE Tokens'
    <2>0. dir' # dir => /\ HasRecord /\ dir' \in Directories /\ dir' # None
                        /\ dir'.id = dir.id /\ dir'.by = dir.by /\ dir'.owner = None
        BY <1>10, RecordMovedAside
    <2>5. ASSUME aside' # aside
          PROVE  /\ HasRecord /\ pc' = [pc EXCEPT ![p] = "again"]
                 /\ aside' = [aside EXCEPT ![p] =
                                 [in |-> dir.id, owner |-> dir.owner, old |-> dir.old]]
                 /\ [in |-> dir.id, owner |-> dir.owner, old |-> dir.old] \in Records
                 /\ dir.id <= made /\ dir.owner <= made
        <3>1. /\ HasRecord /\ pc' = [pc EXCEPT ![p] = "again"]
              /\ aside' = [aside EXCEPT ![p] =
                              [in |-> dir.id, owner |-> dir.owner, old |-> dir.old]]
            BY <2>5, <1>10 DEF SetAside, Goto
        <3>2. /\ dir # None /\ dir.id \in Ids /\ dir.owner \in Ids /\ dir.old \in BOOLEAN
              /\ dir.id <= made /\ dir.owner <= made
            BY <3>1, <1>a, <1>e DEF HasRecord, TokensApart
        <3> QED
            BY <3>1, <3>2 DEF Records
    <2>1. TypeOK'
        <3>1. dir' \in Directories \cup {None}
            BY <2>0, <1>a DEF TypeOK
        <3>2. aside' \in [Procs -> Records \cup {None}]
            BY <2>5, <1>a DEF TypeOK
        <3> QED
            BY <3>1, <3>2, <1>10, <1>a DEF TypeOK, SetAside, GiveUp, Fails, Fault, Goto, Points,
                                       Writing, Bounds
    <2>2. Counted'
        BY <1>10, <1>a, CountedKept DEF SetAside, GiveUp, Fails, Fault, Points, Writing, Bounds, TypeOK
    <2>3. TokensApart'
        <3>1. \A q \in Procs : pc'[q] \in Working <=> pc[q] \in Working
            BY <1>10, <1>a DEF TypeOK, SetAside, GiveUp, Goto, Working, Writing
        <3> QED
            BY <2>0, <3>1, <1>10, <1>a DEF TokensApart, SetAside, HasRecord
    <2>4. AsidesKnown'
        <3>1. CASE aside' = aside
            <4>1. \A q \in Procs : pc'[q] \in {"mkdirall", "create", "write", "exists", "aside"} =>
                                     pc[q] \in {"mkdirall", "create", "write", "exists", "aside"}
                BY <1>10, <1>a DEF TypeOK, Goto, GiveUp, SetAside
            <4> QED
                BY <3>1, <4>1, <1>10, <1>a DEF AsidesKnown, SetAside
        <3>2. CASE aside' # aside
            <4>1. made' = made /\ \A q \in Procs :
                     /\ q # p => aside'[q] = aside[q] /\ pc'[q] = pc[q]
                     /\ q = p => /\ pc'[q] = "again"
                                 /\ aside'[q].in = dir.id /\ aside'[q].owner = dir.owner
                BY <3>2, <2>5, <1>10, <1>a DEF TypeOK, SetAside
            <4> QED
                BY <3>2, <2>5, <4>1, <1>a DEF AsidesKnown
        <3> QED
            BY <3>1, <3>2
    <2> QED
        BY <2>1, <2>2, <2>3, <2>4 DEF Tokens
<1>11. ASSUME NEW p \in Procs, WriteAgain(p) PROVE Tokens'
    <2>0. dir' = dir \/ PutRecord(p)
        BY <1>11 DEF WriteAgain
    <2>5. pc[p] \in Working
        BY <1>11 DEF WriteAgain, Working, Writing
    <2>6. PutRecord(p) => /\ dir # None /\ dir' \in Directories /\ dir' # None
                          /\ dir'.id = dir.id /\ dir'.by = dir.by /\ dir'.owner = token[p]
        BY <2>5, OwnerWritten
    <2>1. TypeOK'
        <3>1. dir' \in Directories \cup {None}
            BY <2>0, <2>6, <1>a DEF TypeOK
        <3> QED
            BY <3>1, <1>11, <1>a DEF TypeOK, WriteAgain, PutRecord, GiveUp, Fails, Fault, Goto, Points,
                                  Writing, Bounds
    <2>2. Counted'
        BY <1>11, <1>a, CountedKept DEF WriteAgain, GiveUp, Fails, Fault, Points, Writing, Bounds, TypeOK
    <2>3. TokensApart'
        <3>1. \A q \in Procs : pc'[q] \in Working <=> pc[q] \in Working
            BY <1>11, <1>a DEF TypeOK, WriteAgain, GiveUp, Goto, Working, Writing
        <3> QED
            BY <2>0, <2>6, <3>1, <1>11, <1>a DEF TokensApart, WriteAgain
    <2>4. AsidesKnown'
        BY <1>11, <1>a, <1>b, <1>d, <1>g DEF AsidesKnown, TypeOK, Goto, GiveUp, WriteAgain
    <2> QED
        BY <2>1, <2>2, <2>3, <2>4 DEF Tokens
<1>12. ASSUME NEW p \in Procs, PutBack(p) PROVE Tokens'
    <2>0. dir' # dir => /\ AsideInPlace(p) /\ dir' \in Directories /\ dir' # None
                        /\ dir'.id = dir.id /\ dir'.by = dir.by /\ dir'.owner = aside[p].owner
        BY <1>12, RecordMovedBack
    <2>1. TypeOK'
        <3>1. dir' \in Directories \cup {None}
            BY <2>0, <1>a DEF TypeOK
        <3> QED
            BY <3>1, <1>12, <1>a DEF TypeOK, PutBack, GiveUp, Fails, Fault, Goto, Points,
                                  Writing, Bounds
    <2>2. Counted'
        BY <1>12, <1>a, CountedKept DEF PutBack, GiveUp, Fails, Fault, Points, Writing, Bounds, TypeOK
    <2>3. TokensApart'
        <3>1. \A q \in Procs : pc'[q] \in Working <=> pc[q] \in Working
            BY <1>12, <1>a DEF TypeOK, PutBack, GiveUp, Goto, Working, Writing
        <3>2. dir' # dir => dir # None /\ dir'.owner <= made
            BY <2>0, <1>a DEF AsideInPlace, AsidesKnown
        <3> QED
            BY <2>0, <3>1, <3>2, <1>12, <1>a DEF TokensApart, PutBack
    <2>4. AsidesKnown'
        BY <1>12, <1>a, <1>b, <1>d, <1>g DEF AsidesKnown, TypeOK, Goto, GiveUp, PutBack
    <2> QED
        BY <2>1, <2>2, <2>3, <2>4 DEF Tokens
<1>13. ASSUME NEW p \in Procs, DropAside(p) PROVE Tokens'
    <2>1. TypeOK'
        BY <1>13, <1>a, <1>d, <1>f DEF TypeOK, Goto, Points, Writing, Bounds, DropAside, Fails, Fault
    <2>2. Counted'
        BY <1>13, <1>a, CountedKept DEF DropAside, Fails, Fault, Points, Writing, Bounds, TypeOK
    <2>3. TokensApart'
        BY <1>13, <1>a, <1>b, <1>d, <1>e, <1>f DEF TokensApart, TypeOK, Goto, Working, Writing,
           DropAside, Fails, Fault
    <2>4. AsidesKnown'
        BY <1>13, <1>a, <1>b, <1>d, <1>g DEF AsidesKnown, TypeOK, Goto, DropAside, Fails, Fault
    <2> QED
        BY <2>1, <2>2, <2>3, <2>4 DEF Tokens
<1>14. ASSUME NEW p \in Procs, SyncDir(p) PROVE Tokens'
    <2>1. TypeOK'
        BY <1>14, <1>a, <1>d, <1>f DEF TypeOK, Goto, Points, Writing, Bounds, SyncDir, GiveUp, Fails, Fault
    <2>2. Counted'
        BY <1>14, <1>a, CountedKept DEF SyncDir, GiveUp, Fails, Fault, Points, Writing, Bounds, TypeOK
    <2>3. TokensApart'
        BY <1>14, <1>a, <1>b, <1>d, <1>e, <1>f DEF TokensApart, TypeOK, Goto, Working, Writing,
           SyncDir, GiveUp, Fails, Fault
    <2>4. AsidesKnown'
        BY <1>14, <1>a, <1>b, <1>d, <1>g DEF AsidesKnown, TypeOK, Goto, SyncDir, GiveUp, Fails, Fault
    <2> QED
        BY <2>1, <2>2, <2>3, <2>4 DEF Tokens
<1>15. ASSUME NEW p \in Procs, AssertOwned(p) PROVE Tokens'
    <2>1. TypeOK'
        BY <1>15, <1>a, <1>d, <1>f DEF TypeOK, Goto, Points, Writing, Bounds, AssertOwned, Return
    <2>2. Counted'
        BY <1>15, <1>a, CountedKept DEF AssertOwned, Return, Points, Writing, Bounds, TypeOK
    <2>3. TokensApart'
        BY <1>15, <1>a, <1>b, <1>d, <1>e, <1>f DEF TokensApart, TypeOK, Goto, Working, Writing,
           AssertOwned, Return
    <2>4. AsidesKnown'
        BY <1>15, <1>a, <1>b, <1>d, <1>g DEF AsidesKnown, TypeOK, Goto, AssertOwned, Return
    <2> QED
        BY <2>1, <2>2, <2>3, <2>4 DEF Tokens
<1>16. ASSUME NEW p \in Procs, Act(p) PROVE Tokens'
    <2>1. TypeOK'
        BY <1>16, <1>a, <1>d, <1>f DEF TypeOK, Goto, Points, Writing, Bounds, Act
    <2>2. Counted'
        BY <1>16, <1>a, CountedKept DEF Act, Points, Writing, Bounds, TypeOK
    <2>3. TokensApart'
        BY <1>16, <1>a, <1>b, <1>d, <1>e, <1>f DEF TokensApart, TypeOK, Goto, Working, Writing,
           Act
    <2>4. AsidesKnown'
        BY <1>16, <1>a, <1>b, <1>d, <1>g DEF AsidesKnown, TypeOK, Goto, Act
    <2> QED
        BY <2>1, <2>2, <2>3, <2>4 DEF Tokens
<1>17. ASSUME NEW p \in Procs, Release(p) PROVE Tokens'
    <2>1. TypeOK'
        BY <1>17, <1>a, <1>d, <1>f DEF TypeOK, Goto, Points, Writing, Bounds, Release, Return
    <2>2. Counted'
        BY <1>17, <1>a, CountedKept DEF Release, Return, Points, Writing, Bounds, TypeOK
    <2>3. TokensApart'
        BY <1>17, <1>a, <1>b, <1>d, <1>e, <1>f DEF TokensApart, TypeOK, Goto, Working, Writing,
           Release, Return
    <2>4. AsidesKnown'
        BY <1>17, <1>a, <1>b, <1>d, <1>g DEF AsidesKnown, TypeOK, Goto, Release, Return
    <2> QED
        BY <2>1, <2>2, <2>3, <2>4 DEF Tokens
<1>18. ASSUME NEW p \in Procs, RemoveFiles(p) PROVE Tokens'
    <2>0. dir # None => /\ dir' \in Directories /\ dir' # None
                        /\ dir'.id = dir.id /\ dir'.by = dir.by /\ dir'.owner = None
        BY <1>18, FilesRemoved
    <2>1. TypeOK'
        BY <2>0, <1>18, <1>a DEF TypeOK, Goto, Points, RemoveFiles
    <2>2. Counted'
        BY <1>18, <1>a, CountedKept DEF RemoveFiles, Points
    <2>3. TokensApart'
        <3>1. \A q \in Procs : pc'[q] \in Working <=> pc[q] \in Working
            BY <1>18, <1>a DEF TypeOK, RemoveFiles, Goto, Working
        <3> QED
            BY <2>0, <3>1, <1>18, <1>a DEF TokensApart, RemoveFiles
    <2>4. AsidesKnown'
        BY <1>18, <1>a, <1>b, <1>d, <1>g DEF AsidesKnown, TypeOK, Goto, RemoveFiles
    <2> QED
        BY <2>1, <2>2, <2>3, <2>4 DEF Tokens
<1>19. ASSUME NEW p \in Procs, RemoveDirectory(p) PROVE Tokens'
    <2>1. TypeOK'
        BY <1>19, <1>a, <1>d, <1>f DEF TypeOK, Goto, Points, Writing, Bounds, RemoveDirectory, Return
    <2>2. Counted'
        BY <1>19, <1>a, CountedKept DEF RemoveDirectory, Return, Points, Writing, Bounds, TypeOK
    <2>3. TokensApart'
        BY <1>19, <1>a, <1>b, <1>d, <1>e, <1>f DEF TokensApart, TypeOK, Goto, Working, Writing,
           RemoveDirectory, Return
    <2>4. AsidesKnown'
        BY <1>19, <1>a, <1>b, <1>d, <1>g DEF AsidesKnown, TypeOK, Goto, RemoveDirectory, Return
    <2> QED
        BY <2>1, <2>2, <2>3, <2>4 DEF Tokens
<1>20. ASSUME NEW p \in Procs, Crash(p) PROVE Tokens'
    <2>1. TypeOK'
        BY <1>20, <1>a, <1>d, <1>f DEF TypeOK, Goto, Points, Writing, Bounds, Crash
    <2>2. Counted'
        BY <1>20, <1>a, CountedKept DEF Crash, Points, Writing, Bounds, TypeOK
    <2>3. TokensApart'
        BY <1>20, <1>a, <1>b, <1>d, <1>e, <1>f DEF TokensApart, TypeOK, Goto, Working, Writing,
           Crash
    <2>4. AsidesKnown'
        BY <1>20, <1>a, <1>b, <1>d, <1>g DEF AsidesKnown, TypeOK, Goto, Crash
    <2> QED
        BY <2>1, <2>2, <2>3, <2>4 DEF Tokens
<1>21. CASE Age
    <2>1. TypeOK'
        BY <1>21, <1>a, <1>e DEF TypeOK, Age, Directories
    <2>2. Counted'
        BY <1>21, <1>a, CountedSame DEF Age
    <2>3. TokensApart'
        BY <1>21, <1>a, <1>e DEF TokensApart, TypeOK, Age, Directories, Working
    <2>4. AsidesKnown'
        BY <1>21, <1>a DEF AsidesKnown, Age
    <2> QED
        BY <2>1, <2>2, <2>3, <2>4 DEF Tokens
<1>22. CASE UNCHANGED vars
    <2>1. TypeOK'
        BY <1>22, <1>a DEF TypeOK, vars
    <2>2. Counted'
        BY <1>22, <1>a, CountedSame DEF vars
    <2>3. TokensApart' /\ AsidesKnown'
        BY <1>22, <1>a DEF TokensApart, AsidesKnown, vars, Working
    <2> QED
        BY <2>1, <2>2, <2>3 DEF Tokens
<1> QED
    BY <1>1, <1>2, <1>3, <1>4, <1>5, <1>6, <1>7, <1>8, <1>9, <1>10,
       <1>11, <1>12, <1>13, <1>14, <1>15, <1>16, <1>17, <1>18, <1>19, <1>20,
       <1>21, <1>22 DEF Next, Step

THEOREM TokensAlways == Spec => []Tokens
<1>1. Tokens /\ [Next]_vars => Tokens'
    BY NextTokens
<1> QED
    BY InitTokens, <1>1, PTL DEF Spec

\* Every number a request draws is one of its own, no more directories are made
\* than the calls of acquireLock account for, and the lock directory always is
\* one of them.
THEOREM RegistryLockTypes == Spec => []TypeOK
BY TokensAlways, PTL DEF Tokens

-----------------------------------------------------------------------------
(* A lost lock *)

\* Only a rename puts a record in a lock: of the writer's temporary file, or of what
\* a late writer set aside.
LEMMA RecordIsWritten ==
    ASSUME Tokens, [Next]_vars, dir' # None, dir'.owner # None
    PROVE  \/ dir # None /\ dir'.owner = dir.owner
           \/ \E q \in Procs : pc[q] \in {"write", "again"} /\ dir'.owner = token[q]
           \/ \E q \in Procs : /\ pc[q] = "putback" /\ AsideInPlace(q)
                               /\ dir'.owner = aside[q].owner
<1> USE NoneAssumption
<1>a. dir \in Directories \cup {None} /\ made \in Ids \cup {0}
    BY DEF Tokens, TypeOK
<1>1. ASSUME NEW p \in Procs, Mkdir(p), dir' # dir PROVE FALSE
    <2>1. made + 1 \in Ids
        BY <1>1, RoomForOne DEF Mkdir
    <2>2. dir' = FreshDirectory(made + 1, made + 1)
        BY <1>1 DEF Mkdir
    <2> QED
        BY <2>1, <2>2, FreshIsDirectory
<1>2. ASSUME NEW p \in Procs, MkdirAll(p), dir' # dir PROVE FALSE
    <2>1. token[p] \in Ids
        BY <1>2 DEF Tokens, TypeOK, TokensApart, Working, Writing, MkdirAll
    <2>2. made + 1 \in Ids
        BY <1>2, RoomForOne DEF MkdirAll
    <2>3. dir' = FreshDirectory(made + 1, token[p])
        BY <1>2 DEF MkdirAll
    <2> QED
        BY <2>1, <2>2, <2>3, FreshIsDirectory
<1>3. ASSUME NEW p \in Procs, WriteOwner(p) \/ WriteAgain(p), dir' # dir
      PROVE  pc[p] \in {"write", "again"} /\ dir'.owner = token[p]
    <2>1. PutRecord(p) /\ pc[p] \in {"write", "again"}
        BY <1>3 DEF WriteOwner, WriteAgain
    <2> QED
        BY <2>1, OwnerWritten DEF Working, Writing
<1>4. ASSUME NEW p \in Procs, RemoveFiles(p) \/ SetAside(p), dir' # dir PROVE FALSE
    <2>1. RemoveFiles(p) => dir # None
        BY <1>4 DEF RemoveFiles
    <2> QED
        BY <1>4, <2>1, FilesRemoved, RecordMovedAside
<1>5. CASE Age
    BY <1>5, <1>a DEF Age, Directories
<1>6. ASSUME NEW p \in Procs, MoveAside(p) \/ RemoveDirectory(p), dir' # dir PROVE FALSE
    BY <1>6 DEF MoveAside, RemoveDirectory
<1>7. ASSUME NEW p \in Procs,
             \/ Request(p) \/ InspectOwner(p) \/ Wait(p) \/ CreateTemp(p)
             \/ LookForRecord(p) \/ DropAside(p) \/ SyncDir(p)
             \/ AssertOwned(p) \/ Act(p) \/ Release(p) \/ Crash(p)
      PROVE  dir' = dir
    BY <1>7 DEF Request, InspectOwner, Wait, CreateTemp, LookForRecord, DropAside, SyncDir,
                AssertOwned, Act, Release, Crash
<1>8. ASSUME NEW p \in Procs, PutBack(p), dir' # dir
      PROVE  pc[p] = "putback" /\ AsideInPlace(p) /\ dir'.owner = aside[p].owner
    BY <1>8, RecordMovedBack DEF PutBack
<1>9. CASE UNCHANGED vars
    BY <1>9 DEF vars
<1> QED
    BY <1>1, <1>2, <1>3, <1>4, <1>5, <1>6, <1>7, <1>8, <1>9 DEF Next, Step

\* A directory made before is at the path only if it was there already.
LEMMA DirectoryStays ==
    ASSUME Tokens, [Next]_vars, dir' # None, dir'.id <= made
    PROVE  dir # None /\ dir'.id = dir.id
<1> USE NoneAssumption
<1>a. dir \in Directories \cup {None} /\ made \in Nat
    BY DEF Tokens, TypeOK, Ids
<1>1. ASSUME NEW p \in Procs, Mkdir(p), dir' # dir PROVE FALSE
    <2>1. made + 1 \in Ids
        BY <1>1, RoomForOne DEF Mkdir
    <2>2. dir' = FreshDirectory(made + 1, made + 1)
        BY <1>1 DEF Mkdir
    <2>3. dir'.id = made + 1
        BY <2>1, <2>2, FreshIsDirectory
    <2> QED
        BY <1>a, <2>3
<1>2. ASSUME NEW p \in Procs, MkdirAll(p), dir' # dir PROVE FALSE
    <2>1. token[p] \in Ids
        BY <1>2 DEF Tokens, TypeOK, TokensApart, Working, Writing, MkdirAll
    <2>2. made + 1 \in Ids
        BY <1>2, RoomForOne DEF MkdirAll
    <2>3. dir' = FreshDirectory(made + 1, token[p])
        BY <1>2 DEF MkdirAll
    <2>4. dir'.id = made + 1
        BY <2>1, <2>2, <2>3, FreshIsDirectory
    <2> QED
        BY <1>a, <2>4
<1>3. ASSUME NEW p \in Procs, WriteOwner(p) \/ WriteAgain(p), dir' # dir
      PROVE  dir # None /\ dir'.id = dir.id
    <2>1. PutRecord(p) /\ pc[p] \in {"write", "again"}
        BY <1>3 DEF WriteOwner, WriteAgain
    <2> QED
        BY <2>1, OwnerWritten DEF Working, Writing
<1>4. ASSUME NEW p \in Procs, RemoveFiles(p) \/ SetAside(p) \/ PutBack(p), dir' # dir
      PROVE  dir # None /\ dir'.id = dir.id
    <2>1. RemoveFiles(p) => dir # None
        BY <1>4 DEF RemoveFiles
    <2> QED
        BY <1>4, <2>1, FilesRemoved, RecordMovedAside, RecordMovedBack
           DEF HasRecord, AsideInPlace
<1>5. CASE Age
    BY <1>5, <1>a DEF Age, Directories
<1>6. ASSUME NEW p \in Procs, MoveAside(p) \/ RemoveDirectory(p), dir' # dir PROVE FALSE
    BY <1>6 DEF MoveAside, RemoveDirectory
<1>7. ASSUME NEW p \in Procs,
             \/ Request(p) \/ InspectOwner(p) \/ Wait(p) \/ CreateTemp(p)
             \/ LookForRecord(p) \/ DropAside(p) \/ SyncDir(p)
             \/ AssertOwned(p) \/ Act(p) \/ Release(p) \/ Crash(p)
      PROVE  dir' = dir
    BY <1>7 DEF Request, InspectOwner, Wait, CreateTemp, LookForRecord, DropAside, SyncDir,
                AssertOwned, Act, Release, Crash
<1>8. CASE UNCHANGED vars
    BY <1>8 DEF vars
<1> QED
    BY <1>1, <1>2, <1>3, <1>4, <1>5, <1>6, <1>7, <1>8 DEF Next, Step

\* A record is set aside out of the directory at the path, or was before.
LEMMA AsideIsSet ==
    ASSUME Tokens, [Next]_vars, NEW q \in Procs,
           pc'[q] \in {"again", "putback"}, aside'[q] # None
    PROVE  \/ HasRecord /\ aside'[q].owner = dir.owner
           \/ pc[q] \in {"again", "putback"} /\ aside'[q] = aside[q]
<1>a. /\ pc \in [Procs -> Points] /\ aside \in [Procs -> Records \cup {None}]
      /\ pc[q] = "exists" => aside[q] = None
    BY DEF Tokens, TypeOK, AsidesKnown
<1>1. ASSUME NEW p \in Procs, SetAside(p)
      PROVE  \/ HasRecord /\ aside'[q].owner = dir.owner
             \/ pc[q] \in {"again", "putback"} /\ aside'[q] = aside[q]
    BY <1>1, <1>a DEF SetAside, GiveUp, Goto
<1>2. ASSUME NEW p \in Procs, LookForRecord(p)
      PROVE  pc[q] \in {"again", "putback"} /\ aside'[q] = aside[q]
    BY <1>2, <1>a DEF LookForRecord, Goto
<1>3. ASSUME NEW p \in Procs, WriteAgain(p)
      PROVE  pc[q] \in {"again", "putback"} /\ aside'[q] = aside[q]
    BY <1>3, <1>a DEF WriteAgain, GiveUp, Goto
<1>4. ASSUME NEW p \in Procs, PutBack(p) \/ DropAside(p)
      PROVE  pc[q] \in {"again", "putback"} /\ aside'[q] = aside[q]
    BY <1>4, <1>a DEF PutBack, DropAside, GiveUp, Goto
<1>5. ASSUME NEW p \in Procs, RemoveFiles(p) \/ RemoveDirectory(p)
      PROVE  pc[q] \in {"again", "putback"} /\ aside'[q] = aside[q]
    BY <1>5, <1>a DEF RemoveFiles, RemoveDirectory, Return, Goto
<1>6. ASSUME NEW p \in Procs,
             \/ Request(p) \/ Mkdir(p) \/ InspectOwner(p) \/ MoveAside(p) \/ Wait(p)
             \/ MkdirAll(p)
      PROVE  pc[q] \in {"again", "putback"} /\ aside'[q] = aside[q]
    BY <1>6, <1>a DEF Request, Mkdir, InspectOwner, MoveAside, Wait, MkdirAll, Goto
<1>7. ASSUME NEW p \in Procs, CreateTemp(p) \/ WriteOwner(p) \/ SyncDir(p)
      PROVE  pc[q] \in {"again", "putback"} /\ aside'[q] = aside[q]
    BY <1>7, <1>a DEF CreateTemp, WriteOwner, SyncDir, GiveUp, Goto
<1>8. ASSUME NEW p \in Procs, AssertOwned(p) \/ Act(p) \/ Release(p) \/ Crash(p)
      PROVE  pc[q] \in {"again", "putback"} /\ aside'[q] = aside[q]
    BY <1>8, <1>a DEF AssertOwned, Act, Release, Crash, Return, Goto
<1>9. CASE Age \/ UNCHANGED vars
    BY <1>9 DEF Age, vars
<1> QED
    BY <1>1, <1>2, <1>3, <1>4, <1>5, <1>6, <1>7, <1>8, <1>9 DEF Next, Step

\* Nobody takes the token of a process that stays between acquireLock and release.
LEMMA TokenStays ==
    ASSUME Tokens, [Next]_vars, NEW p \in Procs,
           pc[p] \in {"held", "act"}, pc'[p] \in {"held", "act"}
    PROVE  token'[p] = token[p]
<1>1. pc \in [Procs -> Points] /\ token \in [Procs -> Ids \cup {0}]
    BY DEF Tokens, TypeOK
<1>2. ASSUME NEW q \in Procs, Mkdir(q) PROVE token'[p] = token[p]
    BY <1>1, <1>2 DEF Mkdir
<1>3. ASSUME NEW q \in Procs, AssertOwned(q) \/ Release(q) PROVE token'[p] = token[p]
    BY <1>1, <1>3 DEF AssertOwned, Release, Return, Goto
<1>4. ASSUME NEW q \in Procs, RemoveDirectory(q) \/ Crash(q) PROVE token'[p] = token[p]
    BY <1>1, <1>4 DEF RemoveDirectory, Crash, Return, Goto
<1>5. ASSUME NEW q \in Procs,
             \/ Request(q) \/ InspectOwner(q) \/ MoveAside(q) \/ Wait(q) \/ MkdirAll(q)
             \/ CreateTemp(q) \/ WriteOwner(q) \/ LookForRecord(q) \/ SetAside(q)
             \/ WriteAgain(q) \/ PutBack(q) \/ DropAside(q) \/ SyncDir(q) \/ Act(q)
             \/ RemoveFiles(q)
      PROVE  token' = token
    BY <1>5 DEF Request, InspectOwner, MoveAside, Wait, MkdirAll, CreateTemp, WriteOwner,
                LookForRecord, SetAside, WriteAgain, PutBack, DropAside, SyncDir, Act,
                RemoveFiles
<1>6. CASE Age \/ UNCHANGED vars
    BY <1>6 DEF Age, vars
<1> QED
    BY <1>2, <1>3, <1>4, <1>5, <1>6 DEF Next, Step

\* Whatever else happens: any number of contenders, live holders outlasting the
\* stale window, late renames, crashes and failed writes.
THEOREM LossIsFinalAlways == Spec => LossIsFinal
<1>1. ASSUME Tokens, [Next]_vars, NEW p \in Procs,
             pc[p] \in {"held", "act"}, pc'[p] \in {"held", "act"},
             ~OwnRecord(p), ~IsAside(p)
      PROVE  ~OwnRecord(p)' /\ ~IsAside(p)'
    <2>1. token'[p] = token[p] /\ token[p] \in Ids /\ token[p] # 0
        BY <1>1, TokenStays DEF Tokens, TypeOK, TokensApart, Working, Ids
    <2>2. ASSUME dir' # None, dir'.owner = token[p] PROVE FALSE
        <3>1. dir'.owner # None
            BY <2>1, <2>2, NoneAssumption
        <3>2. ASSUME NEW q \in Procs, pc[q] \in {"write", "again"}, dir'.owner = token[q]
              PROVE  FALSE
            BY <1>1, <2>1, <2>2, <3>2 DEF Tokens, TokensApart
        <3>3. ASSUME NEW q \in Procs, pc[q] = "putback", AsideInPlace(q),
                     dir'.owner = aside[q].owner
              PROVE  FALSE
            BY <1>1, <2>2, <3>3 DEF IsAside
        <3> QED
            BY <1>1, <2>2, <3>1, <3>2, <3>3, RecordIsWritten DEF OwnRecord
    <2>3. ASSUME NEW q \in Procs, pc'[q] \in {"again", "putback"},
                 dir' # None, aside'[q] # None, aside'[q].in = dir'.id,
                 aside'[q].owner = token[p]
          PROVE  FALSE
        <3>1. CASE HasRecord /\ aside'[q].owner = dir.owner
            BY <1>1, <2>3, <3>1 DEF HasRecord, OwnRecord
        <3>2. CASE pc[q] \in {"again", "putback"} /\ aside'[q] = aside[q]
            <4>1. dir'.id <= made
                BY <1>1, <2>3, <3>2 DEF Tokens, AsidesKnown
            <4>2. AsideInPlace(q)
                BY <1>1, <2>3, <3>2, <4>1, DirectoryStays DEF AsideInPlace
            <4> QED
                BY <1>1, <2>3, <3>2, <4>2 DEF IsAside
        <3> QED
            BY <1>1, <2>3, <3>1, <3>2, AsideIsSet
    <2> QED
        BY <2>1, <2>2, <2>3 DEF OwnRecord, IsAside, AsideInPlace
<1>2. Tokens /\ [Next]_vars =>
        [\A p \in Procs :
            /\ pc[p] \in {"held", "act"} /\ pc'[p] \in {"held", "act"}
            /\ ~OwnRecord(p) /\ ~IsAside(p)
            => ~OwnRecord(p)' /\ ~IsAside(p)']_vars
    <2>1. Tokens /\ UNCHANGED vars =>
            \A p \in Procs : ~OwnRecord(p) /\ ~IsAside(p) => ~OwnRecord(p)' /\ ~IsAside(p)'
        BY DEF vars, OwnRecord, IsAside, AsideInPlace
    <2> QED
        BY <1>1, <2>1
<1> QED
    BY TokensAlways, <1>2, PTL DEF Spec, LossIsFinal

-----------------------------------------------------------------------------
(* The lock of LockService.  Its two premises are the ones the documents   *)
(* give: the stale window outlasts every live holder (LiveAges), and what  *)
(* a contender moves aside is the old directory it looked at               *)
(* (LiveLockKept).                                                         *)

\* Until the process has its record in the directory, and where replaceFile finds
\* another's there.
Early == {"mkdirall", "create", "write", "exists", "again"}
Fallback == {"aside", "putback", "drop"}

\* The directory at the path is the one the working process made, its record the
\* maker's, and it is empty when RemoveAll comes to the directory itself.  So the
\* fallback of replaceFile finds nothing to set aside.
Inside ==
    \A p \in Procs :
        /\ pc[p] \in Working => dir # None /\ dir.by = token[p]
        /\ pc[p] \in Early => dir.owner = None
        /\ pc[p] \in {"sync", "held", "act"} => dir.owner = token[p]
        /\ pc[p] \notin Fallback /\ aside[p] = None
        /\ pc[p] = "rmdir" => dir.owner = None /\ \A q \in Procs : temp[q] # dir.id

\* A record is the one of the directory's maker; an old one is a dead process's.
RecordOfMaker ==
    dir # None =>
        /\ dir.owner \in {None, dir.by}
        /\ dir.old => dir.owner # None /\ ~Alive(dir.owner)

\* What LiveLockKept says of a step
PromptReap ==
    \A p \in Procs : pc[p] = "move" /\ pc'[p] = "wait" /\ dir # None => dir.old

Kept == Tokens /\ Inside /\ RecordOfMaker

LEMMA OneWorks ==
    ASSUME Tokens, Inside, NEW p \in Procs, NEW q \in Procs,
           pc[p] \in Working, pc[q] \in Working
    PROVE  p = q
BY DEF Tokens, TokensApart, Inside

\* Whose directory it is works, and nobody moves it aside.
LEMMA NotOldWhileWorking ==
    ASSUME Kept, NEW p \in Procs, pc[p] \in Working
    PROVE  ~dir.old
<1>1. dir # None /\ dir.by = token[p] /\ Alive(dir.by)
    BY DEF Kept, Inside, Alive
<1> QED
    BY <1>1 DEF Kept, RecordOfMaker

LEMMA MoveIsPrompt ==
    ASSUME Kept, PromptReap, NEW p \in Procs, MoveAside(p), dir # None
    PROVE  dir.old /\ \A q \in Procs : pc[q] \notin Working
<1>1. pc[p] = "move" /\ pc'[p] = "wait"
    BY DEF Kept, Tokens, TypeOK, MoveAside, Goto
<1>2. dir.old
    BY <1>1 DEF PromptReap
<1> QED
    BY <1>2, NotOldWhileWorking

\* Nobody comes to life under a token that was drawn before.
LEMMA DeadStayDead ==
    ASSUME Tokens, [Next]_vars, NEW t \in Ids, t <= made, ~Alive(t)
    PROVE  \A p \in Procs : token'[p] # t
<1>1. /\ token \in [Procs -> Ids \cup {0}] /\ made \in Nat /\ t \in Nat /\ t # 0
    BY DEF Tokens, TypeOK, Ids
<1>2. ASSUME NEW q \in Procs, Mkdir(q) PROVE \A p \in Procs : token'[p] # t
    <2>1. \A p \in Procs : token'[p] \in {token[p], made + 1}
        BY <1>1, <1>2 DEF Mkdir
    <2> QED
        BY <1>1, <2>1 DEF Alive
<1>3. ASSUME NEW q \in Procs, AssertOwned(q) \/ Release(q)
      PROVE  \A p \in Procs : token'[p] # t
    BY <1>1, <1>3 DEF AssertOwned, Release, Return, Alive
<1>4. ASSUME NEW q \in Procs, RemoveDirectory(q) \/ Crash(q)
      PROVE  \A p \in Procs : token'[p] # t
    BY <1>1, <1>4 DEF RemoveDirectory, Crash, Return, Alive
<1>5. ASSUME NEW q \in Procs,
             \/ Request(q) \/ InspectOwner(q) \/ MoveAside(q) \/ Wait(q) \/ MkdirAll(q)
             \/ CreateTemp(q) \/ WriteOwner(q) \/ LookForRecord(q) \/ SetAside(q)
             \/ WriteAgain(q) \/ PutBack(q) \/ DropAside(q) \/ SyncDir(q) \/ Act(q)
             \/ RemoveFiles(q)
      PROVE  token' = token
    BY <1>5 DEF Request, InspectOwner, MoveAside, Wait, MkdirAll, CreateTemp, WriteOwner,
                LookForRecord, SetAside, WriteAgain, PutBack, DropAside, SyncDir, Act,
                RemoveFiles
<1>6. CASE Age \/ UNCHANGED vars
    BY <1>6 DEF Age, vars, Alive
<1> QED
    BY <1>2, <1>3, <1>4, <1>5, <1>6 DEF Next, Step, Alive

\* A step that leaves the directory as it is, or only ages a dead holder's.
LEMMA RecordKept ==
    ASSUME Tokens, [Next]_vars, RecordOfMaker, dir' = dir
    PROVE  RecordOfMaker'
<1> SUFFICES ASSUME dir # None, dir.old PROVE dir.owner # None /\ ~Alive(dir.owner)'
    BY DEF RecordOfMaker, Alive
<1>1. dir.owner \in Ids /\ dir.owner <= made /\ ~Alive(dir.owner)
    BY DEF RecordOfMaker, Tokens, TypeOK, TokensApart, Directories
<1>2. \A p \in Procs : token'[p] # dir.owner
    BY <1>1, DeadStayDead
<1> QED
    BY <1>1, <1>2 DEF Alive, RecordOfMaker

\* A step by which nobody starts to work, with the directory and the record left
\* alone, and no temporary file made.
LEMMA InsideKept ==
    ASSUME Inside, UNCHANGED <<dir, aside>>,
           \A p \in Procs : /\ pc'[p] \in Working => pc[p] \in Working /\ token'[p] = token[p]
                            /\ pc'[p] \in {"sync", "held", "act"} =>
                                  \/ pc[p] \in {"sync", "held", "act"}
                                  \/ dir.owner = token[p]
                            /\ pc'[p] \in Early => pc[p] \in Early
                            /\ pc'[p] \notin Fallback
                            /\ pc'[p] = "rmdir" => pc[p] = "rmdir",
           \A q \in Procs : dir # None => temp'[q] = temp[q] \/ temp'[q] # dir.id
    PROVE  Inside'
<1>1. \A p \in Procs : pc'[p] \in {"sync", "held", "act"} \cup Early => pc'[p] \in Working
    BY DEF Early, Working, Writing
<1>2. \A p \in Procs : pc'[p] = "rmdir" => pc'[p] \in Working
    BY DEF Working
<1> QED
    BY <1>1, <1>2 DEF Inside

LEMMA NextKept ==
    ASSUME ~LiveAges, Kept, [Next]_vars, PromptReap
    PROVE  Kept'
<1> USE NoneAssumption
<1>a. Tokens /\ Inside /\ RecordOfMaker /\ Tokens'
    BY NextTokens DEF Kept
<1>b. /\ pc \in [Procs -> Points] /\ token \in [Procs -> Ids \cup {0}]
      /\ temp \in [Procs -> Ids \cup {0}] /\ dir \in Directories \cup {None}
      /\ aside \in [Procs -> Records \cup {None}]
    BY <1>a DEF Tokens, TypeOK
<1>c. dir # None => dir.id \in Ids /\ dir.by \in Ids /\ dir.id # 0
    BY <1>b DEF Directories, Ids
<1>d. ASSUME NEW p \in Procs, pc[p] \in Working
      PROVE  /\ dir # None /\ dir.by = token[p]
             /\ \A q \in Procs : q # p => pc[q] \notin Working
    BY <1>a, <1>d, OneWorks DEF Inside
<1>e. \A p \in Procs : pc[p] \notin Fallback /\ aside[p] = None
    BY <1>a DEF Inside
<1> SUFFICES Inside' /\ RecordOfMaker'
    BY <1>a DEF Kept
<1>1. ASSUME NEW p \in Procs, Mkdir(p) PROVE Inside' /\ RecordOfMaker'
    <2>1. CASE dir # None
        <3>1. UNCHANGED <<dir, aside, token, temp>> /\ Goto(p, "inspect")
            BY <2>1, <1>1 DEF Mkdir
        <3>2. \A q \in Procs : pc'[q] = IF q = p THEN "inspect" ELSE pc[q]
            BY <3>1, <1>b DEF Goto
        <3>3. Inside'
            BY <3>1, <3>2, <1>a, <1>e, InsideKept DEF Working, Writing, Early, Fallback
        <3> QED
            BY <3>1, <3>3, <1>a, RecordKept
    <2>2. CASE dir = None
        <3>1. made + 1 \in Ids
            BY <1>1, <1>a, RoomForOne DEF Mkdir
        <3>2. dir' = FreshDirectory(made + 1, made + 1)
            BY <2>2, <1>1 DEF Mkdir
        <3>3. dir' # None /\ dir'.by = made + 1 /\ dir'.owner = None /\ dir'.old = FALSE
            BY <3>1, <3>2, FreshIsDirectory
        <3>4. \A q \in Procs : pc'[q] = (IF q = p THEN "mkdirall" ELSE pc[q])
                               /\ (q # p => pc[q] \notin Working)
            BY <2>2, <1>1, <1>b, <1>d DEF Mkdir, Goto
        <3>5. token'[p] = made + 1
            BY <2>2, <1>1, <1>b DEF Mkdir
        <3>6. \A q \in Procs : aside'[q] = None
            BY <2>2, <1>1, <1>b, <1>e DEF Mkdir
        <3>7. Inside'
            BY <3>3, <3>4, <3>5, <3>6, <1>e DEF Inside, Working, Writing, Early, Fallback
        <3>8. RecordOfMaker'
            BY <3>3 DEF RecordOfMaker
        <3> QED
            BY <3>7, <3>8
    <2> QED
        BY <2>1, <2>2
<1>2. ASSUME NEW p \in Procs, MoveAside(p) PROVE Inside' /\ RecordOfMaker'
    <2>1. dir' = None /\ aside' = aside
        BY <1>2 DEF MoveAside
    <2>2. \A q \in Procs : pc[q] \notin Working
        BY <1>2, <1>d, MoveIsPrompt DEF Kept
    <2>3. \A q \in Procs : pc'[q] \notin Working
        BY <2>2, <1>2, <1>b DEF MoveAside, Goto, Working, Writing
    <2> QED
        BY <2>1, <2>3, <1>e DEF Inside, RecordOfMaker, Working, Writing, Early, Fallback
\* The calls of writeJSONAtomic that leave the directory as it is: the process stays
\* before the rename, or gives up.
<1>3. ASSUME NEW p \in Procs, MkdirAll(p) \/ LookForRecord(p) PROVE Inside' /\ RecordOfMaker'
    <2>1. pc[p] \in Early /\ pc[p] \in Working
        BY <1>3 DEF MkdirAll, LookForRecord, Working, Writing, Early
    <2>2. UNCHANGED <<dir, token, temp, aside>> /\ (Goto(p, "create") \/ Goto(p, "again"))
        BY <2>1, <1>3, <1>a, <1>d DEF MkdirAll, LookForRecord, HasRecord, Inside
    <2>3. \A q \in Procs : q # p => pc'[q] = pc[q]
        BY <2>2, <1>b DEF Goto
    <2>4. pc'[p] \in {"create", "again"}
        BY <2>2, <1>b DEF Goto
    <2>5. Inside'
        BY <2>1, <2>2, <2>3, <2>4, <1>a, <1>e, InsideKept DEF Early, Fallback
    <2> QED
        BY <2>2, <2>5, <1>a, RecordKept
<1>4. ASSUME NEW p \in Procs, CreateTemp(p) PROVE Inside' /\ RecordOfMaker'
    <2>1. pc[p] = "create" /\ pc[p] \in Working /\ UNCHANGED <<dir, token, aside>>
        BY <1>4 DEF CreateTemp, Working, Writing
    <2>2. \A q \in Procs : q # p => /\ pc'[q] = pc[q] /\ pc[q] \notin Working
                                    /\ temp'[q] = temp[q]
        BY <2>1, <1>4, <1>b, <1>d DEF CreateTemp, GiveUp, Goto
    <2>3. pc'[p] \in {"write", "remove"}
        BY <1>4, <1>b DEF CreateTemp, GiveUp, Goto
    <2>4. Inside'
        BY <2>1, <2>2, <2>3, <1>a, <1>d, <1>e DEF Inside, Working, Writing, Early, Fallback
    <2> QED
        BY <2>1, <2>4, <1>a, RecordKept
<1>5. ASSUME NEW p \in Procs, WriteOwner(p) \/ WriteAgain(p) PROVE Inside' /\ RecordOfMaker'
    <2>1. pc[p] \in {"write", "again"} /\ pc[p] \in Working /\ UNCHANGED <<token, aside>>
        BY <1>5 DEF WriteOwner, WriteAgain, Working, Writing
    <2>2. \/ PutRecord(p) /\ Goto(p, "sync")
          \/ UNCHANGED <<dir, temp>> /\ Goto(p, "exists")
          \/ UNCHANGED dir /\ GiveUp(p)
        BY <2>1, <1>5, <1>e DEF WriteOwner, WriteAgain
    <2>3. CASE PutRecord(p) /\ Goto(p, "sync")
        <3>1. /\ dir # None /\ dir' # None /\ dir'.by = dir.by
              /\ dir'.owner = token[p] /\ dir'.old = FALSE
            BY <2>1, <2>3, <1>a, OwnerWritten
        <3>2. \A q \in Procs : pc'[q] = (IF q = p THEN "sync" ELSE pc[q])
                               /\ (q # p => pc[q] \notin Working)
            BY <2>1, <2>3, <1>b, <1>d DEF Goto
        <3>3. Inside'
            BY <2>1, <3>1, <3>2, <1>d, <1>e DEF Inside, Working, Writing, Early, Fallback
        <3>4. RecordOfMaker'
            BY <2>1, <3>1, <1>d DEF RecordOfMaker
        <3> QED
            BY <3>3, <3>4
    <2>4. CASE UNCHANGED dir /\ ((Goto(p, "exists") /\ UNCHANGED temp) \/ GiveUp(p))
        <3>1. \A q \in Procs : q # p => pc'[q] = pc[q]
            BY <2>4, <1>b DEF Goto, GiveUp
        <3>2. pc'[p] \in {"exists", "remove"}
            BY <2>4, <1>b DEF Goto, GiveUp
        <3>3. \A q \in Procs : temp'[q] \in {temp[q], 0}
            BY <2>4, <1>b DEF GiveUp
        <3>4. Inside'
            BY <2>1, <2>4, <3>1, <3>2, <3>3, <1>a, <1>c, <1>e, InsideKept
               DEF Early, Fallback
        <3> QED
            BY <2>4, <3>4, <1>a, RecordKept
    <2> QED
        BY <2>2, <2>3, <2>4
<1>6. ASSUME NEW p \in Procs, SyncDir(p) PROVE Inside' /\ RecordOfMaker'
    <2>1. pc[p] = "sync" /\ pc[p] \in Working /\ UNCHANGED <<dir, token, aside>>
        BY <1>6 DEF SyncDir, Working, Writing
    <2>2. \A q \in Procs : q # p => pc'[q] = pc[q]
        BY <1>6, <1>b DEF SyncDir, GiveUp, Goto
    <2>3. pc'[p] \in {"held", "remove"}
        BY <1>6, <1>b DEF SyncDir, GiveUp, Goto
    <2>4. \A q \in Procs : temp'[q] \in {temp[q], 0}
        BY <1>6, <1>b DEF SyncDir, GiveUp
    <2>5. Inside'
        BY <2>1, <2>2, <2>3, <2>4, <1>a, <1>c, <1>e, InsideKept DEF Early, Fallback
    <2> QED
        BY <2>1, <2>5, <1>a, RecordKept
<1>7. ASSUME NEW p \in Procs, RemoveFiles(p) PROVE Inside' /\ RecordOfMaker'
    <2>1. pc[p] = "remove" /\ pc[p] \in Working
        BY <1>7 DEF RemoveFiles, Working
    <2>2. /\ pc'[p] = "rmdir" /\ token' = token
          /\ \A q \in Procs : q # p => pc'[q] = pc[q] /\ pc'[q] \notin Working
        BY <2>1, <1>7, <1>b, <1>d DEF RemoveFiles, Goto
    <2>3. dir # None
        BY <2>1, <1>d
    <2>4. /\ dir' # None /\ dir'.by = dir.by /\ dir'.id = dir.id
          /\ dir'.owner = None /\ dir'.old = FALSE
        BY <2>3, <1>7, <1>a, FilesRemoved
    <2>5. \A q \in Procs : temp'[q] # dir.id /\ aside'[q] = None
        BY <2>3, <1>7, <1>b, <1>c, <1>e DEF RemoveFiles
    <2> QED
        BY <2>1, <2>2, <2>4, <2>5, <1>d, <1>e
           DEF Inside, RecordOfMaker, Working, Writing, Early, Fallback
<1>8. ASSUME NEW p \in Procs, RemoveDirectory(p) PROVE Inside' /\ RecordOfMaker'
    <2>1. pc[p] \in Working /\ pc[p] = "rmdir" /\ aside' = aside
        BY <1>8 DEF RemoveDirectory, Working
    <2>2. dir' = None
        BY <2>1, <1>8, <1>a, <1>d, <1>e DEF Inside, RemoveDirectory, AsideInPlace
    <2>3. \A q \in Procs : pc'[q] \notin Working
        BY <2>1, <1>8, <1>b, <1>d DEF RemoveDirectory, Return, Goto, Working, Writing
    <2> QED
        BY <2>1, <2>2, <2>3, <1>e DEF Inside, RecordOfMaker, Working, Writing, Early, Fallback
<1>9. ASSUME NEW p \in Procs, AssertOwned(p) \/ Release(p) PROVE Inside' /\ RecordOfMaker'
    <2>1. /\ UNCHANGED <<dir, token, temp, aside>> /\ (Goto(p, "act") \/ Goto(p, "remove"))
          /\ pc[p] = "held"
        BY <1>9, <1>a DEF AssertOwned, Release, OwnRecord, Inside, Working
    <2>2. \A q \in Procs : q # p => pc'[q] = pc[q]
        BY <2>1, <1>b DEF Goto
    <2>3. pc'[p] \in {"act", "remove"}
        BY <2>1, <1>b DEF Goto
    <2>4. Inside'
        BY <2>1, <2>2, <2>3, <1>a, <1>e, InsideKept DEF Working, Early, Fallback
    <2> QED
        BY <2>1, <2>4, <1>a, RecordKept
<1>10. ASSUME NEW p \in Procs, Act(p) PROVE Inside' /\ RecordOfMaker'
    <2>1. UNCHANGED <<dir, token, temp, aside>> /\ pc[p] = "act"
        BY <1>10 DEF Act
    <2>2. \A q \in Procs : pc'[q] = IF q = p THEN "held" ELSE pc[q]
        BY <1>10, <1>b DEF Act, Goto
    <2>3. Inside'
        BY <2>1, <2>2, <1>a, <1>e, InsideKept DEF Working, Early, Fallback
    <2> QED
        BY <2>1, <2>3, <1>a, RecordKept
<1>11. ASSUME NEW p \in Procs, Crash(p) PROVE Inside' /\ RecordOfMaker'
    <2>1. UNCHANGED <<dir, temp, aside>>
        BY <1>11 DEF Crash
    <2>2. \A q \in Procs : /\ pc'[q] = IF q = p THEN "idle" ELSE pc[q]
                           /\ q # p => token'[q] = token[q]
        BY <1>11, <1>b DEF Crash, Goto
    <2>3. Inside'
        BY <2>1, <2>2, <1>a, <1>e, InsideKept DEF Working, Writing, Early, Fallback
    <2> QED
        BY <2>1, <2>3, <1>a, RecordKept
<1>12. ASSUME NEW p \in Procs, Request(p) \/ InspectOwner(p) \/ Wait(p)
       PROVE  Inside' /\ RecordOfMaker'
    <2>1. UNCHANGED <<dir, token, temp, aside>>
        BY <1>12 DEF Request, InspectOwner, Wait
    <2>2. \A q \in Procs : q # p => pc'[q] = pc[q]
        BY <1>12, <1>b DEF Request, InspectOwner, Wait, Goto
    <2>3. pc'[p] \in {"mkdir", "move", "wait", "idle"}
        BY <1>12, <1>b DEF Request, InspectOwner, Wait, Goto
    <2>4. Inside'
        BY <2>1, <2>2, <2>3, <1>a, <1>e, InsideKept DEF Working, Writing, Early, Fallback
    <2> QED
        BY <2>1, <2>4, <1>a, RecordKept
<1>13. ASSUME NEW p \in Procs, SetAside(p) \/ PutBack(p) \/ DropAside(p) PROVE FALSE
    BY <1>13, <1>e DEF SetAside, PutBack, DropAside, Fallback
<1>14. CASE Age
    <2>1. /\ dir # None /\ dir.owner # None /\ ~Alive(dir.owner)
          /\ dir' = [dir EXCEPT !.old = TRUE] /\ UNCHANGED <<pc, token, temp, aside>>
        BY <1>14 DEF Age
    <2>2. /\ dir' # None /\ dir'.id = dir.id /\ dir'.by = dir.by /\ dir'.owner = dir.owner
        <3>1. dir' \in Directories
            BY <2>1, <1>b DEF Directories
        <3> QED
            BY <2>1, <3>1, <1>b DEF Directories
    <2>3. Inside'
        BY <2>1, <2>2, <1>a DEF Inside
    <2>4. RecordOfMaker'
        BY <2>1, <2>2, <1>a DEF RecordOfMaker, Alive
    <2> QED
        BY <2>3, <2>4
<1>15. CASE UNCHANGED vars
    <2>1. Inside'
        BY <1>15, <1>a DEF vars, Inside
    <2> QED
        BY <1>15, <2>1, <1>a, RecordKept DEF vars
<1> QED
    BY <1>1, <1>2, <1>3, <1>4, <1>5, <1>6, <1>7, <1>8, <1>9, <1>10, <1>11, <1>12, <1>13,
       <1>14, <1>15
    DEF Next, Step

LEMMA InitKept == Init => Kept
BY InitTokens DEF Init, Kept, Inside, RecordOfMaker, Working, Writing, Early, Fallback

LEMMA KeptAlways == ASSUME ~LiveAges PROVE Spec /\ LiveLockKept => []Kept
<1>1. Kept /\ [Next]_vars /\ [PromptReap]_vars => Kept'
    <2>1. UNCHANGED vars /\ Kept => PromptReap
        BY DEF vars, PromptReap
    <2> QED
        BY <2>1, NextKept
<1> QED
    BY InitKept, <1>1, PTL DEF Spec, LiveLockKept, PromptReap

\* No contender that reaps, cleans up after a failed write or releases takes the
\* record from who holds the lock, whatever crashes and whichever writes of
\* owner.json fail: if not for a live holder's lock going stale or a rename later
\* than another contender's, acquireLock excludes.
THEOREM HolderKeepsRecordAlways ==
    ASSUME ~LiveAges PROVE Spec /\ LiveLockKept => []HolderKeepsRecord
<1>1. Kept => HolderKeepsRecord
    BY DEF Kept, Inside, HolderKeepsRecord, OwnRecord, Working
<1> QED
    BY KeptAlways, <1>1, PTL

\* Who the lock belongs to, as LockService sees it
LEMMA HolderIs ==
    Kept => /\ \A p \in Procs : pc[p] \in Working => Holder = p
            /\ (\A p \in Procs : pc[p] \notin Working)
                  => Holder = IF dir = None THEN None ELSE Dead
<1> SUFFICES ASSUME Kept
             PROVE  /\ \A p \in Procs : pc[p] \in Working => Holder = p
                    /\ (\A p \in Procs : pc[p] \notin Working)
                          => Holder = IF dir = None THEN None ELSE Dead
    OBVIOUS
<1>a. Tokens /\ Inside /\ (dir # None => dir.by \in Ids /\ dir.by # 0)
    BY DEF Kept, Tokens, TypeOK, Directories, Ids
<1>1. ASSUME NEW p \in Procs, pc[p] \in Working PROVE Holder = p
    <2>1. \A q \in Procs : pc[q] \in Working => q = p
        BY <1>1, <1>a, OneWorks
    <2>2. CASE pc[p] \in {"held", "act"}
        BY <2>1, <2>2 DEF Holder, Working
    <2>3. CASE pc[p] \notin {"held", "act"}
        <3>1. \A q \in Procs : pc[q] \notin {"held", "act"}
            BY <2>1, <2>3 DEF Working
        <3>2. dir # None /\ token[p] = dir.by /\ dir.by # 0
            BY <1>1, <1>a DEF Inside
        <3>3. \A q \in Procs : token[q] = dir.by => q = p
            BY <3>2, <1>a DEF Tokens, TokensApart
        <3> QED
            BY <3>1, <3>2, <3>3 DEF Holder, Alive
    <2> QED
        BY <2>2, <2>3
<1>2. ASSUME \A p \in Procs : pc[p] \notin Working
      PROVE  Holder = IF dir = None THEN None ELSE Dead
    <2>1. \A p \in Procs : token[p] = 0 /\ pc[p] \notin {"held", "act"}
        BY <1>2, <1>a DEF Tokens, TokensApart, Working
    <2> QED
        BY <2>1, <1>a DEF Holder, Alive
<1> QED
    BY <1>1, <1>2

\* The same after a step.
LEMMA HolderIsNext ==
    Kept' => /\ \A p \in Procs : pc'[p] \in Working => Holder' = p
             /\ (\A p \in Procs : pc'[p] \notin Working)
                  => Holder' = IF dir' = None THEN None ELSE Dead
<1>1. (Kept => /\ \A p \in Procs : pc[p] \in Working => Holder = p
               /\ (\A p \in Procs : pc[p] \notin Working)
                     => Holder = IF dir = None THEN None ELSE Dead)'
    BY HolderIs, PTL
<1> QED
    BY <1>1

\* Work begins by making the directory, and so does the directory.
LEMMA WorkBegins ==
    ASSUME Tokens, [Next]_vars
    PROVE  /\ \A p \in Procs : pc[p] \notin Working /\ pc'[p] \in Working => dir = None
           /\ dir = None /\ dir' # None => \E p \in Procs : pc'[p] \in Working
<1>b. pc \in [Procs -> Points]
    BY DEF Tokens, TypeOK
<1> DEFINE Begins ==
        /\ \A p \in Procs : pc[p] \notin Working /\ pc'[p] \in Working => dir = None
        /\ dir = None /\ dir' # None => \E p \in Procs : pc'[p] \in Working
<1>1. ASSUME NEW p \in Procs, Mkdir(p) PROVE Begins
    BY <1>1, <1>b DEF Mkdir, Goto, Working, Writing
<1>2. ASSUME NEW p \in Procs, MkdirAll(p) PROVE Begins
    BY <1>2, <1>b DEF MkdirAll, Goto, Working, Writing
<1>3. ASSUME NEW p \in Procs,
             \/ CreateTemp(p) \/ WriteOwner(p) \/ LookForRecord(p) \/ SetAside(p)
             \/ WriteAgain(p) \/ PutBack(p) \/ DropAside(p) \/ SyncDir(p)
      PROVE  Begins
    <2>1. pc[p] \in Working /\ (dir = None => dir' = None)
        BY <1>3 DEF CreateTemp, WriteOwner, LookForRecord, SetAside, WriteAgain, PutBack,
                    DropAside, SyncDir, PutRecord, TempInPlace, HasRecord, AsideInPlace,
                    Working, Writing
    <2>2. \A q \in Procs : q # p => pc'[q] = pc[q]
        BY <1>3, <1>b DEF CreateTemp, WriteOwner, LookForRecord, SetAside, WriteAgain, PutBack,
                          DropAside, SyncDir, GiveUp, Goto
    <2> QED
        BY <2>1, <2>2
<1>4. ASSUME NEW p \in Procs, RemoveFiles(p) \/ RemoveDirectory(p) \/ MoveAside(p)
      PROVE  Begins
    BY <1>4, <1>b DEF RemoveFiles, RemoveDirectory, MoveAside, Return, Goto, Working, Writing
<1>5. ASSUME NEW p \in Procs, AssertOwned(p) \/ Act(p) \/ Release(p) PROVE Begins
    BY <1>5, <1>b DEF AssertOwned, Act, Release, Return, Goto, Working, Writing
<1>6. ASSUME NEW p \in Procs, Request(p) \/ InspectOwner(p) \/ Wait(p) \/ Crash(p)
      PROVE  Begins
    BY <1>6, <1>b DEF Request, InspectOwner, Wait, Crash, Goto, Working, Writing
<1>7. CASE Age \/ UNCHANGED vars
    BY <1>7 DEF Age, vars
<1> QED
    BY <1>1, <1>2, <1>3, <1>4, <1>5, <1>6, <1>7 DEF Next, Step

LEMMA ServiceStep ==
    ASSUME Kept, Kept', [Next]_vars
    PROVE  [Service!Next]_Holder
<1> USE NoneAssumption, ProcsAssumption
<1>a. Tokens /\ Inside
    BY DEF Kept
<1>1. CASE \E p \in Procs : pc[p] \in Working
    <2>1. PICK p \in Procs : pc[p] \in Working
        BY <1>1
    <2>2. Holder = p /\ dir # None
        BY <2>1, <1>a, HolderIs DEF Inside
    <2>3. CASE pc'[p] \in Working
        BY <2>2, <2>3, HolderIsNext
    <2>4. CASE pc'[p] \notin Working
        <3>1. \A q \in Procs : pc'[q] \notin Working
            BY <2>1, <2>2, <2>4, <1>a, OneWorks, WorkBegins
        <3>2. Holder' \in {None, Dead}
            BY <3>1, HolderIsNext
        <3> QED
            BY <2>2, <3>2 DEF Service!Next, Service!Release, Service!Die
    <2> QED
        BY <2>3, <2>4
<1>2. CASE \A p \in Procs : pc[p] \notin Working
    <2>1. Holder = IF dir = None THEN None ELSE Dead
        BY <1>2, HolderIs
    <2>2. CASE \E p \in Procs : pc'[p] \in Working
        <3>1. PICK p \in Procs : pc'[p] \in Working
            BY <2>2
        <3>2. dir = None
            BY <3>1, <1>2, <1>a, WorkBegins
        <3>3. Holder = None /\ Holder' = p
            BY <2>1, <3>1, <3>2, HolderIsNext
        <3> QED
            BY <3>3 DEF Service!Next, Service!Acquire
    <2>3. CASE \A p \in Procs : pc'[p] \notin Working
        <3>1. Holder' = IF dir' = None THEN None ELSE Dead
            BY <2>3, HolderIsNext
        <3>2. dir = None => dir' = None
            BY <2>3, <1>a, WorkBegins
        <3> QED
            BY <2>1, <3>1, <3>2 DEF Service!Next, Service!Reap
    <2> QED
        BY <2>2, <2>3
<1> QED
    BY <1>1, <1>2

\* On the same premises the directory, its record and the temporary file, written,
\* moved and removed one call at a time, are the lock acquireLock's callers count
\* on: it goes from nobody to one of them, and from him to nobody or to the dead.
THEOREM RegistryLockIsLockService ==
    ASSUME ~LiveAges PROVE Spec /\ LiveLockKept => ImplementsLockService
<1>1. Init => Service!Init
    <2>1. Init => dir = None /\ \A p \in Procs : pc[p] \notin Working
        BY DEF Init, Working, Writing
    <2> QED
        BY <2>1, InitKept, HolderIs DEF Service!Init
<1>2. Kept /\ Kept' /\ [Next]_vars => [Service!Next]_Holder
    BY ServiceStep
<1> QED
    BY <1>1, <1>2, KeptAlways, PTL DEF Spec, ImplementsLockService, Service!Spec

-----------------------------------------------------------------------------
(* Without crashes the second premise need not be asked for: no record gets *)
(* old, so nothing is moved aside.                                          *)

\* Every record is the one of a process at work, and nobody found an old one.
NoneStale ==
    /\ used["crashes"] = 0
    /\ \A p \in Procs : pc[p] # "move"
    /\ dir # None => ~dir.old /\ (dir.owner # None => Alive(dir.owner))

LEMMA NextNoneStale ==
    ASSUME ~LiveAges, MaxCrashes = 0, Kept, NoneStale, [Next]_vars
    PROVE  NoneStale'
<1> USE NoneAssumption
<1>a. Tokens /\ Inside /\ RecordOfMaker /\ Tokens'
    BY NextTokens DEF Kept
<1>b. /\ pc \in [Procs -> Points] /\ token \in [Procs -> Ids \cup {0}]
      /\ dir \in Directories \cup {None} /\ used \in [Bounds -> Nat]
    BY <1>a DEF Tokens, TypeOK
<1>c. used'["crashes"] = 0 /\ \A p \in Procs : ~Crash(p)
    <2>1. ASSUME NEW p \in Procs, Crash(p) PROVE FALSE
        BY <2>1, BoundsAssumption DEF Crash, NoneStale
    <2>2. ASSUME NEW p \in Procs,
                 \/ Request(p) \/ CreateTemp(p) \/ WriteOwner(p) \/ SetAside(p)
                 \/ WriteAgain(p) \/ PutBack(p) \/ DropAside(p) \/ SyncDir(p)
          PROVE  used'["crashes"] = 0
        BY <2>2, <1>b DEF Request, CreateTemp, WriteOwner, SetAside, WriteAgain, PutBack,
                          DropAside, SyncDir, Fails, Fault, NoneStale, Bounds
    <2>3. ASSUME NEW p \in Procs,
                 \/ Mkdir(p) \/ InspectOwner(p) \/ MoveAside(p) \/ Wait(p) \/ MkdirAll(p)
                 \/ LookForRecord(p) \/ AssertOwned(p) \/ Act(p) \/ Release(p)
                 \/ RemoveFiles(p) \/ RemoveDirectory(p)
          PROVE  used'["crashes"] = 0
        BY <2>3 DEF Mkdir, InspectOwner, MoveAside, Wait, MkdirAll, LookForRecord, AssertOwned,
                    Act, Release, RemoveFiles, RemoveDirectory, NoneStale
    <2>4. ASSUME Age \/ UNCHANGED vars PROVE used'["crashes"] = 0
        BY <2>4 DEF Age, vars, NoneStale
    <2>5. \A p \in Procs : ~Crash(p)
        BY <2>1
    <2> QED
        BY <2>2, <2>3, <2>4, <2>5 DEF Next, Step
<1>d. \A p \in Procs : pc'[p] # "move"
    <2>1. ASSUME NEW p \in Procs, InspectOwner(p) PROVE pc' = [pc EXCEPT ![p] = "wait"]
        BY <2>1 DEF InspectOwner, Goto, NoneStale
    <2>2. ASSUME NEW p \in Procs, InspectOwner(p) PROVE \A q \in Procs : pc'[q] # "move"
        BY <2>1, <2>2, <1>b DEF NoneStale
    <2>3. ASSUME NEW p \in Procs, Request(p) \/ Mkdir(p) \/ MoveAside(p) \/ Wait(p)
          PROVE  \A q \in Procs : pc'[q] # "move"
        BY <2>3, <1>b DEF Request, Mkdir, MoveAside, Wait, Goto, NoneStale
    <2>4. ASSUME NEW p \in Procs, AssertOwned(p) \/ Act(p) \/ Release(p)
          PROVE  \A q \in Procs : pc'[q] # "move"
        BY <2>4, <1>b DEF AssertOwned, Act, Release, Return, Goto, NoneStale
    <2>7. ASSUME NEW p \in Procs,
                 \/ MkdirAll(p) \/ CreateTemp(p) \/ WriteOwner(p) \/ LookForRecord(p)
                 \/ SetAside(p)
          PROVE  \A q \in Procs : pc'[q] # "move"
        BY <2>7, <1>b DEF MkdirAll, CreateTemp, WriteOwner, LookForRecord, SetAside, GiveUp,
                          Goto, NoneStale
    <2>8. ASSUME NEW p \in Procs, WriteAgain(p) \/ PutBack(p) \/ DropAside(p) \/ SyncDir(p)
          PROVE  \A q \in Procs : pc'[q] # "move"
        BY <2>8, <1>b DEF WriteAgain, PutBack, DropAside, SyncDir, GiveUp, Goto, NoneStale
    <2>5. ASSUME NEW p \in Procs, RemoveFiles(p) \/ RemoveDirectory(p)
          PROVE  \A q \in Procs : pc'[q] # "move"
        BY <2>5, <1>b DEF RemoveFiles, RemoveDirectory, Return, Goto, NoneStale
    <2>6. CASE Age \/ UNCHANGED vars
        BY <2>6 DEF Age, vars, NoneStale
    <2> QED
        BY <2>2, <2>3, <2>4, <2>5, <2>6, <2>7, <2>8, <1>c DEF Next, Step
<1> DEFINE Fresh == dir # None => ~dir.old /\ (dir.owner # None => Alive(dir.owner))
<1>1. ASSUME NEW p \in Procs, Mkdir(p), dir = None PROVE Fresh'
    <2>1. made + 1 \in Ids
        BY <1>1, <1>a, RoomForOne DEF Mkdir
    <2>2. dir' = FreshDirectory(made + 1, made + 1)
        BY <1>1 DEF Mkdir
    <2> QED
        BY <2>1, <2>2, FreshIsDirectory
<1>2. ASSUME NEW p \in Procs, WriteOwner(p) \/ WriteAgain(p), dir' # dir PROVE Fresh'
    <2>0. PutRecord(p) /\ pc[p] \in Working /\ token' = token
        BY <1>2 DEF WriteOwner, WriteAgain, Working, Writing
    <2>1. dir'.owner = token[p] /\ dir'.old = FALSE
        BY <2>0, <1>a, OwnerWritten
    <2> QED
        BY <2>0, <2>1 DEF Alive
<1>3. ASSUME NEW p \in Procs, RemoveFiles(p), dir' # dir PROVE Fresh'
    <2>1. dir # None
        BY <1>3 DEF RemoveFiles
    <2> QED
        BY <2>1, <1>3, <1>a, FilesRemoved
<1>4. ASSUME NEW p \in Procs, RemoveDirectory(p) PROVE dir' = None
    BY <1>4, <1>a DEF RemoveDirectory, Inside, Working, AsideInPlace
<1>5. ASSUME UNCHANGED <<dir, token>> PROVE Fresh'
    BY <1>5 DEF NoneStale, Alive
<1>6. ASSUME NEW p \in Procs, AssertOwned(p) \/ Release(p) PROVE UNCHANGED <<dir, token>>
    BY <1>6, <1>a DEF AssertOwned, Release, OwnRecord, Inside, Working
<1>7. ASSUME NEW p \in Procs, MkdirAll(p) PROVE UNCHANGED <<dir, token>>
    BY <1>7, <1>a DEF MkdirAll, Inside, Working, Writing
<1>8. ASSUME NEW p \in Procs, \/ Request(p) \/ InspectOwner(p) \/ Wait(p) \/ Act(p)
                              \/ Mkdir(p) /\ dir # None
                              \/ CreateTemp(p) \/ LookForRecord(p) \/ SyncDir(p)
                              \/ (WriteOwner(p) \/ WriteAgain(p)) /\ dir' = dir
                              \/ RemoveFiles(p) /\ dir' = dir
      PROVE  UNCHANGED <<dir, token>>
    BY <1>8 DEF Request, InspectOwner, Wait, Act, Mkdir, CreateTemp, LookForRecord, SyncDir,
                WriteOwner, WriteAgain, RemoveFiles
<1>9. ~Age /\ \A p \in Procs : ~MoveAside(p) /\ ~SetAside(p) /\ ~PutBack(p) /\ ~DropAside(p)
    BY <1>a DEF Age, MoveAside, SetAside, PutBack, DropAside, NoneStale, Inside, Fallback
<1>10. Fresh'
    BY <1>1, <1>2, <1>3, <1>4, <1>5, <1>6, <1>7, <1>8, <1>9, <1>c DEF Next, Step, vars
<1> QED
    BY <1>c, <1>d, <1>10 DEF NoneStale

\* Short of a crash the lock needs only a stale window longer than any holder's
\* work: then failed writes of owner.json, clean-ups and any number of contenders
\* leave every holder his record.
THEOREM CrashFreeLock ==
    ASSUME ~LiveAges, MaxCrashes = 0
    PROVE  Spec => LiveLockKept /\ []HolderKeepsRecord /\ ImplementsLockService
<1>1. Init => Kept /\ NoneStale
    BY InitKept DEF Init, NoneStale, Bounds
<1>2. Kept /\ NoneStale /\ [Next]_vars => [PromptReap]_vars
    BY DEF NoneStale, PromptReap
<1>3. Kept /\ NoneStale /\ [Next]_vars => (Kept /\ NoneStale)'
    <2>1. UNCHANGED vars /\ Kept => PromptReap
        BY DEF vars, PromptReap
    <2> QED
        BY <2>1, <1>2, NextKept, NextNoneStale
<1>4. Spec => LiveLockKept
    BY <1>1, <1>2, <1>3, PTL DEF Spec, LiveLockKept, PromptReap
<1> QED
    BY <1>4, HolderKeepsRecordAlways, RegistryLockIsLockService, PTL
=============================================================================
