---------------------------- MODULE DistReleaseProofs ----------------------------
(***************************************************************************)
(* Proofs about DistRelease, for any releases and uploads whose            *)
(* checksums.txt lists their assets, however often the tag is replaced and *)
(* whichever downloads are cut short or calls fail: what is accepted is    *)
(* one release, exactly what its manifest says, unpacked within the limits *)
(* and below skills, and a release that was built well and within the      *)
(* limits is not refused.  What Search and Suggest answer of an accepted   *)
(* catalog does not depend on the order of its entries.                    *)
(***************************************************************************)
EXTENDS DistRelease, SequenceTheorems, FiniteSetTheorems, WellFoundedInduction, TLAPS

AllReleases == Releases \cup Uploads
Listing == Assets \ {"checksums"}

\* checksums.txt of one release, with some of its lines
LinesOfOne(payload) ==
    \E r \in AllReleases : \E D \in SUBSET Listing : payload = [a \in D |-> r[a]]

MirrorInv ==
    /\ \E r \in AllReleases : mirror["checksums"] = [a \in Listing |-> r[a]]
    /\ mirror = [a \in Assets |-> mirror[a]]
    /\ uploading.release \in AllReleases /\ uploading.left \subseteq Assets

Checked(a) == a \in DOMAIN got["checksums"] /\ got["checksums"][a] = got[a]

\* After an error, or the consumer's cleanup
Over == {"discard", "failed", "cleaned"}

\* What was downloaded before the next call was checked against the checksums of one
\* release: what the mirror holds now does not matter any more.
GotInv ==
    /\ got = [a \in Assets |-> got[a]]
    /\ pc \notin {"checksums"} \cup Over => LinesOfOne(got["checksums"])
    /\ pc \notin {"checksums", "install"} \cup Over => Checked("install")
    /\ pc \notin {"checksums", "install", "bundle"} \cup Over => Checked("bundle")
    /\ pc \notin {"checksums", "install", "bundle", "manifest"} \cup Over
          => Checked("manifest")
    /\ pc \notin Assets \cup Over => Checked("catalog")

BuildInv == MirrorInv /\ GotInv

LEMMA BuildInitInv == Init => BuildInv
<1> SUFFICES ASSUME Init PROVE BuildInv
    OBVIOUS
<1>1. MirrorInv
    <2>1. PICK r \in AllReleases : mirror = r
        BY DEF Init, AllReleases
    <2>2. /\ r["checksums"] = [a \in Listing |-> r[a]]
          /\ r = [a \in Assets |-> r[a]]
        BY <2>1, ChecksumsAssumption DEF AllReleases, Listing
    <2> QED BY <2>1, <2>2 DEF MirrorInv, Init
<1>2. GotInv
    BY DEF Init, GotInv, Assets
<1> QED BY <1>1, <1>2 DEF BuildInv

\* The publisher leaves the checksums of one release or another.
LEMMA MirrorStepInv == MirrorInv /\ [Next]_vars => MirrorInv'
<1> SUFFICES ASSUME MirrorInv, [Next]_vars PROVE MirrorInv'
    OBVIOUS
<1>1. CASE StartUpload
    <2>1. PICK r \in Uploads : uploading' = [release |-> r, left |-> Assets]
        BY <1>1 DEF StartUpload
    <2>2. uploading'.release = r /\ uploading'.left = Assets /\ mirror' = mirror
        BY <1>1, <2>1 DEF StartUpload
    <2> QED BY <2>2 DEF MirrorInv, AllReleases
<1>2. CASE UploadAsset
    <2>1. PICK a \in uploading.left :
              /\ mirror' = [mirror EXCEPT ![a] = uploading.release[a]]
              /\ uploading' = [uploading EXCEPT !.left = @ \ {a}]
        BY <1>2 DEF UploadAsset
    <2>2. uploading.release["checksums"] = [b \in Listing |-> uploading.release[b]]
        BY ChecksumsAssumption DEF MirrorInv, AllReleases, Listing
    <2>3. uploading'.release = uploading.release /\ uploading'.left \subseteq uploading.left
        BY <2>1
    <2>4. CASE a = "checksums"
        <3>1. mirror'["checksums"] = uploading.release["checksums"]
            BY <2>1, <2>4 DEF MirrorInv, Assets
        <3> QED BY <2>1, <2>2, <2>3, <3>1 DEF MirrorInv
    <2>5. CASE a # "checksums"
        <3>1. mirror'["checksums"] = mirror["checksums"]
            BY <2>1, <2>5 DEF MirrorInv, Assets
        <3> QED BY <2>1, <2>3, <3>1 DEF MirrorInv
    <2> QED BY <2>4, <2>5
<1>3. CASE UNCHANGED <<mirror, uploading>>
    BY <1>3 DEF MirrorInv
<1> QED
    BY <1>1, <1>2, <1>3
    DEF Next, vars, Download, MakeStage, Extract, WriteStaged, Load, Discard, Cleanup,
        RemoveStage, Calling

\* An asset that is taken is what the checksums list.
LEMMA ReceiveInv ==
    ASSUME GotInv, pc \in Assets, NEW payload, Receive(pc, payload),
           pc = "checksums" => LinesOfOne(payload)
    PROVE  GotInv'
<1>1. CASE Fail
    BY <1>1 DEF Fail, GotInv, Assets, Over
<1>2. CASE Accepts(pc, payload) /\ got' = [got EXCEPT ![pc] = payload] /\ pc' = After[pc]
    <2>1. CASE pc = "checksums"
        BY <1>2, <2>1 DEF GotInv, After, Assets, Over
    <2>2. CASE pc # "checksums"
        <3>1. got'["checksums"] = got["checksums"]
            BY <1>2, <2>2 DEF GotInv
        <3>2. pc \in DOMAIN got["checksums"] /\ got["checksums"][pc] = payload
            BY <1>2, <2>2 DEF Accepts, Listed
        <3>3. PICK a \in Assets : a = pc
            OBVIOUS
        <3>4. got' = [b \in Assets |-> got'[b]] /\ got'[a] = payload
            BY <1>2, <3>3 DEF GotInv
        <3>5. Checked(a)'
            BY <3>1, <3>2, <3>3, <3>4 DEF Checked
        <3>6. \A b \in Assets : b # a /\ Checked(b) => Checked(b)'
            BY <1>2, <3>1, <3>3 DEF Checked, GotInv
        <3>7. LinesOfOne(got["checksums"])'
            BY <2>2, <3>1 DEF GotInv, LinesOfOne, Assets, Over
        <3> QED BY <1>2, <2>2, <3>3, <3>4, <3>5, <3>6, <3>7 DEF GotInv, After, Assets, Over
    <2> QED BY <2>1, <2>2
<1> QED BY <1>1, <1>2 DEF Receive

\* Downloads keep GotInv; the calls after them change neither what was downloaded nor
\* what it was checked against.
LEMMA GotStepInv == BuildInv /\ [Next]_vars => GotInv'
<1> SUFFICES ASSUME BuildInv, [Next]_vars PROVE GotInv'
    OBVIOUS
<1>1. ASSUME Download PROVE GotInv'
    <2>1. LinesOfOne(mirror["checksums"])
        BY DEF BuildInv, MirrorInv, LinesOfOne
    <2>2. ASSUME NEW payload \in CutShort(pc), pc = "checksums" PROVE LinesOfOne(payload)
        <3>1. PICK r \in AllReleases : mirror["checksums"] = [a \in Listing |-> r[a]]
            BY DEF BuildInv, MirrorInv
        <3>2. PICK b : payload = Restrict(mirror["checksums"], Listing \ {b})
            BY <2>2, <3>1 DEF CutShort
        <3>3. payload = [a \in Listing \ {b} |-> r[a]]
            BY <3>1, <3>2 DEF Restrict
        <3> QED BY <3>3 DEF LinesOfOne
    <2>3. CASE Receive(pc, mirror[pc])
        BY <1>1, <2>1, <2>3, ReceiveInv DEF BuildInv, Download
    <2>4. CASE \E payload \in CutShort(pc) : Receive(pc, payload)
        BY <1>1, <2>2, <2>4, ReceiveInv DEF BuildInv, Download
    <2>5. CASE Fail
        BY <2>5 DEF BuildInv, GotInv, Fail, Assets, Over
    <2> QED BY <1>1, <2>3, <2>4, <2>5 DEF Download
<1>2. CASE UNCHANGED got /\ pc' \in Over
    BY <1>2 DEF BuildInv, GotInv, Assets, Over
<1>3. CASE /\ UNCHANGED got
           /\ pc' = pc \/ (pc \notin Assets \cup Over
                           /\ pc' \notin Assets \cup Over)
    BY <1>3 DEF BuildInv, GotInv, Checked, Assets, Over
<1>4. CASE StartUpload \/ UploadAsset \/ UNCHANGED vars
    BY <1>3, <1>4 DEF StartUpload, UploadAsset, vars
<1>5. CASE MakeStage
    BY <1>2, <1>3, <1>5 DEF MakeStage, Calling, Fail, Assets, Over
<1>6. CASE Extract
    BY <1>2, <1>3, <1>6 DEF Extract, Unpack, Calling, Fail, Assets, Over
<1>7. CASE \/ WriteStaged("bundle.json", "manifest", "catalog.json")
           \/ WriteStaged("catalog.json", "catalog", "load")
    BY <1>2, <1>3, <1>7 DEF WriteStaged, Calling, Fail, Assets, Over
<1>8. CASE Load
    BY <1>2, <1>3, <1>8 DEF Load, Calling, Fail, Assets, Over
<1>9. CASE Discard \/ Cleanup
    BY <1>2, <1>9 DEF Discard, Cleanup, RemoveStage, Over
<1> QED BY <1>1, <1>4, <1>5, <1>6, <1>7, <1>8, <1>9 DEF Next

\* Once all is downloaded, what was downloaded is a release.
LEMMA GotIsRelease ==
    ASSUME BuildInv, pc \notin Assets \cup Over
    PROVE  got \in AllReleases
<1>1. PICK r \in AllReleases : \E D \in SUBSET Listing : got["checksums"] = [a \in D |-> r[a]]
    BY DEF BuildInv, GotInv, LinesOfOne, Assets, Over
<1>2. PICK D \in SUBSET Listing : got["checksums"] = [a \in D |-> r[a]]
    BY <1>1
<1>3. \A a \in Listing : Checked(a)
    BY DEF BuildInv, GotInv, Listing, Assets, Over
<1>4. D = Listing
    BY <1>2, <1>3 DEF Checked
<1>5. \A a \in Listing : got[a] = r[a]
    BY <1>2, <1>3, <1>4 DEF Checked
<1>6. r = [a \in Assets |-> r[a]] /\ r["checksums"] = got["checksums"]
    BY <1>2, <1>4, ChecksumsAssumption DEF AllReleases, Listing
<1>7. got = [a \in Assets |-> got[a]]
    BY DEF BuildInv, GotInv
<1>8. \A a \in Assets : got[a] = r[a]
    BY <1>5, <1>6 DEF Listing
<1>9. got = r
    BY <1>6, <1>7, <1>8
<1> QED BY <1>9

LEMMA BuildInvOneBuild == BuildInv => OneBuild
BY GotIsRelease DEF OneBuild, AllReleases, Assets, Over

\* Whatever is uploaded while the client downloads, and wherever a download is cut,
\* the assets of an accepted bundle are those of one release.
THEOREM AcceptedWasBuiltTogether == Spec => []OneBuild
<1>1. BuildInv /\ [Next]_vars => BuildInv'
    BY MirrorStepInv, GotStepInv DEF BuildInv
<1> QED BY <1>1, BuildInitInv, BuildInvOneBuild, PTL DEF Spec

-----------------------------------------------------------------------------
(* Cleaned paths.  Clean is a fold, a function defined by recursion: that   *)
(* there is one, and what it yields, is shown by a least counterexample.    *)

\* What a name on a path can be; the last four are strings as well.
FileNames == STRING \cup {"..", "skills", "bundle.json", "catalog.json"}

\* One name of a path
CleanStep(clean, name) ==
    IF name # ".." THEN Append(clean, name)
    ELSE IF clean = << >> \/ Last(clean) = ".." THEN Append(clean, "..")
    ELSE Front(clean)

Cleaning(path, f, s) ==
    IF s = {} THEN << >> ELSE CleanStep(f[s \ {Max(s)}], path[Max(s)])

LEMMA CleanIsFold ==
    \A path : Clean(path) =
        (CHOOSE f : f = [s \in SUBSET DOMAIN path |-> Cleaning(path, f, s)])[DOMAIN path]
BY DEF Clean, FoldLeft, MapThenFoldSet, Cleaning, CleanStep

\* Dots are at the front of a cleaned path, or nowhere.
CleanPaths ==
    {c \in Seq(FileNames) : \A i \in 1 .. Len(c) : c[i] = ".." => \A j \in 1 .. i : c[j] = ".."}

LEMMA LeastNumber ==
    ASSUME NEW S \in SUBSET Nat, S # {}
    PROVE  \E m \in S : \A n \in S : m <= n
<1> DEFINE Less == OpToRel(<, Nat)
<1>1. IsWellFoundedOn(Less, Nat)
    BY NatLessThanWellFounded
<1>2. ASSUME NEW x \in Nat, NEW y \in Nat, <<y, x>> \notin Less PROVE x <= y
    BY <1>2 DEF OpToRel
<1> HIDE DEF Less
<1>3. PICK x \in S : \A y \in S : <<y, x>> \notin Less
    BY <1>1, WFMin
<1> QED BY <1>2, <1>3

LEMMA MaxIsGreatest ==
    ASSUME NEW n \in Nat, NEW s \in SUBSET (1 .. n), s # {}
    PROVE  Max(s) \in s /\ \A y \in s : y <= Max(s)
<1> DEFINE Bounds == {u \in Nat : \A y \in s : y <= u}
<1>1. n \in Bounds
    OBVIOUS
<1>2. PICK u \in Bounds : \A v \in Bounds : u <= v
    BY <1>1, LeastNumber
<1>3. u \in s
    <2>1. SUFFICES ASSUME u \notin s PROVE FALSE
        OBVIOUS
    <2>2. PICK y \in s : TRUE
        OBVIOUS
    <2>3. u - 1 \in Nat /\ \A z \in s : z <= u - 1
        BY <1>2, <2>1, <2>2
    <2> QED BY <1>2, <2>3
<1>4. \A y \in s : u >= y
    BY <1>2
<1>5. Max(s) \in s /\ \A y \in s : Max(s) >= y
    BY <1>3, <1>4 DEF Max
<1> QED BY <1>5

\* What the last name of a sequence leaves
LEMMA FrontAndLast ==
    ASSUME NEW S, NEW s \in Seq(S), s # << >>
    PROVE  /\ Len(s) \in Nat \ {0} /\ DOMAIN s = 1 .. Len(s)
           /\ Last(s) = s[Len(s)] /\ Last(s) \in S
           /\ Front(s) \in Seq(S) /\ DOMAIN Front(s) = 1 .. Len(s) - 1
           /\ \A i \in DOMAIN Front(s) : Front(s)[i] = s[i]
<1>1. Len(s) \in Nat \ {0} /\ DOMAIN s = 1 .. Len(s)
    BY LenProperties, EmptySeq
<1>2. \A i \in 1 .. Len(s) : s[i] \in S
    BY ElementOfSeq
<1>3. /\ Front(s) \in Seq(S)
      /\ Len(Front(s)) = Len(s) - 1
      /\ \A i \in 1 .. Len(s) - 1 : Front(s)[i] = s[i]
    <2>1. /\ SubSeq(s, 1, Len(s) - 1) \in Seq(S)
          /\ Len(SubSeq(s, 1, Len(s) - 1)) =
                IF 1 <= Len(s) - 1 THEN Len(s) - 1 - 1 + 1 ELSE 0
          /\ \A i \in 1 .. Len(s) - 1 - 1 + 1 : SubSeq(s, 1, Len(s) - 1)[i] = s[1 + i - 1]
        <3>1. 1 \in Int /\ Len(s) - 1 \in Int
            BY <1>1
        <3>2. \A i \in 1 .. Len(s) - 1 : s[i] \in S
            BY <1>1, <1>2
        <3> QED BY <3>1, <3>2, SubSeqProperties
    <2> QED BY <1>1, <2>1 DEF Front
<1>4. DOMAIN Front(s) = 1 .. Len(s) - 1
    BY <1>3, LenProperties
<1> QED BY <1>1, <1>2, <1>3, <1>4 DEF Last

LEMMA CleanStepType ==
    ASSUME NEW c \in CleanPaths, NEW name \in FileNames
    PROVE  CleanStep(c, name) \in CleanPaths
<1>0. c \in Seq(FileNames)
    BY DEF CleanPaths
<1>a. Len(c) \in Nat
    BY <1>0, LenProperties
<1>b. ".." \in FileNames
    BY DEF FileNames
<1>1. c \in Seq(FileNames) /\ Len(c) \in Nat /\ ".." \in FileNames
    BY <1>0, <1>a, <1>b
<1>2. \A i \in 1 .. Len(c) : c[i] = ".." => \A j \in 1 .. i : c[j] = ".."
    BY DEF CleanPaths
<1>3. ASSUME NEW a \in FileNames
      PROVE  /\ Append(c, a) \in Seq(FileNames) /\ Len(Append(c, a)) = Len(c) + 1
             /\ Append(c, a)[Len(c) + 1] = a
             /\ \A i \in 1 .. Len(c) : Append(c, a)[i] = c[i]
    BY <1>1
<1>4. CASE name # ".."
    <2> DEFINE d == Append(c, name)
    <2>1. CleanStep(c, name) = d
        BY <1>4 DEF CleanStep
    <2>2. /\ d \in Seq(FileNames) /\ Len(d) = Len(c) + 1 /\ d[Len(c) + 1] = name
          /\ \A i \in 1 .. Len(c) : d[i] = c[i]
        BY <1>3
    <2> HIDE DEF d
    <2>3. ASSUME NEW i \in 1 .. Len(d), d[i] = ".." PROVE \A j \in 1 .. i : d[j] = ".."
        <3>1. i \in 1 .. Len(c)
            BY <1>1, <1>4, <2>2, <2>3
        <3> QED BY <1>1, <1>2, <2>2, <2>3, <3>1
    <2> QED BY <2>1, <2>2, <2>3 DEF CleanPaths
<1>5. CASE name = ".." /\ (c = << >> \/ Last(c) = "..")
    <2> DEFINE d == Append(c, "..")
    <2>1. CleanStep(c, name) = d
        BY <1>5 DEF CleanStep
    <2>2. /\ d \in Seq(FileNames) /\ Len(d) = Len(c) + 1 /\ d[Len(c) + 1] = ".."
          /\ \A i \in 1 .. Len(c) : d[i] = c[i]
        BY <1>1, <1>3
    <2> HIDE DEF d
    <2>3. \A i \in 1 .. Len(c) : c[i] = ".."
        <3>1. CASE c = << >>
            BY <3>1, EmptySeq
        <3>2. CASE c # << >> /\ Last(c) = ".."
            BY <1>1, <1>2, <3>2, FrontAndLast
        <3> QED BY <1>5, <3>1, <3>2
    <2>4. \A i \in 1 .. Len(d) : d[i] = ".."
        BY <1>1, <2>2, <2>3
    <2> QED BY <1>1, <2>1, <2>2, <2>4 DEF CleanPaths
<1>6. CASE name = ".." /\ ~(c = << >> \/ Last(c) = "..")
    <2> DEFINE d == Front(c)
    <2>1. CleanStep(c, name) = d
        BY <1>6 DEF CleanStep
    <2>2. /\ d \in Seq(FileNames) /\ Len(d) = Len(c) - 1
          /\ \A i \in 1 .. Len(c) - 1 : d[i] = c[i]
        BY <1>1, <1>6, FrontAndLast, LenProperties
    <2> HIDE DEF d
    <2>3. ASSUME NEW i \in 1 .. Len(d), d[i] = ".." PROVE \A j \in 1 .. i : d[j] = ".."
        BY <1>1, <1>2, <2>2, <2>3
    <2> QED BY <2>1, <2>2, <2>3 DEF CleanPaths
<1> QED BY <1>4, <1>5, <1>6

\* A fold is defined: its values on the first n elements are extended to the next.
\* step has for each element what it makes of a value.
Folding(step, base, f, s) == IF s = {} THEN base ELSE step[Max(s)][f[s \ {Max(s)}]]

Steps(step, N, T) == \A i \in 1 .. N : \A x \in T : step[i][x] \in T

\* f folds every part of the first N elements.
Folds(f, step, N, base, T) ==
    /\ f \in [SUBSET (1 .. N) -> T]
    /\ \A s \in SUBSET (1 .. N) : f[s] = Folding(step, base, f, s)

LEMMA FoldExists ==
    ASSUME NEW T, NEW N \in Nat, NEW base \in T, NEW step, Steps(step, N, T)
    PROVE  \E f : Folds(f, step, N, base, T)
<1> DEFINE D(n) == SUBSET (1 .. n)
           Sol(n) == {f \in [D(n) -> T] : \A s \in D(n) : f[s] = Folding(step, base, f, s)}
           Bad == {n \in 0 .. N : Sol(n) = {}}
<1>1. N \in Nat
    OBVIOUS
<1>2. base \in T
    OBVIOUS
<1>3. Bad = {}
    <2>1. SUFFICES ASSUME Bad # {} PROVE FALSE
        OBVIOUS
    <2>2. Bad \in SUBSET Nat
        BY <1>1
    <2>3. PICK n \in Bad : \A m \in Bad : n <= m
        BY <2>1, <2>2, LeastNumber
    <2>4. n # 0
        <3>1. SUFFICES ASSUME n = 0 PROVE FALSE
            OBVIOUS
        <3> DEFINE f == [s \in D(0) |-> base]
        <3>2. D(0) = {{}}
            OBVIOUS
        <3>3. f \in [D(0) -> T] /\ \A s \in D(0) : f[s] = Folding(step, base, f, s)
            BY <1>2, <3>2 DEF Folding
        <3>4. f \in Sol(0)
            BY <3>3
        <3> QED BY <2>3, <3>1, <3>4
    <2>5. n \in 1 .. N /\ n - 1 \in 0 .. N /\ n \in Nat /\ n - 1 \in Nat
        BY <1>1, <2>3, <2>4
    <2>a. n - 1 \notin Bad
        <3>1. ~(n <= n - 1)
            BY <2>5
        <3> HIDE DEF Bad
        <3> QED BY <2>3, <3>1
    <2>6. PICK f \in Sol(n - 1) : TRUE
        <3> HIDE DEF Sol
        <3> QED BY <2>5, <2>a
    <2> DEFINE g == [s \in D(n) |-> IF n \in s THEN step[n][f[s \ {n}]] ELSE f[s]]
    <2>7. \A s \in D(n) : s \ {n} \in D(n - 1) /\ (n \notin s => s \in D(n - 1))
        BY <2>5
    <2>8. g \in [D(n) -> T]
        <3>1. ASSUME NEW s \in D(n) PROVE g[s] \in T
            <4>1. f[s \ {n}] \in T /\ (n \notin s => f[s] \in T)
                BY <2>6, <2>7
            <4>2. step[n][f[s \ {n}]] \in T
                BY <2>5, <4>1 DEF Steps
            <4> QED BY <4>1, <4>2
        <3> QED BY <3>1
    <2>9. ASSUME NEW s \in D(n) PROVE g[s] = Folding(step, base, g, s)
        <3>1. CASE s = {}
            <4>1. s \in D(n - 1) /\ n \notin s
                BY <3>1
            <4>2. g[s] = f[s] /\ f[s] = Folding(step, base, f, s)
                BY <2>6, <4>1
            <4> QED BY <3>1, <4>2 DEF Folding
        <3>2. CASE n \in s
            <4>1. Max(s) \in s /\ n <= Max(s)
                BY <2>5, <3>2, MaxIsGreatest
            <4>2. Max(s) \in 1 .. n
                BY <4>1
            <4>x. Max(s) = n
                BY <2>5, <4>1, <4>2
            <4>3. g[s \ {n}] = f[s \ {n}]
                BY <2>7
            <4>4. g[s] = step[n][f[s \ {n}]]
                BY <3>2
            <4> HIDE DEF g
            <4> QED BY <3>2, <4>x, <4>3, <4>4 DEF Folding
        <3>3. CASE s # {} /\ n \notin s
            <4>1. s \in D(n - 1) /\ n - 1 \in Nat
                BY <2>5, <2>7, <3>3
            <4>2. Max(s) \in s
                BY <3>3, <4>1, MaxIsGreatest
            <4>3. g[s] = f[s] /\ g[s \ {Max(s)}] = f[s \ {Max(s)}]
                BY <3>3
            <4>4. f[s] = Folding(step, base, f, s)
                BY <2>6, <4>1
            <4> HIDE DEF g
            <4> QED BY <4>3, <4>4 DEF Folding
        <3> QED BY <3>1, <3>2, <3>3
    <2> HIDE DEF g
    <2>10. g \in Sol(n)
        BY <2>8, <2>9
    <2> QED BY <2>3, <2>10
<1>4. N \notin Bad
    BY <1>3
<1>5. PICK f \in Sol(N) : TRUE
    <2>1. N \in 0 .. N
        BY <1>1
    <2> HIDE DEF Sol
    <2> QED BY <1>4, <2>1
<1>6. Folds(f, step, N, base, T)
    BY <1>5 DEF Folds
<1> QED BY <1>6

LEMMA CleaningExists ==
    ASSUME NEW path \in Seq(FileNames)
    PROVE  \E f : f = [s \in SUBSET DOMAIN path |-> Cleaning(path, f, s)]
<1> DEFINE N == Len(path)
           start == << >>
           step == [i \in 1 .. N |-> [c \in CleanPaths |-> CleanStep(c, path[i])]]
<1>1. N \in Nat /\ DOMAIN path = 1 .. N /\ \A i \in 1 .. N : path[i] \in FileNames
    BY LenProperties, ElementOfSeq
<1>2. start \in CleanPaths
    BY EmptySeq DEF CleanPaths
<1>3. Steps(step, N, CleanPaths)
    BY <1>1, CleanStepType DEF Steps
<1>4. \A i \in 1 .. N, c \in CleanPaths : step[i][c] = CleanStep(c, path[i])
    OBVIOUS
<1> HIDE DEF step, N, start
<1>a. PICK f : Folds(f, step, N, start, CleanPaths)
    BY <1>1, <1>2, <1>3, FoldExists
<1>5. /\ f \in [SUBSET (1 .. N) -> CleanPaths]
      /\ \A s \in SUBSET (1 .. N) : f[s] = Folding(step, start, f, s)
    BY <1>a DEF Folds
<1>6. ASSUME NEW s \in SUBSET (1 .. N)
      PROVE  f[s] = Cleaning(path, f, s)
    <2>1. CASE s = {}
        BY <1>5, <2>1 DEF Folding, Cleaning, start
    <2>2. CASE s # {}
        <3>1. Max(s) \in 1 .. N
            BY <1>1, <2>2, MaxIsGreatest
        <3>2. f[s \ {Max(s)}] \in CleanPaths
            BY <1>5
        <3>3. step[Max(s)][f[s \ {Max(s)}]] = CleanStep(f[s \ {Max(s)}], path[Max(s)])
            BY <1>4, <3>1, <3>2
        <3> QED BY <1>5, <2>2, <3>3 DEF Folding, Cleaning
    <2> QED BY <2>1, <2>2
<1> QED BY <1>1, <1>5, <1>6

\* A cleaned path is a path, and what it has of dots comes first.
LEMMA CleanType ==
    ASSUME NEW path \in Seq(FileNames)
    PROVE  Clean(path) \in CleanPaths
<1> DEFINE f == CHOOSE g : g = [s \in SUBSET DOMAIN path |-> Cleaning(path, g, s)]
<1>1. f = [s \in SUBSET DOMAIN path |-> Cleaning(path, f, s)]
    BY CleaningExists
<1>2. Clean(path) = f[DOMAIN path]
    BY CleanIsFold
<1> HIDE DEF f
<1>3. Len(path) \in Nat /\ DOMAIN path = 1 .. Len(path)
      /\ \A i \in 1 .. Len(path) : path[i] \in FileNames
    BY LenProperties, ElementOfSeq
<1> DEFINE Bad == {n \in 0 .. Len(path) : \E s \in SUBSET (1 .. n) : f[s] \notin CleanPaths}
<1>4. Bad = {}
    <2>1. SUFFICES ASSUME Bad # {} PROVE FALSE
        OBVIOUS
    <2>2. Bad \in SUBSET Nat
        BY <1>3
    <2>3. PICK n \in Bad : \A m \in Bad : n <= m
        BY <2>1, <2>2, LeastNumber
    <2>4. PICK s \in SUBSET (1 .. n) : f[s] \notin CleanPaths
        BY <2>3
    <2>5. n \in Nat /\ n <= Len(path) /\ s \in SUBSET DOMAIN path
        BY <1>3, <2>3, <2>4
    <2>6. f[s] = Cleaning(path, f, s)
        BY <1>1, <2>5
    <2>7. s # {}
        <3>1. << >> \in CleanPaths
            BY EmptySeq DEF CleanPaths
        <3> QED BY <2>4, <2>6, <3>1 DEF Cleaning
    <2> DEFINE x == Max(s)
    <2>8. x \in s /\ \A y \in s : y <= x
        BY <2>5, <2>7, MaxIsGreatest
    <2> HIDE DEF x
    <2>9. x \in 1 .. n /\ x - 1 \in 0 .. Len(path) /\ s \ {x} \in SUBSET (1 .. x - 1)
        BY <2>5, <2>8
    <2>10. x - 1 \notin Bad
        <3>1. ~(n <= x - 1)
            BY <2>5, <2>9
        <3> HIDE DEF Bad
        <3> QED BY <2>3, <3>1
    <2>11. f[s \ {x}] \in CleanPaths
        BY <2>9, <2>10
    <2>12. CleanStep(f[s \ {x}], path[x]) \in CleanPaths
        <3>1. path[x] \in FileNames
            BY <1>3, <2>5, <2>9
        <3> QED BY <2>11, <3>1, CleanStepType
    <2> QED BY <2>4, <2>6, <2>7, <2>12 DEF Cleaning, x
<1> QED BY <1>2, <1>3, <1>4

-----------------------------------------------------------------------------
(* What Validate asks of a tree, a manifest and a catalog                    *)

\* What is below the directory of a Skill
LEMMA SkillPath ==
    ASSUME NEW S, NEW path \in Seq(S), NEW name
    PROVE  LET full == <<"skills", name>> \o path
           IN  /\ full \in Seq(S \cup {"skills", name}) /\ Len(full) = Len(path) + 2
               /\ Len(path) \in Nat
               /\ full[1] = "skills" /\ full[2] = name
               /\ \A i \in 1 .. Len(path) : full[i + 2] = path[i]
<1> DEFINE T == S \cup {"skills", name}
           dir == <<"skills", name>>
<1>1. dir \in Seq(T) /\ Len(dir) = 2 /\ dir[1] = "skills" /\ dir[2] = name
    OBVIOUS
<1>2. path \in Seq(T)
    <2>1. S \subseteq T
        OBVIOUS
    <2> HIDE DEF T
    <2> QED BY <2>1, SeqMonotonic
<1>3. Len(path) \in Nat
    BY LenProperties
<1> HIDE DEF dir
<1>4. /\ dir \o path \in Seq(T) /\ Len(dir \o path) = Len(dir) + Len(path)
      /\ \A i \in 1 .. Len(dir) + Len(path) :
            (dir \o path)[i] = IF i <= Len(dir) THEN dir[i] ELSE path[i - Len(dir)]
    <2> HIDE DEF T
    <2> QED BY <1>1, <1>2, ConcatProperties
<1>5. \A i \in 1 .. Len(path) : (dir \o path)[i + 2] = path[i]
    BY <1>1, <1>3, <1>4
<1> QED BY <1>1, <1>3, <1>4, <1>5 DEF dir

LEMMA BelowSkillsDir ==
    ASSUME NEW S, NEW p \in Seq(S)
    PROVE  IsStrictPrefix(<<"skills">>, p) <=> Len(p) > 1 /\ p[1] = "skills"
<1>1. Len(p) \in Nat
    BY LenProperties
<1>2. Len(<<"skills">>) = 1 /\ <<"skills">>[1] = "skills" /\ <<"skills">> \in Seq(S \cup {"skills"})
    OBVIOUS
<1>3. p \in Seq(S \cup {"skills"})
    BY SeqMonotonic
<1>4. SubSeq(<<"skills">>, 1, 1) = <<"skills">>
    BY <1>2, SubSeqFull
<1>5. CASE Len(p) >= 1
    <2>1. /\ SubSeq(p, 1, 1) \in Seq(S \cup {"skills"}) /\ Len(SubSeq(p, 1, 1)) = 1
          /\ SubSeq(p, 1, 1)[1] = p[1]
        <3>1. \A i \in 1 .. 1 : p[i] \in S \cup {"skills"}
            BY <1>1, <1>3, <1>5, ElementOfSeq
        <3>2. /\ SubSeq(p, 1, 1) \in Seq(S \cup {"skills"})
              /\ Len(SubSeq(p, 1, 1)) = IF 1 <= 1 THEN 1 - 1 + 1 ELSE 0
              /\ \A i \in 1 .. 1 - 1 + 1 : SubSeq(p, 1, 1)[i] = p[1 + i - 1]
            BY <3>1, SubSeqProperties
        <3> QED BY <3>2
    <2>2. SubSeq(p, 1, 1) = <<"skills">> <=> p[1] = "skills"
        <3>1. ASSUME p[1] = "skills" PROVE SubSeq(p, 1, 1) = <<"skills">>
            <4> DEFINE q == SubSeq(p, 1, 1)
                       T == S \cup {"skills"}
                       one == <<"skills">>
            <4>1. q \in Seq(T) /\ one \in Seq(T) /\ Len(q) = Len(one) /\ Len(one) = 1
                BY <1>2, <2>1
            <4>2. \A i \in 1 .. Len(q) : q[i] = one[i]
                BY <1>2, <2>1, <3>1
            <4> HIDE DEF q, T, one
            <4>3. q = one
                BY <4>1, <4>2, SeqEqual
            <4> QED BY <4>3 DEF q, one
        <3> QED BY <1>2, <2>1, <3>1
    <2>3. Len(p) = 1 => SubSeq(p, 1, 1) = p
        BY <1>3, SubSeqFull
    <2>4. p = <<"skills">> => Len(p) = 1
        BY <1>2
    <2> QED BY <1>1, <1>2, <1>4, <1>5, <2>2, <2>3, <2>4 DEF IsStrictPrefix, IsPrefix
<1>6. CASE Len(p) = 0
    BY <1>2, <1>6 DEF IsStrictPrefix, IsPrefix
<1> QED BY <1>1, <1>5, <1>6

\* A path of at least three names is that of a Skill and what is below it.
LEMMA SkillAndRest ==
    ASSUME NEW S, NEW p \in Seq(S), Len(p) > 1, p[1] = "skills"
    PROVE  p = <<"skills", p[2]>> \o SubSeq(p, 3, Len(p))
<1>1. Len(p) \in Nat /\ \A i \in 1 .. Len(p) : p[i] \in S
    BY LenProperties, ElementOfSeq
<1> DEFINE rest == SubSeq(p, 3, Len(p))
           T == S \cup {"skills", p[2]}
<1>2. /\ rest \in Seq(S)
      /\ Len(rest) = Len(p) - 2
      /\ \A i \in 1 .. Len(p) - 2 : rest[i] = p[i + 2]
    <2>1. 3 \in Int /\ Len(p) \in Int /\ \A i \in 3 .. Len(p) : p[i] \in S
        BY <1>1
    <2>2. /\ rest \in Seq(S)
          /\ Len(rest) = IF 3 <= Len(p) THEN Len(p) - 3 + 1 ELSE 0
          /\ \A i \in 1 .. Len(p) - 3 + 1 : rest[i] = p[3 + i - 1]
        BY <2>1, SubSeqProperties
    <2> HIDE DEF rest
    <2>3. Len(rest) = Len(p) - 2
        <3>1. CASE Len(p) = 2
            BY <2>2, <3>1
        <3>2. CASE Len(p) > 2
            <4>1. 3 <= Len(p) /\ Len(p) - 3 + 1 = Len(p) - 2
                BY <1>1, <3>2
            <4>2. Len(rest) = Len(p) - 3 + 1
                BY <2>2, <4>1
            <4> QED BY <4>1, <4>2
        <3>3. Len(p) = 2 \/ Len(p) > 2
            <4>1. \A n \in Nat : n > 1 => n = 2 \/ n > 2
                OBVIOUS
            <4>2. Len(p) \in Nat /\ Len(p) > 1
                BY <1>1
            <4> QED BY <4>1, <4>2
        <3> QED BY <3>1, <3>2, <3>3
    <2>4. ASSUME NEW i \in 1 .. Len(p) - 2 PROVE rest[i] = p[i + 2]
        <3>1. i \in 1 .. Len(p) - 3 + 1 /\ 3 + i - 1 = i + 2
            BY <1>1
        <3> QED BY <2>2, <3>1
    <2> QED BY <2>2, <2>3, <2>4
<1> HIDE DEF rest
<1> DEFINE full == <<"skills", p[2]>> \o rest
<1>3. /\ full \in Seq(T) /\ Len(full) = Len(rest) + 2
      /\ full[1] = "skills" /\ full[2] = p[2]
      /\ \A i \in 1 .. Len(rest) : full[i + 2] = rest[i]
    BY <1>2, SkillPath
<1>4. p \in Seq(T)
    BY SeqMonotonic
<1> HIDE DEF full, T
<1>5. Len(full) = Len(p)
    BY <1>1, <1>2, <1>3
<1>6. ASSUME NEW i \in 1 .. Len(p) PROVE full[i] = p[i]
    <2>1. CASE i > 2
        <3>1. i - 2 \in 1 .. Len(rest) /\ (i - 2) + 2 = i
            BY <1>1, <1>2, <2>1
        <3> QED BY <1>2, <1>3, <3>1
    <2> QED BY <1>3, <2>1
<1>7. full = p
    BY <1>3, <1>4, <1>5, <1>6, SeqEqual
<1> QED BY <1>7 DEF full, rest

\* LoadBundle takes a tree only when its files are those of the manifest.
LEMMA ValidIsExact ==
    ASSUME NEW tree, DOMAIN tree \subseteq Seq(FileNames), NEW manifest, NEW catalog,
           Validate(tree, manifest, catalog), IsList(manifest.skills),
           \A skill \in Range(manifest.skills) :
               \A file \in Range(skill.files) : file.path \in Seq(FileNames)
    PROVE  {<<p, tree[p]>> : p \in FilesBelow(tree, <<"skills">>)}
           = UNION {{<<<<"skills", s.name>> \o f.path, f.digest>> :
                        f \in Range(s.files)} : s \in Range(manifest.skills)}
<1> DEFINE Found == {<<p, tree[p]>> : p \in FilesBelow(tree, <<"skills">>)}
           ListedBy(s) == {<<<<"skills", s.name>> \o f.path, f.digest>> : f \in Range(s.files)}
           Lists == UNION {ListedBy(s) : s \in Range(manifest.skills)}
<1>1. ASSUME NEW s \in Range(manifest.skills), NEW f \in Range(s.files)
      PROVE  LET full == <<"skills", s.name>> \o f.path
             IN  /\ full \in FilesBelow(tree, <<"skills">>)
                 /\ tree[full] = f.digest
    <2> DEFINE full == <<"skills", s.name>> \o f.path
    <2>1. ValidBundleSkill(tree, s)
        BY DEF Validate
    <2>2. PICK i \in DOMAIN s.files : s.files[i] = f
        BY DEF Range
    <2>3. full \in DOMAIN tree /\ tree[full] # Dir /\ tree[full] = f.digest
        BY <2>1, <2>2 DEF ValidBundleSkill
    <2>4. f.path \in Seq(FileNames)
        OBVIOUS
    <2>5. Len(full) > 1 /\ full[1] = "skills"
        BY <2>4, SkillPath
    <2>6. full \in Seq(FileNames)
        BY <2>3
    <2> HIDE DEF full
    <2>7. IsStrictPrefix(<<"skills">>, full)
        BY <2>5, <2>6, BelowSkillsDir
    <2> QED BY <2>3, <2>7 DEF FilesBelow, full
<1>2. ASSUME NEW x \in Lists PROVE x \in Found
    <2>1. PICK s \in Range(manifest.skills) : x \in ListedBy(s)
        OBVIOUS
    <2>2. PICK f \in Range(s.files) : x = <<<<"skills", s.name>> \o f.path, f.digest>>
        BY <2>1
    <2> QED BY <1>1, <2>2
<1>3. ASSUME NEW x \in Found PROVE x \in Lists
    <2>1. PICK p \in FilesBelow(tree, <<"skills">>) : x = <<p, tree[p]>>
        OBVIOUS
    <2>2. /\ p \in DOMAIN tree /\ IsStrictPrefix(<<"skills">>, p) /\ tree[p] # Dir
          /\ p \in Seq(FileNames)
        BY <2>1 DEF FilesBelow
    <2>3. PICK s \in Range(manifest.skills) :
              p[2] = s.name /\ SubSeq(p, 3, Len(p)) \in Declared(s)
        BY <2>2 DEF Validate, ValidBundleTree
    <2>4. PICK i \in DOMAIN s.files : s.files[i].path = SubSeq(p, 3, Len(p))
        BY <2>3 DEF Declared
    <2>5. s.files[i] \in Range(s.files)
        BY DEF Range
    <2>6. p = <<"skills", s.name>> \o s.files[i].path
        BY <2>2, <2>3, <2>4, BelowSkillsDir, SkillAndRest
    <2>7. tree[p] = s.files[i].digest
        BY <1>1, <2>5, <2>6
    <2>8. x \in ListedBy(s)
        BY <2>1, <2>5, <2>6, <2>7
    <2> QED BY <2>8
<1> QED BY <1>2, <1>3

\* Names that differ in a list have one place each.
LEMMA UniqueNames ==
    ASSUME NEW list, IsList(list), Unique(list)
    PROVE  /\ \A i, j \in DOMAIN list : list[i].name = list[j].name => i = j
           /\ IsFiniteSet(Names(list)) /\ Cardinality(Names(list)) = Len(list)
<1> DEFINE N == Names(list)
           D == 1 .. Len(list)
           f == [i \in D |-> list[i].name]
<1>1. Len(list) \in Nat /\ DOMAIN list = D
    BY DEF IsList
<1>2. IsFiniteSet(D) /\ Cardinality(D) = Len(list)
    <2>1. 1 \in Int /\ Len(list) \in Int
        BY <1>1
    <2>2. /\ IsFiniteSet(D)
          /\ Cardinality(D) = IF 1 > Len(list) THEN 0 ELSE Len(list) - 1 + 1
        BY <2>1, FS_Interval
    <2> HIDE DEF D
    <2> QED BY <1>1, <2>2
<1>3. f \in Surjection(D, N)
    BY <1>1 DEF Surjection, Names
<1>4. Cardinality(N) = Cardinality(D)
    BY <1>2 DEF Unique
<1> HIDE DEF f, D, N
<1>5. IsFiniteSet(N)
    BY <1>2, <1>3, FS_Surjection
<1>6. f \in Injection(D, N)
    BY <1>2, <1>3, <1>4, FS_SurjSameCardinalityImpliesInj
<1>7. \A i, j \in D : f[i] = f[j] => i = j
    BY <1>6 DEF Injection, IsInjective
<1> QED BY <1>1, <1>2, <1>4, <1>5, <1>7 DEF f, N

\* One entry of the catalog for each of the Skills
LEMMA ValidCatalogIsExact ==
    ASSUME NEW catalog, NEW skills, IsList(catalog.entries), IsList(skills),
           Unique(skills), ValidCatalog(catalog, skills), NEW s \in Range(skills)
    PROVE  Cardinality({i \in DOMAIN catalog.entries : catalog.entries[i].name = s.name}) = 1
<1> DEFINE E == catalog.entries
<1>1. /\ IsFiniteSet(Names(E)) /\ Cardinality(Names(E)) = Len(E)
      /\ \A i, j \in DOMAIN E : E[i].name = E[j].name => i = j
    BY UniqueNames DEF ValidCatalog
<1>2. IsFiniteSet(Names(skills)) /\ Cardinality(Names(skills)) = Len(skills)
    BY UniqueNames
<1>3. Names(E) \subseteq Names(skills)
    <2>1. ASSUME NEW i \in DOMAIN E PROVE E[i].name \in Names(skills)
        <3>1. PICK t \in Range(skills) : E[i].name = t.name
            BY DEF ValidCatalog
        <3> QED BY <3>1 DEF Range, Names
    <2> QED BY <2>1 DEF Names
<1>4. Names(E) = Names(skills)
    BY <1>1, <1>2, <1>3, FS_Subset DEF ValidCatalog
<1>5. s.name \in Names(E)
    BY <1>4 DEF Range, Names
<1>6. PICK i \in DOMAIN E : E[i].name = s.name
    BY <1>5 DEF Names
<1>7. {j \in DOMAIN E : E[j].name = s.name} = {i}
    BY <1>1, <1>6
<1> QED BY <1>7, FS_Singleton

-----------------------------------------------------------------------------
(* Sums over a finite set, again a fold                                      *)

Chosen(s) == CHOOSE x \in s : TRUE
Summing(w, f, s) == IF s = {} THEN 0 ELSE f[s \ {Chosen(s)}] + w[Chosen(s)]

Weighed(S, w) == IsFiniteSet(S) /\ \A x \in S : w[x] \in Nat

\* f has the sum of every part of S.
SumsOf(f, S, w) == f = [s \in SUBSET S |-> Summing(w, f, s)]

LEMMA ChosenIsMember == \A s : s # {} => Chosen(s) \in s
BY DEF Chosen

LEMMA Smaller ==
    ASSUME NEW s, IsFiniteSet(s), NEW x \in s
    PROVE  /\ IsFiniteSet(s \ {x}) /\ Cardinality(s) \in Nat
           /\ Cardinality(s \ {x}) \in Nat /\ Cardinality(s \ {x}) + 1 = Cardinality(s)
<1>1. IsFiniteSet(s \ {x}) /\ Cardinality(s \ {x}) = Cardinality(s) - 1
    BY FS_RemoveElement
<1>2. Cardinality(s) \in Nat /\ Cardinality(s \ {x}) \in Nat
    BY <1>1, FS_CardinalityType
<1> QED BY <1>1, <1>2

\* The sums of the parts with at most n S are extended to those with one more.
LEMMA SumsExist ==
    ASSUME NEW S, NEW w, Weighed(S, w)
    PROVE  \E f \in [SUBSET S -> Nat] : SumsOf(f, S, w)
<1> DEFINE D(n) == {s \in SUBSET S : Cardinality(s) <= n}
           Sol(n) == {f \in [D(n) -> Nat] : \A s \in D(n) : f[s] = Summing(w, f, s)}
           Bad == {n \in 0 .. Cardinality(S) : Sol(n) = {}}
<1>1. \A s \in SUBSET S : IsFiniteSet(s) /\ Cardinality(s) \in Nat
                              /\ Cardinality(s) <= Cardinality(S)
    BY FS_Subset, FS_CardinalityType DEF Weighed
<1>2. Cardinality(S) \in Nat
    BY <1>1
<1>3. Bad = {}
    <2>1. SUFFICES ASSUME Bad # {} PROVE FALSE
        OBVIOUS
    <2>2. Bad \in SUBSET Nat
        BY <1>2
    <2>3. PICK n \in Bad : \A m \in Bad : n <= m
        BY <2>1, <2>2, LeastNumber
    <2>4. n # 0
        <3>1. SUFFICES ASSUME n = 0 PROVE FALSE
            OBVIOUS
        <3> DEFINE f == [s \in D(0) |-> 0]
        <3>2. \A s \in D(0) : s = {}
            <4>1. SUFFICES ASSUME NEW s \in D(0), s # {} PROVE FALSE
                OBVIOUS
            <4>2. Chosen(s) \in s
                BY <4>1, ChosenIsMember
            <4>3. Cardinality(s \ {Chosen(s)}) + 1 = Cardinality(s)
                  /\ Cardinality(s \ {Chosen(s)}) \in Nat /\ Cardinality(s) \in Nat
                BY <1>1, <4>2, Smaller
            <4>4. Cardinality(s) <= 0
                OBVIOUS
            <4> QED BY <4>3, <4>4
        <3>3. f \in [D(0) -> Nat]
            OBVIOUS
        <3>4. \A s \in D(0) : f[s] = Summing(w, f, s)
            BY <3>2 DEF Summing
        <3>5. f \in Sol(0)
            BY <3>3, <3>4
        <3> QED BY <2>3, <3>1, <3>5
    <2>5. n \in 1 .. Cardinality(S) /\ n - 1 \in 0 .. Cardinality(S)
          /\ n \in Nat /\ n - 1 \in Nat
        BY <1>2, <2>3, <2>4
    <2>a. n - 1 \notin Bad
        <3>1. ~(n <= n - 1)
            BY <2>5
        <3> HIDE DEF Bad
        <3> QED BY <2>3, <3>1
    <2>6. PICK f \in Sol(n - 1) : TRUE
        <3> HIDE DEF Sol
        <3> QED BY <2>5, <2>a
    <2>7. f \in [D(n - 1) -> Nat] /\ \A s \in D(n - 1) : f[s] = Summing(w, f, s)
        BY <2>6
    <2>8. ASSUME NEW s \in D(n), s # {}
          PROVE  /\ s \ {Chosen(s)} \in D(n - 1) /\ s \ {Chosen(s)} \in D(n)
                 /\ w[Chosen(s)] \in Nat
        <3>1. Chosen(s) \in s
            BY <2>8, ChosenIsMember
        <3>2. Cardinality(s \ {Chosen(s)}) + 1 = Cardinality(s)
              /\ Cardinality(s \ {Chosen(s)}) \in Nat /\ Cardinality(s) \in Nat
            BY <1>1, <3>1, Smaller
        <3>3. Cardinality(s) <= n
            OBVIOUS
        <3>4. Cardinality(s \ {Chosen(s)}) <= n - 1 /\ Cardinality(s \ {Chosen(s)}) <= n
            BY <2>5, <3>2, <3>3
        <3> QED BY <3>1, <3>4 DEF Weighed
    <2> DEFINE g == [s \in D(n) |-> Summing(w, f, s)]
    <2>9. g \in [D(n) -> Nat]
        <3>1. ASSUME NEW s \in D(n) PROVE Summing(w, f, s) \in Nat
            <4>1. CASE s = {}
                BY <4>1 DEF Summing
            <4>2. CASE s # {}
                <5>1. f[s \ {Chosen(s)}] \in Nat
                    BY <2>7, <2>8, <4>2
                <5>2. w[Chosen(s)] \in Nat
                    BY <2>8, <4>2
                <5> QED BY <4>2, <5>1, <5>2 DEF Summing
            <4> QED BY <4>1, <4>2
        <3> HIDE DEF D
        <3> QED BY <3>1
    <2>10. ASSUME NEW s \in D(n) PROVE g[s] = Summing(w, g, s)
        <3>1. CASE s = {}
            BY <3>1 DEF Summing
        <3>2. CASE s # {}
            <4>1. s \ {Chosen(s)} \in D(n - 1) /\ s \ {Chosen(s)} \in D(n)
                BY <2>8, <3>2
            <4>2. g[s \ {Chosen(s)}] = f[s \ {Chosen(s)}]
                BY <2>7, <4>1
            <4>3. g[s] = Summing(w, f, s)
                OBVIOUS
            <4> HIDE DEF g
            <4> QED BY <3>2, <4>2, <4>3 DEF Summing
        <3> QED BY <3>1, <3>2
    <2> HIDE DEF g
    <2>11. g \in Sol(n)
        BY <2>9, <2>10
    <2> QED BY <2>3, <2>11
<1>4. Cardinality(S) \notin Bad
    BY <1>3
<1>5. PICK f \in Sol(Cardinality(S)) : TRUE
    <2>1. Cardinality(S) \in 0 .. Cardinality(S)
        BY <1>2
    <2> HIDE DEF Sol
    <2> QED BY <1>4, <2>1
<1>6. D(Cardinality(S)) = SUBSET S
    BY <1>1
<1>7. f \in [D(Cardinality(S)) -> Nat]
      /\ \A s \in D(Cardinality(S)) : f[s] = Summing(w, f, s)
    BY <1>5
<1> HIDE DEF D
<1>8. f \in [SUBSET S -> Nat] /\ SumsOf(f, S, w)
    BY <1>6, <1>7 DEF SumsOf
<1> QED BY <1>8

\* Sums of the same S are the same, whatever else they are the sums of.
LEMMA SumsAgree ==
    ASSUME NEW S, NEW w, Weighed(S, w), NEW f, SumsOf(f, S, w),
           NEW R, NEW v, Weighed(R, v), NEW g, SumsOf(g, R, v),
           NEW s \in SUBSET (S \cap R),
           \A p \in s : w[p] = v[p]
    PROVE  f[s] = g[s]
<1> DEFINE Bad == {n \in Nat : \E r \in SUBSET s : Cardinality(r) = n /\ f[r] # g[r]}
<1>1. SUFFICES Bad = {}
    <2>1. Cardinality(s) \in Nat
        BY FS_Subset, FS_CardinalityType DEF Weighed
    <2> QED BY <2>1
<1>2. SUFFICES ASSUME Bad # {} PROVE FALSE
    OBVIOUS
<1>3. PICK n \in Bad : \A m \in Bad : n <= m
    <2>1. Bad \in SUBSET Nat
        OBVIOUS
    <2> HIDE DEF Bad
    <2> QED BY <1>2, <2>1, LeastNumber
<1>4. PICK r \in SUBSET s : Cardinality(r) = n /\ f[r] # g[r]
    BY <1>3
<1>5. f[r] = Summing(w, f, r) /\ g[r] = Summing(v, g, r)
    BY DEF SumsOf
<1>6. r # {}
    BY <1>4, <1>5 DEF Summing
<1>7. Chosen(r) \in r
    BY <1>6, ChosenIsMember
<1>8. /\ Cardinality(r \ {Chosen(r)}) + 1 = Cardinality(r)
      /\ Cardinality(r \ {Chosen(r)}) \in Nat /\ Cardinality(r) \in Nat
    <2>1. IsFiniteSet(r)
        BY FS_Subset DEF Weighed
    <2> QED BY <1>7, <2>1, Smaller
<1>9. Cardinality(r \ {Chosen(r)}) \notin Bad
    <2>1. ~(n <= Cardinality(r \ {Chosen(r)}))
        BY <1>4, <1>8
    <2> HIDE DEF Bad
    <2> QED BY <1>3, <2>1
<1>10. f[r \ {Chosen(r)}] = g[r \ {Chosen(r)}]
    BY <1>8, <1>9
<1> QED BY <1>4, <1>5, <1>6, <1>7, <1>10 DEF Summing

\* Whichever file is taken away last, by its size the sum is less.
Additive(f, S, w) == \A s \in SUBSET S : \A p \in s : f[s] = f[s \ {p}] + w[p]

LEMMA SumWithout ==
    ASSUME NEW S, NEW w, Weighed(S, w), NEW f, f \in [SUBSET S -> Nat], SumsOf(f, S, w)
    PROVE  Additive(f, S, w)
<1> DEFINE Fails(r) == \E q \in r : f[r] # f[r \ {q}] + w[q]
           Bad == {n \in Nat : \E r \in SUBSET S : Cardinality(r) = n /\ Fails(r)}
<1>1. SUFFICES Bad = {}
    <2>1. ASSUME NEW s \in SUBSET S PROVE ~Fails(s)
        <3>1. Cardinality(s) \in Nat
            BY FS_Subset, FS_CardinalityType DEF Weighed
        <3> HIDE DEF Fails
        <3> QED BY <3>1
    <2> QED BY ONLY <2>1, Zenon DEF Additive
<1>2. SUFFICES ASSUME Bad # {} PROVE FALSE
    OBVIOUS
<1>3. PICK n \in Bad : \A m \in Bad : n <= m
    <2>1. Bad \in SUBSET Nat
        OBVIOUS
    <2> HIDE DEF Bad
    <2> QED BY <1>2, <2>1, LeastNumber
<1>4. PICK r \in SUBSET S : Cardinality(r) = n /\ Fails(r)
    BY <1>3
<1>5. PICK q \in r : f[r] # f[r \ {q}] + w[q]
    BY <1>4
<1> DEFINE x == Chosen(r)
<1>6. x \in r
    BY ChosenIsMember
<1>7. f[r] = f[r \ {x}] + w[x]
    BY DEF SumsOf, Summing
<1>8. x # q
    BY <1>5, <1>7
<1> HIDE DEF x
<1>9. ASSUME NEW t \in r, NEW u \in r \ {t}
      PROVE  f[r \ {t}] = f[(r \ {t}) \ {u}] + w[u]
    <2>1. IsFiniteSet(r)
        BY FS_Subset DEF Weighed
    <2>2. /\ Cardinality(r \ {t}) + 1 = Cardinality(r)
          /\ Cardinality(r \ {t}) \in Nat /\ Cardinality(r) \in Nat
        BY <2>1, Smaller
    <2>3. Cardinality(r \ {t}) \notin Bad
        <3>1. ~(n <= Cardinality(r \ {t}))
            BY <1>4, <2>2
        <3> HIDE DEF Bad
        <3> QED BY <1>3, <3>1
    <2>4. ~Fails(r \ {t})
        <3> HIDE DEF Fails
        <3> QED BY <2>2, <2>3
    <2> QED BY <2>4
<1>10. (r \ {x}) \ {q} = (r \ {q}) \ {x}
    OBVIOUS
<1>11. /\ f[r \ {x}] = f[(r \ {q}) \ {x}] + w[q]
       /\ f[r \ {q}] = f[(r \ {q}) \ {x}] + w[x]
    BY <1>6, <1>8, <1>9, <1>10
<1>12. /\ f[(r \ {q}) \ {x}] \in Nat /\ f[r \ {x}] \in Nat /\ f[r \ {q}] \in Nat /\ f[r] \in Nat
       /\ w[x] \in Nat /\ w[q] \in Nat
    BY <1>6 DEF Weighed
<1> QED BY <1>5, <1>7, <1>11, <1>12

-----------------------------------------------------------------------------
(* The sum of the sizes of files                                             *)

SummingSizes(tree, f, s) ==
    IF s = {} THEN 0 ELSE f[s \ {Chosen(s)}] + SizeOf[tree[Chosen(s)]]

LEMMA TotalIsFold ==
    \A files, tree : TotalSize(files, tree) =
        (CHOOSE f : f = [s \in SUBSET files |-> SummingSizes(tree, f, s)])[files]
BY DEF TotalSize, FoldSet, MapThenFoldSet, SummingSizes, Chosen

Sized(files, tree) == IsFiniteSet(files) /\ \A p \in files : SizeOf[tree[p]] \in Nat

Sizes(files, tree) == [p \in files |-> SizeOf[tree[p]]]

LEMMA SizedIsWeighed ==
    ASSUME NEW files, NEW tree, Sized(files, tree)
    PROVE  Weighed(files, Sizes(files, tree))
BY DEF Sized, Weighed, Sizes

LEMMA TotalIsSum ==
    ASSUME NEW files, NEW tree, Sized(files, tree), NEW f, SumsOf(f, files, Sizes(files, tree))
    PROVE  TotalSize(files, tree) = f[files]
<1> DEFINE w == Sizes(files, tree)
           g == CHOOSE h : h = [s \in SUBSET files |-> SummingSizes(tree, h, s)]
<1>1. \A h : \A s \in SUBSET files : SummingSizes(tree, h, s) = Summing(w, h, s)
    <2> SUFFICES ASSUME NEW h, NEW s \in SUBSET files, s # {}
                 PROVE  w[Chosen(s)] = SizeOf[tree[Chosen(s)]]
        BY DEF SummingSizes, Summing
    <2> QED BY ChosenIsMember DEF Sizes
<1>2. f = [s \in SUBSET files |-> SummingSizes(tree, f, s)]
    <2>1. f = [s \in SUBSET files |-> Summing(w, f, s)]
        BY DEF SumsOf
    <2> HIDE DEF w
    <2> QED BY <1>1, <2>1
<1>3. g = [s \in SUBSET files |-> SummingSizes(tree, g, s)]
    BY <1>2
<1>4. TotalSize(files, tree) = g[files]
    BY TotalIsFold
<1> HIDE DEF g
<1>5. SumsOf(g, files, w)
    <2> HIDE DEF w
    <2>1. g = [s \in SUBSET files |-> Summing(w, g, s)]
        BY <1>1, <1>3
    <2> QED BY <2>1 DEF SumsOf
<1>6. Weighed(files, w) /\ files \in SUBSET (files \cap files) /\ \A p \in files : w[p] = w[p]
    BY SizedIsWeighed
<1> HIDE DEF w
<1>7. f[files] = g[files]
    BY <1>5, <1>6, SumsAgree DEF w
<1> QED BY <1>4, <1>7

LEMMA TotalIsNat ==
    ASSUME NEW files, NEW tree, Sized(files, tree)
    PROVE  TotalSize(files, tree) \in Nat
<1>1. PICK f \in [SUBSET files -> Nat] : SumsOf(f, files, Sizes(files, tree))
    BY SizedIsWeighed, SumsExist
<1> QED BY <1>1, TotalIsSum

\* Only the sizes of the files themselves count.
LEMMA TotalOfSame ==
    ASSUME NEW files, NEW tree, Sized(files, tree), NEW other,
           \A p \in files : SizeOf[tree[p]] = SizeOf[other[p]]
    PROVE  TotalSize(files, other) = TotalSize(files, tree)
<1>1. Sized(files, other) /\ Sizes(files, other) = Sizes(files, tree)
    BY DEF Sized, Sizes
<1>2. PICK f \in [SUBSET files -> Nat] : SumsOf(f, files, Sizes(files, tree))
    BY SizedIsWeighed, SumsExist
<1>3. TotalSize(files, tree) = f[files]
    BY <1>2, TotalIsSum
<1>4. TotalSize(files, other) = f[files]
    BY <1>1, <1>2, TotalIsSum
<1> QED BY <1>3, <1>4

LEMMA TotalWithout ==
    ASSUME NEW files, NEW tree, Sized(files, tree), NEW p \in files
    PROVE  /\ Sized(files \ {p}, tree)
           /\ TotalSize(files, tree) = TotalSize(files \ {p}, tree) + SizeOf[tree[p]]
<1> DEFINE w == Sizes(files, tree)
           v == Sizes(files \ {p}, tree)
<1>1. Sized(files \ {p}, tree)
    BY FS_Subset DEF Sized
<1>2. Weighed(files, w) /\ Weighed(files \ {p}, v)
    BY <1>1, SizedIsWeighed
<1>3. w[p] = SizeOf[tree[p]] /\ \A x \in files \ {p} : w[x] = v[x]
    BY DEF Sizes
<1> HIDE DEF w, v
<1>4. PICK f \in [SUBSET files -> Nat] : SumsOf(f, files, w)
    BY <1>2, SumsExist
<1>5. PICK g \in [SUBSET (files \ {p}) -> Nat] : SumsOf(g, files \ {p}, v)
    BY <1>2, SumsExist
<1>6. files \ {p} \in SUBSET (files \cap (files \ {p}))
    OBVIOUS
<1>7. f[files \ {p}] = g[files \ {p}]
    BY <1>2, <1>3, <1>4, <1>5, <1>6, SumsAgree
<1>8. f[files] = f[files \ {p}] + w[p]
    <2>1. Additive(f, files, w)
        BY <1>2, <1>4, SumWithout
    <2> QED BY <2>1 DEF Additive
<1>9. TotalSize(files, tree) = f[files] /\ TotalSize(files \ {p}, tree) = g[files \ {p}]
    BY <1>1, <1>4, <1>5, TotalIsSum DEF w, v
<1> QED BY <1>1, <1>3, <1>7, <1>8, <1>9

-----------------------------------------------------------------------------
(* What one archive entry does to the tree                                   *)

SkillPaths == {p \in Seq(FileNames) : p # << >> /\ Head(p) = "skills"}

LEMMA PrefixesOfSkillPath ==
    ASSUME NEW path \in Seq(FileNames), path # << >> => path \in SkillPaths
    PROVE  Prefixes(path) \ {<< >>} \subseteq SkillPaths
<1> SUFFICES ASSUME NEW n \in 0 .. Len(path), SubSeq(path, 1, n) # << >>
             PROVE  SubSeq(path, 1, n) \in SkillPaths
    BY DEF Prefixes
<1> DEFINE q == SubSeq(path, 1, n)
<1>1. Len(path) \in Nat /\ \A i \in 1 .. Len(path) : path[i] \in FileNames
    BY LenProperties, ElementOfSeq
<1>2. n >= 1
    <2>1. n = 0 => q = << >>
        BY SubSeqEmpty
    <2> QED BY <1>1, <2>1
<1>3. n \in Nat /\ n <= Len(path)
    BY <1>1
<1>4. q \in Seq(FileNames) /\ q[1] = path[1]
    <2>1. 1 \in Int /\ n \in Int /\ \A i \in 1 .. n : path[i] \in FileNames
        BY <1>1, <1>3
    <2>2. /\ q \in Seq(FileNames)
          /\ \A i \in 1 .. n - 1 + 1 : q[i] = path[1 + i - 1]
        BY <2>1, SubSeqProperties
    <2>3. 1 \in 1 .. n - 1 + 1 /\ 1 + 1 - 1 = 1
        BY <1>2, <1>3
    <2> HIDE DEF q
    <2> QED BY <2>2, <2>3
<1>5. path # << >>
    BY <1>2, <1>3, EmptySeq
<1>6. Head(path) = path[1] /\ Head(q) = q[1]
    OBVIOUS
<1> QED BY <1>4, <1>5, <1>6 DEF SkillPaths

LEMMA FrontOfSkillPath ==
    ASSUME NEW path \in SkillPaths
    PROVE  Front(path) \in Seq(FileNames) /\ (Front(path) # << >> => Front(path) \in SkillPaths)
<1> DEFINE q == Front(path)
<1>1. path \in Seq(FileNames) /\ path # << >> /\ Head(path) = "skills"
    BY DEF SkillPaths
<1>2. /\ q \in Seq(FileNames) /\ DOMAIN q = 1 .. Len(path) - 1 /\ Len(path) \in Nat
      /\ \A i \in DOMAIN q : q[i] = path[i]
    BY <1>1, FrontAndLast
<1> HIDE DEF q
<1>3. ASSUME q # << >> PROVE q \in SkillPaths
    <2>1. Len(q) \in Nat \ {0} /\ DOMAIN q = 1 .. Len(q)
        BY <1>2, <1>3, EmptySeq, LenProperties
    <2>2. q[1] = path[1]
        BY <1>2, <2>1
    <2> QED BY <1>1, <1>2, <1>3, <2>2 DEF SkillPaths
<1> QED BY <1>2, <1>3 DEF q

\* Directories that are made leave what is there.
LEMMA MadeKeeps ==
    ASSUME NEW path, Passable(path)
    PROVE  /\ DOMAIN MadeAll(path) = DOMAIN stage \cup (Prefixes(path) \ {<< >>})
           /\ \A p \in DOMAIN stage : MadeAll(path)[p] = stage[p]
           /\ \A p \in DOMAIN MadeAll(path) \ DOMAIN stage : MadeAll(path)[p] = Dir
BY DEF Passable, MadeAll

\* An entry that is taken is a directory, which changes no file, or a file with its
\* content at one path below skills.
LEMMA EntryExtracted ==
    ASSUME NEW e, e.path \in Seq(STRING), Takes(e), DOMAIN stage \subseteq SkillPaths
    PROVE  LET tree == Extracted(e)
               files == FilesBelow(stage, <<"skills">>)
               left == FilesBelow(tree, <<"skills">>)
           IN  /\ DOMAIN tree \subseteq SkillPaths /\ WithinLimits(e)
               /\ \/ /\ e.kind = "dir" /\ left = files
                     /\ \A p \in files : tree[p] = stage[p]
                  \/ /\ e.kind = "file"
                     /\ \E path : /\ left \ {path} = files \ {path}
                                  /\ \A p \in files \ {path} : tree[p] = stage[p]
                                  /\ tree[path] = e.content
<1> DEFINE path == Clean(e.path)
           parent == Front(path)
           tree == Extracted(e)
           files == FilesBelow(stage, <<"skills">>)
           left == FilesBelow(tree, <<"skills">>)
<1>1. path \in Seq(FileNames)
    <2>1. e.path \in Seq(FileNames)
        BY SeqMonotonic DEF FileNames
    <2> QED BY <2>1, CleanType DEF CleanPaths
<1> HIDE DEF path
<1>2. ASSUME BelowSkills(e.path) PROVE path \in SkillPaths
    BY <1>1, <1>2 DEF BelowSkills, SkillPaths, path
<1>3. CASE BelowSkills(e.path) /\ WithinLimits(e) /\ e.kind = "dir" /\ Passable(path)
    <2>1. tree = MadeAll(path)
        BY <1>3 DEF Extracted, path
    <2>2. /\ DOMAIN tree = DOMAIN stage \cup (Prefixes(path) \ {<< >>})
          /\ \A p \in DOMAIN stage : tree[p] = stage[p]
          /\ \A p \in DOMAIN tree \ DOMAIN stage : tree[p] = Dir
        BY <1>3, <2>1, MadeKeeps
    <2> HIDE DEF tree
    <2>3. DOMAIN tree \subseteq SkillPaths
        BY <1>1, <1>2, <1>3, <2>2, PrefixesOfSkillPath
    <2>4. left = files /\ \A p \in files : tree[p] = stage[p]
        BY <2>2 DEF FilesBelow
    <2> QED BY <1>3, <2>3, <2>4 DEF tree
<1>4. CASE /\ BelowSkills(e.path) /\ WithinLimits(e) /\ e.kind = "file"
           /\ Passable(parent) /\ ~(path \in DOMAIN stage /\ stage[path] = Dir)
    <2> DEFINE made == MadeAll(parent)
    <2>1. tree = Written(made, path, e.content)
        BY <1>4 DEF Extracted, path
    <2>2. /\ DOMAIN made = DOMAIN stage \cup (Prefixes(parent) \ {<< >>})
          /\ \A p \in DOMAIN stage : made[p] = stage[p]
          /\ \A p \in DOMAIN made \ DOMAIN stage : made[p] = Dir
        BY <1>4, MadeKeeps
    <2> HIDE DEF tree, made
    <2>3. /\ DOMAIN tree = DOMAIN made \cup {path} /\ tree[path] = e.content
          /\ \A p \in DOMAIN made \ {path} : tree[p] = made[p]
        BY <2>1 DEF Written
    <2>4. DOMAIN tree \subseteq SkillPaths
        <3>1. path \in SkillPaths
            BY <1>2, <1>4
        <3>2. Prefixes(parent) \ {<< >>} \subseteq SkillPaths
            BY <3>1, FrontOfSkillPath, PrefixesOfSkillPath
        <3> QED BY <2>2, <2>3, <3>1, <3>2
    <2>5. left \ {path} = files \ {path} /\ \A p \in files \ {path} : tree[p] = stage[p]
        BY <2>2, <2>3 DEF FilesBelow
    <2> QED BY <1>4, <2>3, <2>4, <2>5 DEF tree
<1>5. \/ BelowSkills(e.path) /\ WithinLimits(e) /\ e.kind = "dir" /\ Passable(path)
      \/ /\ BelowSkills(e.path) /\ WithinLimits(e) /\ e.kind = "file"
         /\ Passable(parent) /\ ~(path \in DOMAIN stage /\ stage[path] = Dir)
    BY DEF Takes, path
<1> QED BY <1>3, <1>4, <1>5

\* The limits on the entries of an archive are limits on the files of the tree.
LEMMA EntryCounted ==
    ASSUME NEW e, e.path \in Seq(STRING), e.kind = "file" => SizeOf[e.content] \in Nat,
           Takes(e), DOMAIN stage \subseteq SkillPaths,
           Sized(FilesBelow(stage, <<"skills">>), stage), entry \in Nat, bytes \in Nat,
           Cardinality(FilesBelow(stage, <<"skills">>)) <= entry,
           TotalSize(FilesBelow(stage, <<"skills">>), stage) <= bytes
    PROVE  LET tree == Extracted(e)
               left == FilesBelow(tree, <<"skills">>)
               size == IF e.kind = "file" THEN SizeOf[e.content] ELSE 0
           IN  /\ Sized(left, tree) /\ Cardinality(left) <= entry + 1
               /\ TotalSize(left, tree) <= bytes + size
<1> DEFINE tree == Extracted(e)
           files == FilesBelow(stage, <<"skills">>)
           left == FilesBelow(tree, <<"skills">>)
           size == IF e.kind = "file" THEN SizeOf[e.content] ELSE 0
<1>1. \/ /\ e.kind = "dir" /\ left = files
         /\ \A p \in files : tree[p] = stage[p]
      \/ /\ e.kind = "file"
         /\ \E path : /\ left \ {path} = files \ {path}
                      /\ \A p \in files \ {path} : tree[p] = stage[p]
                      /\ tree[path] = e.content
    BY EntryExtracted
<1>2. Cardinality(files) \in Nat /\ TotalSize(files, stage) \in Nat /\ IsFiniteSet(files)
    BY TotalIsNat, FS_CardinalityType DEF Sized
<1> HIDE DEF tree, files, left
<1>3. Sized(files, stage) /\ Cardinality(files) <= entry /\ TotalSize(files, stage) <= bytes
    BY DEF files
<1>4. CASE e.kind = "dir" /\ left = files /\ \A p \in files : tree[p] = stage[p]
    <2>1. Sized(left, tree)
        BY <1>3, <1>4 DEF Sized
    <2>2. TotalSize(left, tree) = TotalSize(files, stage)
        BY <1>3, <1>4, TotalOfSame
    <2>3. Cardinality(left) <= entry + 1
        BY <1>2, <1>3, <1>4
    <2>4. TotalSize(left, tree) <= bytes + size
        BY <1>2, <1>3, <1>4, <2>2
    <2> QED BY <2>1, <2>3, <2>4 DEF left, tree
<1>5. ASSUME e.kind = "file", NEW path, left \ {path} = files \ {path},
             \A p \in files \ {path} : tree[p] = stage[p], tree[path] = e.content
      PROVE  /\ Sized(left, tree) /\ Cardinality(left) <= entry + 1
             /\ TotalSize(left, tree) <= bytes + size
    <2> DEFINE kept == files \ {path}
    <2>1. size = SizeOf[tree[path]] /\ size \in Nat
        BY <1>5
    <2> HIDE DEF size
    <2>2. Sized(kept, stage) /\ Cardinality(kept) \in Nat /\ Cardinality(kept) <= entry
        <3>1. IsFiniteSet(kept) /\ Cardinality(kept) <= Cardinality(files)
            BY <1>2, FS_Subset
        <3>2. Cardinality(kept) \in Nat
            BY <3>1, FS_CardinalityType
        <3>3. Sized(kept, stage)
            BY <1>3, <3>1 DEF Sized
        <3> HIDE DEF kept
        <3> QED BY <1>2, <1>3, <3>1, <3>2, <3>3
    <2>3. TotalSize(kept, stage) \in Nat /\ TotalSize(kept, stage) <= bytes
        <3>1. TotalSize(kept, stage) \in Nat
            BY <2>2, TotalIsNat
        <3>2. CASE path \in files
            <4>1. TotalSize(files, stage) = TotalSize(kept, stage) + SizeOf[stage[path]]
                BY <1>3, <3>2, TotalWithout
            <4>2. SizeOf[stage[path]] \in Nat
                BY <1>3, <3>2 DEF Sized
            <4> HIDE DEF kept
            <4> QED BY <1>2, <1>3, <3>1, <4>1, <4>2
        <3>3. CASE path \notin files
            <4>1. kept = files
                BY <3>3
            <4> QED BY <1>3, <3>1, <4>1
        <3> QED BY <3>2, <3>3
    <2>4. \A p \in kept : tree[p] = stage[p]
        BY <1>5
    <2>5. left \ {path} = kept
        BY <1>5
    <2> HIDE DEF kept
    <2>6. Sized(kept, tree)
        BY <2>2, <2>4 DEF Sized
    <2>7. TotalSize(kept, tree) = TotalSize(kept, stage)
        BY <2>2, <2>4, TotalOfSame
    <2>8. CASE path \notin left
        <3>1. left = kept
            BY <2>5, <2>8
        <3>2. TotalSize(kept, tree) <= bytes + size
            BY <2>1, <2>3, <2>7
        <3> QED BY <2>2, <2>6, <3>1, <3>2
    <2>9. CASE path \in left
        <3>1. left = kept \cup {path} /\ path \notin kept
            BY <2>5, <2>9
        <3>2. IsFiniteSet(kept)
            BY <2>2 DEF Sized
        <3>3. IsFiniteSet(left) /\ Cardinality(left) = Cardinality(kept) + 1
            BY <3>1, <3>2, FS_AddElement
        <3>4. Sized(left, tree)
            BY <2>1, <2>6, <3>1, <3>3 DEF Sized
        <3>5. TotalSize(left, tree) = TotalSize(kept, tree) + size
            BY <2>1, <2>5, <2>9, <3>4, TotalWithout
        <3>6. TotalSize(left, tree) <= bytes + size
            BY <2>1, <2>3, <2>7, <3>5
        <3> QED BY <2>2, <3>3, <3>4, <3>6
    <2> QED BY <2>8, <2>9
<1> HIDE DEF size
<1>6. ASSUME ~(e.kind = "dir" /\ left = files /\ \A p \in files : tree[p] = stage[p])
      PROVE  /\ Sized(left, tree) /\ Cardinality(left) <= entry + 1
             /\ TotalSize(left, tree) <= bytes + size
    <2>1. e.kind = "file"
        BY <1>1, <1>6 DEF left, files, tree
    <2>2. PICK path : /\ left \ {path} = files \ {path}
                      /\ \A p \in files \ {path} : tree[p] = stage[p]
                      /\ tree[path] = e.content
        BY <1>1, <1>6 DEF left, files, tree
    <2> QED BY <1>5, <2>1, <2>2
<1> QED BY <1>4, <1>6 DEF left, tree, size

\* The files the client writes are not below skills.
LEMMA StagedName ==
    ASSUME NEW name \in {"bundle.json", "catalog.json"}
    PROVE  <<name>> \in Seq(FileNames) /\ ~IsStrictPrefix(<<"skills">>, <<name>>)
<1> DEFINE p == <<name>>
<1>1. p \in Seq(FileNames) /\ ~(Len(p) > 1)
    <2>1. name \in FileNames
        BY DEF FileNames
    <2> HIDE DEF FileNames
    <2> QED BY <2>1
<1> HIDE DEF p
<1>2. ~IsStrictPrefix(<<"skills">>, p)
    BY <1>1, BelowSkillsDir
<1> QED BY <1>1, <1>2 DEF p

-----------------------------------------------------------------------------
(* The staging directory                                                     *)

Staging == {"extract", "bundle.json", "catalog.json", "load", "accepted", "discard"}

StagedPath(p) ==
    \/ p \in SkillPaths
    \/ p = <<"bundle.json">> /\ pc \in {"catalog.json", "load", "accepted", "discard"}
    \/ p = <<"catalog.json">> /\ pc \in {"load", "accepted", "discard"}

\* There are no more files than entries were read, nor more bytes than were counted.
StageInv ==
    /\ entry \in 0 .. MaxEntries /\ bytes \in 0 .. MaxTotal
    /\ pc \notin Staging \cup Over => stage = None
    /\ pc \in Staging =>
          LET files == FilesBelow(stage, <<"skills">>)
          IN  /\ DOMAIN stage \subseteq Seq(FileNames)
              /\ \A p \in DOMAIN stage : StagedPath(p)
              /\ Sized(files, stage) /\ Cardinality(files) <= entry
              /\ TotalSize(files, stage) <= bytes

\* What LoadBundle reads back is what was downloaded.
WrittenInv ==
    /\ pc \in {"catalog.json", "load", "accepted"} =>
          <<"bundle.json">> \in DOMAIN stage /\ stage[<<"bundle.json">>] = got.manifest
    /\ pc \in {"load", "accepted"} => stage[<<"catalog.json">>] = got.catalog
    /\ pc = "accepted" => Validate(stage, got.manifest, got.catalog)

TreeInv == StageInv /\ WrittenInv

LEMMA TreeInitInv == Init => TreeInv
BY LimitsAssumption DEF Init, TreeInv, StageInv, WrittenInv, Staging

\* An error leaves the tree as it is, and cleanup is called when there is one.
LEMMA FailInv == TreeInv /\ Fail /\ pc \notin {"failed", "cleaned"} => TreeInv'
BY DEF TreeInv, StageInv, WrittenInv, StagedPath, Fail, Staging, Over

LEMMA UnpackInv ==
    ASSUME TreeInv, pc = "extract", got \in AllReleases, entry < Len(got.bundle),
           Unpack(got.bundle[entry + 1])
    PROVE  TreeInv'
<1> DEFINE e == got.bundle[entry + 1]
<1>1. CASE Fail
    BY <1>1, FailInv
<1>2. CASE Takes(e)
    <2>1. /\ stage' = Extracted(e) /\ entry' = entry + 1 /\ pc' = "extract" /\ got' = got
          /\ bytes' = bytes + (IF e.kind = "file" THEN SizeOf[e.content] ELSE 0)
        BY <1>2 DEF Unpack
    <2>2. /\ e \in Range(got.bundle) /\ e.path \in Seq(STRING)
          /\ e.kind = "file" => SizeOf[e.content] \in Nat
        <3>1. entry \in Nat /\ Len(got.bundle) \in Nat /\ DOMAIN got.bundle = 1 .. Len(got.bundle)
            BY DecodedAssumption, LimitsAssumption
            DEF AllReleases, IsList, TreeInv, StageInv
        <3>2. entry + 1 \in DOMAIN got.bundle
            BY <3>1
        <3>3. e \in Range(got.bundle)
            BY <3>2 DEF Range
        <3> QED BY <3>3, DecodedAssumption DEF AllReleases
    <2> HIDE DEF e
    <2> DEFINE files == FilesBelow(stage, <<"skills">>)
    <2>3. /\ DOMAIN stage \subseteq SkillPaths /\ Sized(files, stage)
          /\ Cardinality(files) <= entry /\ TotalSize(files, stage) <= bytes
          /\ entry \in Nat /\ bytes \in Nat
        BY LimitsAssumption DEF TreeInv, StageInv, StagedPath, Staging
    <2>4. DOMAIN stage' \subseteq SkillPaths /\ WithinLimits(e)
        BY <1>2, <2>1, <2>2, <2>3, EntryExtracted
    <2>5. /\ Sized(FilesBelow(stage', <<"skills">>), stage')
          /\ Cardinality(FilesBelow(stage', <<"skills">>)) <= entry'
          /\ TotalSize(FilesBelow(stage', <<"skills">>), stage') <= bytes'
        BY <1>2, <2>1, <2>2, <2>3, EntryCounted
    <2>6. entry' \in 0 .. MaxEntries /\ bytes' \in 0 .. MaxTotal
        BY <2>1, <2>2, <2>3, <2>4, LimitsAssumption
        DEF WithinLimits, TreeInv, StageInv
    <2>7. SkillPaths \subseteq Seq(FileNames)
        BY DEF SkillPaths
    <2>8. StageInv'
        BY <2>1, <2>4, <2>5, <2>6, <2>7 DEF StageInv, StagedPath, Staging
    <2>9. WrittenInv'
        BY <2>1 DEF WrittenInv
    <2> QED BY <2>8, <2>9 DEF TreeInv
<1> QED BY <1>1, <1>2 DEF Unpack

LEMMA WriteStagedInv ==
    ASSUME TreeInv, NEW name, NEW asset, NEW next, WriteStaged(name, asset, next),
           <<name, asset, next>> \in {<<"bundle.json", "manifest", "catalog.json">>,
                                      <<"catalog.json", "catalog", "load">>}
    PROVE  TreeInv'
<1>1. CASE Fail
    BY <1>1, FailInv DEF WriteStaged
<1>2. CASE stage' = Written(stage, <<name>>, got[asset]) /\ pc' = next
           /\ UNCHANGED <<got, entry, bytes>>
    <2> DEFINE files == FilesBelow(stage, <<"skills">>)
               left == FilesBelow(stage', <<"skills">>)
    <2>1. pc = name /\ pc \in Staging /\ name \in {"bundle.json", "catalog.json"}
        BY DEF WriteStaged, Staging
    <2>2. /\ DOMAIN stage \subseteq Seq(FileNames) /\ \A p \in DOMAIN stage : StagedPath(p)
          /\ Sized(files, stage) /\ Cardinality(files) <= entry /\ TotalSize(files, stage) <= bytes
          /\ entry \in 0 .. MaxEntries /\ bytes \in 0 .. MaxTotal
        BY <2>1 DEF TreeInv, StageInv
    <2>3. /\ <<name>> \in Seq(FileNames) /\ stage'[<<name>>] = got[asset]
          /\ DOMAIN stage' = DOMAIN stage \cup {<<name>>}
          /\ \A p \in DOMAIN stage \ {<<name>>} : stage'[p] = stage[p]
          /\ left = files /\ \A p \in files : stage'[p] = stage[p]
        <3>1. <<name>> \in Seq(FileNames) /\ ~IsStrictPrefix(<<"skills">>, <<name>>)
            BY <2>1, StagedName
        <3>2. /\ stage'[<<name>>] = got[asset] /\ DOMAIN stage' = DOMAIN stage \cup {<<name>>}
              /\ \A p \in DOMAIN stage \ {<<name>>} : stage'[p] = stage[p]
            BY <1>2 DEF Written
        <3>3. left = files /\ \A p \in files : stage'[p] = stage[p]
            BY <3>1, <3>2 DEF FilesBelow
        <3> QED BY <3>1, <3>2, <3>3
    <2> HIDE DEF files, left
    <2>4. Sized(left, stage') /\ TotalSize(left, stage') = TotalSize(files, stage)
        <3>1. \A p \in files : SizeOf[stage[p]] = SizeOf[stage'[p]]
            BY <2>3
        <3>2. TotalSize(files, stage') = TotalSize(files, stage)
            BY <2>2, <3>1, TotalOfSame
        <3> QED BY <2>2, <2>3, <3>1, <3>2 DEF Sized
    <2>5. \A p \in DOMAIN stage' : StagedPath(p)'
        BY <1>2, <2>1, <2>2, <2>3 DEF StagedPath
    <2>6. StageInv'
        BY <1>2, <2>1, <2>2, <2>3, <2>4, <2>5 DEF StageInv, Staging, left
    <2>7. WrittenInv'
        <3>1. CASE name = "bundle.json"
            BY <1>2, <2>1, <2>3, <3>1 DEF WrittenInv
        <3>2. CASE name = "catalog.json"
            <4>1. <<"bundle.json">> \in DOMAIN stage /\ stage[<<"bundle.json">>] = got["manifest"]
                BY <2>1, <3>2 DEF TreeInv, WrittenInv
            <4>2. <<"bundle.json">> # <<"catalog.json">>
                OBVIOUS
            <4> QED BY <1>2, <2>1, <2>3, <3>2, <4>1, <4>2 DEF WrittenInv
        <3> QED BY <2>1, <3>1, <3>2
    <2> QED BY <2>6, <2>7 DEF TreeInv
<1> QED BY <1>1, <1>2 DEF WriteStaged, Calling

LEMMA TreeStepInv ==
    ASSUME TreeInv, BuildInv, [Next]_vars
    PROVE  TreeInv'
<1> USE DEF TreeInv
<1>1. ASSUME pc \notin Staging \cup Over, UNCHANGED <<entry, bytes>>, stage' = stage,
             pc' \notin Staging
      PROVE  TreeInv'
    BY <1>1 DEF StageInv, WrittenInv, Staging
<1>2. CASE StartUpload \/ UploadAsset
    BY <1>1, <1>2 DEF StartUpload, UploadAsset, Assets, Staging, Over
<1>3. CASE Download
    <2>1. pc \in Assets /\ pc \notin Staging \cup Over
        BY <1>3 DEF Download, Assets, Staging, Over
    <2>2. ASSUME NEW payload, Receive(pc, payload) PROVE TreeInv'
        <3>1. CASE Fail
            BY <2>1, <3>1, FailInv DEF Over
        <3>2. CASE pc' = After[pc] /\ UNCHANGED <<stage, entry, bytes>>
            <4>1. After[pc] \notin Staging
                BY <2>1 DEF After, Assets, Staging
            <4> QED BY <1>1, <2>1, <3>2, <4>1
        <3> QED BY <2>2, <3>1, <3>2 DEF Receive
    <2>3. CASE Fail
        BY <2>1, <2>3, FailInv DEF Over
    <2> QED BY <1>3, <2>2, <2>3 DEF Download
<1>4. CASE MakeStage
    <2>1. CASE Fail
        BY <1>4, <2>1, FailInv DEF MakeStage
    <2>2. CASE stage' = NoTree /\ pc' = "extract" /\ UNCHANGED <<got, entry, bytes>>
        <3>1. DOMAIN stage' = {} /\ FilesBelow(stage', <<"skills">>) = {}
            BY <2>2 DEF NoTree, FilesBelow
        <3>2. Sized({}, stage') /\ Cardinality({}) = 0
            BY FS_EmptySet DEF Sized
        <3>3. TotalSize({}, stage') = 0
            <4>1. PICK f \in [SUBSET {} -> Nat] : SumsOf(f, {}, Sizes({}, stage'))
                BY <3>2, SizedIsWeighed, SumsExist
            <4>2. f[{}] = 0
                BY <4>1 DEF SumsOf, Summing
            <4> QED BY <3>2, <4>1, <4>2, TotalIsSum
        <3>4. entry' \in 0 .. MaxEntries /\ bytes' \in 0 .. MaxTotal
            BY <2>2 DEF StageInv
        <3>5. /\ Sized(FilesBelow(stage', <<"skills">>), stage')
              /\ Cardinality(FilesBelow(stage', <<"skills">>)) <= entry'
              /\ TotalSize(FilesBelow(stage', <<"skills">>), stage') <= bytes'
            <4>1. 0 <= entry' /\ 0 <= bytes'
                BY <3>4, LimitsAssumption
            <4> QED BY <3>1, <3>2, <3>3, <4>1
        <3>6. StageInv'
            BY <2>2, <3>1, <3>4, <3>5 DEF StageInv, Staging
        <3>7. WrittenInv'
            BY <2>2 DEF WrittenInv
        <3> QED BY <3>6, <3>7
    <2> QED BY <1>4, <2>1, <2>2 DEF MakeStage, Calling
<1>5. CASE Extract
    <2>1. CASE Fail
        BY <1>5, <2>1, FailInv DEF Extract
    <2>2. CASE pc = "extract" /\ entry < Len(got.bundle) /\ Unpack(got.bundle[entry + 1])
        <3>1. got \in AllReleases
            BY <2>2, GotIsRelease DEF Assets, Over
        <3> QED BY <2>2, <3>1, UnpackInv
    <2>3. CASE pc = "extract" /\ pc' = "bundle.json" /\ UNCHANGED <<got, stage, entry, bytes>>
        BY <2>3 DEF StageInv, WrittenInv, StagedPath, Staging
    <2> QED BY <1>5, <2>1, <2>2, <2>3 DEF Extract, Calling
<1>6. CASE WriteStaged("bundle.json", "manifest", "catalog.json")
    BY <1>6, WriteStagedInv
<1>7. CASE WriteStaged("catalog.json", "catalog", "load")
    BY <1>7, WriteStagedInv
<1>8. CASE Load
    <2>1. CASE Fail
        BY <1>8, <2>1, FailInv DEF Load
    <2>2. CASE /\ Validate(stage, stage[<<"bundle.json">>], stage[<<"catalog.json">>])
               /\ pc = "load" /\ pc' = "accepted" /\ UNCHANGED <<got, stage, entry, bytes>>
        BY <2>2 DEF StageInv, WrittenInv, StagedPath, Staging
    <2> QED BY <1>8, <2>1, <2>2 DEF Load, Calling
<1>9. CASE Discard \/ Cleanup
    BY <1>9 DEF Discard, Cleanup, RemoveStage, StageInv, WrittenInv, Staging, Over
<1>10. CASE UNCHANGED vars
    BY <1>10 DEF vars, StageInv, WrittenInv, StagedPath
<1> QED BY <1>2, <1>3, <1>4, <1>5, <1>6, <1>7, <1>8, <1>9, <1>10 DEF Next

\* What is in the staging directory is below skills or written by the client, and
\* within the limits on files and bytes, whatever archive is unpacked.
THEOREM ExtractionIsContained == Spec => []ExtractionContained
<1>1. BuildInv /\ TreeInv /\ [Next]_vars => (BuildInv /\ TreeInv)'
    BY MirrorStepInv, GotStepInv, TreeStepInv DEF BuildInv
<1>2. TreeInv => ExtractionContained
    <2> SUFFICES ASSUME TreeInv, stage # None, pc \notin {"failed", "cleaned"}
                 PROVE  ExtractionContained
        BY DEF ExtractionContained
    <2> DEFINE files == FilesBelow(stage, <<"skills">>)
    <2>1. /\ \A p \in DOMAIN stage : StagedPath(p)
          /\ Sized(files, stage) /\ Cardinality(files) <= entry /\ TotalSize(files, stage) <= bytes
          /\ entry \in 0 .. MaxEntries /\ bytes \in 0 .. MaxTotal
        BY DEF TreeInv, StageInv, Staging, Over
    <2>2. Cardinality(files) \in Nat /\ TotalSize(files, stage) \in Nat
        BY <2>1, TotalIsNat, FS_CardinalityType DEF Sized
    <2> HIDE DEF files
    <2>3. Cardinality(files) <= MaxEntries /\ TotalSize(files, stage) <= MaxTotal
        BY <2>1, <2>2, LimitsAssumption
    <2> QED BY <2>1, <2>3 DEF ExtractionContained, StagedPath, SkillPaths, files, TotalSize
<1> QED BY <1>1, <1>2, BuildInitInv, TreeInitInv, PTL DEF Spec

\* The consumer is given exactly the files the manifest lists, with their content, and
\* a catalog with one entry for each Skill.
THEOREM AcceptedBundleIsExact == Spec => []AcceptedIsExact
<1>1. BuildInv /\ TreeInv /\ [Next]_vars => (BuildInv /\ TreeInv)'
    BY MirrorStepInv, GotStepInv, TreeStepInv DEF BuildInv
<1>2. BuildInv /\ TreeInv => AcceptedIsExact
    <2> SUFFICES ASSUME BuildInv, TreeInv, pc = "accepted" PROVE AcceptedIsExact
        BY DEF AcceptedIsExact
    <2>1. got \in AllReleases
        BY GotIsRelease DEF Assets, Over
    <2>2. /\ IsList(got.manifest.skills) /\ IsList(got.catalog.entries)
          /\ \A skill \in Range(got.manifest.skills) :
                \A file \in Range(skill.files) : file.path \in Seq(STRING)
        BY <2>1, DecodedAssumption DEF AllReleases
    <2>3. \A path \in Seq(STRING) : path \in Seq(FileNames)
        BY SeqMonotonic DEF FileNames
    <2>4. Validate(stage, got.manifest, got.catalog) /\ DOMAIN stage \subseteq Seq(FileNames)
        BY DEF TreeInv, StageInv, WrittenInv, Staging
    <2>5. {<<p, stage[p]>> : p \in FilesBelow(stage, <<"skills">>)}
          = UNION {{<<<<"skills", s.name>> \o f.path, f.digest>> :
                       f \in Range(s.files)} : s \in Range(got.manifest.skills)}
        BY <2>2, <2>3, <2>4, ValidIsExact
    <2>6. ASSUME NEW s \in Range(got.manifest.skills)
          PROVE  Cardinality({i \in DOMAIN got.catalog.entries :
                                got.catalog.entries[i].name = s.name}) = 1
        BY <2>2, <2>4, ValidCatalogIsExact DEF Validate
    <2> QED BY <2>5, <2>6 DEF AcceptedIsExact
<1> QED BY <1>1, <1>2, BuildInitInv, TreeInitInv, PTL DEF Spec

-----------------------------------------------------------------------------
(* What a term is worth, and a query                                         *)

LEMMA MaxIsUnique ==
    ASSUME NEW s \in SUBSET Int, NEW m \in s, \A y \in s : y <= m
    PROVE  Max(s) = m
<1>1. \A y \in s : m >= y
    OBVIOUS
<1>2. Max(s) \in s /\ \A y \in s : Max(s) >= y
    BY <1>1 DEF Max
<1>3. Max(s) \in Int /\ m \in Int /\ Max(s) >= m /\ Max(s) <= m
    BY <1>2
<1> QED BY <1>3

LEMMA LastOfInterval ==
    ASSUME NEW n \in Nat \ {0}
    PROVE  Max(1 .. n) = n /\ (1 .. n) \ {n} = 1 .. n - 1 /\ 1 .. n # {}
<1>1. 1 .. n \in SUBSET Int /\ n \in 1 .. n /\ \A y \in 1 .. n : y <= n
    OBVIOUS
<1>2. Max(1 .. n) = n
    BY <1>1, MaxIsUnique
<1> QED BY <1>1, <1>2

OfFields == <<"keyword", "in_keyword", "in_description", "in_prompt">>

OfName(hits) ==
    IF "name" \in hits THEN 120
    ELSE IF "in_name" \in hits THEN 80
    ELSE IF "display" \in hits THEN 70
    ELSE IF "in_display" \in hits THEN 55 ELSE 0

Raised(hits, best, how) ==
    IF how \in hits /\ best < Weights[how] THEN Weights[how] ELSE best

Raising(hits, f, s) ==
    IF s = {} THEN OfName(hits) ELSE Raised(hits, f[s \ {Max(s)}], OfFields[Max(s)])

LEMMA TermIsFold ==
    \A hits : TermScore(hits) =
        (CHOOSE f : f = [s \in SUBSET DOMAIN OfFields |-> Raising(hits, f, s)])[DOMAIN OfFields]
BY DEF TermScore, FoldLeft, MapThenFoldSet, Raising, Raised, OfName, OfFields

Adding(e, query, f, s) ==
    IF s = {} THEN 0 ELSE f[s \ {Max(s)}] + TermScore(e.meets[query[Max(s)]])

LEMMA ScoreIsFold ==
    \A e, query : Score(e, query) =
        IF \E i \in DOMAIN query : TermScore(e.meets[query[i]]) = 0 THEN 0
        ELSE (CHOOSE f : f = [s \in SUBSET DOMAIN query |-> Adding(e, query, f, s)])
                 [DOMAIN query]
BY DEF Score, FoldLeft, MapThenFoldSet, Adding

Worth(e, q, i) == Max({0} \cup {Weights[how] : how \in e.meets[q[i]]})

SummingWorth(e, q, f, s) ==
    IF s = {} THEN 0 ELSE f[s \ {Chosen(s)}] + Worth(e, q, Chosen(s))

LEMMA RelevanceIsFold ==
    \A e, q : Relevance(e, q) =
        IF \E i \in DOMAIN q : Worth(e, q, i) = 0 THEN 0
        ELSE (CHOOSE f : f = [s \in SUBSET DOMAIN q |-> SummingWorth(e, q, f, s)])[DOMAIN q]
BY DEF Relevance, FoldSet, MapThenFoldSet, SummingWorth, Worth, Chosen

Taken(compatible, most, result, e) ==
    IF e.name \in compatible /\ Len(result) < most THEN Append(result, e) ELSE result

Taking(matches, compatible, most, f, s) ==
    IF s = {} THEN << >>
    ELSE Taken(compatible, most, f[s \ {Max(s)}], matches[Max(s)])

AtMost(limit) == IF limit \in 1 .. 3 THEN limit ELSE 3

LEMMA SuggestIsFold ==
    \A matches, compatible, limit : Suggest(matches, compatible, limit) =
        (CHOOSE f : f = [s \in SUBSET DOMAIN matches |->
                            Taking(matches, compatible, AtMost(limit), f, s)])[DOMAIN matches]
BY DEF Suggest, FoldLeft, MapThenFoldSet, Taking, Taken, AtMost

WeightOf(how) == Weights[how]

LEMMA TheWeights ==
    /\ DOMAIN Weights = {"name", "in_name", "display", "in_display", "keyword", "in_keyword",
                         "in_description", "in_prompt"}
    /\ WeightOf("name") = 120 /\ WeightOf("in_name") = 80 /\ WeightOf("display") = 70
    /\ WeightOf("in_display") = 55 /\ WeightOf("keyword") = 65 /\ WeightOf("in_keyword") = 45
    /\ WeightOf("in_description") = 35 /\ WeightOf("in_prompt") = 20
BY DEF Weights, WeightOf

LEMMA TermUnfolds ==
    ASSUME NEW hits
    PROVE  TermScore(hits) =
              Raised(hits, Raised(hits, Raised(hits, Raised(hits, OfName(hits),
                  "keyword"), "in_keyword"), "in_description"), "in_prompt")
<1> DEFINE Base == OfName(hits)
           Step(i, best) == Raised(hits, best, OfFields[i])
           In(s, i, best) == IF i \in s THEN Step(i, best) ELSE best
           f == [s \in SUBSET (1 .. 4) |-> In(s, 4, In(s, 3, In(s, 2, In(s, 1, Base))))]
           g == CHOOSE h : h = [s \in SUBSET (1 .. 4) |-> Raising(hits, h, s)]
<1>1. DOMAIN OfFields = 1 .. 4
    BY DEF OfFields
<1>2. TermScore(hits) = g[1 .. 4]
    BY <1>1, TermIsFold
<1>3. ASSUME NEW s \in SUBSET (1 .. 4) PROVE f[s] = Raising(hits, f, s)
    <2> HIDE DEF Base, Step
    <2>1. CASE s = {}
        <3>1. f[s] = Base
            BY <2>1
        <3> QED BY <2>1, <3>1 DEF Raising, Base
    <2>2. CASE s # {}
        <3> DEFINE m == Max(s)
        <3>1. m \in s /\ \A i \in s : i <= m
            BY <2>2, MaxIsGreatest
        <3> HIDE DEF m
        <3>2. s \ {m} \in SUBSET (1 .. 4)
            OBVIOUS
        <3>3. f[s] = Step(m, f[s \ {m}])
            <4>1. CASE m = 1
                BY <3>1, <3>2, <4>1
            <4>2. CASE m = 2
                BY <3>1, <3>2, <4>2
            <4>3. CASE m = 3
                BY <3>1, <3>2, <4>3
            <4>4. CASE m = 4
                BY <3>1, <3>2, <4>4
            <4>5. m \in 1 .. 4
                BY <3>1
            <4> QED BY <4>1, <4>2, <4>3, <4>4, <4>5
        <3> HIDE DEF f
        <3> QED BY <2>2, <3>3 DEF Raising, Step, m
    <2> QED BY <2>1, <2>2
<1> HIDE DEF f
<1>4. f = [s \in SUBSET (1 .. 4) |-> Raising(hits, f, s)]
    <2>1. f = [s \in SUBSET (1 .. 4) |-> f[s]]
        BY DEF f
    <2> QED BY <1>3, <2>1
<1>5. g = [s \in SUBSET (1 .. 4) |-> Raising(hits, g, s)]
    BY <1>4
<1> HIDE DEF g, Step
<1>6. ASSUME NEW n \in 1 .. 4 PROVE g[1 .. n] = Step(n, g[1 .. n - 1])
    <2>1. Max(1 .. n) = n /\ (1 .. n) \ {n} = 1 .. n - 1 /\ 1 .. n # {}
        BY LastOfInterval
    <2>2. 1 .. n \in SUBSET (1 .. 4)
        OBVIOUS
    <2>3. g[1 .. n] = Raising(hits, g, 1 .. n)
        BY <1>5, <2>2
    <2> QED BY <2>1, <2>3 DEF Raising, Step
<1>7. g[1 .. 0] = Base
    <2>1. 1 .. 0 = {} /\ 1 .. 0 \in SUBSET (1 .. 4)
        OBVIOUS
    <2>2. g[1 .. 0] = Raising(hits, g, 1 .. 0)
        BY <1>5, <2>1
    <2> QED BY <2>1, <2>2 DEF Raising
<1>8. /\ g[1 .. 1] = Step(1, g[1 .. 0]) /\ g[1 .. 2] = Step(2, g[1 .. 1])
      /\ g[1 .. 3] = Step(3, g[1 .. 2]) /\ g[1 .. 4] = Step(4, g[1 .. 3])
    <2>1. 1 - 1 = 0 /\ 2 - 1 = 1 /\ 3 - 1 = 2 /\ 4 - 1 = 3
        OBVIOUS
    <2>2. g[1 .. 1] = Step(1, g[1 .. 1 - 1]) /\ g[1 .. 2] = Step(2, g[1 .. 2 - 1])
          /\ g[1 .. 3] = Step(3, g[1 .. 3 - 1]) /\ g[1 .. 4] = Step(4, g[1 .. 4 - 1])
        BY <1>6
    <2> QED BY <2>1, <2>2
<1>9. /\ OfFields[1] = "keyword" /\ OfFields[2] = "in_keyword"
      /\ OfFields[3] = "in_description" /\ OfFields[4] = "in_prompt"
    BY DEF OfFields
<1> QED BY <1>2, <1>7, <1>8, <1>9 DEF Step

\* name and display name exclude each other, and what comes after replaces less: together
\* the best of what the term is to the entry.
LEMMA TermIsBest ==
    ASSUME NEW hits
    PROVE  /\ TermScore(hits) \in Nat
           /\ hits \subseteq DOMAIN Weights =>
                 TermScore(hits) = Max({0} \cup {Weights[how] : how \in hits})
<1> DEFINE r0 == OfName(hits)
           r1 == Raised(hits, r0, "keyword")
           r2 == Raised(hits, r1, "in_keyword")
           r3 == Raised(hits, r2, "in_description")
           r4 == Raised(hits, r3, "in_prompt")
           Values == {0} \cup {WeightOf(how) : how \in hits}
<1>1. TermScore(hits) = r4
    BY TermUnfolds
<1>2. \A best, how : Raised(hits, best, how) =
          IF how \in hits /\ best < WeightOf(how) THEN WeightOf(how) ELSE best
    BY DEF Raised, WeightOf
<1>a. 0 \in Values /\ \A how \in hits : WeightOf(how) \in Values
    OBVIOUS
<1> HIDE DEF Values
<1>3. /\ r0 \in Nat /\ r0 \in Values
      /\ "name" \in hits => r0 >= 120
      /\ "in_name" \in hits => r0 >= 80
      /\ "display" \in hits => r0 >= 70
      /\ "in_display" \in hits => r0 >= 55
    <2>1. CASE "name" \in hits
        <3>1. r0 = 120
            BY <2>1 DEF OfName
        <3> QED BY <1>a, <2>1, <3>1, TheWeights
    <2>2. CASE "name" \notin hits /\ "in_name" \in hits
        <3>1. r0 = 80
            BY <2>2 DEF OfName
        <3> QED BY <1>a, <2>2, <3>1, TheWeights
    <2>3. CASE "name" \notin hits /\ "in_name" \notin hits /\ "display" \in hits
        <3>1. r0 = 70
            BY <2>3 DEF OfName
        <3> QED BY <1>a, <2>3, <3>1, TheWeights
    <2>4. CASE /\ "name" \notin hits /\ "in_name" \notin hits
               /\ "display" \notin hits /\ "in_display" \in hits
        <3>1. r0 = 55
            BY <2>4 DEF OfName
        <3> QED BY <1>a, <2>4, <3>1, TheWeights
    <2>5. CASE /\ "name" \notin hits /\ "in_name" \notin hits
               /\ "display" \notin hits /\ "in_display" \notin hits
        <3>1. r0 = 0
            BY <2>5 DEF OfName
        <3> QED BY <1>a, <2>5, <3>1
    <2> QED BY <2>1, <2>2, <2>3, <2>4, <2>5
<1> HIDE DEF r0
<1>4. ASSUME NEW best \in Nat, best \in Values,
             NEW how \in {"keyword", "in_keyword", "in_description", "in_prompt"}
      PROVE  /\ Raised(hits, best, how) \in Nat /\ Raised(hits, best, how) \in Values
             /\ Raised(hits, best, how) >= best
             /\ how \in hits => Raised(hits, best, how) >= WeightOf(how)
    <2>1. WeightOf(how) \in Nat
        BY TheWeights
    <2>2. CASE how \in hits /\ best < WeightOf(how)
        <3>1. Raised(hits, best, how) = WeightOf(how)
            BY <1>2, <2>2
        <3> QED BY <1>4, <1>a, <2>1, <2>2, <3>1
    <2>3. CASE ~(how \in hits /\ best < WeightOf(how))
        <3>1. Raised(hits, best, how) = best
            BY <1>2, <2>3
        <3> QED BY <1>4, <2>1, <2>3, <3>1
    <2> QED BY <2>2, <2>3
<1>5. /\ r1 \in Nat /\ r1 \in Values /\ r1 >= r0
      /\ "keyword" \in hits => r1 >= WeightOf("keyword")
    BY <1>3, <1>4
<1> HIDE DEF r1
<1>6. /\ r2 \in Nat /\ r2 \in Values /\ r2 >= r1
      /\ "in_keyword" \in hits => r2 >= WeightOf("in_keyword")
    BY <1>4, <1>5
<1> HIDE DEF r2
<1>7. /\ r3 \in Nat /\ r3 \in Values /\ r3 >= r2
      /\ "in_description" \in hits => r3 >= WeightOf("in_description")
    BY <1>4, <1>6
<1> HIDE DEF r3
<1>8. /\ r4 \in Nat /\ r4 \in Values /\ r4 >= r3
      /\ "in_prompt" \in hits => r4 >= WeightOf("in_prompt")
    BY <1>4, <1>7
<1> HIDE DEF r4
<1>9. ASSUME hits \subseteq DOMAIN Weights PROVE r4 = Max(Values)
    <2>1. \A how \in hits : WeightOf(how) \in Nat /\ WeightOf(how) <= r4
        BY <1>3, <1>5, <1>6, <1>7, <1>8, <1>9, TheWeights
    <2>2. Values \in SUBSET Int /\ \A y \in Values : y <= r4
        BY <1>8, <2>1 DEF Values
    <2> QED BY <1>8, <2>2, MaxIsUnique
<1>10. Values = {0} \cup {Weights[how] : how \in hits}
    BY DEF Values, WeightOf
<1> QED BY <1>1, <1>8, <1>9, <1>10

\* What a query is worth to an entry is the sum of what its terms are worth, in whatever
\* order they are added up.
LEMMA ScoreIsRelevance ==
    ASSUME NEW e, NEW q, IsList(q), \A i \in DOMAIN q : e.meets[q[i]] \subseteq DOMAIN Weights
    PROVE  Score(e, q) \in Nat /\ Score(e, q) = Relevance(e, q)
<1> DEFINE N == Len(q)
           D == DOMAIN q
           w == [i \in D |-> TermScore(e.meets[q[i]])]
           g == CHOOSE f : f = [s \in SUBSET D |-> Adding(e, q, f, s)]
           h == CHOOSE f : f = [s \in SUBSET D |-> SummingWorth(e, q, f, s)]
<1>1. N \in Nat /\ D = 1 .. N
    BY DEF IsList
<1>2. \A i \in D : /\ w[i] = TermScore(e.meets[q[i]]) /\ w[i] \in Nat
                   /\ w[i] = Worth(e, q, i)
    BY <1>1, TermIsBest DEF Worth
<1>3. Score(e, q) = IF \E i \in D : w[i] = 0 THEN 0 ELSE g[D]
    <2>1. Score(e, q) = IF \E i \in D : TermScore(e.meets[q[i]]) = 0 THEN 0 ELSE g[D]
        BY ScoreIsFold
    <2> HIDE DEF g
    <2> QED BY <2>1
<1>4. Relevance(e, q) = IF \E i \in D : w[i] = 0 THEN 0 ELSE h[D]
    <2>1. Relevance(e, q) = IF \E i \in D : Worth(e, q, i) = 0 THEN 0 ELSE h[D]
        BY RelevanceIsFold
    <2> HIDE DEF h, w
    <2> QED BY <1>2, <2>1
<1> HIDE DEF w
<1>5. Weighed(D, w)
    <2>1. IsFiniteSet(D)
        BY <1>1, FS_Interval
    <2> QED BY <1>2, <2>1 DEF Weighed
<1>6. PICK F \in [SUBSET D -> Nat] : SumsOf(F, D, w)
    BY <1>5, SumsExist
<1>7. Additive(F, D, w)
    BY <1>5, <1>6, SumWithout
<1>8. F[{}] = 0
    BY <1>6 DEF SumsOf, Summing
<1>9. ASSUME NEW s \in SUBSET D, s # {}
      PROVE  Max(s) \in s /\ Max(s) \in D /\ Chosen(s) \in s /\ Chosen(s) \in D
    BY <1>1, <1>9, MaxIsGreatest, ChosenIsMember
<1>10. F = [s \in SUBSET D |-> Adding(e, q, F, s)]
    <2>1. ASSUME NEW s \in SUBSET D PROVE F[s] = Adding(e, q, F, s)
        <3>1. CASE s = {}
            BY <1>8, <3>1 DEF Adding
        <3>2. CASE s # {}
            <4>1. Max(s) \in s /\ Max(s) \in D
                BY <1>9, <3>2
            <4>2. F[s] = F[s \ {Max(s)}] + w[Max(s)]
                BY <1>7, <4>1 DEF Additive
            <4> QED BY <1>2, <3>2, <4>1, <4>2 DEF Adding
        <3> QED BY <3>1, <3>2
    <2>2. F = [s \in SUBSET D |-> F[s]]
        BY <1>6
    <2> QED BY <2>1, <2>2
<1>11. g = [s \in SUBSET D |-> Adding(e, q, g, s)]
    BY <1>10
<1>12. \A f : \A s \in SUBSET D : SummingWorth(e, q, f, s) = Summing(w, f, s)
    BY <1>2, <1>9 DEF SummingWorth, Summing
<1>13. \A f : SumsOf(f, D, w) <=> f = [s \in SUBSET D |-> SummingWorth(e, q, f, s)]
    BY <1>12 DEF SumsOf
<1>14. SumsOf(h, D, w)
    <2>1. h = [s \in SUBSET D |-> SummingWorth(e, q, h, s)]
        BY <1>6, <1>13
    <2> QED BY <1>13, <2>1
<1> HIDE DEF g, h
<1>15. h[D] = F[D]
    <2>1. D \in SUBSET (D \cap D) /\ \A i \in D : w[i] = w[i]
        OBVIOUS
    <2> HIDE DEF D
    <2> QED BY <1>5, <1>6, <1>14, <2>1, SumsAgree
<1>16. g[D] = F[D]
    <2> DEFINE Bad == {n \in 0 .. N : g[1 .. n] # F[1 .. n]}
    <2>1. SUFFICES ASSUME Bad # {} PROVE FALSE
        BY <1>1
    <2>2. Bad \in SUBSET Nat
        BY <1>1
    <2>3. PICK n \in Bad : \A m \in Bad : n <= m
        BY <2>1, <2>2, LeastNumber
    <2>4. n # 0
        <3>1. 1 .. 0 = {} /\ {} \in SUBSET D
            OBVIOUS
        <3>2. g[{}] = 0
            BY <1>11, <3>1 DEF Adding
        <3> QED BY <1>8, <2>3, <3>1, <3>2
    <2>5. n \in Nat \ {0} /\ n \in D /\ n - 1 \in 0 .. N /\ ~(n <= n - 1)
        BY <1>1, <2>3, <2>4
    <2>6. g[1 .. n - 1] = F[1 .. n - 1]
        <3>1. n - 1 \notin Bad
            <4> HIDE DEF Bad
            <4> QED BY <2>3, <2>5
        <3> QED BY <2>5, <3>1
    <2>7. Max(1 .. n) = n /\ (1 .. n) \ {n} = 1 .. n - 1 /\ 1 .. n # {} /\ n \in 1 .. n
        <3>1. n \in 1 .. n
            BY <2>5
        <3> HIDE DEF Bad
        <3> QED BY <2>5, <3>1, LastOfInterval
    <2>8. 1 .. n \in SUBSET D
        BY <1>1, <2>5
    <2>9. g[1 .. n] = Adding(e, q, g, 1 .. n)
        BY <1>11, <2>8
    <2>10. g[1 .. n] = g[1 .. n - 1] + w[n]
        BY <1>2, <2>5, <2>7, <2>9 DEF Adding
    <2>11. F[1 .. n] = F[1 .. n - 1] + w[n]
        BY <1>7, <2>7, <2>8 DEF Additive
    <2> QED BY <2>3, <2>6, <2>10, <2>11
<1>17. F[D] \in Nat
    BY <1>6
<1> QED BY <1>3, <1>4, <1>15, <1>16, <1>17

-----------------------------------------------------------------------------
(* A finite set has one sequence in a strict total order                      *)

OneToOne(f, S, T) == f \in [S -> T] /\ \A a, b \in S : f[a] = f[b] => a = b
Fills(f, S, T) == \A t \in T : \E x \in S : f[x] = t

LEMMA InjectionFills ==
    ASSUME NEW S, NEW T, IsFiniteSet(S), IsFiniteSet(T), Cardinality(S) = Cardinality(T),
           NEW f, OneToOne(f, S, T)
    PROVE  Fills(f, S, T)
<1>1. f \in Injection(S, T)
    BY DEF OneToOne, Injection, IsInjective
<1>2. f \in Surjection(S, T)
    BY <1>1, FS_Injection
<1> QED BY <1>2 DEF Fills, Surjection

Image(f, S) == {f[x] : x \in S}

LEMMA ImageSize ==
    ASSUME NEW S, IsFiniteSet(S), NEW f, \A a, b \in S : f[a] = f[b] => a = b
    PROVE  IsFiniteSet(Image(f, S)) /\ Cardinality(Image(f, S)) = Cardinality(S)
<1> DEFINE g == [x \in S |-> f[x]]
           T == Image(f, S)
<1>1. g \in Surjection(S, T)
    BY DEF Surjection, Image
<1>2. g \in Injection(S, T)
    BY <1>1 DEF Injection, Surjection, IsInjective
<1> HIDE DEF g, T
<1> QED BY <1>1, <1>2, FS_Surjection DEF T

TotalOrder(H, less) ==
    /\ \A i \in H : <<i, i>> \notin less
    /\ \A i, j, k \in H : <<i, j>> \in less /\ <<j, k>> \in less => <<i, k>> \in less
    /\ \A i, j \in H : i = j \/ <<i, j>> \in less \/ <<j, i>> \in less

UpTo(H, less, i) == {h \in H : h = i \/ <<h, i>> \in less}
Place(H, less, i) == Cardinality(UpTo(H, less, i))

LEMMA PlaceGrows ==
    ASSUME NEW H, NEW less, IsFiniteSet(H), TotalOrder(H, less),
           NEW i \in H, NEW j \in H, <<i, j>> \in less
    PROVE  Place(H, less, i) < Place(H, less, j)
<1> DEFINE I == UpTo(H, less, i)
           J == UpTo(H, less, j)
<1>1. I \in SUBSET J /\ j \in J /\ j \notin I
    BY DEF UpTo, TotalOrder
<1>2. IsFiniteSet(J)
    BY FS_Subset DEF UpTo
<1> HIDE DEF I, J
<1>3. Cardinality(I) <= Cardinality(J) /\ Cardinality(I) # Cardinality(J)
    BY <1>1, <1>2, FS_Subset
<1>4. Cardinality(I) \in Nat /\ Cardinality(J) \in Nat
    BY <1>1, <1>2, FS_Subset, FS_CardinalityType
<1> QED BY <1>3, <1>4 DEF I, J, Place

LEMMA PlacesFill ==
    ASSUME NEW H, NEW less, IsFiniteSet(H), TotalOrder(H, less)
    PROVE  /\ \A i \in H : Place(H, less, i) \in 1 .. Cardinality(H)
           /\ \A i, j \in H : Place(H, less, i) = Place(H, less, j) => i = j
           /\ \A n \in 1 .. Cardinality(H) : \E i \in H : Place(H, less, i) = n
<1> DEFINE C == Cardinality(H)
           f == [i \in H |-> Place(H, less, i)]
<1>1. C \in Nat
    BY FS_CardinalityType
<1>2. ASSUME NEW i \in H PROVE Place(H, less, i) \in 1 .. C
    <2> DEFINE I == UpTo(H, less, i)
    <2>1. I \in SUBSET H /\ i \in I
        BY DEF UpTo
    <2> HIDE DEF I
    <2>2. IsFiniteSet(I) /\ Cardinality(I) <= C /\ Cardinality(I) \in Nat
        BY <2>1, FS_Subset, FS_CardinalityType
    <2>3. Cardinality(I) # 0
        BY <2>1, <2>2, FS_EmptySet
    <2> QED BY <1>1, <2>2, <2>3 DEF I, Place
<1>3. ASSUME NEW i \in H, NEW j \in H, Place(H, less, i) = Place(H, less, j) PROVE i = j
    <2>1. Place(H, less, i) \in Nat /\ Place(H, less, j) \in Nat
        BY <1>1, <1>2
    <2>2. ~(Place(H, less, i) < Place(H, less, j)) /\ ~(Place(H, less, j) < Place(H, less, i))
        BY <1>3, <2>1
    <2> QED BY <2>2, PlaceGrows DEF TotalOrder
<1>4. IsFiniteSet(1 .. C) /\ Cardinality(1 .. C) = C
    BY <1>1, FS_Interval
<1>5. OneToOne(f, H, 1 .. C)
    BY <1>2, <1>3 DEF OneToOne
<1>6. Fills(f, H, 1 .. C)
    <2> HIDE DEF f
    <2> QED BY <1>4, <1>5, InjectionFills
<1>7. \A n \in 1 .. C : \E i \in H : Place(H, less, i) = n
    BY <1>6 DEF Fills
<1> QED BY <1>2, <1>3, <1>7

InOrder(s, less) == \A j, k \in DOMAIN s : j < k => <<s[k], s[j]>> \notin less

LEMMA InPlace ==
    ASSUME NEW H, NEW less, IsFiniteSet(H), TotalOrder(H, less),
           NEW s \in SetToSeqs(H), InOrder(s, less)
    PROVE  \A j \in 1 .. Cardinality(H) : Place(H, less, s[j]) = j
<1> DEFINE C == Cardinality(H)
<1>1. C \in Nat
    BY FS_CardinalityType
<1>2. /\ s \in [1 .. C -> H] /\ DOMAIN s = 1 .. C
      /\ \A i, j \in 1 .. C : s[i] = s[j] => i = j
    BY DEF SetToSeqs
<1>3. IsFiniteSet(1 .. C) /\ Cardinality(1 .. C) = C
    BY <1>1, FS_Interval
<1>4. \A h \in H : \E k \in 1 .. C : s[k] = h
    <2>1. OneToOne(s, 1 .. C, H)
        BY <1>2 DEF OneToOne
    <2> HIDE DEF C
    <2>2. C = Cardinality(H)
        BY DEF C
    <2>3. Fills(s, 1 .. C, H)
        BY <1>3, <2>1, <2>2, InjectionFills
    <2> QED BY <2>3 DEF Fills
<1> SUFFICES ASSUME NEW j \in 1 .. C PROVE Place(H, less, s[j]) = j
    OBVIOUS
<1> HIDE DEF C
<1>5. UpTo(H, less, s[j]) = Image(s, 1 .. j)
    <2>1. ASSUME NEW k \in 1 .. j PROVE s[k] \in UpTo(H, less, s[j])
        <3>1. k \in 1 .. C /\ (k = j \/ k < j)
            BY <1>1
        <3>2. s[k] \in H /\ s[j] \in H /\ (k < j => <<s[j], s[k]>> \notin less /\ s[j] # s[k])
            BY <1>2, <3>1 DEF InOrder
        <3> QED BY <3>1, <3>2 DEF UpTo, TotalOrder
    <2>2. ASSUME NEW h \in UpTo(H, less, s[j]) PROVE \E k \in 1 .. j : s[k] = h
        <3>1. h \in H /\ (h = s[j] \/ <<h, s[j]>> \in less)
            BY DEF UpTo
        <3>2. PICK k \in 1 .. C : s[k] = h
            BY <1>4, <3>1
        <3>3. ~(j < k)
            BY <1>1, <1>2, <3>1, <3>2 DEF InOrder
        <3>4. k \in 1 .. j
            BY <1>1, <3>3
        <3> QED BY <3>2, <3>4
    <2> QED BY <2>1, <2>2 DEF Image
<1>6. IsFiniteSet(1 .. j) /\ Cardinality(1 .. j) = j
    BY <1>1, FS_Interval
<1>7. \A a, b \in 1 .. j : s[a] = s[b] => a = b
    BY <1>1, <1>2
<1>8. Cardinality(Image(s, 1 .. j)) = j
    BY <1>6, <1>7, ImageSize
<1> QED BY <1>5, <1>8 DEF Place

LEMMA OneOrder ==
    ASSUME NEW H, NEW less, IsFiniteSet(H), TotalOrder(H, less)
    PROVE  \E s \in SetToSeqs(H) :
              InOrder(s, less) /\ \A t \in SetToSeqs(H) : InOrder(t, less) => t = s
<1> DEFINE C == Cardinality(H)
           s == [n \in 1 .. C |-> CHOOSE i \in H : Place(H, less, i) = n]
<1>1. C \in Nat
    BY FS_CardinalityType
<1>2. \A n \in 1 .. C : s[n] \in H /\ Place(H, less, s[n]) = n
    BY PlacesFill
<1>3. s = [n \in 1 .. C |-> s[n]]
    OBVIOUS
<1> HIDE DEF s
<1>4. s \in [1 .. C -> H] /\ DOMAIN s = 1 .. C
    BY <1>2, <1>3
<1>5. s \in SetToSeqs(H)
    <2>1. \A i, j \in 1 .. C : i # j => s[i] # s[j]
        BY <1>2
    <2> QED BY <1>4, <2>1 DEF SetToSeqs
<1>6. InOrder(s, less)
    <2> SUFFICES ASSUME NEW j \in 1 .. C, NEW k \in 1 .. C, j < k, <<s[k], s[j]>> \in less
                 PROVE  FALSE
        BY <1>4 DEF InOrder
    <2>1. Place(H, less, s[k]) < Place(H, less, s[j])
        BY <1>2, PlaceGrows
    <2>2. k < j
        BY <1>2, <2>1
    <2> QED BY <1>1, <2>2
<1>7. ASSUME NEW t \in SetToSeqs(H), InOrder(t, less) PROVE t = s
    <2>1. t \in [1 .. C -> H]
        BY DEF SetToSeqs
    <2>2. \A n \in 1 .. C : Place(H, less, t[n]) = n
        BY <1>7, InPlace
    <2>3. ASSUME NEW n \in 1 .. C PROVE t[n] = s[n]
        <3>1. t[n] \in H /\ s[n] \in H /\ Place(H, less, t[n]) = Place(H, less, s[n])
            BY <1>2, <2>1, <2>2
        <3> QED BY <3>1, PlacesFill
    <2>4. t = [n \in 1 .. C |-> t[n]] /\ s = [n \in 1 .. C |-> s[n]]
        BY <1>4, <2>1
    <2> HIDE DEF C
    <2> QED BY <2>3, <2>4
<1> QED BY <1>5, <1>6, <1>7

-----------------------------------------------------------------------------
(* Search                                                                    *)

Hits(E, q) == {i \in DOMAIN E : E[i].role = "entry" /\ Score(E[i], q) > 0}
BeforeIn(E, q) ==
    {p \in Hits(E, q) \X Hits(E, q) : Before(E[p[1]], E[p[2]], q, Rank)}
At(E, s) == [j \in DOMAIN s |-> E[s[j]]]
Sorted(E, q) == {s \in SetToSeqs(Hits(E, q)) : InOrder(s, BeforeIn(E, q))}

LEMMA SearchesSorted ==
    ASSUME NEW catalog, NEW q
    PROVE  Searches(catalog, q, Rank) =
              {At(catalog.entries, s) : s \in Sorted(catalog.entries, q)}
<1> DEFINE E == catalog.entries
           H == Hits(E, q)
<1>1. ASSUME NEW s \in SetToSeqs(H)
      PROVE  (\A j, k \in DOMAIN s : j < k => ~Before(E[s[k]], E[s[j]], q, Rank))
             <=> InOrder(s, BeforeIn(E, q))
    <2>1. \A j \in DOMAIN s : s[j] \in H
        BY DEF SetToSeqs
    <2> HIDE DEF H, E
    <2>2. \A j, k \in DOMAIN s :
             <<s[k], s[j]>> \in BeforeIn(E, q) <=> Before(E[s[k]], E[s[j]], q, Rank)
        BY <2>1 DEF BeforeIn, H
    <2> QED BY <2>2 DEF InOrder
<1>2. Searches(catalog, q, Rank) =
        {At(E, s) : s \in {s \in SetToSeqs(H) :
            \A j, k \in DOMAIN s : j < k => ~Before(E[s[k]], E[s[j]], q, Rank)}}
    BY DEF Searches, Hits, At
<1> HIDE DEF H, E
<1>3. {s \in SetToSeqs(H) :
            \A j, k \in DOMAIN s : j < k => ~Before(E[s[k]], E[s[j]], q, Rank)}
      = {s \in SetToSeqs(H) : InOrder(s, BeforeIn(E, q))}
    BY <1>1
<1> QED BY <1>2, <1>3 DEF Sorted, H, E

\* Entries of a release that can be told apart by their names
Catalogs == {r.catalog : r \in AllReleases}

LEMMA EntriesRank ==
    ASSUME NEW c \in Catalogs, NEW q \in Queries, NEW i \in DOMAIN c.entries
    PROVE  /\ IsList(c.entries) /\ IsList(q)
           /\ Score(c.entries[i], q) \in Nat
           /\ Score(c.entries[i], q) = Relevance(c.entries[i], q)
           /\ Rank[c.entries[i].name] \in Nat
           /\ \A j \in DOMAIN c.entries :
                 Rank[c.entries[i].name] = Rank[c.entries[j].name]
                 => c.entries[i].name = c.entries[j].name
<1>1. PICK r \in Releases \cup Uploads : c = r.catalog
    BY DEF Catalogs, AllReleases
<1>2. \A j \in DOMAIN c.entries : c.entries[j] \in Range(r.catalog.entries)
    BY <1>1 DEF Range
<1>3. /\ Rank[c.entries[i].name] \in Nat
      /\ \A j \in DOMAIN c.entries :
                 Rank[c.entries[i].name] = Rank[c.entries[j].name]
                 => c.entries[i].name = c.entries[j].name
    BY <1>2, SearchAssumption
<1>4. IsList(q) /\ \A k \in DOMAIN q : c.entries[i].meets[q[k]] \subseteq DOMAIN Weights
    BY <1>2, SearchAssumption
<1>5. IsList(c.entries)
    BY <1>1, DecodedAssumption
<1> QED BY <1>3, <1>4, <1>5, ScoreIsRelevance

LEMMA HitsAreOrdered ==
    ASSUME NEW c \in Catalogs, NEW q \in Queries, Unique(c.entries)
    PROVE  /\ IsFiniteSet(Hits(c.entries, q))
           /\ TotalOrder(Hits(c.entries, q), BeforeIn(c.entries, q))
<1> DEFINE E == c.entries
           H == Hits(E, q)
           score == [i \in H |-> Score(E[i], q)]
           rank == [i \in H |-> Rank[E[i].name]]
<1>1. H \in SUBSET DOMAIN E
    BY DEF Hits
<1>2. CASE H = {}
    BY <1>2, FS_EmptySet DEF TotalOrder
<1>3. CASE H # {}
    <2>1. IsList(E)
        BY <1>1, <1>3, EntriesRank
    <2>2. \A i, j \in DOMAIN E : E[i].name = E[j].name => i = j
        BY <2>1, UniqueNames
    <2>3. IsFiniteSet(H)
        <3>1. Len(E) \in Nat /\ DOMAIN E = 1 .. Len(E)
            BY <2>1 DEF IsList
        <3>2. IsFiniteSet(DOMAIN E)
            BY <3>1, FS_Interval
        <3> QED BY <1>1, <3>2, FS_Subset
    <2>4. \A i \in H : score[i] \in Nat /\ rank[i] \in Nat
        BY <1>1, EntriesRank
    <2>5. \A i, j \in H : rank[i] = rank[j] => i = j
        <3> SUFFICES ASSUME NEW i \in H, NEW j \in H, rank[i] = rank[j] PROVE i = j
            OBVIOUS
        <3>1. i \in DOMAIN E /\ j \in DOMAIN E /\ Rank[E[i].name] = Rank[E[j].name]
            BY <1>1
        <3>2. E[i].name = E[j].name
            BY <3>1, EntriesRank
        <3> QED BY <2>2, <3>1, <3>2
    <2>6. \A i, j \in H : <<i, j>> \in BeforeIn(E, q) <=>
              score[i] > score[j] \/ (score[i] = score[j] /\ rank[i] < rank[j])
        BY DEF BeforeIn, Before
    <2> HIDE DEF H, E, score, rank
    <2>7. TotalOrder(H, BeforeIn(E, q))
        BY <2>4, <2>5, <2>6 DEF TotalOrder
    <2> QED BY <2>3, <2>7 DEF H, E
<1> QED BY <1>2, <1>3

\* sort.Slice has no choice: there is one sequence that is sorted.
LEMMA OneSearch ==
    ASSUME NEW c \in Catalogs, NEW q \in Queries, Unique(c.entries)
    PROVE  \E s \in Sorted(c.entries, q) : Searches(c, q, Rank) = {At(c.entries, s)}
<1> DEFINE H == Hits(c.entries, q)
           less == BeforeIn(c.entries, q)
<1>1. IsFiniteSet(H) /\ TotalOrder(H, less)
    BY HitsAreOrdered
<1> HIDE DEF H, less
<1>2. PICK s \in SetToSeqs(H) :
         InOrder(s, less) /\ \A t \in SetToSeqs(H) : InOrder(t, less) => t = s
    BY <1>1, OneOrder
<1>3. Sorted(c.entries, q) = {s}
    BY <1>2 DEF Sorted, H, less
<1>4. Searches(c, q, Rank) = {At(c.entries, s)}
    BY <1>3, SearchesSorted
<1> QED BY <1>3, <1>4

LEMMA AcceptedCatalog ==
    ASSUME BuildInv, TreeInv, pc = "accepted"
    PROVE  got.catalog \in Catalogs /\ Unique(got.catalog.entries)
<1>1. got \in AllReleases
    BY GotIsRelease DEF Assets, Over
<1>2. Validate(stage, got.manifest, got.catalog)
    BY DEF TreeInv, WrittenInv
<1> QED BY <1>1, <1>2 DEF Catalogs, Validate, ValidCatalog

\* Whatever order the entries of an accepted catalog are in, and whatever sort.Slice does
\* with entries it takes for equal: there are none, and Search has one answer.
THEOREM SearchHasOneAnswer == Spec => []SearchIgnoresOrder
<1>1. BuildInv /\ TreeInv /\ [Next]_vars => (BuildInv /\ TreeInv)'
    BY MirrorStepInv, GotStepInv, TreeStepInv DEF BuildInv
<1>2. BuildInv /\ TreeInv => SearchIgnoresOrder
    <2> SUFFICES ASSUME BuildInv, TreeInv, pc = "accepted", NEW q \in Queries
                 PROVE  Cardinality(Searches(got.catalog, q, Rank)) = 1
        BY DEF SearchIgnoresOrder
    <2>1. PICK s : Searches(got.catalog, q, Rank) = {At(got.catalog.entries, s)}
        BY AcceptedCatalog, OneSearch
    <2> QED BY <2>1, FS_Singleton
<1> QED BY <1>1, <1>2, BuildInitInv, TreeInitInv, PTL DEF Spec

-----------------------------------------------------------------------------
(* Suggest, of a list in which nothing is there twice                        *)

Fit(m, compatible, n) == {i \in 1 .. n : m[i].name \in compatible}

\* result is what Suggest has of the first n matches: it left out a compatible one only
\* when it was full, of matches before that one.
Kept(result, m, compatible, most, n) ==
    /\ result \in Seq(Range(m)) /\ Len(result) <= most
    /\ IsFiniteSet(Range(result)) /\ Cardinality(Range(result)) = Len(result)
    /\ Range(result) \subseteq Image(m, Fit(m, compatible, n))
    /\ Len(result) = most \/ Image(m, Fit(m, compatible, n)) \subseteq Range(result)
    /\ \A i \in Fit(m, compatible, n) : \A r \in Range(result) :
          m[i] \notin Range(result) => \E j \in Fit(m, compatible, n) : j < i /\ r = m[j]

LEMMA RangeOfAppend ==
    ASSUME NEW S, NEW s \in Seq(S), NEW x \in S
    PROVE  /\ Append(s, x) \in Seq(S) /\ Len(Append(s, x)) = Len(s) + 1
           /\ Range(Append(s, x)) = Range(s) \cup {x}
<1> DEFINE t == Append(s, x)
           N == Len(s)
<1>1. N \in Nat /\ DOMAIN s = 1 .. N
    BY LenProperties
<1>2. /\ t \in Seq(S) /\ Len(t) = N + 1 /\ DOMAIN t = 1 .. N + 1
      /\ \A i \in 1 .. N : t[i] = s[i]
      /\ t[N + 1] = x
    BY <1>1, AppendProperties, LenProperties
<1> HIDE DEF t, N
<1>3. \A i \in 1 .. N + 1 : i \in 1 .. N \/ i = N + 1
    BY <1>1
<1>4. Range(t) = Range(s) \cup {x}
    <2>1. ASSUME NEW i \in DOMAIN t PROVE t[i] \in Range(s) \cup {x}
        BY <1>1, <1>2, <1>3 DEF Range
    <2>2. ASSUME NEW i \in DOMAIN s PROVE s[i] \in Range(t)
        <3>1. i \in 1 .. N + 1
            BY <1>1
        <3> QED BY <1>1, <1>2, <3>1 DEF Range
    <2>3. x \in Range(t)
        <3>1. N + 1 \in 1 .. N + 1
            BY <1>1
        <3> QED BY <1>2, <3>1 DEF Range
    <2> QED BY <2>1, <2>2, <2>3 DEF Range
<1> QED BY <1>2, <1>4 DEF t, N

LEMMA TakenKeeps ==
    ASSUME NEW N \in Nat, NEW m, DOMAIN m = 1 .. N, OneToOne(m, 1 .. N, Range(m)),
           NEW compatible, NEW most \in Nat, NEW n \in 1 .. N,
           NEW result, Kept(result, m, compatible, most, n - 1)
    PROVE  Kept(Taken(compatible, most, result, m[n]), m, compatible, most, n)
<1> DEFINE Old == Fit(m, compatible, n - 1)
           New == Fit(m, compatible, n)
           x == m[n]
<1>1. /\ result \in Seq(Range(m)) /\ Len(result) \in Nat /\ Len(result) <= most
      /\ IsFiniteSet(Range(result)) /\ Cardinality(Range(result)) = Len(result)
      /\ Range(result) \subseteq Image(m, Old)
      /\ Len(result) = most \/ Image(m, Old) \subseteq Range(result)
      /\ \A i \in Old : \A r \in Range(result) :
            m[i] \notin Range(result) => \E j \in Old : j < i /\ r = m[j]
    BY LenProperties DEF Kept
<1>2. /\ Old \in SUBSET (1 .. N) /\ \A j \in Old : j < n /\ j # n
      /\ x \in Range(m)
      /\ \A i, j \in 1 .. N : m[i] = m[j] => i = j
    BY DEF Fit, Range, OneToOne
<1>3. New = IF x.name \in compatible THEN Old \cup {n} ELSE Old
    BY DEF Fit
<1> HIDE DEF Old, New, x
<1>4. CASE x.name \in compatible /\ Len(result) < most
    <2> DEFINE t == Append(result, x)
    <2>1. Taken(compatible, most, result, m[n]) = t
        BY <1>4 DEF Taken, x
    <2>2. t \in Seq(Range(m)) /\ Len(t) = Len(result) + 1 /\ Range(t) = Range(result) \cup {x}
        BY <1>1, <1>2, RangeOfAppend
    <2> HIDE DEF t
    <2>3. x \notin Image(m, Old)
        BY <1>2 DEF Image, x
    <2>4. IsFiniteSet(Range(t)) /\ Cardinality(Range(t)) = Len(t)
        <3>1. x \notin Range(result)
            BY <1>1, <2>3
        <3> DEFINE K == Range(result)
        <3>2. IsFiniteSet(K) /\ Cardinality(K) = Len(result) /\ x \notin K
            BY <1>1, <3>1
        <3> HIDE DEF K
        <3>3. IsFiniteSet(K \cup {x}) /\ Cardinality(K \cup {x}) = Len(result) + 1
            BY <3>2, FS_AddElement
        <3> QED BY <2>2, <3>3 DEF K
    <2>5. Image(m, New) = Image(m, Old) \cup {x}
        BY <1>3, <1>4 DEF Image, x
    <2>6. Image(m, Old) \subseteq Range(result)
        BY <1>1, <1>4
    <2>7. Range(t) = Image(m, New)
        BY <1>1, <2>2, <2>5, <2>6
    <2>8. \A i \in New : m[i] \in Range(t)
        BY <2>7 DEF Image
    <2>9. Len(t) <= most
        BY <1>1, <1>4, <2>2
    <2> QED BY <2>1, <2>2, <2>4, <2>7, <2>8, <2>9 DEF Kept, New
<1>5. CASE x.name \in compatible /\ ~(Len(result) < most)
    <2>1. Taken(compatible, most, result, m[n]) = result
        BY <1>5 DEF Taken, x
    <2>2. Len(result) = most
        BY <1>1, <1>5
    <2>3. Image(m, Old) \subseteq Image(m, New) /\ New = Old \cup {n}
        BY <1>3, <1>5 DEF Image
    <2>4. ASSUME NEW i \in New, NEW r \in Range(result), m[i] \notin Range(result)
          PROVE  \E j \in New : j < i /\ r = m[j]
        <3>1. CASE i \in Old
            BY <1>1, <2>3, <2>4, <3>1
        <3>2. CASE i = n
            <4>1. PICK j \in Old : r = m[j]
                BY <1>1 DEF Image
            <4> QED BY <1>2, <2>3, <3>2, <4>1
        <3> QED BY <2>3, <3>1, <3>2
    <2> QED BY <1>1, <2>1, <2>2, <2>3, <2>4 DEF Kept, New
<1>6. CASE x.name \notin compatible
    <2>1. Taken(compatible, most, result, m[n]) = result /\ New = Old
        BY <1>3, <1>6 DEF Taken, x
    <2> QED BY <1>1, <2>1 DEF Kept, New
<1> QED BY <1>4, <1>5, <1>6

LEMMA TakenType ==
    ASSUME NEW m, NEW compatible, NEW most, NEW i \in DOMAIN m, NEW result \in Seq(Range(m))
    PROVE  Taken(compatible, most, result, m[i]) \in Seq(Range(m))
<1>1. m[i] \in Range(m)
    BY DEF Range
<1> QED BY <1>1, RangeOfAppend DEF Taken

LEMMA TakingExists ==
    ASSUME NEW N \in Nat, NEW m, DOMAIN m = 1 .. N, NEW compatible, NEW most
    PROVE  \E f : f = [s \in SUBSET (1 .. N) |-> Taking(m, compatible, most, f, s)]
<1> DEFINE T == Seq(Range(m))
           start == << >>
           step == [i \in 1 .. N |-> [r \in T |-> Taken(compatible, most, r, m[i])]]
<1>1. start \in T
    BY EmptySeq
<1>2. Steps(step, N, T)
    BY TakenType DEF Steps
<1>3. \A i \in 1 .. N : \A r \in T : step[i][r] = Taken(compatible, most, r, m[i])
    OBVIOUS
<1>4. start = << >>
    OBVIOUS
<1> HIDE DEF step, start, T
<1>5. PICK f : Folds(f, step, N, start, T)
    BY <1>1, <1>2, FoldExists
<1>6. /\ f \in [SUBSET (1 .. N) -> T]
      /\ \A s \in SUBSET (1 .. N) : f[s] = Folding(step, start, f, s)
    BY <1>5 DEF Folds
<1>7. ASSUME NEW s \in SUBSET (1 .. N) PROVE f[s] = Taking(m, compatible, most, f, s)
    <2>1. CASE s = {}
        BY <1>4, <1>6, <2>1 DEF Folding, Taking
    <2>2. CASE s # {}
        <3>1. Max(s) \in 1 .. N
            BY <2>2, MaxIsGreatest
        <3>2. f[s \ {Max(s)}] \in T
            BY <1>6
        <3>3. step[Max(s)][f[s \ {Max(s)}]]
              = Taken(compatible, most, f[s \ {Max(s)}], m[Max(s)])
            BY <1>3, <3>1, <3>2
        <3> QED BY <1>6, <2>2, <3>3 DEF Folding, Taking
    <2> QED BY <2>1, <2>2
<1>8. f = [s \in SUBSET (1 .. N) |-> f[s]]
    BY <1>6
<1> QED BY <1>7, <1>8

LEMMA SuggestKeeps ==
    ASSUME NEW N \in Nat, NEW m, DOMAIN m = 1 .. N, OneToOne(m, 1 .. N, Range(m)),
           NEW compatible, NEW limit
    PROVE  Kept(Suggest(m, compatible, limit), m, compatible, AtMost(limit), N)
<1> DEFINE most == AtMost(limit)
           g == CHOOSE f : f = [s \in SUBSET (1 .. N) |-> Taking(m, compatible, most, f, s)]
           Bad == {n \in 0 .. N : ~Kept(g[1 .. n], m, compatible, most, n)}
<1>1. most \in Nat
    BY DEF AtMost
<1>2. Suggest(m, compatible, limit) = g[1 .. N]
    BY SuggestIsFold
<1> HIDE DEF most
<1>3. g = [s \in SUBSET (1 .. N) |-> Taking(m, compatible, most, g, s)]
    BY TakingExists
<1> HIDE DEF g
<1>4. Bad = {}
    <2>1. SUFFICES ASSUME Bad # {} PROVE FALSE
        OBVIOUS
    <2>2. Bad \in SUBSET Nat
        OBVIOUS
    <2>3. PICK n \in Bad : \A k \in Bad : n <= k
        BY <2>1, <2>2, LeastNumber
    <2>4. n \in 0 .. N /\ ~Kept(g[1 .. n], m, compatible, most, n)
        BY <2>3
    <2>5. n # 0
        <3>1. 1 .. 0 = {} /\ 1 .. 0 \in SUBSET (1 .. N)
            OBVIOUS
        <3> DEFINE start == << >>
        <3>2. g[1 .. 0] = start
            BY <1>3, <3>1 DEF Taking
        <3>3. Range(start) = {} /\ Len(start) = 0 /\ start \in Seq(Range(m))
            BY EmptySeq DEF Range
        <3>4. Fit(m, compatible, 0) = {} /\ Image(m, {}) = {}
            BY <3>1 DEF Fit, Image
        <3>5. IsFiniteSet({}) /\ Cardinality({}) = 0
            BY FS_EmptySet
        <3> HIDE DEF start
        <3>6. Kept(start, m, compatible, most, 0)
            <4>1. IsFiniteSet(Range(start)) /\ Cardinality(Range(start)) = Len(start)
                BY <3>3, <3>5
            <4>2. Image(m, Fit(m, compatible, 0)) = {}
                BY <3>4
            <4>3. /\ \A i \in Fit(m, compatible, 0) : FALSE
                  /\ Range(start) \subseteq Image(m, Fit(m, compatible, 0))
                  /\ Image(m, Fit(m, compatible, 0)) \subseteq Range(start)
                BY <3>3, <3>4, <4>2
            <4>4. Len(start) <= most
                BY <1>1, <3>3
            <4> QED BY <3>3, <4>1, <4>3, <4>4 DEF Kept
        <3> QED BY <2>4, <3>2, <3>6
    <2>6. n \in 1 .. N /\ n \in Nat \ {0} /\ n - 1 \in 0 .. N /\ ~(n <= n - 1)
        BY <2>4, <2>5
    <2>7. Kept(g[1 .. n - 1], m, compatible, most, n - 1)
        <3>1. n - 1 \notin Bad
            <4> HIDE DEF Bad
            <4> QED BY <2>3, <2>6
        <3> QED BY <2>6, <3>1
    <2>8. g[1 .. n] = Taken(compatible, most, g[1 .. n - 1], m[n])
        <3>1. Max(1 .. n) = n /\ (1 .. n) \ {n} = 1 .. n - 1 /\ 1 .. n # {}
            BY <2>6, LastOfInterval
        <3>2. 1 .. n \in SUBSET (1 .. N)
            BY <2>6
        <3>3. g[1 .. n] = Taking(m, compatible, most, g, 1 .. n)
            BY <1>3, <3>2
        <3> QED BY <3>1, <3>3 DEF Taking
    <2> QED BY <1>1, <2>4, <2>6, <2>7, <2>8, TakenKeeps
<1>5. N \in 0 .. N
    OBVIOUS
<1> QED BY <1>2, <1>4, <1>5 DEF most

LEMMA MinIsUnique ==
    ASSUME NEW s \in SUBSET Int, NEW m \in s, \A y \in s : m <= y
    PROVE  Min(s) = m
<1>1. Min(s) \in s /\ \A y \in s : Min(s) <= y
    BY DEF Min
<1>2. Min(s) \in Int /\ m \in Int /\ Min(s) <= m /\ Min(s) >= m
    BY <1>1
<1> QED BY <1>2

\* The matches of a search, better ones first
LEMMA MatchesInOrder ==
    ASSUME NEW c \in Catalogs, NEW q \in Queries, Unique(c.entries),
           NEW s \in Sorted(c.entries, q)
    PROVE  LET m == At(c.entries, s)
               N == Cardinality(Hits(c.entries, q))
           IN  /\ N \in Nat /\ DOMAIN m = 1 .. N
               /\ OneToOne(m, 1 .. N, Range(m))
               /\ Range(m) = {e \in Range(c.entries) :
                                 e.role = "entry" /\ Relevance(e, q) > 0}
               /\ \A i, j \in 1 .. N :
                     j < i => Relevance(m[j], q) >= Relevance(m[i], q)
<1> DEFINE E == c.entries
           H == Hits(E, q)
           m == At(E, s)
           N == Cardinality(H)
<1>1. IsFiniteSet(H) /\ TotalOrder(H, BeforeIn(E, q))
    BY HitsAreOrdered
<1>2. N \in Nat
    BY <1>1, FS_CardinalityType
<1>3. /\ s \in [1 .. N -> H] /\ DOMAIN s = 1 .. N
      /\ \A i, j \in 1 .. N : s[i] = s[j] => i = j
    BY DEF Sorted, SetToSeqs
<1>4. InOrder(s, BeforeIn(E, q))
    BY DEF Sorted
<1>5. DOMAIN m = 1 .. N /\ \A j \in 1 .. N : m[j] = E[s[j]]
    BY <1>3 DEF At
<1>6. \A j \in 1 .. N : s[j] \in H /\ s[j] \in DOMAIN E
    BY <1>3 DEF Hits
<1> HIDE DEF m, N
<1>7. ASSUME NEW i \in 1 .. N, NEW j \in 1 .. N, m[i] = m[j] PROVE i = j
    <2>1. IsList(E) /\ Unique(E)
        BY <1>6, EntriesRank
    <2>2. E[s[i]].name = E[s[j]].name
        BY <1>5, <1>7
    <2>3. s[i] = s[j]
        BY <1>6, <2>1, <2>2, UniqueNames
    <2> QED BY <1>3, <2>3
<1>8. OneToOne(m, 1 .. N, Range(m))
    <2>1. m \in [1 .. N -> Range(m)]
        <3>1. m = [j \in DOMAIN m |-> m[j]]
            BY DEF m, At
        <3>2. \A j \in 1 .. N : m[j] \in Range(m)
            BY <1>5 DEF Range
        <3> QED BY <1>5, <3>1, <3>2
    <2> QED BY <1>7, <2>1 DEF OneToOne
<1>9. \A h \in H : \E k \in 1 .. N : s[k] = h
    <2>1. OneToOne(s, 1 .. N, H)
        BY <1>3 DEF OneToOne
    <2>2. IsFiniteSet(1 .. N) /\ Cardinality(1 .. N) = N
        BY <1>2, FS_Interval
    <2>3. Fills(s, 1 .. N, H)
        BY <1>1, <2>1, <2>2, InjectionFills DEF N
    <2> QED BY <2>3 DEF Fills
<1> DEFINE Matches == {e \in Range(E) : e.role = "entry" /\ Relevance(e, q) > 0}
<1>10. \A i \in DOMAIN E : i \in H <=> E[i].role = "entry" /\ Relevance(E[i], q) > 0
    BY EntriesRank DEF Hits
<1>11. Range(m) = Matches
    <2>1. ASSUME NEW j \in 1 .. N PROVE m[j] \in Matches
        BY <1>5, <1>6, <1>10 DEF Range
    <2>2. ASSUME NEW e \in Matches PROVE e \in Range(m)
        <3>1. PICK i \in DOMAIN E : e = E[i]
            BY DEF Range
        <3>2. i \in H
            BY <1>10, <3>1
        <3>3. PICK k \in 1 .. N : s[k] = i
            BY <1>9, <3>2
        <3> QED BY <1>5, <3>1, <3>3 DEF Range
    <2> HIDE DEF Matches
    <2> QED BY <1>5, <2>1, <2>2 DEF Range
<1>12. ASSUME NEW i \in 1 .. N, NEW j \in 1 .. N, j < i
       PROVE  Relevance(m[j], q) >= Relevance(m[i], q)
    <2>1. <<s[i], s[j]>> \notin BeforeIn(E, q)
        BY <1>3, <1>4, <1>12 DEF InOrder
    <2>2. ~(Score(E[s[i]], q) > Score(E[s[j]], q))
        BY <1>6, <2>1 DEF BeforeIn, Before
    <2>3. /\ Score(E[s[i]], q) \in Nat /\ Score(E[s[i]], q) = Relevance(E[s[i]], q)
          /\ Score(E[s[j]], q) \in Nat /\ Score(E[s[j]], q) = Relevance(E[s[j]], q)
        BY <1>6, EntriesRank
    <2> QED BY <1>5, <2>2, <2>3
<1> QED BY <1>2, <1>5, <1>8, <1>11, <1>12 DEF m, N

\* SuggestKeepsBest, of one answer
KeepsBest(entries, q, result, compatible, limit) ==
    LET kept == Range(result)
        may == {e \in Range(entries) :
                   /\ e.role = "entry" /\ e.name \in compatible
                   /\ Relevance(e, q) > 0}
    IN  /\ kept \subseteq may
        /\ Cardinality(kept) = Min({Cardinality(may), 3}
                                   \cup (IF limit <= 0 THEN {} ELSE {limit}))
        /\ \A e \in may \ kept, k \in kept : Relevance(k, q) >= Relevance(e, q)

LEMMA SuggestionsAreBest ==
    ASSUME NEW c \in Catalogs, NEW q \in Queries, Unique(c.entries),
           NEW s \in Sorted(c.entries, q), NEW compatible, NEW limit \in -1 .. 4
    PROVE  KeepsBest(c.entries, q, Suggest(At(c.entries, s), compatible, limit),
                     compatible, limit)
<1> DEFINE m == At(c.entries, s)
           N == Cardinality(Hits(c.entries, q))
           most == AtMost(limit)
           result == Suggest(m, compatible, limit)
           kept == Range(result)
           F == Fit(m, compatible, N)
           may == {e \in Range(c.entries) :
                      e.role = "entry" /\ e.name \in compatible /\ Relevance(e, q) > 0}
<1>1. /\ N \in Nat /\ DOMAIN m = 1 .. N
      /\ OneToOne(m, 1 .. N, Range(m))
      /\ Range(m) = {e \in Range(c.entries) : e.role = "entry" /\ Relevance(e, q) > 0}
      /\ \A i, j \in 1 .. N : j < i => Relevance(m[j], q) >= Relevance(m[i], q)
    BY MatchesInOrder
<1>2. most \in 1 .. 3 /\ (IF limit <= 0 THEN most = 3 ELSE most = IF limit = 4 THEN 3 ELSE limit)
    BY DEF AtMost
<1> HIDE DEF m, N, most
<1>3. Kept(result, m, compatible, most, N)
    BY <1>1, SuggestKeeps DEF most
<1>4. may = Image(m, F)
    <2>1. ASSUME NEW i \in F PROVE m[i] \in may
        <3>1. i \in DOMAIN m /\ m[i].name \in compatible
            BY <1>1 DEF Fit
        <3>2. m[i] \in Range(m)
            BY <3>1 DEF Range
        <3> QED BY <1>1, <3>1, <3>2
    <2>2. ASSUME NEW e \in may PROVE \E i \in F : e = m[i]
        <3>1. e \in Range(m) /\ e.name \in compatible
            BY <1>1
        <3>2. PICK i \in DOMAIN m : e = m[i]
            BY <3>1 DEF Range
        <3> QED BY <1>1, <3>1, <3>2 DEF Fit
    <2> HIDE DEF may, F
    <2> QED BY <2>1, <2>2 DEF Image
<1>5. F \in SUBSET (1 .. N)
    BY DEF Fit
<1>6. IsFiniteSet(may) /\ Cardinality(may) \in Nat
    <2>1. IsFiniteSet(F)
        <3>1. IsFiniteSet(1 .. N)
            BY <1>1, FS_Interval
        <3> HIDE DEF F
        <3> QED BY <1>5, <3>1, FS_Subset
    <2>2. \A a, b \in F : m[a] = m[b] => a = b
        BY <1>1, <1>5 DEF OneToOne
    <2> HIDE DEF F, may
    <2> QED BY <1>4, <2>1, <2>2, ImageSize, FS_CardinalityType
<1>7. /\ IsFiniteSet(kept) /\ Cardinality(kept) = Len(result) /\ Len(result) <= most
      /\ Len(result) \in Nat /\ kept \subseteq may
      /\ Len(result) = most \/ may \subseteq kept
    <2>1. Len(result) \in Nat
        BY <1>3, LenProperties DEF Kept
    <2> HIDE DEF may, result
    <2> QED BY <1>3, <1>4, <2>1 DEF Kept
<1>8. Cardinality(kept) <= Cardinality(may) /\ (may \subseteq kept => may = kept)
    BY <1>6, <1>7, FS_Subset
<1>9. Cardinality(kept) = Min({Cardinality(may), 3} \cup (IF limit <= 0 THEN {} ELSE {limit}))
    <2> DEFINE n == Cardinality(may)
               Bounds == {n, 3} \cup (IF limit <= 0 THEN {} ELSE {limit})
    <2>1. n \in Nat /\ Len(result) <= n /\ (Len(result) = most \/ Len(result) = n)
        BY <1>6, <1>7, <1>8
    <2> HIDE DEF n, result
    <2>2. Bounds \in SUBSET Int /\ \A y \in Bounds : Len(result) <= y
        BY <1>2, <1>7, <2>1
    <2>3. Len(result) \in Bounds
        <3>1. CASE Len(result) = n
            BY <3>1
        <3>2. CASE Len(result) = most
            BY <1>2, <3>2
        <3> QED BY <2>1, <3>1, <3>2
    <2> HIDE DEF Bounds
    <2>4. Min(Bounds) = Len(result)
        BY <2>2, <2>3, MinIsUnique
    <2> QED BY <1>7, <2>4 DEF Bounds, n
<1>10. ASSUME NEW e \in may \ kept, NEW k \in kept PROVE Relevance(k, q) >= Relevance(e, q)
    <2>1. PICK i \in F : e = m[i]
        BY <1>4 DEF Image
    <2>2. PICK j \in F : j < i /\ k = m[j]
        BY <1>3, <2>1 DEF Kept
    <2> QED BY <1>1, <1>5, <2>1, <2>2
<1> QED BY <1>7, <1>9, <1>10 DEF m, KeepsBest

\* Of the compatible matches of an accepted catalog Suggest returns as many as it may, and
\* leaves out none for a less relevant one, in whatever order the catalog has them.
THEOREM SuggestionsAreTheBest == Spec => []SuggestKeepsBest
<1>1. BuildInv /\ TreeInv /\ [Next]_vars => (BuildInv /\ TreeInv)'
    BY MirrorStepInv, GotStepInv, TreeStepInv DEF BuildInv
<1>2. BuildInv /\ TreeInv => SuggestKeepsBest
    <2> SUFFICES ASSUME BuildInv, TreeInv, pc = "accepted",
                        NEW q \in Queries, NEW compatible \in SUBSET DOMAIN Rank,
                        NEW limit \in -1 .. 4, NEW m \in Searches(got.catalog, q, Rank)
                 PROVE  KeepsBest(got.catalog.entries, q, Suggest(m, compatible, limit),
                                  compatible, limit)
        BY DEF SuggestKeepsBest, KeepsBest
    <2>1. got.catalog \in Catalogs /\ Unique(got.catalog.entries)
        BY AcceptedCatalog
    <2>2. PICK s \in Sorted(got.catalog.entries, q) : m = At(got.catalog.entries, s)
        BY <2>1, SearchesSorted
    <2> QED BY <2>1, <2>2, SuggestionsAreBest
<1> QED BY <1>1, <1>2, BuildInitInv, TreeInitInv, PTL DEF Spec

-----------------------------------------------------------------------------
(* Paths without dots, and the paths of an archive                           *)

LEMMA PrefixIs ==
    ASSUME NEW S, NEW path \in Seq(S), NEW n \in 0 .. Len(path)
    PROVE  /\ SubSeq(path, 1, n) \in Seq(S) /\ Len(SubSeq(path, 1, n)) = n
           /\ \A i \in 1 .. n : SubSeq(path, 1, n)[i] = path[i]
<1>1. Len(path) \in Nat /\ \A i \in 1 .. Len(path) : path[i] \in S
    BY LenProperties, ElementOfSeq
<1>2. n \in Nat /\ 1 \in Int /\ n \in Int /\ n - 1 + 1 = n /\ \A i \in 1 .. n : path[i] \in S
    BY <1>1
<1> DEFINE q == SubSeq(path, 1, n)
<1>3. /\ q \in Seq(S) /\ Len(q) = IF 1 <= n THEN n - 1 + 1 ELSE 0
      /\ \A i \in 1 .. n - 1 + 1 : q[i] = path[1 + i - 1]
    BY <1>2, SubSeqProperties
<1> HIDE DEF q
<1>4. \A i \in 1 .. n : i \in 1 .. n - 1 + 1 /\ 1 + i - 1 = i
    BY <1>2
<1> QED BY <1>2, <1>3, <1>4 DEF q

LEMMA PrefixGrows ==
    ASSUME NEW S, NEW path \in Seq(S), NEW n \in 1 .. Len(path)
    PROVE  Append(SubSeq(path, 1, n - 1), path[n]) = SubSeq(path, 1, n)
<1> DEFINE p == SubSeq(path, 1, n - 1)
           q == SubSeq(path, 1, n)
           t == Append(p, path[n])
<1>1. Len(path) \in Nat /\ path[n] \in S /\ n \in 0 .. Len(path) /\ n - 1 \in 0 .. Len(path)
    BY LenProperties, ElementOfSeq
<1>2. p \in Seq(S) /\ Len(p) = n - 1 /\ \A i \in 1 .. n - 1 : p[i] = path[i]
    BY <1>1, PrefixIs
<1>3. q \in Seq(S) /\ Len(q) = n /\ \A i \in 1 .. n : q[i] = path[i]
    BY <1>1, PrefixIs
<1> HIDE DEF p, q
<1>4. /\ t \in Seq(S) /\ Len(t) = Len(p) + 1
      /\ \A i \in 1 .. Len(p) : t[i] = p[i]
      /\ t[Len(p) + 1] = path[n]
    BY <1>1, <1>2, AppendProperties
<1> HIDE DEF t
<1>5. Len(t) = n /\ \A i \in 1 .. n : t[i] = path[i]
    <2>1. Len(p) + 1 = n
        BY <1>1, <1>2
    <2>2. \A i \in 1 .. n : i \in 1 .. n - 1 \/ i = n
        BY <1>1
    <2> QED BY <1>2, <1>4, <2>1, <2>2
<1>6. t = q
    BY <1>3, <1>4, <1>5, SeqEqual
<1> QED BY <1>6 DEF p, q, t

LEMMA PlainIsClean ==
    ASSUME NEW path \in Seq(FileNames), ".." \notin Range(path)
    PROVE  Clean(path) = path
<1> DEFINE N == Len(path)
           f == CHOOSE g : g = [s \in SUBSET DOMAIN path |-> Cleaning(path, g, s)]
           Bad == {n \in 0 .. N : f[1 .. n] # SubSeq(path, 1, n)}
<1>1. f = [s \in SUBSET DOMAIN path |-> Cleaning(path, f, s)]
    BY CleaningExists
<1>2. Clean(path) = f[DOMAIN path]
    BY CleanIsFold
<1> HIDE DEF f
<1>3. N \in Nat /\ DOMAIN path = 1 .. N
    BY LenProperties
<1>4. Bad = {}
    <2>1. SUFFICES ASSUME Bad # {} PROVE FALSE
        OBVIOUS
    <2>2. Bad \in SUBSET Nat
        BY <1>3
    <2>3. PICK n \in Bad : \A m \in Bad : n <= m
        BY <2>1, <2>2, LeastNumber
    <2>4. n \in 0 .. N /\ f[1 .. n] # SubSeq(path, 1, n)
        BY <2>3
    <2>5. n # 0
        <3> DEFINE start == << >>
        <3>1. 1 .. 0 = {} /\ {} \in SUBSET DOMAIN path
            OBVIOUS
        <3>2. f[{}] = start
            BY <1>1, <3>1 DEF Cleaning
        <3>3. SubSeq(path, 1, 0) = start
            BY SubSeqEmpty
        <3> HIDE DEF start
        <3> QED BY <2>4, <3>1, <3>2, <3>3
    <2>6. n \in 1 .. N /\ n \in Nat \ {0} /\ n - 1 \in 0 .. N /\ ~(n <= n - 1)
        BY <1>3, <2>4, <2>5
    <2>7. f[1 .. n - 1] = SubSeq(path, 1, n - 1)
        <3>1. n - 1 \notin Bad
            <4> HIDE DEF Bad
            <4> QED BY <2>3, <2>6
        <3> QED BY <2>6, <3>1
    <2>8. f[1 .. n] = CleanStep(f[1 .. n - 1], path[n])
        <3>1. Max(1 .. n) = n /\ (1 .. n) \ {n} = 1 .. n - 1 /\ 1 .. n # {}
            BY <2>6, LastOfInterval
        <3>2. 1 .. n \in SUBSET DOMAIN path
            BY <1>3, <2>6
        <3>3. f[1 .. n] = Cleaning(path, f, 1 .. n)
            BY <1>1, <3>2
        <3> QED BY <3>1, <3>3 DEF Cleaning
    <2>9. path[n] # ".."
        BY <1>3, <2>6 DEF Range
    <2>10. CleanStep(f[1 .. n - 1], path[n]) = Append(SubSeq(path, 1, n - 1), path[n])
        BY <2>7, <2>9 DEF CleanStep
    <2> QED BY <2>4, <2>6, <2>8, <2>10, PrefixGrows
<1>5. f[1 .. N] = SubSeq(path, 1, N)
    BY <1>3, <1>4
<1> QED BY <1>2, <1>3, <1>5, SubSeqFull

LEMMA PrefixesOfFront ==
    ASSUME NEW S, NEW path \in Seq(S), path # << >>, NEW q \in Prefixes(Front(path))
    PROVE  q \in Prefixes(path) \ {path}
<1>1. Len(path) \in Nat \ {0} /\ Len(path) - 1 \in 0 .. Len(path)
    BY LenProperties, EmptySeq
<1> DEFINE r == Front(path)
<1>2. r \in Seq(S) /\ Len(r) = Len(path) - 1 /\ \A i \in 1 .. Len(path) - 1 : r[i] = path[i]
    BY <1>1, PrefixIs DEF Front
<1> HIDE DEF r
<1>3. PICK n \in 0 .. Len(r) : q = SubSeq(r, 1, n)
    BY DEF Prefixes, r
<1>4. n \in 0 .. Len(path) /\ n < Len(path)
    BY <1>1, <1>2
<1>5. q \in Seq(S) /\ Len(q) = n /\ \A i \in 1 .. n : q[i] = r[i]
    BY <1>2, <1>3, PrefixIs
<1> DEFINE p == SubSeq(path, 1, n)
<1>6. p \in Seq(S) /\ Len(p) = n /\ \A i \in 1 .. n : p[i] = path[i]
    BY <1>4, PrefixIs
<1>7. p \in Prefixes(path)
    BY <1>4 DEF Prefixes
<1> HIDE DEF p
<1>8. ASSUME NEW i \in 1 .. n PROVE q[i] = p[i]
    <2>1. i \in 1 .. Len(path) - 1
        BY <1>1, <1>4
    <2> QED BY <1>2, <1>5, <1>6, <2>1
<1>9. q = p
    BY <1>5, <1>6, <1>8, SeqEqual
<1>10. q # path
    BY <1>4, <1>5
<1> QED BY <1>7, <1>9, <1>10

-----------------------------------------------------------------------------
(* The tree an archive of source stands for                                  *)

\* The source of a release: directories with names, and what is in them
IsSource(source) ==
    \A name \in DOMAIN source :
        name \in STRING \ {".."} /\ IsTree(source[name]) /\ Inventoriable(source[name])

InSkill(name, p) == <<"skills", name>> \o p

\* v is at path in the tree.
Planned(source, path, v) ==
    \/ path = <<"skills">> /\ v = Dir
    \/ \E name \in DOMAIN source : path = <<"skills", name>> /\ v = Dir
    \/ \E name \in DOMAIN source : \E p \in DOMAIN source[name] :
          path = InSkill(name, p) /\ v = source[name][p]

LEMMA SourcePath ==
    ASSUME NEW source, IsSource(source), NEW name \in DOMAIN source,
           NEW p \in DOMAIN source[name]
    PROVE  LET full == InSkill(name, p)
           IN  /\ p \in Seq(FileNames) /\ Len(p) \in Nat \ {0} /\ full \in Seq(FileNames)
               /\ Len(full) = Len(p) + 2 /\ full[1] = "skills" /\ full[2] = name
               /\ \A i \in 1 .. Len(p) : full[i + 2] = p[i]
               /\ \A i \in 1 .. Len(p) : p[i] # ".."
<1> DEFINE full == InSkill(name, p)
<1>1. p \in Seq(STRING) /\ p # << >> /\ ".." \notin Range(p) /\ name \in STRING
    BY DEF IsSource, IsTree
<1>2. p \in Seq(FileNames) /\ Len(p) \in Nat \ {0} /\ DOMAIN p = 1 .. Len(p)
    BY <1>1, SeqMonotonic, LenProperties, EmptySeq DEF FileNames
<1>3. /\ full \in Seq(STRING \cup {"skills", name}) /\ Len(full) = Len(p) + 2
      /\ full[1] = "skills" /\ full[2] = name
      /\ \A i \in 1 .. Len(p) : full[i + 2] = p[i]
    BY <1>1, SkillPath DEF InSkill
<1>4. full \in Seq(FileNames)
    <2>1. STRING \cup {"skills", name} \subseteq FileNames
        BY <1>1 DEF FileNames
    <2> HIDE DEF full, FileNames
    <2> QED BY <1>3, <2>1, SeqMonotonic
<1>5. \A i \in 1 .. Len(p) : p[i] # ".."
    BY <1>1, <1>2 DEF Range
<1> QED BY <1>2, <1>3, <1>4, <1>5

\* The directories above the Skills
LEMMA TopPaths ==
    /\ <<"skills">> \in Seq(FileNames) /\ Len(<<"skills">>) = 1 /\ <<"skills">>[1] = "skills"
    /\ \A name \in STRING :
          /\ <<"skills", name>> \in Seq(FileNames) /\ Len(<<"skills", name>>) = 2
          /\ <<"skills", name>>[1] = "skills" /\ <<"skills", name>>[2] = name
BY DEF FileNames

\* A path says of which Skill and which of its paths it is.
LEMMA PlannedOnce ==
    ASSUME NEW source, IsSource(source), NEW path, NEW v, NEW w,
           Planned(source, path, v), Planned(source, path, w)
    PROVE  v = w
<1> DEFINE Deep(x) == \E name \in DOMAIN source : \E p \in DOMAIN source[name] :
                            path = InSkill(name, p) /\ x = source[name][p]
<1>1. \A name \in DOMAIN source : name \in STRING
    BY DEF IsSource
<1>2. ASSUME NEW x, Planned(source, path, x)
      PROVE  (Len(path) \in {1, 2} /\ x = Dir) \/ (Len(path) \notin {1, 2} /\ Deep(x))
    <2>1. CASE path = <<"skills">> /\ x = Dir
        BY <2>1, TopPaths
    <2>2. CASE \E name \in DOMAIN source : path = <<"skills", name>> /\ x = Dir
        BY <1>1, <2>2, TopPaths
    <2>3. CASE Deep(x)
        <3>1a. PICK name \in DOMAIN source : \E p \in DOMAIN source[name] :
                    path = InSkill(name, p) /\ x = source[name][p]
            BY <2>3
        <3>1. PICK p \in DOMAIN source[name] : path = InSkill(name, p) /\ x = source[name][p]
            BY <3>1a
        <3>2. Len(path) = Len(p) + 2 /\ Len(p) \in Nat \ {0}
            BY <3>1, SourcePath
        <3>3. Len(path) \notin {1, 2}
            BY <3>2
        <3> QED BY <2>3, <3>3
    <2> QED BY <1>2, <2>1, <2>2, <2>3 DEF Planned
<1>3. CASE Len(path) \notin {1, 2}
    <2>0. Deep(v) /\ Deep(w)
        <3> HIDE DEF Deep
        <3> QED BY <1>2, <1>3
    <2>1a. PICK n \in DOMAIN source : \E p \in DOMAIN source[n] :
                path = InSkill(n, p) /\ v = source[n][p]
        BY <2>0
    <2>1. PICK p \in DOMAIN source[n] : path = InSkill(n, p) /\ v = source[n][p]
        BY <2>1a
    <2>2a. PICK m \in DOMAIN source : \E q \in DOMAIN source[m] :
                path = InSkill(m, q) /\ w = source[m][q]
        BY <2>0
    <2>2. PICK q \in DOMAIN source[m] : path = InSkill(m, q) /\ w = source[m][q]
        BY <2>2a
    <2>3. /\ p \in Seq(FileNames) /\ Len(path) = Len(p) + 2 /\ path[2] = n /\ Len(p) \in Nat
          /\ \A i \in 1 .. Len(p) : path[i + 2] = p[i]
        BY <2>1, SourcePath
    <2>4. /\ q \in Seq(FileNames) /\ Len(path) = Len(q) + 2 /\ path[2] = m /\ Len(q) \in Nat
          /\ \A i \in 1 .. Len(q) : path[i + 2] = q[i]
        BY <2>2, SourcePath
    <2>5. m = n /\ Len(p) = Len(q) /\ \A i \in 1 .. Len(p) : p[i] = q[i]
        BY <2>3, <2>4
    <2>6. p = q
        BY <2>3, <2>4, <2>5, SeqEqual
    <2> QED BY <2>1, <2>2, <2>5, <2>6
<1>4. CASE Len(path) \in {1, 2}
    <2> HIDE DEF Deep
    <2> QED BY <1>2, <1>4
<1> QED BY <1>3, <1>4

\* It is a path MkdirAll and WriteFile take as it is.
LEMMA PlannedPath ==
    ASSUME NEW source, IsSource(source), NEW path, NEW v, Planned(source, path, v)
    PROVE  /\ path \in Seq(FileNames) /\ path # << >> /\ Clean(path) = path
           /\ path[1] = "skills" /\ Head(path) = "skills"
<1>1. \A name \in DOMAIN source : name \in STRING /\ name # ".."
    BY DEF IsSource
<1>2. /\ path \in Seq(FileNames) /\ Len(path) \in Nat \ {0} /\ path[1] = "skills"
      /\ \A i \in 1 .. Len(path) : path[i] # ".."
    <2>1. CASE path = <<"skills">>
        <3>1. \A i \in 1 .. 1 : i = 1
            OBVIOUS
        <3> QED BY <2>1, <3>1, TopPaths
    <2>2. CASE \E name \in DOMAIN source : path = <<"skills", name>>
        <3>1. PICK name \in DOMAIN source : path = <<"skills", name>>
            BY <2>2
        <3>2. path \in Seq(FileNames) /\ Len(path) = 2 /\ path[1] = "skills" /\ path[2] = name
            BY <1>1, <3>1, TopPaths
        <3>3. \A i \in 1 .. 2 : i = 1 \/ i = 2
            OBVIOUS
        <3>4. name # ".."
            BY <1>1
        <3> QED BY <3>2, <3>3, <3>4
    <2>3. CASE \E name \in DOMAIN source : \E p \in DOMAIN source[name] : path = InSkill(name, p)
        <3>1a. PICK name \in DOMAIN source : \E p \in DOMAIN source[name] :
                    path = InSkill(name, p)
            BY <2>3
        <3>1. PICK p \in DOMAIN source[name] : path = InSkill(name, p)
            BY <3>1a
        <3>2. /\ path \in Seq(FileNames) /\ Len(path) = Len(p) + 2 /\ Len(p) \in Nat \ {0}
              /\ path[1] = "skills" /\ path[2] = name
              /\ \A i \in 1 .. Len(p) : path[i + 2] = p[i]
              /\ \A i \in 1 .. Len(p) : p[i] # ".."
            BY <3>1, SourcePath
        <3>3. ASSUME NEW i \in 1 .. Len(path) PROVE path[i] # ".."
            <4>1. CASE i > 2
                <5>1. i - 2 \in 1 .. Len(p) /\ (i - 2) + 2 = i
                    BY <3>2, <4>1
                <5> QED BY <3>2, <5>1
            <4>2. CASE ~(i > 2)
                <5>1. i = 1 \/ i = 2
                    BY <3>2, <4>2
                <5> QED BY <1>1, <3>2, <5>1
            <4> QED BY <4>1, <4>2
        <3> QED BY <3>2, <3>3
    <2> QED BY <2>1, <2>2, <2>3 DEF Planned
<1>3. path # << >> /\ Head(path) = path[1]
    BY <1>2, EmptySeq
<1>4. ".." \notin Range(path)
    BY <1>2, LenProperties DEF Range
<1> QED BY <1>2, <1>3, <1>4, PlainIsClean

\* What is above a path are directories.
LEMMA PlannedAbove ==
    ASSUME NEW source, IsSource(source), NEW path, NEW v, Planned(source, path, v),
           NEW q \in Prefixes(path) \ {<< >>, path}
    PROVE  Planned(source, q, Dir)
<1>1. \A name \in DOMAIN source : name \in STRING
    BY DEF IsSource
<1>2. path \in Seq(FileNames) /\ path[1] = "skills"
    BY PlannedPath
<1>3. PICK n \in 0 .. Len(path) : q = SubSeq(path, 1, n)
    BY DEF Prefixes
<1>4. q \in Seq(FileNames) /\ Len(q) = n /\ \A i \in 1 .. n : q[i] = path[i]
    BY <1>2, <1>3, PrefixIs
<1>5. n \in Nat /\ n # 0 /\ n < Len(path) /\ Len(path) \in Nat
    <2>1. Len(path) \in Nat
        BY <1>2, LenProperties
    <2>2. n # 0
        BY <1>4, EmptySeq
    <2>3. n # Len(path)
        BY <1>2, <1>3, SubSeqFull
    <2> QED BY <2>1, <2>2, <2>3
<1>6. CASE n = 1
    <2> DEFINE top == <<"skills">>
    <2>1. top \in Seq(FileNames) /\ Len(top) = 1 /\ top[1] = "skills"
        BY TopPaths
    <2>2. \A i \in 1 .. 1 : i = 1
        OBVIOUS
    <2> HIDE DEF top
    <2>3. q = top
        BY <1>2, <1>4, <1>6, <2>1, <2>2, SeqEqual
    <2> QED BY <2>3 DEF Planned, top
<1>7. CASE n > 1
    <2>1a. PICK name \in DOMAIN source : \E p \in DOMAIN source[name] :
                path = InSkill(name, p)
        <3>1. Len(path) # 1 /\ Len(path) # 2
            <4> DEFINE m == Len(path)
            <4>1. m \in Nat /\ n \in Nat /\ 1 < n /\ n < m
                BY <1>5, <1>7
            <4> HIDE DEF m
            <4>2. m # 1 /\ m # 2
                BY <4>1
            <4> QED BY <4>2 DEF m
        <3> QED BY <1>1, <3>1, TopPaths DEF Planned
    <2>1. PICK p \in DOMAIN source[name] : path = InSkill(name, p)
        BY <2>1a
    <2>2. /\ p \in Seq(FileNames) /\ Len(path) = Len(p) + 2 /\ Len(p) \in Nat \ {0}
          /\ path[1] = "skills" /\ path[2] = name
          /\ \A i \in 1 .. Len(p) : path[i + 2] = p[i]
        BY <2>1, SourcePath
    <2>3. CASE n = 2
        <3> DEFINE top == <<"skills", name>>
        <3>1. top \in Seq(FileNames) /\ Len(top) = 2 /\ top[1] = "skills" /\ top[2] = name
            BY <1>1, TopPaths
        <3>2. \A i \in 1 .. 2 : i = 1 \/ i = 2
            OBVIOUS
        <3> HIDE DEF top
        <3>3. \A i \in 1 .. 2 : q[i] = top[i]
            BY <1>4, <2>2, <2>3, <3>1, <3>2
        <3>4. q = top
            BY <1>4, <2>3, <3>1, <3>3, SeqEqual
        <3> QED BY <3>4 DEF Planned, top
    <2>4. CASE n > 2
        <3> DEFINE r == SubSeq(p, 1, n - 2)
                   full == InSkill(name, r)
        <3>1. n - 2 \in 0 .. Len(p) /\ n - 2 \in Nat \ {0} /\ n - 2 < Len(p)
            BY <1>5, <2>2, <2>4
        <3>2. r \in Seq(FileNames) /\ Len(r) = n - 2 /\ \A i \in 1 .. n - 2 : r[i] = p[i]
            BY <2>2, <3>1, PrefixIs
        <3>3. r \in Prefixes(p) \ {<< >>, p}
            <4>1. r \in Prefixes(p)
                BY <3>1 DEF Prefixes
            <4> HIDE DEF r
            <4> QED BY <3>1, <3>2, <4>1, EmptySeq
        <3> HIDE DEF r
        <3>4. r \in DOMAIN source[name] /\ source[name][r] = Dir
            BY <3>3 DEF IsSource, IsTree
        <3>5. /\ full \in Seq(FileNames) /\ Len(full) = Len(r) + 2
              /\ full[1] = "skills" /\ full[2] = name
              /\ \A i \in 1 .. Len(r) : full[i + 2] = r[i]
            BY <3>4, SourcePath
        <3> HIDE DEF full
        <3>6. ASSUME NEW i \in 1 .. n PROVE q[i] = full[i]
            <4>1. CASE i > 2
                <5>1. /\ i - 2 \in 1 .. n - 2 /\ (i - 2) + 2 = i
                      /\ i - 2 \in 1 .. Len(r) /\ i - 2 \in 1 .. Len(p)
                    BY <1>5, <2>2, <3>1, <3>2, <4>1
                <5> DEFINE j == i - 2
                <5>2. j \in 1 .. n - 2 /\ j + 2 = i /\ j \in 1 .. Len(r) /\ j \in 1 .. Len(p)
                    BY <5>1
                <5> HIDE DEF j
                <5>3. path[j + 2] = p[j] /\ full[j + 2] = r[j] /\ r[j] = p[j]
                    BY <2>2, <3>2, <3>5, <5>2
                <5> QED BY <1>4, <5>2, <5>3
            <4>2. CASE ~(i > 2)
                <5>1. i = 1 \/ i = 2
                    BY <1>5, <4>2
                <5>2. 1 \in 1 .. n /\ 2 \in 1 .. n
                    BY <1>5, <2>4
                <5>3. q[1] = "skills" /\ q[2] = name
                    BY <1>4, <2>2, <5>2
                <5> QED BY <3>5, <5>1, <5>3
            <4> QED BY <4>1, <4>2
        <3>7. q = full
            <4>1. Len(full) = n
                BY <1>5, <3>2, <3>5
            <4> QED BY <1>4, <3>5, <3>6, <4>1, SeqEqual
        <3> QED BY <3>4, <3>7 DEF Planned, full
    <2> QED BY <1>5, <1>7, <2>3, <2>4
<1> QED BY <1>5, <1>6, <1>7

-----------------------------------------------------------------------------
(* An archive of a source is unpacked to what it stands for                  *)

\* What is below skills is in the source, and the same there.
AsPlanned(tree, source) ==
    \A p \in DOMAIN tree : p \in SkillPaths => Planned(source, p, tree[p])

Content(e) == IF e.kind = "dir" THEN Dir ELSE e.content

LEMMA PackedIsPlanned ==
    ASSUME NEW source, NEW e, PacksOne(e, source)
    PROVE  /\ Planned(source, e.path, Content(e))
           /\ e.kind = "dir" \/ (e.kind = "file" /\ e.content # Dir)
<1>1. CASE e.kind = "dir" /\ e.path = <<"skills">>
    BY <1>1 DEF Planned, Content
<1>2. CASE e.kind = "dir" /\ \E name \in DOMAIN source : e.path = <<"skills", name>>
    BY <1>2 DEF Planned, Content
<1>3. ASSUME NEW name \in DOMAIN source, NEW p \in DOMAIN source[name],
             e.path = <<"skills", name>> \o p,
             IF source[name][p] = Dir THEN e.kind = "dir"
             ELSE e.kind = "file" /\ e.content = source[name][p]
      PROVE  /\ Planned(source, e.path, Content(e))
             /\ e.kind = "dir" \/ (e.kind = "file" /\ e.content # Dir)
    <2>1. e.path = InSkill(name, p) /\ Content(e) = source[name][p]
        BY <1>3 DEF Content, InSkill
    <2> QED BY <1>3, <2>1 DEF Planned
<1> QED BY <1>1, <1>2, <1>3 DEF PacksOne

LEMMA PlannedIsSkillPath ==
    ASSUME NEW source, IsSource(source), NEW path, NEW v, Planned(source, path, v)
    PROVE  path \in SkillPaths
BY PlannedPath DEF SkillPaths

\* An entry within the limits is taken, and what was there stays.
LEMMA EntryTaken ==
    ASSUME NEW source, IsSource(source), AsPlanned(stage, source),
           NEW e, PacksOne(e, source), WithinLimits(e)
    PROVE  /\ Takes(e) /\ AsPlanned(Extracted(e), source)
           /\ DOMAIN stage \cup {e.path} \subseteq DOMAIN Extracted(e)
<1> DEFINE path == e.path
           parent == Front(path)
           tree == Extracted(e)
<1>1. /\ Planned(source, path, Content(e))
      /\ e.kind = "dir" \/ (e.kind = "file" /\ e.content # Dir)
    BY PackedIsPlanned
<1>2. path \in Seq(FileNames) /\ path # << >> /\ Clean(path) = path /\ Head(path) = "skills"
    BY <1>1, PlannedPath
<1>3. ASSUME NEW p, NEW v, Planned(source, p, v), p \in DOMAIN stage PROVE stage[p] = v
    <2>1. Planned(source, p, stage[p])
        BY <1>3, PlannedIsSkillPath DEF AsPlanned
    <2> QED BY <1>3, <2>1, PlannedOnce
<1>4. \A p \in Prefixes(path) \ {<< >>, path} : Planned(source, p, Dir)
    BY <1>1, PlannedAbove
<1>5. path \in Prefixes(path)
    <2>1. Len(path) \in 0 .. Len(path) /\ SubSeq(path, 1, Len(path)) = path
        BY <1>2, LenProperties, SubSeqFull
    <2> QED BY <2>1 DEF Prefixes
<1>6. BelowSkills(path)
    BY <1>2 DEF BelowSkills
<1> HIDE DEF path
<1>7. CASE e.kind = "dir"
    <2>1. \A p \in Prefixes(path) \ {<< >>} : Planned(source, p, Dir)
        BY <1>1, <1>4, <1>7 DEF Content
    <2>2. Passable(path)
        BY <1>3, <2>1 DEF Passable
    <2>3. Takes(e)
        BY <1>2, <1>6, <1>7, <2>2 DEF Takes, path
    <2>4. tree = MadeAll(path)
        BY <1>2, <1>7 DEF Extracted, path
    <2>5. /\ DOMAIN tree = DOMAIN stage \cup (Prefixes(path) \ {<< >>})
          /\ \A p \in DOMAIN stage : tree[p] = stage[p]
          /\ \A p \in DOMAIN tree \ DOMAIN stage : tree[p] = Dir
        BY <2>2, <2>4, MadeKeeps
    <2> HIDE DEF tree
    <2>6. AsPlanned(tree, source)
        BY <2>1, <2>5 DEF AsPlanned
    <2>7. path \in DOMAIN tree
        BY <1>2, <1>5, <2>5
    <2> QED BY <2>3, <2>5, <2>6, <2>7 DEF tree, path
<1>8. CASE e.kind = "file"
    <2>1. \A p \in Prefixes(parent) \ {<< >>} : Planned(source, p, Dir)
        BY <1>2, <1>4, PrefixesOfFront
    <2>2. Passable(parent)
        BY <1>3, <2>1 DEF Passable
    <2>3. Content(e) = e.content /\ e.content # Dir
        BY <1>1, <1>8 DEF Content
    <2>4. ~(path \in DOMAIN stage /\ stage[path] = Dir)
        BY <1>1, <1>3, <2>3
    <2>5. Takes(e)
        BY <1>2, <1>6, <1>8, <2>2, <2>4 DEF Takes, path
    <2> DEFINE made == MadeAll(parent)
    <2>6. tree = Written(made, path, e.content)
        BY <1>2, <1>8 DEF Extracted, path
    <2>7. /\ DOMAIN made = DOMAIN stage \cup (Prefixes(parent) \ {<< >>})
          /\ \A p \in DOMAIN stage : made[p] = stage[p]
          /\ \A p \in DOMAIN made \ DOMAIN stage : made[p] = Dir
        BY <2>2, MadeKeeps
    <2> HIDE DEF tree, made, parent
    <2>8. /\ DOMAIN tree = DOMAIN made \cup {path} /\ tree[path] = e.content
          /\ \A p \in DOMAIN made \ {path} : tree[p] = made[p]
        BY <2>6 DEF Written
    <2>9. ASSUME NEW p \in DOMAIN tree, p \in SkillPaths PROVE Planned(source, p, tree[p])
        <3>1. CASE p = path
            BY <1>1, <2>3, <2>8, <3>1
        <3>2. CASE p # path /\ p \in DOMAIN stage
            BY <2>7, <2>8, <2>9, <3>2 DEF AsPlanned
        <3>3. CASE p # path /\ p \notin DOMAIN stage
            BY <2>1, <2>7, <2>8, <3>3
        <3> QED BY <3>1, <3>2, <3>3
    <2>10. AsPlanned(tree, source)
        BY <2>9 DEF AsPlanned
    <2> QED BY <2>5, <2>7, <2>8, <2>10 DEF tree, path
<1> QED BY <1>1, <1>7, <1>8 DEF tree, path

\* The files of an archive that are still to be unpacked, and their contents
Ahead(archive, n) == {i \in DOMAIN archive : archive[i].kind = "file" /\ i > n}
Contents(archive) ==
    [i \in {j \in DOMAIN archive : archive[j].kind = "file"} |-> archive[i].content]

SizeOfEntry(e) == IF e.kind = "file" THEN SizeOf[e.content] ELSE 0

LEMMA AheadIsSized ==
    ASSUME NEW r \in AllReleases, NEW n
    PROVE  /\ Sized(Ahead(r.bundle, n), Contents(r.bundle))
           /\ Len(r.bundle) \in Nat /\ DOMAIN r.bundle = 1 .. Len(r.bundle)
           /\ \A i \in DOMAIN r.bundle : SizeOfEntry(r.bundle[i]) \in Nat
<1> DEFINE archive == r.bundle
<1>1. Len(archive) \in Nat /\ DOMAIN archive = 1 .. Len(archive)
    BY DecodedAssumption DEF AllReleases, IsList
<1>2. \A i \in DOMAIN archive : archive[i].kind = "file" => SizeOf[archive[i].content] \in Nat
    BY DecodedAssumption DEF AllReleases, Range
<1> HIDE DEF archive
<1>3. IsFiniteSet(Ahead(archive, n))
    <2>1. IsFiniteSet(1 .. Len(archive))
        BY <1>1, FS_Interval
    <2> QED BY <1>1, <2>1, FS_Subset DEF Ahead
<1>4. \A i \in Ahead(archive, n) : SizeOf[Contents(archive)[i]] \in Nat
    BY <1>2 DEF Ahead, Contents
<1> QED BY <1>1, <1>2, <1>3, <1>4 DEF Sized, SizeOfEntry, archive

\* An archive that fits leaves room for each entry.
LEMMA EntryFits ==
    ASSUME NEW r \in AllReleases, NEW source, Packs(r.bundle, source),
           entry \in Nat, bytes \in Nat, entry < Len(r.bundle),
           bytes + TotalSize(Ahead(r.bundle, entry), Contents(r.bundle)) <= MaxTotal
    PROVE  LET e == r.bundle[entry + 1]
           IN  /\ PacksOne(e, source) /\ WithinLimits(e)
               /\ bytes + SizeOfEntry(e)
                     + TotalSize(Ahead(r.bundle, entry + 1), Contents(r.bundle)) <= MaxTotal
<1> DEFINE archive == r.bundle
           c == Contents(archive)
           n == entry + 1
           e == archive[n]
           now == Ahead(archive, entry)
           next == Ahead(archive, n)
<1>1. /\ Sized(now, c) /\ Sized(next, c)
      /\ Len(archive) \in Nat /\ DOMAIN archive = 1 .. Len(archive)
      /\ \A i \in DOMAIN archive : SizeOfEntry(archive[i]) \in Nat
    BY AheadIsSized
<1>2. TotalSize(now, c) \in Nat /\ TotalSize(next, c) \in Nat
    BY <1>1, TotalIsNat
<1>3. n \in DOMAIN archive /\ n \in Nat /\ n <= Len(archive)
    BY <1>1
<1>4. PacksOne(e, source) /\ Len(archive) <= MaxEntries
    BY <1>3 DEF Packs
<1>5. e.kind = "file" => SizeOf[e.content] <= MaxMetadata
    BY <1>3 DEF Packs
<1>6. SizeOfEntry(e) \in Nat
    BY <1>1, <1>3
<1>7. MaxTotal \in Nat /\ MaxEntries \in Nat /\ bytes + TotalSize(now, c) <= MaxTotal
    BY LimitsAssumption
<1>8. TotalSize(now, c) = TotalSize(next, c) + SizeOfEntry(e)
    <2>1. CASE e.kind = "file"
        <3>1. n \in now /\ now \ {n} = next
            BY <1>1, <1>3, <2>1 DEF Ahead
        <3>2. c[n] = e.content
            BY <1>3, <2>1 DEF Contents
        <3> HIDE DEF now, next, c, e, n
        <3>3. TotalSize(now, c) = TotalSize(now \ {n}, c) + SizeOf[c[n]]
            BY <1>1, <3>1, TotalWithout
        <3> QED BY <2>1, <3>1, <3>2, <3>3 DEF SizeOfEntry
    <2>2. CASE e.kind # "file"
        <3>1. now = next
            BY <1>1, <1>3, <2>2 DEF Ahead
        <3> HIDE DEF now, next, c, e
        <3> QED BY <1>2, <2>2, <3>1 DEF SizeOfEntry
    <2> QED BY <2>1, <2>2
<1>9. entry + 1 <= MaxEntries
    BY <1>1, <1>3, <1>4, <1>7
<1> HIDE DEF now, next, c, e
<1>10. bytes + SizeOfEntry(e) + TotalSize(next, c) <= MaxTotal
    BY <1>2, <1>6, <1>7, <1>8
<1>11. e.kind = "file" => bytes + SizeOf[e.content] <= MaxTotal
    BY <1>2, <1>6, <1>7, <1>8 DEF SizeOfEntry
<1> QED BY <1>4, <1>5, <1>9, <1>10, <1>11 DEF WithinLimits, e, next, c

-----------------------------------------------------------------------------
(* What the archive of a release is unpacked to is valid                     *)

LEMMA BelowRoot ==
    ASSUME NEW S, NEW path \in Seq(S), path # << >>
    PROVE  IsStrictPrefix(<< >>, path)
<1> DEFINE none == << >>
<1>1. Len(none) = 0 /\ Len(path) \in Nat /\ none # path
    BY LenProperties
<1>2. SubSeq(none, 1, 0) = SubSeq(path, 1, 0)
    BY SubSeqEmpty
<1> HIDE DEF none
<1> QED BY <1>1, <1>2 DEF IsStrictPrefix, IsPrefix, none

\* A finite set as a list
LEMMA SetInOrder ==
    ASSUME NEW T, IsFiniteSet(T)
    PROVE  LET s == SetToSeq(T)
           IN  /\ Cardinality(T) \in Nat /\ Len(s) = Cardinality(T)
               /\ DOMAIN s = 1 .. Cardinality(T) /\ Range(s) = T
               /\ \A i \in DOMAIN s : s[i] \in T
<1> DEFINE s == SetToSeq(T)
           n == Cardinality(T)
<1>1. n \in Nat /\ ExistsBijection(1 .. n, T)
    BY FS_CardinalityType
<1>2. \E f \in [1 .. n -> T] : IsInjective(f)
    BY <1>1 DEF ExistsBijection, Bijection, Injection
<1>3. s \in [1 .. n -> T] /\ IsInjective(s)
    BY <1>2 DEF SetToSeq
<1> HIDE DEF s
<1>4. IsFiniteSet(1 .. n) /\ Cardinality(1 .. n) = n
    <2>1. /\ IsFiniteSet(1 .. n)
          /\ Cardinality(1 .. n) = IF 1 > n THEN 0 ELSE n - 1 + 1
        <3>1. 1 \in Int /\ n \in Int
            BY <1>1
        <3> HIDE DEF n
        <3> QED BY <3>1, FS_Interval
    <2> HIDE DEF n
    <2> QED BY <1>1, <2>1
<1>5. s \in Seq(T)
    BY <1>1, <1>3, SeqDef
<1>6. Len(s) = n
    <2>1. DOMAIN s = 1 .. n /\ DOMAIN s = 1 .. Len(s) /\ Len(s) \in Nat
        BY <1>3, <1>5, LenProperties
    <2> HIDE DEF n
    <2> QED BY <1>1, <2>1
<1>7. OneToOne(s, 1 .. n, T)
    BY <1>3 DEF OneToOne, IsInjective
<1>8. Fills(s, 1 .. n, T)
    BY <1>4, <1>7, InjectionFills
<1>9. Range(s) = T
    BY <1>3, <1>8 DEF Range, Fills
<1> QED BY <1>1, <1>3, <1>6, <1>9 DEF s

\* The inventory of a directory lists each of its files once.
LEMMA InventoryLists ==
    ASSUME NEW dir, IsTree(dir), NEW files, files = InventorySkillDirectory(dir)
    PROVE  LET found == FilesBelow(dir, << >>)
           IN  /\ {files[i].path : i \in DOMAIN files} = found
               /\ Cardinality({files[i].path : i \in DOMAIN files}) = Len(files)
               /\ \A i \in DOMAIN files :
                     files[i].path \in found /\ files[i].digest = dir[files[i].path]
<1> DEFINE found == FilesBelow(dir, << >>)
           line == [p \in found |-> [path |-> p, digest |-> dir[p]]]
           T == {[path |-> p, digest |-> dir[p]] : p \in found}
<1>1. IsFiniteSet(found)
    BY FS_Subset DEF FilesBelow, IsTree
<1>2. T = Image(line, found) /\ \A p, q \in found : line[p] = line[q] => p = q
    BY DEF Image
<1>3. files = SetToSeq(T)
    BY DEF InventorySkillDirectory
<1>4. \A x \in T : x.path \in found /\ x.digest = dir[x.path]
    OBVIOUS
<1>5. ASSUME NEW p \in found PROVE \E x \in T : x.path = p
    <2> DEFINE x == [path |-> p, digest |-> dir[p]]
    <2>1. x \in T /\ x.path = p
        OBVIOUS
    <2> QED BY <2>1
<1> HIDE DEF T, found, line
<1>6. IsFiniteSet(T) /\ Cardinality(T) = Cardinality(found)
    BY <1>1, <1>2, ImageSize
<1>7. /\ Len(files) = Cardinality(T) /\ Range(files) = T
      /\ \A i \in DOMAIN files : files[i] \in T
    BY <1>3, <1>6, SetInOrder
<1>8. {files[i].path : i \in DOMAIN files} = found
    <2>1. ASSUME NEW p \in found PROVE \E i \in DOMAIN files : p = files[i].path
        <3>1. PICK x \in T : x.path = p
            BY <1>5
        <3> QED BY <1>7, <3>1 DEF Range
    <2> QED BY <1>4, <1>7, <2>1
<1> QED BY <1>4, <1>6, <1>7, <1>8 DEF found

\* The tree of an archive has every file of the source, and each directory and file in
\* it is the source's.
LEMMA UnpackedFile ==
    ASSUME NEW source, IsSource(source), NEW archive, Packs(archive, source),
           NEW tree, AsPlanned(tree, source),
           \A i \in DOMAIN archive : archive[i].path \in DOMAIN tree,
           NEW name \in DOMAIN source, NEW path \in FilesBelow(source[name], << >>)
    PROVE  LET full == <<"skills", name>> \o path
           IN  full \in DOMAIN tree /\ tree[full] = source[name][path]
<1> DEFINE full == InSkill(name, path)
<1>1. PICK i \in DOMAIN archive : archive[i].path = <<"skills", name>> \o path
    BY DEF Packs
<1>2. full \in DOMAIN tree
    BY <1>1 DEF InSkill
<1>3. path \in DOMAIN source[name]
    BY DEF FilesBelow
<1>4. Planned(source, full, source[name][path])
    BY <1>3 DEF Planned
<1>5. Planned(source, full, tree[full])
    BY <1>2, <1>4, PlannedIsSkillPath DEF AsPlanned
<1>6. tree[full] = source[name][path]
    BY <1>4, <1>5, PlannedOnce
<1> QED BY <1>2, <1>6 DEF InSkill

\* Nothing below skills is undeclared.
LEMMA NothingUndeclared ==
    ASSUME NEW source, IsSource(source), NEW tree, DOMAIN tree \subseteq Seq(FileNames),
           AsPlanned(tree, source), NEW p \in DOMAIN tree, IsStrictPrefix(<<"skills">>, p)
    PROVE  \E name \in DOMAIN source :
              /\ p[2] = name
              /\ tree[p] = Dir \/ SubSeq(p, 3, Len(p)) \in FilesBelow(source[name], << >>)
<1>1. p \in Seq(FileNames) /\ Len(p) > 1 /\ p[1] = "skills"
    BY BelowSkillsDir
<1>2. p \in SkillPaths
    BY <1>1, EmptySeq DEF SkillPaths
<1>3. Planned(source, p, tree[p])
    BY <1>2 DEF AsPlanned
<1>4. CASE p = <<"skills">>
    BY <1>1, <1>4, TopPaths
<1>5. ASSUME NEW name \in DOMAIN source, p = <<"skills", name>>, tree[p] = Dir
      PROVE  p[2] = name
    BY <1>5, TopPaths DEF IsSource
<1>6. ASSUME NEW name \in DOMAIN source, NEW q \in DOMAIN source[name],
             p = InSkill(name, q), tree[p] = source[name][q], tree[p] # Dir
      PROVE  p[2] = name /\ SubSeq(p, 3, Len(p)) \in FilesBelow(source[name], << >>)
    <2>1. /\ q \in Seq(FileNames) /\ Len(q) \in Nat \ {0} /\ p[2] = name
          /\ Len(p) = Len(q) + 2 /\ \A i \in 1 .. Len(q) : p[i + 2] = q[i]
        BY <1>6, SourcePath
    <2> DEFINE rest == SubSeq(p, 3, Len(p))
    <2>2. /\ rest \in Seq(FileNames)
          /\ Len(rest) = IF 3 <= Len(p) THEN Len(p) - 3 + 1 ELSE 0
          /\ \A i \in 1 .. Len(p) - 3 + 1 : rest[i] = p[3 + i - 1]
        <3>1. 3 \in Int /\ Len(p) \in Int
            BY <2>1
        <3>2. \A i \in 3 .. Len(p) : p[i] \in FileNames
            <4>1. \A i \in 3 .. Len(p) : i \in 1 .. Len(p)
                OBVIOUS
            <4> QED BY <1>1, <4>1, ElementOfSeq
        <3> QED BY <3>1, <3>2, SubSeqProperties
    <2> HIDE DEF rest
    <2>3. Len(rest) = Len(q)
        BY <2>1, <2>2
    <2>4. ASSUME NEW i \in 1 .. Len(q) PROVE rest[i] = q[i]
        <3>1. i \in 1 .. Len(p) - 3 + 1 /\ 3 + i - 1 = i + 2
            BY <2>1
        <3> QED BY <2>1, <2>2, <3>1
    <2>5. rest = q
        BY <2>1, <2>2, <2>3, <2>4, SeqEqual
    <2>6. IsStrictPrefix(<< >>, q)
        <3>1. q # << >>
            BY <2>1, EmptySeq
        <3> QED BY <2>1, <3>1, BelowRoot
    <2>7. q \in FilesBelow(source[name], << >>)
        BY <1>6, <2>6 DEF FilesBelow
    <2> QED BY <2>1, <2>5, <2>7 DEF rest
<1>7. CASE \E name \in DOMAIN source : p = <<"skills", name>> /\ tree[p] = Dir
    BY <1>5, <1>7
<1>8. CASE \E name \in DOMAIN source : \E q \in DOMAIN source[name] :
              p = InSkill(name, q) /\ tree[p] = source[name][q]
    <2>1a. PICK name \in DOMAIN source : \E q \in DOMAIN source[name] :
                p = InSkill(name, q) /\ tree[p] = source[name][q]
        BY <1>8
    <2>1. PICK q \in DOMAIN source[name] : p = InSkill(name, q) /\ tree[p] = source[name][q]
        BY <2>1a
    <2>2. p[2] = name
        BY <2>1, SourcePath
    <2> QED BY <1>6, <2>1, <2>2
<1> QED BY <1>3, <1>4, <1>7, <1>8 DEF Planned

\* LoadBundle takes what was unpacked from the archive of a release.
LEMMA BuiltIsValid ==
    ASSUME NEW r \in AllReleases, NEW source, BuiltOf(r, source),
           NEW tree, DOMAIN tree \subseteq Seq(FileNames), AsPlanned(tree, source),
           \A i \in DOMAIN r.bundle : r.bundle[i].path \in DOMAIN tree
    PROVE  Validate(tree, r.manifest, r.catalog)
<1> DEFINE skills == r.manifest.skills
           entries == r.catalog.entries
<1>1. /\ IsSource(source) /\ Packs(r.bundle, source)
      /\ skills # << >> /\ Unique(skills) /\ Names(skills) = DOMAIN source
      /\ r.manifest.identity = Wanted /\ r.catalog.identity = Wanted
    BY DEF BuiltOf, IsSource
<1>2. \A skill \in Range(skills) :
          /\ skill.files = InventorySkillDirectory(source[skill.name])
          /\ skill.digest = SkillDigest(skill.files)
          /\ skill.needs \subseteq DOMAIN source
    BY DEF BuiltOf
<1>3. /\ Len(entries) = Len(skills)
      /\ \A i \in DOMAIN entries : <<entries[i].name, entries[i].role, entries[i].digest>>
                                   = <<skills[i].name, skills[i].role, skills[i].digest>>
    BY DEF BuiltOf
<1>4. /\ Len(entries) \in Nat /\ DOMAIN entries = 1 .. Len(entries)
      /\ DOMAIN skills = 1 .. Len(skills)
    BY DecodedAssumption DEF AllReleases, IsList
<1> HIDE DEF skills, entries
<1>5. ASSUME NEW skill \in Range(skills)
      PROVE  /\ skill.name \in DOMAIN source
             /\ Declared(skill) = FilesBelow(source[skill.name], << >>)
             /\ Cardinality(Declared(skill)) = Len(skill.files)
             /\ \A i \in DOMAIN skill.files :
                   /\ skill.files[i].path \in Declared(skill)
                   /\ skill.files[i].digest = source[skill.name][skill.files[i].path]
    <2>1. skill.name \in DOMAIN source
        BY <1>1 DEF Range, Names
    <2>2. IsTree(source[skill.name]) /\ skill.files = InventorySkillDirectory(source[skill.name])
        BY <1>1, <1>2, <2>1 DEF IsSource
    <2> QED BY <2>1, <2>2, InventoryLists DEF Declared
<1>6. ASSUME NEW skill \in Range(skills) PROVE ValidBundleSkill(tree, skill)
    <2> DEFINE dir == source[skill.name]
    <2>1. Inventoriable(dir)
        BY <1>1, <1>5 DEF IsSource
    <2>2. <<"SKILL.md">> \in Declared(skill)
        BY <1>5, <2>1 DEF Inventoriable
    <2>3. ASSUME NEW i \in DOMAIN skill.files
          PROVE  LET path == skill.files[i].path
                     full == <<"skills", skill.name>> \o path
                 IN  /\ Payload(path) /\ full \in DOMAIN tree
                     /\ tree[full] \notin {Dir, Unfit}
                     /\ tree[full] = skill.files[i].digest
        <3> DEFINE path == skill.files[i].path
                   full == <<"skills", skill.name>> \o path
        <3>1. path \in FilesBelow(dir, << >>) /\ skill.files[i].digest = dir[path]
            BY <1>5
        <3>2. Payload(path) /\ dir[path] # Unfit /\ dir[path] # Dir
            BY <2>1, <3>1 DEF Inventoriable, FilesBelow
        <3>3. full \in DOMAIN tree /\ tree[full] = dir[path]
            BY <1>1, <1>5, <3>1, UnpackedFile
        <3> HIDE DEF full, path, dir
        <3> QED BY <3>1, <3>2, <3>3 DEF full, path
    <2>4. skill.digest = SkillDigest(skill.files)
        BY <1>2
    <2> QED BY <1>5, <2>2, <2>3, <2>4 DEF ValidBundleSkill
<1>7. \A skill \in Range(skills) : skill.needs \subseteq Names(skills)
    BY <1>1, <1>2
<1>8. ValidBundleTree(tree, skills)
    <2> SUFFICES ASSUME NEW p \in DOMAIN tree, IsStrictPrefix(<<"skills">>, p)
                 PROVE  \E skill \in Range(skills) :
                            /\ p[2] = skill.name
                            /\ tree[p] = Dir \/ SubSeq(p, 3, Len(p)) \in Declared(skill)
        BY DEF ValidBundleTree
    <2>1. PICK name \in DOMAIN source :
              /\ p[2] = name
              /\ tree[p] = Dir \/ SubSeq(p, 3, Len(p)) \in FilesBelow(source[name], << >>)
        BY <1>1, NothingUndeclared
    <2>2. PICK skill \in Range(skills) : skill.name = name
        BY <1>1 DEF Names, Range
    <2> QED BY <1>5, <2>1, <2>2
<1>9. ValidCatalog(r.catalog, skills)
    <2>1. Names(entries) = Names(skills)
        BY <1>3, <1>4 DEF Names
    <2>2. Unique(entries)
        BY <1>1, <1>3, <2>1 DEF Unique
    <2>3. ASSUME NEW i \in DOMAIN entries
          PROVE  \E skill \in Range(skills) :
                    <<entries[i].name, entries[i].role, entries[i].digest>>
                    = <<skill.name, skill.role, skill.digest>>
        <3>1. skills[i] \in Range(skills)
            BY <1>3, <1>4 DEF Range
        <3> QED BY <1>3, <3>1
    <2> QED BY <1>3, <2>2, <2>3 DEF ValidCatalog, entries
<1>10. r.catalog.identity = r.manifest.identity
    BY <1>1
<1> QED BY <1>1, <1>6, <1>7, <1>8, <1>9, <1>10 DEF Validate, skills

-----------------------------------------------------------------------------
(* A sound release, from the first download to the last check                *)

Clear == count.faults = 0 /\ ~changed /\ mirror \in Sound

Same(a) == got[a] = mirror[a]

Downloaded ==
    /\ pc # "checksums" => Same("checksums")
    /\ pc \notin {"checksums", "install"} => Same("install")
    /\ pc \notin {"checksums", "install", "bundle"} => Same("bundle")
    /\ pc \notin {"checksums", "install", "bundle", "manifest"} => Same("manifest")
    /\ pc \notin Assets => Same("catalog")

\* What was read of the archive is in the tree; what is still ahead of it has room.
Unpacking ==
    LET archive == mirror.bundle
    IN  /\ AsPlanned(stage, SourceOf[mirror])
        /\ \A i \in DOMAIN archive :
              i <= entry \/ pc # "extract" => archive[i].path \in DOMAIN stage
        /\ pc = "extract" =>
              bytes + TotalSize(Ahead(archive, entry), Contents(archive)) <= MaxTotal

SoundInv ==
    /\ "faults" \in DOMAIN count /\ count.faults \in Nat
    /\ pc \in Assets \cup {"stage"} => entry = 0 /\ bytes = 0
    /\ Clear => pc \notin {"discard", "failed"} /\ Downloaded /\ (pc \in Staging => Unpacking)

LEMMA SoundInitInv == Init => SoundInv
BY DEF Init, SoundInv, Downloaded, Assets, Staging

LEMMA ClearRelease ==
    ASSUME Clear
    PROVE  /\ mirror \in AllReleases /\ BuiltOf(mirror, SourceOf[mirror])
           /\ IsSource(SourceOf[mirror]) /\ Packs(mirror.bundle, SourceOf[mirror])
           /\ mirror["checksums"] = [a \in Listing |-> mirror[a]]
<1>1. mirror \in AllReleases /\ BuiltOf(mirror, SourceOf[mirror])
    BY SoundAssumption DEF Clear, AllReleases
<1>2. mirror.checksums = [a \in Assets \ {"checksums"} |-> mirror[a]]
    BY <1>1, ChecksumsAssumption DEF AllReleases
<1> QED BY <1>1, <1>2 DEF BuiltOf, IsSource, Listing

\* An upload that starts changes nothing yet; one before the first download does no harm.
LEMMA SoundUpload ==
    ASSUME SoundInv, StartUpload \/ UploadAsset
    PROVE  SoundInv'
<1>1. CASE StartUpload
    <2>1. /\ UNCHANGED <<mirror, pc, got, stage, entry, bytes, changed>>
          /\ DOMAIN count' = DOMAIN count /\ count'.faults = count.faults
        BY <1>1 DEF StartUpload, SoundInv
    <2>2. Clear' => Clear
        BY <2>1 DEF Clear
    <2> QED BY <2>1, <2>2 DEF SoundInv, Downloaded, Same, Unpacking, AsPlanned
<1>2. CASE UploadAsset
    <2>1. UNCHANGED <<pc, got, stage, entry, bytes, count>> /\ pc \in Assets
        BY <1>2 DEF UploadAsset
    <2>2. Clear' => pc' = "checksums"
        BY <1>2, <2>1 DEF UploadAsset, Clear
    <2>3. pc' = "checksums" => pc' \notin {"discard", "failed"} /\ Downloaded' /\ pc' \notin Staging
        BY DEF Downloaded, Assets, Staging
    <2> QED BY <2>1, <2>2, <2>3 DEF SoundInv
<1> QED BY <1>1, <1>2

\* A call that fails is counted.
LEMMA SoundFault ==
    ASSUME SoundInv, Fault, pc' \notin Assets \cup {"stage"} \/ UNCHANGED <<entry, bytes>>,
           pc \in Assets \/ pc' \notin Assets \cup {"stage"}
    PROVE  SoundInv'
<1>1. DOMAIN count' = DOMAIN count /\ count'.faults = count.faults + 1
    BY DEF Fault, SoundInv
<1>2. count'.faults \in Nat /\ ~Clear'
    BY <1>1 DEF SoundInv, Clear
<1> QED BY <1>1, <1>2 DEF SoundInv

LEMMA SoundDownload ==
    ASSUME BuildInv, SoundInv, Download
    PROVE  SoundInv'
<1>1. pc \in Assets /\ UNCHANGED <<mirror, uploading, changed>>
    BY DEF Download
<1>2. CASE Fault /\ (Fail \/ \E payload \in CutShort(pc) : Receive(pc, payload))
    <2>1. pc' \notin Assets \cup {"stage"} \/ UNCHANGED <<entry, bytes>>
        BY <1>2 DEF Receive, Fail, Assets
    <2> QED BY <1>1, <1>2, <2>1, SoundFault
<1>3. CASE /\ IF WithinDownload(pc, mirror[pc]) THEN Receive(pc, mirror[pc]) ELSE Fail
           /\ UNCHANGED count
    <2>1. pc' \in Assets \cup {"stage"} => UNCHANGED <<entry, bytes>>
        BY <1>3 DEF Receive, Fail, Assets
    <2>2. ASSUME Clear' PROVE pc' \notin {"discard", "failed"} /\ Downloaded' /\ pc' \notin Staging
        <3>1. Clear
            BY <1>1, <1>3, <2>2 DEF Clear
        <3>2. Downloaded /\ got = [a \in Assets |-> got[a]]
            BY <3>1 DEF SoundInv, BuildInv, GotInv
        <3>3. /\ mirror["checksums"] = [a \in Listing |-> mirror[a]]
              /\ BuiltOf(mirror, SourceOf[mirror])
            BY <3>1, ClearRelease
        <3>4. Accepts(pc, mirror[pc])
            <4>1. CASE pc = "checksums"
                BY <4>1 DEF Accepts
            <4>2. CASE pc # "checksums"
                <5>1. Listed(pc, mirror[pc])
                    BY <1>1, <3>2, <3>3, <4>2 DEF Downloaded, Same, Listed, Listing
                <5>2. CASE pc = "install"
                    BY <3>3, <5>1, <5>2 DEF Accepts, BuiltOf
                <5>3. CASE pc # "install"
                    <6>1. got["install"] = mirror["install"]
                        BY <3>2, <4>2, <5>3 DEF Downloaded, Same
                    <6>2. pc \in {"bundle", "manifest", "catalog"}
                        BY <1>1, <4>2, <5>3 DEF Assets
                    <6>3. mirror.install.skills[pc] = mirror[pc]
                        BY <3>3, <6>2 DEF BuiltOf
                    <6> QED BY <5>1, <5>3, <6>1, <6>3 DEF Accepts
                <5> QED BY <5>2, <5>3
            <4> QED BY <4>1, <4>2
        <3>5. got' = [got EXCEPT ![pc] = mirror[pc]] /\ pc' = After[pc]
            <4>1. WithinDownload(pc, mirror[pc])
                BY <1>1, <3>3 DEF BuiltOf
            <4> QED BY <1>3, <3>4, <4>1 DEF Receive
        <3>6. \A a \in Assets : a = pc \/ Same(a) => Same(a)'
            BY <1>1, <3>2, <3>5 DEF Same
        <3>7. Downloaded'
            BY <1>1, <3>2, <3>5, <3>6 DEF Downloaded, After, Assets
        <3>8. pc' \notin {"discard", "failed"} /\ pc' \notin Staging
            BY <1>1, <3>5 DEF After, Assets, Staging
        <3> QED BY <3>7, <3>8
    <2> QED BY <1>1, <1>3, <2>1, <2>2 DEF SoundInv
<1> QED BY <1>2, <1>3 DEF Download

LEMMA SoundMakeStage ==
    ASSUME SoundInv, MakeStage
    PROVE  SoundInv'
<1>1. pc = "stage" /\ UNCHANGED <<mirror, uploading, changed>>
    BY DEF MakeStage, Calling
<1>2. CASE Fault /\ Fail
    BY <1>1, <1>2, SoundFault DEF Fail, Assets
<1>3. CASE stage' = NoTree /\ pc' = "extract" /\ UNCHANGED <<got, entry, bytes, count>>
    <2>1. entry = 0 /\ bytes = 0
        BY <1>1 DEF SoundInv
    <2>2. ASSUME Clear' PROVE Downloaded' /\ Unpacking'
        <3>1. Clear
            BY <1>1, <1>3, <2>2 DEF Clear
        <3>2. Downloaded'
            BY <1>1, <1>3, <3>1 DEF SoundInv, Downloaded, Same, Assets
        <3>3. DOMAIN stage' = {}
            BY <1>3 DEF NoTree
        <3> DEFINE archive == mirror.bundle
        <3>4. /\ Len(archive) \in Nat /\ DOMAIN archive = 1 .. Len(archive)
              /\ Packs(archive, SourceOf[mirror])
            BY <3>1, ClearRelease, AheadIsSized
        <3>5. bytes + TotalSize(Ahead(archive, entry), Contents(archive)) <= MaxTotal
            <4> DEFINE files == {i \in DOMAIN archive : archive[i].kind = "file"}
            <4>1. TotalSize(files, Contents(archive)) <= MaxTotal
                BY <3>4 DEF Packs, Contents
            <4>2. Ahead(archive, entry) = files
                BY <2>1, <3>4 DEF Ahead
            <4>3. TotalSize(Ahead(archive, entry), Contents(archive)) \in Nat
                BY <3>1, ClearRelease, AheadIsSized, TotalIsNat
            <4> HIDE DEF archive, files
            <4> QED BY <2>1, <4>1, <4>2, <4>3
        <3>6. \A i \in DOMAIN archive : ~(i <= entry)
            BY <2>1, <3>4
        <3> QED BY <1>1, <1>3, <3>2, <3>3, <3>5, <3>6 DEF Unpacking, AsPlanned
    <2> QED BY <1>1, <1>3, <2>2 DEF SoundInv, Assets
<1> QED BY <1>2, <1>3 DEF MakeStage, Calling

LEMMA SoundExtract ==
    ASSUME BuildInv, TreeInv, SoundInv, Extract
    PROVE  SoundInv'
<1> DEFINE archive == mirror.bundle
           source == SourceOf[mirror]
<1>1. pc = "extract" /\ UNCHANGED <<mirror, uploading, changed>>
    BY DEF Extract, Calling
<1>2. entry \in Nat /\ bytes \in Nat
    BY LimitsAssumption DEF TreeInv, StageInv
<1>3. Clear => /\ Downloaded /\ Unpacking /\ got["bundle"] = archive
               /\ mirror \in AllReleases /\ IsSource(source) /\ Packs(archive, source)
               /\ Len(archive) \in Nat /\ DOMAIN archive = 1 .. Len(archive)
    BY <1>1, ClearRelease, AheadIsSized DEF SoundInv, Downloaded, Same, Staging, Assets
<1>4. CASE Fault /\ Fail
    BY <1>1, <1>4, SoundFault DEF Fail, Assets
<1>5. CASE ~(entry < Len(got.bundle)) /\ pc' = "bundle.json" /\ UNCHANGED <<got, stage, entry, bytes, count>>
    <2>1. ASSUME Clear' PROVE Downloaded' /\ Unpacking'
        <3>1. Clear
            BY <1>1, <1>5, <2>1 DEF Clear
        <3>2. Downloaded'
            BY <1>1, <1>3, <1>5, <3>1 DEF Downloaded, Same, Assets
        <3>3. \A i \in DOMAIN archive : i <= entry
            BY <1>2, <1>3, <1>5, <3>1
        <3>4. \A i \in DOMAIN archive : archive[i].path \in DOMAIN stage
            BY <1>3, <3>1, <3>3 DEF Unpacking
        <3> QED BY <1>1, <1>3, <1>5, <3>1, <3>2, <3>4 DEF Unpacking, AsPlanned
    <2> QED BY <1>5, <2>1 DEF SoundInv, Assets
<1>6. CASE entry < Len(got.bundle) /\ Unpack(got.bundle[entry + 1]) /\ UNCHANGED count
    <2> DEFINE e == archive[entry + 1]
    <2>1. pc' \in {"extract", "discard", "failed"}
        BY <1>1, <1>6 DEF Unpack, Fail
    <2>2. ASSUME Clear' PROVE pc' = "extract" /\ Downloaded' /\ Unpacking'
        <3>1. Clear
            BY <1>1, <1>6, <2>2 DEF Clear
        <3>2. entry < Len(archive) /\ Unpack(e)
            BY <1>3, <1>6, <3>1
        <3>3. bytes + TotalSize(Ahead(archive, entry), Contents(archive)) <= MaxTotal
            BY <1>1, <1>3, <3>1 DEF Unpacking
        <3>4. /\ PacksOne(e, source) /\ WithinLimits(e)
              /\ bytes + SizeOfEntry(e)
                    + TotalSize(Ahead(archive, entry + 1), Contents(archive)) <= MaxTotal
            BY <1>2, <1>3, <3>1, <3>2, <3>3, EntryFits
        <3>5. /\ Takes(e) /\ AsPlanned(Extracted(e), source)
              /\ DOMAIN stage \cup {e.path} \subseteq DOMAIN Extracted(e)
            BY <1>3, <3>1, <3>4, EntryTaken DEF Unpacking
        <3> HIDE DEF e
        <3>6. /\ stage' = Extracted(e) /\ entry' = entry + 1 /\ UNCHANGED <<pc, got>>
              /\ bytes' = bytes + SizeOfEntry(e)
            BY <3>2, <3>5 DEF Unpack, SizeOfEntry
        <3>7. Downloaded'
            BY <1>1, <1>3, <3>1, <3>6 DEF Downloaded, Same
        <3>8. ASSUME NEW i \in DOMAIN archive, i <= entry' PROVE archive[i].path \in DOMAIN stage'
            <4>1. CASE i <= entry
                BY <1>3, <3>1, <3>5, <3>6, <4>1 DEF Unpacking
            <4>2. CASE ~(i <= entry)
                <5>1. i = entry + 1
                    BY <1>2, <1>3, <3>1, <3>6, <3>8, <4>2
                <5> QED BY <3>5, <3>6, <5>1 DEF e
            <4> QED BY <4>1, <4>2
        <3>9. bytes' + TotalSize(Ahead(archive, entry'), Contents(archive)) <= MaxTotal
            BY <3>4, <3>6
        <3> HIDE DEF archive, source
        <3>10. Unpacking'
            BY <1>1, <3>5, <3>6, <3>8, <3>9 DEF Unpacking, archive, source
        <3> QED BY <1>1, <3>6, <3>7, <3>10
    <2> QED BY <1>6, <2>1, <2>2 DEF SoundInv, Assets
<1> QED BY <1>1, <1>4, <1>5, <1>6 DEF Extract, Calling

LEMMA SoundWriteStaged ==
    ASSUME SoundInv, NEW name, NEW asset, NEW next, WriteStaged(name, asset, next),
           <<name, asset, next>> \in {<<"bundle.json", "manifest", "catalog.json">>,
                                      <<"catalog.json", "catalog", "load">>}
    PROVE  SoundInv'
<1>1. /\ pc = name /\ UNCHANGED <<mirror, uploading, changed>>
      /\ name \in {"bundle.json", "catalog.json"} /\ next \in {"catalog.json", "load"}
    BY DEF WriteStaged, Calling
<1>2. CASE Fault /\ Fail
    BY <1>1, <1>2, SoundFault DEF Fail, Assets
<1>3. CASE stage' = Written(stage, <<name>>, got[asset]) /\ pc' = next
           /\ UNCHANGED <<got, entry, bytes, count>>
    <2>1. ASSUME Clear' PROVE Downloaded' /\ Unpacking'
        <3>1. Clear
            BY <1>1, <1>3, <2>1 DEF Clear
        <3>2. Downloaded /\ Unpacking
            BY <1>1, <3>1 DEF SoundInv, Staging
        <3>3. /\ DOMAIN stage' = DOMAIN stage \cup {<<name>>}
              /\ \A p \in DOMAIN stage \ {<<name>>} : stage'[p] = stage[p]
            BY <1>3 DEF Written
        <3>4. <<name>> \notin SkillPaths
            <4>1. Head(<<name>>) = name
                OBVIOUS
            <4> QED BY <1>1, <4>1 DEF SkillPaths
        <3>5. AsPlanned(stage', SourceOf[mirror])
            BY <3>2, <3>3, <3>4 DEF Unpacking, AsPlanned
        <3>6. Downloaded'
            BY <1>1, <1>3, <3>2 DEF Downloaded, Same, Assets
        <3>7. \A i \in DOMAIN mirror.bundle : mirror.bundle[i].path \in DOMAIN stage'
            BY <1>1, <3>2, <3>3 DEF Unpacking
        <3> QED BY <1>1, <1>3, <3>5, <3>6, <3>7 DEF Unpacking
    <2> QED BY <1>1, <1>3, <2>1 DEF SoundInv, Assets
<1> QED BY <1>2, <1>3 DEF WriteStaged, Calling

LEMMA SoundLoad ==
    ASSUME TreeInv, SoundInv, Load
    PROVE  SoundInv'
<1>1. pc = "load" /\ UNCHANGED <<mirror, uploading, changed>>
    BY DEF Load, Calling
<1>2. CASE Fault /\ Fail
    BY <1>1, <1>2, SoundFault DEF Fail, Assets
<1>3. CASE /\ UNCHANGED count
           /\ LET manifest == stage[<<"bundle.json">>]
                  catalog == stage[<<"catalog.json">>]
              IN  IF Validate(stage, manifest, catalog) /\ manifest.identity = Wanted
                  THEN pc' = "accepted" /\ UNCHANGED <<got, stage, entry, bytes>>
                  ELSE Fail
    <2>1. pc' \in {"accepted", "discard", "failed"}
        BY <1>3 DEF Fail
    <2>2. ASSUME Clear' PROVE pc' = "accepted" /\ Downloaded' /\ Unpacking'
        <3>1. Clear
            BY <1>1, <1>3, <2>2 DEF Clear
        <3>2. Downloaded /\ Unpacking
            BY <1>1, <3>1 DEF SoundInv, Staging
        <3>3. /\ stage[<<"bundle.json">>] = got.manifest /\ stage[<<"catalog.json">>] = got.catalog
              /\ DOMAIN stage \subseteq Seq(FileNames)
            BY <1>1 DEF TreeInv, StageInv, WrittenInv, Staging
        <3>4. got["manifest"] = mirror["manifest"] /\ got["catalog"] = mirror["catalog"]
            BY <1>1, <3>2 DEF Downloaded, Same, Assets
        <3>5. mirror \in AllReleases /\ BuiltOf(mirror, SourceOf[mirror])
            BY <3>1, ClearRelease
        <3>6. \A i \in DOMAIN mirror.bundle : mirror.bundle[i].path \in DOMAIN stage
            BY <1>1, <3>2 DEF Unpacking
        <3>7. Validate(stage, mirror.manifest, mirror.catalog)
            BY <3>2, <3>3, <3>5, <3>6, BuiltIsValid DEF Unpacking
        <3>8. mirror.manifest.identity = Wanted
            BY <3>5 DEF BuiltOf
        <3>9. pc' = "accepted" /\ UNCHANGED <<got, stage, entry, bytes>>
            BY <1>3, <3>3, <3>4, <3>7, <3>8
        <3>10. Downloaded'
            BY <1>1, <3>2, <3>9 DEF Downloaded, Same, Assets
        <3>11. Unpacking'
            BY <1>1, <3>2, <3>6, <3>9 DEF Unpacking, AsPlanned
        <3> QED BY <3>9, <3>10, <3>11
    <2> QED BY <1>3, <2>1, <2>2 DEF SoundInv, Assets
<1> QED BY <1>2, <1>3 DEF Load, Calling

LEMMA SoundStep ==
    ASSUME BuildInv, TreeInv, SoundInv, [Next]_vars
    PROVE  SoundInv'
<1>1. CASE Discard \/ Cleanup
    <2>1. /\ pc \in {"discard", "accepted"} /\ pc' \in {"failed", "cleaned"}
          /\ pc = "discard" \/ pc' = "cleaned"
          /\ UNCHANGED <<mirror, uploading, got, entry, bytes, changed>>
        BY <1>1 DEF Discard, Cleanup, RemoveStage
    <2>2. CASE Fault
        BY <2>1, <2>2, SoundFault DEF Assets
    <2>3. CASE UNCHANGED count
        <3>1. Clear' => Clear
            BY <2>1, <2>3 DEF Clear
        <3>2. Downloaded => Downloaded'
            BY <2>1 DEF Downloaded, Same, Assets
        <3> QED BY <2>1, <2>3, <3>1, <3>2 DEF SoundInv, Assets, Staging
    <2> QED BY <1>1, <2>2, <2>3 DEF Discard, Cleanup, RemoveStage
<1>2. CASE UNCHANGED vars
    BY <1>2 DEF vars, SoundInv, Clear, Downloaded, Same, Unpacking, AsPlanned
<1> QED
    BY <1>1, <1>2, SoundUpload, SoundDownload, SoundMakeStage, SoundExtract,
       SoundWriteStaged, SoundLoad DEF Next

\* A release that was built well from a source tree, packed in whatever order and with
\* whichever of its directories, and within the limits on its downloads, files and
\* entries, is never refused unless a call fails or the mirror changes during the
\* downloads.
THEOREM SoundIsAccepted == Spec => []NoFalseReject
<1>1. BuildInv /\ TreeInv /\ SoundInv /\ [Next]_vars => (BuildInv /\ TreeInv /\ SoundInv)'
    BY MirrorStepInv, GotStepInv, TreeStepInv, SoundStep DEF BuildInv
<1>2. SoundInv => NoFalseReject
    BY DEF SoundInv, NoFalseReject, Clear
<1> QED BY <1>1, <1>2, BuildInitInv, TreeInitInv, SoundInitInv, PTL DEF Spec
=============================================================================
