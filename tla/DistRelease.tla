------------------------------- MODULE DistRelease -------------------------------
(***************************************************************************)
(* ResolveDistRelease (dist.go): five assets are downloaded one by one     *)
(* from a mirror whose tag a publisher may replace meanwhile, checked,     *)
(* extracted entry by entry into a staging directory and loaded as a       *)
(* bundle.  Downloads and file-system calls may fail, also the RemoveAll   *)
(* that cleans up after an error.                                          *)
(*                                                                         *)
(* The digest of a content is that content, so checksums.txt maps names to *)
(* contents and the install manifest holds those of the assets it declares.*)
(***************************************************************************)
EXTENDS BundleInventory, CatalogSearch

CONSTANTS
    None,         \* nothing; what a cut download decodes to
    Wanted,       \* the product and version asked for
    Releases,     \* what the mirror may hold first: a content for every asset
    Uploads,      \* what the publisher may replace it by
    SourceOf,     \* of each release a workflow built well: the directories of its Skills
    SizeOf,       \* the size of a file's content
    LengthOf(_, _),   \* of an asset and a body: the bytes the mirror sends for it
    MaxMetadata, MaxBundle,    \* DistMaxMetadataBytes, also of a file; DistMaxBundleBytes
    MaxTotal, MaxEntries,      \* DistMaxExtractBytes, DistMaxExtractEntries
    Rank,         \* the alphabetical order of Skill names
    Queries,      \* the queries asked of an accepted catalog
    MaxUploads, MaxFaults   \* bounds: tags replaced, calls that fail

Assets == {"checksums", "install", "bundle", "manifest", "catalog"}

\* The workflow computes checksums.txt over the other assets of the release.
ASSUME ChecksumsAssumption ==
    \A r \in Releases \cup Uploads :
        /\ r = [a \in Assets |-> r[a]]
        /\ r.checksums = [a \in Assets \ {"checksums"} |-> r[a]]
\* What an archive, a manifest and a catalog are decoded to: lists of entries, whose
\* paths are lists of names.
IsList(s) == Len(s) \in Nat /\ s = [i \in 1 .. Len(s) |-> s[i]]
ASSUME DecodedAssumption ==
    \A r \in Releases \cup Uploads :
        /\ IsList(r.bundle) /\ IsList(r.manifest.skills) /\ IsList(r.catalog.entries)
        /\ \A e \in Range(r.bundle) :
              e.path \in Seq(STRING) /\ (e.kind = "file" => SizeOf[e.content] \in Nat)
        /\ \A skill \in Range(r.manifest.skills) :
              \A file \in Range(skill.files) : file.path \in Seq(STRING)
\* Different names have different ranks, and Weights says what a term can be to an entry.
ASSUME SearchAssumption ==
    /\ \A r \in Releases \cup Uploads : \A e, f \in Range(r.catalog.entries) :
          Rank[e.name] \in Nat /\ (Rank[e.name] = Rank[f.name] => e.name = f.name)
    /\ \A q \in Queries :
          /\ IsList(q)
          /\ \A r \in Releases \cup Uploads : \A e \in Range(r.catalog.entries) :
                \A i \in DOMAIN q : e.meets[q[i]] \subseteq DOMAIN Weights
ASSUME LimitsAssumption == {MaxMetadata, MaxTotal, MaxEntries} \subseteq Nat

\* The limit distDownload is given for an asset
DownloadLimit(a) == IF a = "bundle" THEN MaxBundle ELSE MaxMetadata
WithinDownload(a, body) == LengthOf(a, body) <= DownloadLimit(a)

\* What is below a directory: a file or a directory is in a directory
IsTree(dir) ==
    /\ IsFiniteSet(DOMAIN dir)
    /\ \A p \in DOMAIN dir :
          /\ p \in Seq(STRING) /\ p # << >> /\ ".." \notin Range(p)
          /\ \A q \in Prefixes(p) \ {<< >>, p} : q \in DOMAIN dir /\ dir[q] = Dir

TotalSize(files, tree) == FoldSet(LAMBDA p, sum : sum + SizeOf[tree[p]], 0, files)

\* An entry of an archive of source; directories may be left out.
PacksOne(e, source) ==
    \/ /\ e.kind = "dir"
       /\ e.path = <<"skills">> \/ \E name \in DOMAIN source : e.path = <<"skills", name>>
    \/ \E name \in DOMAIN source : \E p \in DOMAIN source[name] :
          /\ e.path = <<"skills", name>> \o p
          /\ IF source[name][p] = Dir THEN e.kind = "dir"
             ELSE e.kind = "file" /\ e.content = source[name][p]

\* An archive of source: every file is in it, and nothing that is not in source; within
\* the limits.
Packs(archive, source) ==
    /\ \A i \in DOMAIN archive : PacksOne(archive[i], source)
    /\ \A name \in DOMAIN source : \A p \in FilesBelow(source[name], << >>) :
          \E i \in DOMAIN archive : archive[i].path = <<"skills", name>> \o p
    /\ Len(archive) <= MaxEntries
    /\ LET files == {i \in DOMAIN archive : archive[i].kind = "file"}
           contents == [i \in files |-> archive[i].content]
       IN  /\ \A i \in files : SizeOf[contents[i]] <= MaxMetadata
           /\ TotalSize(files, contents) <= MaxTotal

\* What a product's workflow makes of the directories of its Skills
BuiltOf(r, source) ==
    LET skills == r.manifest.skills
        entries == r.catalog.entries
    IN  /\ \A name \in DOMAIN source :
              /\ name \in STRING \ {".."}
              /\ IsTree(source[name]) /\ Inventoriable(source[name])
        /\ Packs(r.bundle, source)
        /\ skills # << >> /\ Unique(skills) /\ Names(skills) = DOMAIN source
        /\ \A skill \in Range(skills) :
              /\ skill.files = InventorySkillDirectory(source[skill.name])
              /\ skill.digest = SkillDigest(skill.files)
              /\ skill.needs \subseteq DOMAIN source
        /\ Len(entries) = Len(skills)
        /\ \A i \in DOMAIN entries : <<entries[i].name, entries[i].role, entries[i].digest>>
                                     = <<skills[i].name, skills[i].role, skills[i].digest>>
        /\ {r.install.identity, r.manifest.identity, r.catalog.identity} = {Wanted}
        /\ r.install.skills # None
        /\ \A a \in {"bundle", "manifest", "catalog"} : r.install.skills[a] = r[a]
        /\ \A a \in Assets : WithinDownload(a, r[a])

Sound == DOMAIN SourceOf
ASSUME SoundAssumption ==
    \A r \in Sound : r \in Releases \cup Uploads /\ BuiltOf(r, SourceOf[r])

VARIABLES
    mirror,       \* the assets below <product>/v<version>
    uploading,    \* the release being uploaded, and its assets still to upload
    pc,           \* the next call of ResolveDistRelease
    got,          \* the assets downloaded
    stage,        \* the tree in the staging directory; None when there is none
    entry,        \* extractedEntries: how many archive entries were read
    bytes,        \* extractedBytes
    count,        \* how much of each bound is used
    changed       \* ghost: the mirror changed since the first download

vars == <<mirror, uploading, pc, got, stage, entry, bytes, count, changed>>

After == [checksums |-> "install", install |-> "bundle", bundle |-> "manifest",
          manifest |-> "catalog", catalog |-> "stage"]

Calls == Assets \cup {"stage", "extract", "bundle.json", "catalog.json", "load",
                      "accepted", "discard", "failed", "cleaned"}

TypeOK ==
    /\ DOMAIN mirror = Assets /\ DOMAIN got = Assets
    /\ pc \in Calls
    /\ uploading.left \subseteq Assets
    /\ entry \in Nat /\ bytes \in Nat /\ changed \in BOOLEAN

Init ==
    /\ mirror \in Releases
    /\ uploading = [release |-> mirror, left |-> {}]
    /\ pc = "checksums"
    /\ got = [a \in Assets |-> None]
    /\ stage = None /\ entry = 0 /\ bytes = 0
    /\ count = [uploads |-> 0, faults |-> 0]
    /\ changed = FALSE

-----------------------------------------------------------------------------
(* The publisher: the assets of a tag are replaced in any order.  What happens *)
(* to the mirror after the last download is not of interest.                  *)

StartUpload ==
    /\ pc \in Assets
    /\ uploading.left = {} /\ count.uploads < MaxUploads
    /\ \E r \in Uploads : uploading' = [release |-> r, left |-> Assets]
    /\ count' = [count EXCEPT !.uploads = @ + 1]
    /\ UNCHANGED <<mirror, pc, got, stage, entry, bytes, changed>>

UploadAsset ==
    /\ pc \in Assets
    /\ \E a \in uploading.left :
          /\ mirror' = [mirror EXCEPT ![a] = uploading.release[a]]
          /\ uploading' = [uploading EXCEPT !.left = @ \ {a}]
    /\ changed' = (changed \/ pc # "checksums")
    /\ UNCHANGED <<pc, got, stage, entry, bytes, count>>

-----------------------------------------------------------------------------
(* Downloads *)

Fault ==
    /\ count.faults < MaxFaults
    /\ count' = [count EXCEPT !.faults = @ + 1]

\* An error: once the staging directory is made, cleanup is called.
Fail ==
    /\ pc' = IF stage = None THEN "failed" ELSE "discard"
    /\ UNCHANGED <<got, stage, entry, bytes>>

\* Faulty: an asset without a line in checksums.txt passes, and so does any other.
ListedOrNot(a, payload) == payload # None

\* distDownloadChecked: distChecksumFor and distVerifyDigest
Listed(a, payload) == a \in DOMAIN got.checksums /\ got.checksums[a] = payload

\* ValidateInstallManifest, the identity check and distDownloadDeclaredAsset
Accepts(a, payload) ==
    \/ a = "checksums"
    \/ /\ Listed(a, payload)
       /\ IF a = "install" THEN payload.identity = Wanted /\ payload.skills # None
          ELSE got.install.skills[a] = payload

\* What a body that ends early reads as: checksums.txt without some of its lines
CutShort(a) ==
    IF a = "checksums" THEN {Restrict(mirror[a], DOMAIN mirror[a] \ {b}) : b \in Assets}
    ELSE {None}

Receive(a, payload) ==
    IF Accepts(a, payload)
    THEN /\ got' = [got EXCEPT ![a] = payload]
         /\ pc' = After[a]
         /\ UNCHANGED <<stage, entry, bytes>>
    ELSE Fail

Download ==
    /\ pc \in Assets
    /\ \/ /\ IF WithinDownload(pc, mirror[pc]) THEN Receive(pc, mirror[pc]) ELSE Fail
          /\ UNCHANGED count
       \/ Fault /\ \E payload \in CutShort(pc) : Receive(pc, payload)
       \/ Fault /\ Fail
    /\ UNCHANGED <<mirror, uploading, changed>>

-----------------------------------------------------------------------------
(* Extraction *)

\* A file-system call of the process: ok, or an error that is cleaned up after.
Calling(effect) ==
    /\ \/ effect /\ UNCHANGED count
       \/ Fault /\ Fail
    /\ UNCHANGED <<mirror, uploading, changed>>

MakeStage ==
    /\ pc = "stage"
    /\ Calling(stage' = NoTree /\ pc' = "extract" /\ UNCHANGED <<got, entry, bytes>>)

\* Faulty: the name is looked at before it is cleaned.
BelowSkillsAsNamed(path) == path # << >> /\ Head(path) = "skills"

\* An entry must be skills or something below it.
BelowSkills(path) == Clean(path) # << >> /\ Head(Clean(path)) = "skills"

\* Faulty: the last byte and the last entry are refused.
WithinLimitsExclusive(e) ==
    /\ entry + 1 < MaxEntries
    /\ e.kind = "file" => SizeOf[e.content] < MaxMetadata
                          /\ bytes + SizeOf[e.content] < MaxTotal

WithinLimits(e) ==
    /\ entry + 1 <= MaxEntries
    /\ e.kind = "file" => SizeOf[e.content] <= MaxMetadata
                          /\ bytes + SizeOf[e.content] <= MaxTotal

\* MkdirAll: every name on the way is a directory or nothing.
Passable(path) == \A p \in Prefixes(path) \ {<< >>} : p \in DOMAIN stage => stage[p] = Dir
MadeAll(path) ==
    LET made == Prefixes(path) \ {<< >>}
    IN  [p \in DOMAIN stage \cup made |-> IF p \in made THEN Dir ELSE stage[p]]

\* os.WriteFile: a new file, or other bytes in one that is there
Written(tree, path, content) ==
    [p \in DOMAIN tree \cup {path} |-> IF p = path THEN content ELSE tree[p]]

\* distExtractBundle, one entry: whether it is taken, and what the tree is then
Takes(e) ==
    LET path == Clean(e.path)
    IN  /\ BelowSkills(e.path) /\ WithinLimits(e)
        /\ \/ e.kind = "dir" /\ Passable(path)
           \/ /\ e.kind = "file" /\ Passable(Front(path))
              /\ ~(path \in DOMAIN stage /\ stage[path] = Dir)

Extracted(e) ==
    LET path == Clean(e.path)
    IN  IF e.kind = "dir" THEN MadeAll(path)
        ELSE Written(MadeAll(Front(path)), path, e.content)

Unpack(e) ==
    IF Takes(e)
    THEN /\ stage' = Extracted(e)
         /\ entry' = entry + 1
         /\ bytes' = bytes + (IF e.kind = "file" THEN SizeOf[e.content] ELSE 0)
         /\ UNCHANGED <<pc, got>>
    ELSE Fail

Extract ==
    /\ pc = "extract"
    /\ IF entry < Len(got.bundle) THEN Calling(Unpack(got.bundle[entry + 1]))
       ELSE /\ pc' = "bundle.json"
            /\ UNCHANGED <<mirror, uploading, got, stage, entry, bytes, count, changed>>

WriteStaged(name, asset, next) ==
    /\ pc = name
    /\ Calling(/\ stage' = Written(stage, <<name>>, got[asset])
               /\ pc' = next
               /\ UNCHANGED <<got, entry, bytes>>)

\* LoadBundle, and the identity check after it
Load ==
    /\ pc = "load"
    /\ Calling(LET manifest == stage[<<"bundle.json">>]
                   catalog == stage[<<"catalog.json">>]
               IN  IF Validate(stage, manifest, catalog) /\ manifest.identity = Wanted
                   THEN pc' = "accepted" /\ UNCHANGED <<got, stage, entry, bytes>>
                   ELSE Fail)

\* os.RemoveAll(stage): its error is dropped, and what it did not remove stays.
RemoveStage ==
    /\ \/ stage' = None /\ UNCHANGED count
       \/ /\ Fault
          /\ \E left \in SUBSET DOMAIN stage :
                /\ \A p \in left : Prefixes(p) \ {<< >>} \subseteq left
                /\ stage' = Restrict(stage, left)
    /\ UNCHANGED <<mirror, uploading, got, entry, bytes, changed>>

\* cleanup on the way out of an error
Discard == pc = "discard" /\ pc' = "failed" /\ RemoveStage

\* The consumer calls the cleanup function it was given.
Cleanup == pc = "accepted" /\ pc' = "cleaned" /\ RemoveStage

Next ==
    \/ StartUpload \/ UploadAsset
    \/ Download \/ MakeStage \/ Extract
    \/ WriteStaged("bundle.json", "manifest", "catalog.json")
    \/ WriteStaged("catalog.json", "catalog", "load")
    \/ Load \/ Discard \/ Cleanup

Spec == Init /\ [][Next]_vars

-----------------------------------------------------------------------------
(* Properties *)

\* Assets are downloaded one by one while the tag is replaced one by one: what is
\* accepted was built together, and is never a mixture of two uploads.
OneBuild ==
    pc = "accepted" => \E r \in Releases \cup Uploads : got = r

\* What the consumer installs from holds exactly the files the manifest lists,
\* with their bytes, and the catalog has one entry for each of its Skills:
\* whatever the archive packed, in whatever order, and packed twice.
AcceptedIsExact ==
    pc = "accepted" =>
        LET skills == Range(got.manifest.skills)
        IN  /\ {<<p, stage[p]>> : p \in FilesBelow(stage, <<"skills">>)}
               = UNION {{<<<<"skills", s.name>> \o f.path, f.digest>> :
                            f \in Range(s.files)} : s \in skills}
            /\ \A s \in skills :
                  Cardinality({i \in DOMAIN got.catalog.entries :
                                  got.catalog.entries[i].name = s.name}) = 1

\* Until it is removed there is at no moment anything in the staging directory outside
\* skills/ but the two files written by the client, nor more files or bytes than the
\* limits.
ExtractionContained ==
    stage # None /\ pc \notin {"failed", "cleaned"} =>
        LET files == FilesBelow(stage, <<"skills">>)
        IN  /\ \A p \in DOMAIN stage :
                  \/ Head(p) = "skills"
                  \/ p = <<"bundle.json">> /\ pc \notin {"extract", "bundle.json"}
                  \/ p = <<"catalog.json">> /\ pc \in {"load", "accepted", "discard"}
            /\ Cardinality(files) <= MaxEntries
            /\ TotalSize(files, stage) <= MaxTotal

\* A release the workflow built from a source tree InventorySkillDirectory takes
\* is accepted, up to the limits on each download, on each file, on all of them and on
\* the entries, unless a call fails or the tag is replaced under the client.
NoFalseReject ==
    pc \in {"discard", "failed"} /\ count.faults = 0 /\ ~changed => mirror \notin Sound

\* The order the entries have in an accepted catalog makes no difference to what
\* Search returns, although sort.Slice is not stable.
SearchIgnoresOrder ==
    pc = "accepted" =>
        \A q \in Queries : Cardinality(Searches(got.catalog, q, Rank)) = 1

\* What the best field of every term is worth together, when every term has one
Relevance(e, q) ==
    LET Worth(i) == Max({0} \cup {Weights[how] : how \in e.meets[q[i]]})
    IN  IF \E i \in DOMAIN q : Worth(i) = 0 THEN 0
        ELSE FoldSet(LAMBDA i, sum : sum + Worth(i), 0, DOMAIN q)

\* Suggest leaves out a compatible entry Skill only for Skills at least as
\* relevant, and only when it returns as many as it may, three at most.
SuggestKeepsBest ==
    pc = "accepted" =>
        \A q \in Queries, compatible \in SUBSET DOMAIN Rank, limit \in -1 .. 4 :
        \A m \in Searches(got.catalog, q, Rank) :
            LET kept == Range(Suggest(m, compatible, limit))
                may == {e \in Range(got.catalog.entries) :
                           /\ e.role = "entry" /\ e.name \in compatible
                           /\ Relevance(e, q) > 0}
            IN  /\ kept \subseteq may
                /\ Cardinality(kept) = Min({Cardinality(may), 3}
                                           \cup (IF limit <= 0 THEN {} ELSE {limit}))
                /\ \A e \in may \ kept, k \in kept : Relevance(k, q) >= Relevance(e, q)
=============================================================================
