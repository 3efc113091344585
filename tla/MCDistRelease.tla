----------------------------- MODULE MCDistRelease -----------------------------
(***************************************************************************)
(* The instance of DistRelease for TLC: two good releases of Skills a, b   *)
(* and c, and releases of the second that were packed wrongly in the       *)
(* archive, the manifest, the catalog or the install manifest.             *)
(***************************************************************************)
EXTENDS DistRelease

CONSTANTS wanted, other, x, y, z, w, big   \* z and w are small, big is past the limit

MD == <<"SKILL.md">>
Ref == <<"references", "r.md">>

\* Source trees: one file is shared by the releases, Skill c is new in the first.
SourceOne ==
    [a |-> (MD :> y) @@ (<<"references">> :> Dir) @@ (Ref :> x), b |-> (MD :> y),
     c |-> (MD :> z)]
SourceTwo == [a |-> (MD :> x) @@ (<<"references">> :> Dir) @@ (Ref :> x), b |-> (MD :> y)]

\* One whose archive is past the limit of its download, one whose manifest is
SourceLong ==
    [a |-> (MD :> x), c |-> (MD :> w),
     b |-> (MD :> y) @@ (<<"agents">> :> Dir) @@ (<<"agents", "openai.yaml">> :> z)]
SourceMany == [name \in {"a", "b", "c", "d"} |-> (MD :> x)]

\* Sources of which InventorySkillDirectory takes the first three only
At(name, file, content) == (<<name>> :> Dir) @@ (<<name, file>> :> content)
Sources ==
    {[a |-> (MD :> x), b |-> b] : b \in
        {(MD :> y) @@ At("agents", "openai.yaml", x), (MD :> y) @@ At("assets", "i.md", z),
         (MD :> y) @@ (<<"references">> :> Dir),
         (MD :> y) @@ At("agents", "other.yaml", x), (MD :> y) @@ (<<"notes.md">> :> x),
         (MD :> y) @@ At("assets", "i.md", Unfit), At("references", "r.md", x)}}

SkillOf(source, name, needs) ==
    LET files == InventorySkillDirectory(source[name])
    IN  [name |-> name, role |-> IF name = "c" THEN "dependency" ELSE "entry",
         files |-> files, digest |-> SkillDigest(files), needs |-> needs]

ManifestOf(source) ==
    [identity |-> wanted,
     skills |-> LET names == SetToSeq(DOMAIN source)
                IN  [i \in DOMAIN names |->
                        SkillOf(source, names[i], IF names[i] = "a" THEN {"b"} ELSE {})]]

\* What the terms of the queries are to the Skills
Meets ==
    [a |-> [t |-> {"in_name", "keyword", "in_keyword"}, u |-> {"in_description"}, v |-> {}],
     b |-> [t |-> {"display", "in_display"}, u |-> {"in_prompt", "in_keyword"},
           v |-> {"keyword", "in_keyword"}],
     c |-> [t |-> {"name", "in_name"}, u |-> {}, v |-> {}],
     d |-> [t |-> {}, u |-> {}, v |-> {}]]
MeetsOtherwise == [t |-> {"in_name"}, u |-> {"in_description"}, v |-> {}]

EntryOf(skill) ==
    [name |-> skill.name, role |-> skill.role, digest |-> skill.digest,
     meets |-> Meets[skill.name]]
CatalogOf(manifest) ==
    [identity |-> wanted,
     entries |-> [i \in DOMAIN manifest.skills |-> EntryOf(manifest.skills[i])]]

Packed(path, kind, content) == [path |-> path, kind |-> kind, content |-> content]
ArchiveOf(source) ==
    FlattenSeq([i \in 1 .. Cardinality(DOMAIN source) |->
        LET name == SetToSeq(DOMAIN source)[i]
            paths == SetToSeq(DOMAIN source[name])
        IN  [j \in DOMAIN paths |->
               Packed(<<"skills", name>> \o paths[j],
                      CASE source[name][paths[j]] = Dir -> "dir"
                        [] source[name][paths[j]] = Unfit -> "link"
                        [] OTHER -> "file",
                      source[name][paths[j]])]])

Install(bundle, manifest, catalog) ==
    [identity |-> wanted,
     skills |-> [bundle |-> bundle, manifest |-> manifest, catalog |-> catalog]]

\* checksums.txt is computed over the assets as they are.
Release(install, bundle, manifest, catalog) ==
    LET listed == [install |-> install, bundle |-> bundle, manifest |-> manifest,
                   catalog |-> catalog]
    IN  [a \in Assets |-> IF a = "checksums" THEN listed ELSE listed[a]]

Built(bundle, manifest, catalog) ==
    Release(Install(bundle, manifest, catalog), bundle, manifest, catalog)

BuiltFrom(source) ==
    Built(ArchiveOf(source), ManifestOf(source), CatalogOf(ManifestOf(source)))

One == BuiltFrom(SourceOne)
Two == BuiltFrom(SourceTwo)

\* What an archive may have more: a file, a link, a file outside of skills/, one in
\* the place of a directory, a directory in the place of a file, a file again, with
\* another content, with more than fits, a Skill nobody declares, an empty directory.
Odd ==
    {Packed(<<"skills", "a", "notes.md">>, "file", x),
     Packed(<<"skills", "a", "references", "s.md">>, "link", x),
     Packed(<<"skills", "..", "bundle.json">>, "file", x),
     Packed(<<"..", "skills", "a">>, "file", x),
     Packed(<<"skills", "b", "..", "a", "SKILL.md">>, "file", z),
     Packed(<<"skills", "b", "SKILL.md">>, "file", y),
     Packed(<<"skills", "a">>, "file", x),
     Packed(<<"skills", "a", "SKILL.md">>, "dir", x),
     Packed(<<"skills", "a", "SKILL.md">>, "file", x),
     Packed(<<"skills", "a", "SKILL.md">>, "file", big),
     Packed(<<"skills", "d", "SKILL.md">>, "file", x),
     Packed(<<"skills", "a", "assets">>, "dir", x)}

\* One entry more than the limit, each of them a file
Crowded ==
    LET names == <<"SKILL.md", "1.md", "2.md", "3.md", "4.md", "5.md">>
    IN  [i \in DOMAIN names |-> Packed(<<"skills", "a", names[i]>>, "file", z)]

Archives ==
    LET good == Two.bundle
    IN  {good, Crowded} \cup {InsertAt(good, i, e) : i \in 1 .. Len(good) + 1, e \in Odd}
        \cup {RemoveAt(good, i) : i \in DOMAIN good}

WithSkill(manifest, i, skill) == [manifest EXCEPT !.skills[i] = skill]

Manifests ==
    LET good == Two.manifest
        s == good.skills
    IN  {good,
         [good EXCEPT !.identity = other],
         [good EXCEPT !.skills = Append(@, @[1])],
         [good EXCEPT !.skills = << >>]}
        \cup UNION {{WithSkill(good, i, [s[i] EXCEPT !.files = Tail(@)]),
                     WithSkill(good, i, [s[i] EXCEPT !.files = Append(@, @[1])]),
                     WithSkill(good, i, [s[i] EXCEPT !.files[1].digest = big]),
                     WithSkill(good, i, [s[i] EXCEPT !.needs = {"d"}])} : i \in DOMAIN s}

Catalogs ==
    LET good == Two.catalog
    IN  {good,
         [good EXCEPT !.identity = other],
         [good EXCEPT !.entries = Tail(@)],
         [good EXCEPT !.entries[1].role = "dependency"],
         [good EXCEPT !.entries[2] = [good.entries[1] EXCEPT !.meets = MeetsOtherwise]],
         [good EXCEPT !.entries = Append(@, @[1])]}

WrongInstalls ==
    {[Two.install EXCEPT !.identity = other], [Two.install EXCEPT !.skills = None],
     [Two.install EXCEPT !.skills.catalog = One.catalog]}

MCReleases ==
    {One} \cup {BuiltFrom(s) : s \in Sources \cup {SourceLong, SourceMany}}
    \cup {Built(b, Two.manifest, Two.catalog) : b \in Archives}
    \cup {Built(Two.bundle, m, Two.catalog) : m \in Manifests}
    \cup {Built(Two.bundle, Two.manifest, c) : c \in Catalogs}
    \cup {Release(i, Two.bundle, Two.manifest, Two.catalog) : i \in WrongInstalls}
MCUploads == {One}
MCSourceOf ==
    LET sources == {SourceOne, SourceTwo}
                   \cup {t \in Sources : \A name \in DOMAIN t : Inventoriable(t[name])}
    IN  [r \in {BuiltFrom(s) : s \in sources} |-> CHOOSE s \in sources : BuiltFrom(s) = r]

\* An archive repeats nothing; the manifest and the catalog grow with the Skills.  The
\* archive and the manifest of the first release are as long as they may be.
MCLengthOf(a, body) ==
    CASE a = "bundle" -> Len(body) + Cardinality({e.content : e \in {f \in Range(body) : f.kind = "file"}})
      [] a = "manifest" -> Len(body.skills)
      [] a = "catalog" -> Len(body.entries)
      [] OTHER -> MaxMetadata

MCSizeOf == (x :> 1) @@ (y :> 3) @@ (z :> 0) @@ (w :> 0) @@ (big :> 4)
MCRank == [a |-> 1, b |-> 2, c |-> 3, d |-> 4]
MCQueries == {<<"t">>, <<"u">>, <<"t", "u">>, <<"v", "t">>}
=============================================================================
