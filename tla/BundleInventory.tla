---------------------------- MODULE BundleInventory ----------------------------
(***************************************************************************)
(* Directory trees, the inventory a product makes of a Skill directory     *)
(* (assets.go), and what LoadBundle asks of a tree, a manifest and a       *)
(* catalog (bundle.go).                                                    *)
(*                                                                         *)
(* A path is the sequence of its names; a tree maps the paths that exist   *)
(* to what is there.  A digest is the content it is the digest of, and the *)
(* digest of an inventory is the set of its entries: SkillDigest hashes    *)
(* them sorted.                                                            *)
(***************************************************************************)
EXTENDS SequencesExt

CONSTANTS
    Dir,      \* a directory
    Unfit     \* a link, a device or an executable file

NoTree == << >>

FilesBelow(tree, root) ==
    {p \in DOMAIN tree : IsStrictPrefix(root, p) /\ tree[p] # Dir}

\* filepath.Clean of a relative path
Clean(path) ==
    FoldLeft(LAMBDA clean, name :
                 IF name # ".." THEN Append(clean, name)
                 ELSE IF clean = << >> \/ Last(clean) = ".." THEN Append(clean, "..")
                 ELSE Front(clean),
             << >>, path)

\* validateBundleRelativePath
Payload(path) ==
    /\ path = Clean(path)
    /\ \/ path \in {<<"SKILL.md">>, <<"agents", "openai.yaml">>}
       \/ Len(path) > 1 /\ Head(path) \in {"references", "assets"}

SkillDigest(files) == Range(files)

-----------------------------------------------------------------------------
(* InventorySkillDirectory, and the release a product builds with it *)

Inventoriable(dir) ==
    /\ <<"SKILL.md">> \in FilesBelow(dir, << >>)
    /\ \A path \in FilesBelow(dir, << >>) : Payload(path) /\ dir[path] # Unfit

\* In any order: the manifest lists what WalkDir found.
InventorySkillDirectory(dir) ==
    SetToSeq({[path |-> p, digest |-> dir[p]] : p \in FilesBelow(dir, << >>)})

-----------------------------------------------------------------------------
(* Validate: manifest.skills and catalog.entries are sequences, a Skill of *)
(* the manifest lists its files and the Skills it needs from the bundle    *)

Names(seq) == {seq[i].name : i \in DOMAIN seq}
Unique(seq) == Cardinality(Names(seq)) = Len(seq)

Declared(skill) == {skill.files[i].path : i \in DOMAIN skill.files}

\* validateBundleSkill
ValidBundleSkill(tree, skill) ==
    /\ <<"SKILL.md">> \in Declared(skill)
    /\ Cardinality(Declared(skill)) = Len(skill.files)
    /\ \A i \in DOMAIN skill.files :
          LET path == skill.files[i].path
              full == <<"skills", skill.name>> \o path
          IN  /\ Payload(path)
              /\ full \in DOMAIN tree
              /\ tree[full] \notin {Dir, Unfit}
              /\ tree[full] = skill.files[i].digest
    /\ skill.digest = SkillDigest(skill.files)

\* Faulty: every declared file is there, and so may be others.
ValidBundleTreeDeclaredOnly(tree, skills) ==
    \A skill \in Range(skills) : \A path \in Declared(skill) :
        <<"skills", skill.name>> \o path \in DOMAIN tree

\* validateBundleTree: nothing below skills/ but what the manifest declares
ValidBundleTree(tree, skills) ==
    \A p \in DOMAIN tree :
        IsStrictPrefix(<<"skills">>, p) =>
            \E skill \in Range(skills) :
                /\ p[2] = skill.name
                /\ tree[p] = Dir \/ SubSeq(p, 3, Len(p)) \in Declared(skill)

\* Faulty: an entry may be there twice, in the place of another.
ValidCatalogRepeated(catalog, skills) ==
    /\ Len(catalog.entries) = Len(skills)
    /\ \A i \in DOMAIN catalog.entries : \E skill \in Range(skills) :
          LET entry == catalog.entries[i]
          IN  <<entry.name, entry.role, entry.digest>>
              = <<skill.name, skill.role, skill.digest>>

\* validateCatalog; role is the pair of role and maturity
ValidCatalog(catalog, skills) ==
    /\ Len(catalog.entries) = Len(skills)
    /\ Unique(catalog.entries)
    /\ \A i \in DOMAIN catalog.entries : \E skill \in Range(skills) :
          LET entry == catalog.entries[i]
          IN  <<entry.name, entry.role, entry.digest>>
              = <<skill.name, skill.role, skill.digest>>

\* Bundle.Validate
Validate(tree, manifest, catalog) ==
    LET skills == manifest.skills
    IN  /\ catalog.identity = manifest.identity
        /\ skills # << >> /\ Unique(skills)
        /\ \A skill \in Range(skills) :
              ValidBundleSkill(tree, skill) /\ skill.needs \subseteq Names(skills)
        /\ ValidBundleTree(tree, skills)
        /\ ValidCatalog(catalog, skills)
=============================================================================
