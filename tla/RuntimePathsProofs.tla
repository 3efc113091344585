---------------------------- MODULE RuntimePathsProofs ----------------------------
(***************************************************************************)
(* Proofs about RuntimePaths, for any runtimes and places, any allowed     *)
(* roots, and any number of plans, links and edits: what Apply may change, *)
(* and that the bytes of a claim stay in its directory.                    *)
(***************************************************************************)
EXTENDS RuntimePaths, SequenceTheorems, TLAPS

\* What ReviewedPlacesOnly rests on: the actions left are the plan's, and between
\* its check and its change a target resolves to itself unless a link came in.
PathsInv ==
    /\ link \in [Places -> Places]
    /\ plan.actions \subseteq Keys
    /\ at \in {"action", "change"} => todo \subseteq plan.actions
    /\ at = "change" /\ ~raced => \A k \in Keys : IsTarget(k) => Canonical(k)
    /\ ReviewedPlacesOnly

\* The order of sortPlan is total: only one action is next.
LEMMA OneTarget ==
    ASSUME todo \subseteq Keys, NEW j, NEW k, IsTarget(j), IsTarget(k)
    PROVE  j = k
<1>1. j \in Keys /\ k \in Keys
    BY DEF IsTarget
<1>2. ASSUME NEW i \in Keys PROVE i = <<i[1], i[2]>> /\ i[1] \in Nat /\ i[2] \in Nat
    <2>1. PICK r \in Runtimes, p \in Places : i = <<r, p>>
        BY DEF Keys
    <2>2. r \in Nat /\ p \in Nat
        BY PlacesAssumption
    <2> QED BY <2>1, <2>2
<1>3. /\ k[1] < j[1] \/ (k[1] = j[1] /\ k[2] <= j[2])
      /\ j[1] < k[1] \/ (j[1] = k[1] /\ j[2] <= k[2])
    BY DEF IsTarget
<1>4. j[1] = k[1] /\ j[2] = k[2]
    BY <1>1, <1>2, <1>3
<1>5. j = <<j[1], j[2]>> /\ k = <<k[1], k[2]>>
    BY <1>1, <1>2
<1> QED BY <1>4, <1>5

\* What is planned is about keys: a path resolves to a place.
LEMMA ResolvedAreKeys ==
    ASSUME link \in [Places -> Places], NEW runtimes \in SUBSET Runtimes
    PROVE  Resolved(runtimes) \subseteq Keys
<1>1. ASSUME NEW r \in runtimes PROVE <<r, link[Homes[r]]>> \in Keys
    <2>1. Homes[r] \in Places
        BY PlacesAssumption
    <2> QED BY <2>1 DEF Keys
<1> QED BY <1>1 DEF Resolved

LEMMA ActionsAreKeys ==
    ASSUME link \in [Places -> Places], NEW runtimes \in SUBSET Runtimes, NEW digest
    PROVE  Actions(Resolved(runtimes), digest) \subseteq Keys
BY ResolvedAreKeys DEF Actions

LEMMA PathsInitInv == Init => PathsInv
BY DEF Init, PathsInv, NoPlan, ReviewedPlacesOnly

\* Every step of Apply, of the planner and of the user keeps PathsInv.
LEMMA PathsStepInv == PathsInv /\ [Next]_vars => PathsInv'
<1> SUFFICES ASSUME PathsInv, [Next]_vars PROVE PathsInv'
    OBVIOUS
<1> USE DEF PathsInv, ReviewedPlacesOnly
<1>1. ASSUME NEW runtimes \in SUBSET Runtimes, NEW d, PlanInstall(runtimes, d)
      PROVE  PathsInv'
    BY <1>1, ActionsAreKeys DEF PlanInstall, MakePlan, files
<1>2. CASE PlanUninstall
    <2>1. Actions({}, None) \subseteq Keys
        BY DEF Actions
    <2> QED BY <1>2, <2>1 DEF PlanUninstall, MakePlan, files
<1>3. CASE Apply
    BY <1>3 DEF Apply, files
<1>4. ASSUME NEW k \in Keys, CheckTarget(k) PROVE PathsInv'
    <2>1. \A j \in Keys : IsTarget(j)' => j = k
        BY <1>4, OneTarget DEF CheckTarget, IsTarget
    <2>2. Canonical(k)' <=> Canonical(k)
        BY <1>4 DEF CheckTarget, Canonical, files
    <2>3. at' = "change" => Canonical(k)
        BY <1>4 DEF CheckTarget
    <2> QED BY <1>4, <2>1, <2>2, <2>3 DEF CheckTarget, files, ghosts
<1>5. ASSUME NEW k \in Keys, Change(k) PROVE PathsInv'
    <2>1. ~raced => link[k[2]] = k[2] /\ k[2] \in Allowed
        BY <1>5 DEF Change, Canonical
    <2>2. k \in plan.actions
        BY <1>5 DEF Change, IsTarget
    <2> QED BY <1>5, <2>1, <2>2 DEF Change
<1>6. CASE Publish
    BY <1>6 DEF Publish, NoPlan, ghosts
<1>7. CASE Undo
    BY <1>7 DEF Undo
<1>8. CASE RolledBack
    BY <1>8 DEF RolledBack, NoPlan, files, ghosts
<1>9. ASSUME NEW p \in Places, NEW q \in Places, Relink(p, q) PROVE PathsInv'
    BY <1>9 DEF Relink, UserLinks, library
<1>10. ASSUME NEW p \in Places, Unlink(p) PROVE PathsInv'
    BY <1>10 DEF Unlink, UserLinks, library
<1>11. ASSUME NEW p \in Places, UserEdit(p) PROVE PathsInv'
    BY <1>11 DEF UserEdit, library, IsTarget, Canonical
<1>12. CASE UNCHANGED vars
    BY <1>12 DEF vars, files, ghosts, IsTarget, Canonical
<1> QED
    BY <1>1, <1>2, <1>3, <1>4, <1>5, <1>6, <1>7, <1>8, <1>9, <1>10, <1>11, <1>12 DEF Next

\* Whatever the user moves and links, and whenever, Apply changes directories of the
\* reviewed plan below the allowed roots only, except through a link that comes
\* between a target's check and its change.
THEOREM OnlyReviewedPlaces == Spec => []ReviewedPlacesOnly
<1>1. PathsInv => ReviewedPlacesOnly
    BY DEF PathsInv
<1> QED BY <1>1, PathsInitInv, PathsStepInv, PTL DEF Spec

-----------------------------------------------------------------------------
(* The bytes of what is claimed: the inductive invariant *)

Entry == [digest : Digests \cup {None}, claimed : BOOLEAN]
Mutation == [key : Keys, found : Contents, result : Digests \cup {None}]

TypeInv ==
    /\ TypeOK
    /\ newRegistry \in [Keys -> Entry]
    /\ revision \in Nat /\ plan.revision \in Nat
    /\ plan.digest \in Digests \cup {None}
    /\ raced \in BOOLEAN

\* A place the user left alone, and no two runtimes had at once
Quiet(p) == p \in Places /\ p \notin shared /\ p \notin edited

\* Only the user makes a path lead elsewhere.
LinksInv == \A p \in Places \ edited : link[p] = p

\* No two keys of a place that is not shared are claimed.
OneClaimInv ==
    \A i, k \in Keys :
        /\ k[2] \notin shared /\ i[2] = k[2]
        /\ registry[i].claimed /\ registry[k].claimed
        => i = k

\* Nor is one wanted by a plan that is still good and another wanted or claimed.
PlanInv ==
    /\ plan.revision <= revision
    /\ at # "idle" => plan.revision = revision
    /\ plan.revision = revision =>
          \A k \in plan.want, i \in Keys :
              /\ k[2] \notin shared /\ i[2] = k[2]
              /\ i \in plan.want \/ registry[i].claimed
              => i = k

\* Apply's actions are about what is wanted or claimed; each is done once, and its
\* mutation recorded.
ActionsInv ==
    at # "idle" =>
        /\ \A k \in plan.actions : k \in plan.want \/ registry[k].claimed
        /\ \A i \in DOMAIN mutations : mutations[i].key \in plan.actions \ todo
        /\ \A i, j \in DOMAIN mutations : mutations[i].key = mutations[j].key => i = j

\* What is claimed is in place, or in the one mutation of its place.
ClaimInv ==
    ~raced => \A k \in Keys : Quiet(k[2]) /\ registry[k].claimed =>
        \/ /\ at # "idle"
           /\ \E i \in DOMAIN mutations :
                 mutations[i].key = k /\ mutations[i].found = registry[k].digest
        \/ /\ at # "idle" => \A i \in DOMAIN mutations : mutations[i].key # k
           /\ bytes[k[2]] = registry[k].digest

\* What Apply will claim is in place once its action is done.
WantInv ==
    at \in {"action", "change"} =>
        /\ \A k \in Keys : newRegistry[k].claimed <=> k \in plan.want
        /\ \A k \in plan.want : newRegistry[k].digest = plan.digest
        /\ ~raced => \A k \in plan.want :
              Quiet(k[2]) /\ k \notin todo => bytes[k[2]] = plan.digest

ClaimsInv ==
    /\ TypeInv /\ PathsInv
    /\ LinksInv /\ OneClaimInv /\ PlanInv /\ ActionsInv /\ ClaimInv /\ WantInv

-----------------------------------------------------------------------------
(* Types *)

\* What an undone mutation leaves of the list
LEMMA FrontAndLast ==
    ASSUME NEW S, NEW s \in Seq(S), s # << >>
    PROVE  /\ Len(s) \in Nat \ {0} /\ DOMAIN s = 1 .. Len(s)
           /\ Last(s) = s[Len(s)] /\ Last(s) \in S
           /\ Front(s) \in Seq(S) /\ DOMAIN Front(s) = 1 .. Len(s) - 1
           /\ \A i \in DOMAIN Front(s) : Front(s)[i] = s[i]
<1>1. Len(s) \in Nat \ {0} /\ DOMAIN s = 1 .. Len(s)
    BY LenProperties, EmptySeq
<1>2. \A i \in 1 .. Len(s) : s[i] \in S
    BY ElementOfSeq
<1>3. /\ Front(s) \in Seq(S)
      /\ Len(Front(s)) = Len(s) - 1
      /\ \A i \in 1 .. Len(s) - 1 : Front(s)[i] = s[i]
    <2>1. /\ SubSeq(s, 1, Len(s) - 1) \in Seq(S)
          /\ Len(SubSeq(s, 1, Len(s) - 1)) =
                IF 1 <= Len(s) - 1 THEN Len(s) - 1 - 1 + 1 ELSE 0
          /\ \A i \in 1 .. Len(s) - 1 - 1 + 1 : SubSeq(s, 1, Len(s) - 1)[i] = s[1 + i - 1]
        <3>1. 1 \in Int /\ Len(s) - 1 \in Int
            BY <1>1
        <3>2. \A i \in 1 .. Len(s) - 1 : s[i] \in S
            BY <1>1, <1>2
        <3> QED BY <3>1, <3>2, SubSeqProperties
    <2> QED BY <1>1, <2>1 DEF Front
<1>4. DOMAIN Front(s) = 1 .. Len(s) - 1
    BY <1>3, LenProperties
<1> QED BY <1>1, <1>2, <1>3, <1>4 DEF Last

\* The first state is one of the types' states.
LEMMA PathTypeInit == Init => TypeInv
<1> SUFFICES ASSUME Init PROVE TypeInv
    OBVIOUS
<1>1. registry \in [Keys -> Entry] /\ newRegistry \in [Keys -> Entry]
    BY DEF Init, NoEntry, Entry
<1>2. raced \in BOOLEAN /\ revision \in Nat /\ plan.revision \in Nat
    BY DEF Init, NoPlan
<1> QED BY <1>1, <1>2 DEF Init, TypeInv, TypeOK, Contents, Entry, NoPlan

\* Every step of Apply, of the planner and of the user keeps the types.
LEMMA PathTypeStep == TypeInv /\ PathsInv /\ [Next]_vars => TypeInv'
<1> SUFFICES ASSUME TypeInv, PathsInv, [Next]_vars PROVE TypeInv'
    OBVIOUS
<1> USE DEF TypeInv, TypeOK, Entry
<1>1. ASSUME NEW runtimes \in SUBSET Runtimes, NEW d \in Digests, PlanInstall(runtimes, d)
      PROVE  TypeInv'
    <2>1. Resolved(runtimes) \subseteq Keys /\ Actions(Resolved(runtimes), d) \subseteq Keys
        BY ResolvedAreKeys, ActionsAreKeys
    <2> QED BY <1>1, <2>1 DEF PlanInstall, MakePlan, files
<1>2. CASE PlanUninstall
    <2>1. Actions({}, None) \subseteq Keys
        BY DEF Actions
    <2> QED BY <1>2, <2>1 DEF PlanUninstall, MakePlan, files
<1>3. CASE Apply
    <2>1. newRegistry' \in [Keys -> Entry]
        BY <1>3 DEF Apply, Projected, NoEntry
    <2> QED BY <1>3, <2>1, EmptySeq DEF Apply, files
<1>4. ASSUME NEW k \in Keys, CheckTarget(k) PROVE TypeInv'
    BY <1>4 DEF CheckTarget, files, ghosts
<1>5. ASSUME NEW k \in Keys, Change(k) PROVE TypeInv'
    <2>1. link[k[2]] \in Places
        BY DEF Keys
    <2>2. bytes[link[k[2]]] \in Contents /\ Digests \cup {None} \subseteq Contents
        BY <2>1 DEF Contents
    <2> QED BY <1>5, <2>1, <2>2 DEF Change
<1>6. CASE Publish
    BY <1>6 DEF Publish, NoPlan, ghosts
<1>7. CASE Undo
    <2>1. mutations # << >>
        BY <1>7 DEF Undo
    <2>2. Last(mutations) \in Mutation /\ Front(mutations) \in Seq(Mutation)
        BY <2>1, FrontAndLast DEF Mutation
    <2>3. Last(mutations).found \in Contents
        BY <2>2 DEF Mutation
    <2> QED BY <1>7, <2>2, <2>3 DEF Undo, Mutation
<1>8. CASE RolledBack
    BY <1>8 DEF RolledBack, NoPlan, files, ghosts
<1>9. ASSUME NEW p \in Places, NEW q \in Places, Relink(p, q) PROVE TypeInv'
    <2>1. bytes' \in [Places -> Contents]
        BY <1>9 DEF Relink, Contents
    <2> QED BY <1>9, <2>1 DEF Relink, UserLinks, library
<1>10. ASSUME NEW p \in Places, Unlink(p) PROVE TypeInv'
    BY <1>10 DEF Unlink, UserLinks, library
<1>11. ASSUME NEW p \in Places, UserEdit(p) PROVE TypeInv'
    <2>1. bytes' \in [Places -> Contents]
        BY <1>11 DEF UserEdit, Contents
    <2> QED BY <1>11, <2>1 DEF UserEdit, library
<1>12. CASE UNCHANGED vars
    BY <1>12 DEF vars, files, ghosts
<1> QED
    BY <1>1, <1>2, <1>3, <1>4, <1>5, <1>6, <1>7, <1>8, <1>9, <1>10, <1>11, <1>12 DEF Next

\* Every variable of RuntimePaths keeps its type, however many plans, links and edits.
THEOREM PathTypesAlways == Spec => []TypeOK
<1>1. TypeInv => TypeOK
    BY DEF TypeInv
<1> QED BY <1>1, PathsInitInv, PathsStepInv, PathTypeInit, PathTypeStep, PTL DEF Spec

-----------------------------------------------------------------------------
(* Every step keeps the invariant *)

\* Of two runtimes' actions at one place, one was not wanted and not claimed.
LEMMA OneActionPerPlace ==
    ASSUME ClaimsInv, at # "idle", NEW j \in plan.actions, NEW k \in Keys,
           k \in plan.want \/ registry[k].claimed, k[2] \notin shared, j[2] = k[2]
    PROVE  j = k
<1> USE DEF ClaimsInv, PlanInv, OneClaimInv
<1>1. j \in Keys /\ plan.revision = revision
    BY DEF TypeInv, TypeOK
<1>2. j \in plan.want \/ registry[j].claimed
    BY DEF ActionsInv
<1>3. CASE j \in plan.want
    BY <1>1, <1>3
<1>4. CASE k \in plan.want
    BY <1>1, <1>2, <1>4
<1> QED BY <1>1, <1>2, <1>3, <1>4

\* What is planned is about what is wanted or claimed.
LEMMA ActionsWantedOrClaimed ==
    ASSUME NEW want, NEW digest, NEW k \in Actions(want, digest)
    PROVE  k \in want \/ registry[k].claimed
BY DEF Actions

\* What the user does is no step of Apply.
LEMMA UserStep ==
    ASSUME NEW p \in Places, NEW q \in Places, Relink(p, q) \/ Unlink(p) \/ UserEdit(p)
    PROVE  /\ UNCHANGED <<registry, revision, plan, at, todo, newRegistry, mutations>>
           /\ UNCHANGED <<touched, shared>>
           /\ edited \subseteq edited'
           /\ raced => raced'
<1>1. UNCHANGED library /\ UNCHANGED shared
    BY DEF Relink, Unlink, UserEdit
<1>2. raced' = raced \/ raced' = (raced \/ at = "change")
    BY DEF Relink, Unlink, UserEdit, UserLinks
<1>3. edited' = edited \/ edited' = edited \cup {p} \/ edited' = edited \cup {p, q}
    BY DEF Relink, Unlink, UserEdit
<1>4. edited \subseteq edited'
    BY <1>3
<1>5. raced => raced'
    BY <1>2
<1> QED BY <1>1, <1>4, <1>5 DEF library

\* A link that is made or removed is the user's doing.
LEMMA LinksStep == LinksInv /\ [Next]_vars => LinksInv'
<1> SUFFICES ASSUME LinksInv, [Next]_vars PROVE LinksInv'
    OBVIOUS
<1>1. ASSUME NEW p \in Places, NEW q \in Places, Relink(p, q) PROVE LinksInv'
    BY <1>1 DEF LinksInv, Relink
<1>2. ASSUME NEW p \in Places, Unlink(p) PROVE LinksInv'
    BY <1>2 DEF LinksInv, Unlink
<1>3. CASE UNCHANGED link /\ edited \subseteq edited'
    BY <1>3 DEF LinksInv
<1> QED BY <1>1, <1>2, <1>3
        DEF Next, PlanInstall, PlanUninstall, MakePlan, Apply, Publish, Undo, RolledBack,
            CheckTarget, Change, UserEdit, vars, files, ghosts

\* Plans are made of the registry as it is, and a registry that is replaced makes
\* every plan a plan of the past.
LEMMA PlanStep ==
    ClaimsInv /\ TypeInv' /\ [Next]_vars => OneClaimInv' /\ PlanInv'
<1> SUFFICES ASSUME ClaimsInv, TypeInv', [Next]_vars PROVE OneClaimInv' /\ PlanInv'
    OBVIOUS
<1> USE DEF ClaimsInv, OneClaimInv, PlanInv
<1>1. ASSUME NEW want \in SUBSET Keys, NEW d, MakePlan(want, d) PROVE OneClaimInv' /\ PlanInv'
    <2>1. UNCHANGED <<registry, revision>> /\ at' = "idle"
          /\ plan'.want = want /\ plan'.revision = revision
          /\ shared' = shared \cup SharedBy(want)
        BY <1>1 DEF MakePlan, files
    <2>2. ASSUME NEW k \in want, NEW i \in Keys, k[2] \notin shared', i[2] = k[2],
                 i \in want \/ registry[i].claimed
          PROVE  i = k
        <3>1. k[2] \notin SharedBy(want)
            BY <2>1, <2>2
        <3>2. i[1] = k[1]
            BY <2>2, <3>1 DEF SharedBy
        <3> QED BY <2>2, <3>2 DEF Keys
    <2> QED BY <2>1, <2>2 DEF TypeInv
<1>2. ASSUME NEW runtimes \in SUBSET Runtimes, NEW d, PlanInstall(runtimes, d)
      PROVE  OneClaimInv' /\ PlanInv'
    <2>1. Resolved(runtimes) \subseteq Keys
        BY ResolvedAreKeys DEF TypeInv, TypeOK
    <2> QED BY <1>1, <1>2, <2>1 DEF PlanInstall
<1>3. CASE PlanUninstall
    BY <1>1, <1>3 DEF PlanUninstall
<1>4. CASE Apply
    BY <1>4 DEF Apply, files
<1>5. CASE Publish
    <2>1. /\ registry' = newRegistry /\ revision' = revision + 1
          /\ plan' = NoPlan /\ at' = "idle" /\ shared' = shared
          /\ plan.revision = revision /\ at = "action"
        BY <1>5 DEF Publish, ghosts
    <2>2. \A k \in Keys : newRegistry[k].claimed => k \in plan.want
        BY <2>1 DEF WantInv
    <2>3. \A i, k \in Keys : k[2] \notin shared /\ i[2] = k[2]
                             /\ newRegistry[i].claimed /\ newRegistry[k].claimed => i = k
        BY <2>1, <2>2
    <2>4. OneClaimInv'
        BY <2>1, <2>3
    <2> QED BY <2>1, <2>4 DEF NoPlan, TypeInv
<1>6. CASE RolledBack
    BY <1>6 DEF RolledBack, NoPlan, files, ghosts, TypeInv
<1>7. CASE /\ UNCHANGED <<registry, revision, plan, shared>>
           /\ at' # "idle" => at # "idle"
    BY <1>7
<1>8. CASE Undo \/ UNCHANGED vars
    BY <1>7, <1>8 DEF Undo, vars, files, ghosts
<1>9. ASSUME NEW k \in Keys, CheckTarget(k) \/ Change(k) PROVE OneClaimInv' /\ PlanInv'
    BY <1>7, <1>9 DEF CheckTarget, Change, files, ghosts
<1>10. ASSUME NEW p \in Places, NEW q \in Places, Relink(p, q) \/ Unlink(p) \/ UserEdit(p)
       PROVE  OneClaimInv' /\ PlanInv'
    BY <1>7, <1>10 DEF Relink, Unlink, UserEdit, UserLinks, library
<1> QED BY <1>2, <1>3, <1>4, <1>5, <1>6, <1>8, <1>9, <1>10 DEF Next

\* A mutation is recorded when its action is done, and taken off when it is undone.
LEMMA ActionsStep == ClaimsInv /\ [Next]_vars => ActionsInv'
<1> SUFFICES ASSUME ClaimsInv, [Next]_vars PROVE ActionsInv'
    OBVIOUS
<1> USE DEF ClaimsInv, ActionsInv
<1>s. mutations \in Seq(Mutation)
    BY DEF TypeInv, TypeOK, Mutation
<1>1. ASSUME NEW want, NEW d, MakePlan(want, d) PROVE ActionsInv'
    BY <1>1 DEF MakePlan
<1>2. CASE Apply
    <2>1. plan' = plan /\ registry' = registry /\ mutations' = << >>
          /\ plan.actions = Actions(plan.want, plan.digest)
        BY <1>2 DEF Apply, files
    <2>2. DOMAIN mutations' = {}
        BY <2>1
    <2> QED BY <2>1, <2>2, ActionsWantedOrClaimed
<1>3. CASE Publish \/ RolledBack
    BY <1>3 DEF Publish, RolledBack
<1>4. ASSUME NEW k \in Keys, CheckTarget(k) PROVE ActionsInv'
    BY <1>4 DEF CheckTarget, files
<1>5. ASSUME NEW k \in Keys, Change(k) PROVE ActionsInv'
    <2>1. PICK m : m.key = k /\ mutations' = Append(mutations, m)
        BY <1>5 DEF Change
    <2>2. /\ DOMAIN mutations' = 1 .. Len(mutations) + 1
          /\ mutations'[Len(mutations) + 1] = m
          /\ \A i \in 1 .. Len(mutations) : mutations'[i] = mutations[i]
          /\ DOMAIN mutations = 1 .. Len(mutations) /\ Len(mutations) \in Nat
        BY <1>s, <2>1, LenProperties
    <2>3. k \in todo /\ k \in plan.actions /\ todo' = todo \ {k} /\ at = "change"
          /\ UNCHANGED <<plan, registry>>
        BY <1>5 DEF Change, IsTarget, PathsInv
    <2>4. \A i \in DOMAIN mutations' :
              i \in DOMAIN mutations \/ i = Len(mutations) + 1
        BY <2>2
    <2>5. \A i \in DOMAIN mutations : mutations[i].key \in plan.actions \ todo
        BY <2>3
    <2>6. \A i, j \in DOMAIN mutations : mutations[i].key = mutations[j].key => i = j
        BY <2>3
    <2>7. \A i \in DOMAIN mutations' : mutations'[i].key \in plan.actions \ todo'
        BY <2>1, <2>2, <2>3, <2>4, <2>5
    <2>8. \A i, j \in DOMAIN mutations' : mutations'[i].key = mutations'[j].key => i = j
        BY <2>1, <2>2, <2>3, <2>4, <2>5, <2>6
    <2> QED BY <2>3, <2>7, <2>8
<1>6. CASE Undo
    <2>1. /\ UNCHANGED <<plan, registry, todo>> /\ at = "rollback"
          /\ mutations # << >>
          /\ mutations' = Front(mutations) \/ mutations' = mutations
        BY <1>6 DEF Undo
    <2>2. \A i \in DOMAIN Front(mutations) :
              i \in DOMAIN mutations /\ Front(mutations)[i] = mutations[i]
        BY <1>s, <2>1, FrontAndLast
    <2> QED BY <2>1, <2>2
<1>7. ASSUME NEW p \in Places, NEW q \in Places, Relink(p, q) \/ Unlink(p) \/ UserEdit(p)
      PROVE  ActionsInv'
    BY <1>7 DEF Relink, Unlink, UserEdit, library
<1>8. CASE UNCHANGED vars
    BY <1>8 DEF vars, files
<1> QED BY <1>1, <1>2, <1>3, <1>4, <1>5, <1>6, <1>7, <1>8 DEF Next, PlanInstall, PlanUninstall

\* Where a mutation of the place of a claimed key is, while links were not raced.
LEMMA ChangedInPlace ==
    ASSUME ClaimsInv, ~raced, NEW k \in Keys, Change(k)
    PROVE  link[k[2]] = k[2]
BY DEF ClaimsInv, PathsInv, Change, Canonical

\* What was claimed stays in place or in the mutation Apply took it away with, and
\* is put back before that mutation is forgotten.
LEMMA ClaimStep == ClaimsInv /\ TypeInv' /\ ActionsInv' /\ [Next]_vars => ClaimInv'
<1> SUFFICES ASSUME ClaimsInv, TypeInv', ActionsInv', [Next]_vars, ~raced',
                    NEW k \in Keys, Quiet(k[2])', registry'[k].claimed
             PROVE  \/ /\ at' # "idle"
                       /\ \E i \in DOMAIN mutations' :
                             /\ mutations'[i].key = k
                             /\ mutations'[i].found = registry'[k].digest
                    \/ /\ at' # "idle" => \A i \in DOMAIN mutations' : mutations'[i].key # k
                       /\ bytes'[k[2]] = registry'[k].digest
    BY DEF ClaimInv
<1> DEFINE p == k[2]
           Taken == \E i \in DOMAIN mutations :
                        mutations[i].key = k /\ mutations[i].found = registry[k].digest
           There == /\ at # "idle" => \A i \in DOMAIN mutations : mutations[i].key # k
                    /\ bytes[p] = registry[k].digest
<1>0. /\ p \in Places /\ p \notin shared' /\ p \notin edited' /\ (link[p] = p \/ p \in edited)
      /\ mutations \in Seq(Mutation) /\ bytes \in [Places -> Contents]
    BY DEF Quiet, ClaimsInv, TypeInv, TypeOK, LinksInv, Mutation
<1>1. ASSUME registry'[k].claimed = registry[k].claimed, ~raced, edited \subseteq edited',
             shared \subseteq shared'
      PROVE  (at # "idle" /\ Taken) \/ There
    BY <1>0, <1>1 DEF ClaimsInv, ClaimInv, Quiet
<1>2. ASSUME NEW want, NEW d, MakePlan(want, d)
      PROVE  bytes'[p] = registry'[k].digest /\ at' = "idle"
    <2>1. UNCHANGED <<bytes, registry, raced, edited>> /\ at = "idle" /\ at' = at
          /\ shared \subseteq shared'
        BY <1>2 DEF MakePlan, files
    <2> QED BY <1>1, <2>1
<1>3. CASE Apply
    <2>1. UNCHANGED <<bytes, registry, raced, edited, shared>> /\ at = "idle"
          /\ mutations' = << >>
        BY <1>3 DEF Apply, files
    <2>2. DOMAIN mutations' = {}
        BY <2>1
    <2>3. bytes[p] = registry[k].digest
        BY <1>1, <2>1
    <2> QED BY <2>1, <2>2, <2>3
<1>4. CASE Publish
    <2>1. /\ registry' = newRegistry /\ at = "action" /\ todo = {} /\ at' = "idle"
          /\ UNCHANGED <<bytes, raced, edited, shared>>
        BY <1>4 DEF Publish, ghosts
    <2>2. k \in plan.want /\ newRegistry[k].digest = plan.digest /\ bytes[p] = plan.digest
        BY <1>0, <2>1 DEF ClaimsInv, WantInv, Quiet
    <2> QED BY <2>1, <2>2
<1>5. CASE RolledBack
    <2>1. /\ UNCHANGED <<bytes, registry, raced, edited, shared, mutations>>
          /\ mutations = << >> /\ at' = "idle"
        BY <1>5 DEF RolledBack, files, ghosts
    <2>2. DOMAIN mutations = {}
        BY <2>1
    <2> QED BY <1>1, <2>1, <2>2
<1>6. ASSUME NEW j \in Keys, CheckTarget(j) PROVE (Taken \/ There)' /\ at' # "idle"
    <2>1. /\ UNCHANGED <<bytes, registry, raced, edited, shared, mutations>>
          /\ at # "idle" /\ at' # "idle"
        BY <1>6 DEF CheckTarget, files, ghosts
    <2> QED BY <1>1, <2>1
<1>7. ASSUME NEW j \in Keys, Change(j) PROVE (Taken \/ There)' /\ at' # "idle"
    <2>1. /\ UNCHANGED <<registry, raced, edited, shared, link>>
          /\ at = "change" /\ at' = "action"
          /\ j \in todo /\ j \in plan.actions
        BY <1>7 DEF Change, IsTarget, ClaimsInv, PathsInv
    <2>2. link[j[2]] = j[2]
        BY <1>7, <2>1, ChangedInPlace
    <2>3. PICK m : /\ m.key = j /\ m.found = bytes[j[2]]
                   /\ mutations' = Append(mutations, m)
        BY <1>7, <2>2 DEF Change
    <2>4. PICK result : bytes' = [bytes EXCEPT ![j[2]] = result]
        BY <1>7, <2>2 DEF Change
    <2>5. /\ DOMAIN mutations' = 1 .. Len(mutations) + 1
          /\ mutations'[Len(mutations) + 1] = m
          /\ \A i \in 1 .. Len(mutations) : mutations'[i] = mutations[i]
          /\ DOMAIN mutations = 1 .. Len(mutations) /\ Len(mutations) \in Nat
        BY <1>0, <2>3, LenProperties
    <2>6. ASSUME j[2] = p PROVE j = k
        BY <1>0, <2>1, <2>6, OneActionPerPlace
    <2>7. CASE j = k
        <3>1. ~Taken
            BY <2>1, <2>7 DEF ClaimsInv, ActionsInv
        <3>2. m.key = k /\ m.found = registry'[k].digest
            BY <1>1, <2>1, <2>3, <2>7, <3>1
        <3>3. Len(mutations) + 1 \in DOMAIN mutations'
            BY <2>5
        <3> QED BY <2>1, <2>5, <3>2, <3>3
    <2>8. CASE j # k
        <3>1. bytes'[p] = bytes[p]
            BY <1>0, <2>4, <2>6, <2>8
        <3>2. Taken => Taken'
            BY <2>1, <2>5
        <3>3. There => There'
            BY <2>1, <2>3, <2>5, <2>8, <3>1
        <3> QED BY <1>1, <2>1, <3>2, <3>3
    <2> QED BY <2>7, <2>8
<1>8. CASE Undo
    <2>1. /\ UNCHANGED <<registry, edited, shared, link>> /\ at = "rollback" /\ at' # "idle"
          /\ mutations # << >> /\ ~raced
        BY <1>8 DEF Undo
    <2>2. CASE UNCHANGED <<bytes, mutations>>
        BY <1>1, <2>1, <2>2
    <2>3. CASE bytes' = [bytes EXCEPT ![link[Last(mutations).key[2]]] = Last(mutations).found]
               /\ mutations' = Front(mutations)
               /\ raced' = (raced \/ link[Last(mutations).key[2]] # Last(mutations).key[2])
        <3> DEFINE m == Last(mutations)
                   n == Len(mutations)
        <3>1. /\ n \in Nat \ {0} /\ DOMAIN mutations = 1 .. n /\ m = mutations[n]
              /\ DOMAIN mutations' = 1 .. n - 1
              /\ \A i \in 1 .. n - 1 : mutations'[i] = mutations[i]
            BY <1>0, <2>1, <2>3, FrontAndLast
        <3>2. bytes' = [bytes EXCEPT ![m.key[2]] = m.found]
            BY <2>3
        <3>3. m.key \in plan.actions
            BY <2>1, <3>1 DEF ClaimsInv, ActionsInv
        <3>4. ASSUME m.key[2] = p PROVE m.key = k
            BY <1>0, <2>1, <3>3, <3>4, OneActionPerPlace
        <3>5. \A i, j \in DOMAIN mutations : mutations[i].key = mutations[j].key => i = j
            BY <2>1 DEF ClaimsInv, ActionsInv
        <3> HIDE DEF m
        <3>6. CASE m.key = k
            <4>1. n \in DOMAIN mutations /\ mutations[n].key = k
                BY <3>1, <3>6
            <4>2. Taken
                BY <1>1, <2>1, <4>1
            <4>3. m.found = registry[k].digest
                BY <3>1, <3>5, <4>1, <4>2
            <4>4. \A i \in DOMAIN mutations' : mutations'[i].key # k
                BY <3>1, <3>5, <3>6
            <4> QED BY <1>0, <2>1, <3>2, <3>6, <4>3, <4>4
        <3>7. CASE m.key # k
            <4>1. bytes'[p] = bytes[p]
                BY <1>0, <3>2, <3>4, <3>7
            <4>2. Taken => Taken'
                <5>1. SUFFICES ASSUME NEW i \in DOMAIN mutations, mutations[i].key = k,
                                      mutations[i].found = registry[k].digest
                               PROVE  Taken'
                    OBVIOUS
                <5>2. i # n
                    BY <3>1, <3>7, <5>1
                <5>3. i \in DOMAIN mutations' /\ mutations'[i] = mutations[i]
                    BY <3>1, <5>2
                <5> QED BY <2>1, <5>1, <5>3
            <4>3. There => There'
                BY <2>1, <3>1, <4>1
            <4> QED BY <1>1, <2>1, <4>2, <4>3
        <3> QED BY <3>6, <3>7
    <2> QED BY <1>8, <2>2, <2>3 DEF Undo
<1>9. ASSUME NEW q \in Places, NEW o \in Places, Relink(q, o) \/ Unlink(q) \/ UserEdit(q)
      PROVE  (at' # "idle" /\ Taken') \/ There'
    <2>1. /\ UNCHANGED <<registry, at, mutations, shared>> /\ ~raced
          /\ edited \subseteq edited'
        BY <1>9, UserStep
    <2>2. bytes'[p] = bytes[p]
        BY <1>0, <1>9 DEF Relink, Unlink, UserEdit
    <2> QED BY <1>1, <2>1, <2>2
<1>10. CASE UNCHANGED vars
    BY <1>1, <1>10 DEF vars, files, ghosts
<1> QED BY <1>2, <1>3, <1>4, <1>5, <1>6, <1>7, <1>8, <1>9, <1>10
        DEF Next, PlanInstall, PlanUninstall

\* What is wanted and not to be changed was found in place, and what was changed is
\* the plan's.
LEMMA WantStep == ClaimsInv /\ [Next]_vars => WantInv'
<1> SUFFICES ASSUME ClaimsInv, [Next]_vars PROVE WantInv'
    OBVIOUS
<1>w. WantInv
    BY DEF ClaimsInv
<1> USE DEF WantInv
<1>0. bytes \in [Places -> Contents] /\ plan.want \subseteq Keys
    BY DEF ClaimsInv, TypeInv, TypeOK
<1>1. ASSUME NEW want, NEW d, MakePlan(want, d) PROVE WantInv'
    BY <1>1 DEF MakePlan
<1>2. CASE Apply
    <2>1. /\ UNCHANGED <<bytes, plan, edited, shared, link>>
          /\ todo' = plan.actions /\ plan.actions = Actions(plan.want, plan.digest)
          /\ newRegistry' = [k \in Keys |-> Projected(k)]
        BY <1>2 DEF Apply, files
    <2>2. \A k \in Keys : Projected(k).claimed <=> k \in plan.want
        BY DEF Projected, NoEntry, ClaimsInv, TypeInv, TypeOK
    <2>3. \A k \in plan.want : Projected(k).digest = plan.digest
        BY DEF Projected
    <2>4. ASSUME NEW k \in plan.want, Quiet(k[2])', k \notin todo'
          PROVE  bytes'[k[2]] = plan.digest
        <3>1. link[k[2]] = k[2]
            BY <2>1, <2>4 DEF Quiet, ClaimsInv, LinksInv
        <3> QED BY <2>1, <2>4, <3>1 DEF Actions, Found
    <2> QED BY <1>0, <2>1, <2>2, <2>3, <2>4
<1>3. CASE Publish \/ RolledBack
    BY <1>3 DEF Publish, RolledBack
<1>4. ASSUME NEW k \in Keys, CheckTarget(k) PROVE WantInv'
    <2>1. /\ UNCHANGED <<bytes, plan, newRegistry, todo, edited, shared, raced>>
          /\ at = "action"
        BY <1>4 DEF CheckTarget, files, ghosts
    <2> QED BY <1>w, <2>1 DEF Quiet
<1>5. ASSUME NEW j \in Keys, Change(j) PROVE WantInv'
    <2>1. /\ UNCHANGED <<plan, newRegistry, edited, shared, raced, registry>>
          /\ at = "change" /\ todo' = todo \ {j} /\ j \in plan.actions
        BY <1>5 DEF Change, IsTarget, ClaimsInv, PathsInv
    <2>2. ASSUME ~raced, NEW k \in plan.want, Quiet(k[2]), k \notin todo'
          PROVE  bytes'[k[2]] = plan.digest
        <3>1. bytes' = [bytes EXCEPT ![j[2]] = IF j \in plan.want THEN plan.digest ELSE None]
            BY <1>5, <2>2, ChangedInPlace DEF Change
        <3>2. ASSUME k[2] = j[2] PROVE j = k
            BY <1>0, <2>1, <2>2, <3>2, OneActionPerPlace DEF Quiet
        <3>3. k \notin todo => bytes[k[2]] = plan.digest
            BY <1>w, <2>1, <2>2
        <3> QED BY <1>0, <2>1, <2>2, <3>1, <3>2, <3>3 DEF Quiet
    <2> QED BY <1>w, <2>1, <2>2 DEF Quiet
<1>6. CASE Undo
    BY <1>6 DEF Undo
<1>7. ASSUME NEW p \in Places, NEW q \in Places, Relink(p, q) \/ Unlink(p) \/ UserEdit(p)
      PROVE  WantInv'
    <2>1. /\ UNCHANGED <<at, plan, newRegistry, todo, shared>>
          /\ edited \subseteq edited' /\ (raced => raced')
        BY <1>7, UserStep
    <2>2. \A k \in plan.want : Quiet(k[2])' => bytes'[k[2]] = bytes[k[2]] /\ Quiet(k[2])
        BY <1>0, <1>7, <2>1 DEF Relink, Unlink, UserEdit, Quiet
    <2> QED BY <1>w, <2>1, <2>2
<1>8. CASE UNCHANGED vars
    <2>1. UNCHANGED <<bytes, plan, newRegistry, todo, edited, shared, raced, at>>
        BY <1>8 DEF vars, files, ghosts
    <2> QED BY <1>w, <2>1 DEF Quiet
<1> QED BY <1>1, <1>2, <1>3, <1>4, <1>5, <1>6, <1>7, <1>8 DEF Next, PlanInstall, PlanUninstall

\* At first nothing is claimed, planned or linked.
LEMMA ClaimsInit == Init => ClaimsInv
<1> SUFFICES ASSUME Init PROVE ClaimsInv
    OBVIOUS
<1>1. \A k \in Keys : ~registry[k].claimed
    BY DEF Init, NoEntry
<1> QED BY <1>1, PathTypeInit, PathsInitInv
        DEF Init, ClaimsInv, LinksInv, OneClaimInv, PlanInv, ActionsInv, ClaimInv, WantInv, NoPlan

\* However the user moves directories and makes links, and whichever transactions are
\* rolled back, the bytes of a claim stay in its directory: Apply reaches another
\* runtime's directory neither through a link nor by what it releases.
THEOREM ClaimedBytesAreKept == Spec => []ClaimsHold
<1>1. ClaimsInv /\ [Next]_vars => ClaimsInv'
    BY PathTypeStep, PathsStepInv, LinksStep, PlanStep, ActionsStep, ClaimStep, WantStep
       DEF ClaimsInv
<1>2. ClaimsInv => ClaimsHold
    <2>1. ASSUME ClaimsInv, at = "idle", ~raced, NEW k \in Keys, k[2] \notin shared,
                 registry[k].claimed, k[2] \notin edited
          PROVE  bytes[k[2]] = registry[k].digest
        <3>1. k[2] \in Places
            BY DEF Keys
        <3> QED BY <2>1, <3>1 DEF ClaimsInv, ClaimInv, Quiet
    <2> QED BY <2>1 DEF ClaimsHold, ClaimedBytes
<1> QED BY <1>1, <1>2, ClaimsInit, PTL DEF Spec
=============================================================================
