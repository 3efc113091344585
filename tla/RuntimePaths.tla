------------------------------ MODULE RuntimePaths ------------------------------
(***************************************************************************)
(* Where a plan and its Apply reach: runtime skills directories are        *)
(* resolved when they are asked for (runtime.go), by validatePlan, and     *)
(* again before each mutation (transaction.go), while the user moves       *)
(* directories away and leaves symbolic links, or makes links to others.   *)
(*                                                                         *)
(* One product and one Skill; the lock, the store and the files of state   *)
(* are those of SkillsTransaction, whose recovery an incomplete rollback   *)
(* is left to.                                                             *)
(***************************************************************************)
EXTENDS Naturals, SequencesExt

CONSTANTS
    Runtimes,    \* "agents", "codex", "claude", numbered in the order of their names
    Places,      \* paths a skills directory can be at, numbered in their order
    Homes,       \* the path asked for, of each runtime
    Allowed,     \* the places below an allowed root
    Digests, None, UserBytes,
    MaxPlans, MaxLinks, MaxEdits   \* bounds: plans made, links and edits of the user

ASSUME PlacesAssumption ==
    /\ Runtimes \subseteq Nat /\ Places \subseteq Nat
    /\ Homes \in [Runtimes -> Places] /\ Allowed \subseteq Places

Keys == Runtimes \X Places
Contents == Digests \cup {UserBytes, None}
NoEntry == [digest |-> None, claimed |-> FALSE]

VARIABLES
    link,        \* what a path resolves to: itself, or where its link leads
    bytes,       \* the Skill's directory in each place
    registry,    \* the entry of each key
    revision,    \* of the registry
    plan,        \* the reviewed plan
    at,          \* the next step of Apply
    todo,        \* the actions of the plan still to carry out
    newRegistry, \* of commitPlan; the registry itself outside of Apply
    mutations,   \* of the journal: the key, what was found, what was put there
    count,       \* how much of each bound is used
    touched,     \* ghost: the places Apply changed
    raced,       \* ghost: a link came between two steps that do not look again
    edited,      \* ghost: the places the user wrote to, moved or removed
    shared       \* ghost: the places that were two runtimes' at once

files == <<link, bytes, registry, revision>>
library == <<registry, revision, plan, at, todo, newRegistry, mutations, touched>>
ghosts == <<touched, raced, edited, shared>>
vars == <<files, plan, at, todo, newRegistry, mutations, count, ghosts>>

NoPlan == [want |-> {}, digest |-> None, revision |-> 0, actions |-> {}]

TypeOK ==
    /\ link \in [Places -> Places]
    /\ bytes \in [Places -> Contents]
    /\ registry \in [Keys -> [digest : Digests \cup {None}, claimed : BOOLEAN]]
    /\ plan.want \subseteq Keys /\ plan.actions \subseteq Keys
    /\ at \in {"idle", "action", "change", "rollback", "incomplete"}
    /\ todo \subseteq Keys
    /\ mutations \in Seq([key : Keys, found : Contents, result : Digests \cup {None}])

Init ==
    /\ link = [p \in Places |-> p]
    /\ bytes = [p \in Places |-> None]
    /\ registry = [k \in Keys |-> NoEntry] /\ newRegistry = registry /\ revision = 0
    /\ plan = NoPlan /\ at = "idle" /\ todo = {} /\ mutations = <<>>
    /\ count = [plans |-> 0, links |-> 0, edits |-> 0]
    /\ touched = {} /\ raced = FALSE /\ edited = {} /\ shared = {}

-----------------------------------------------------------------------------
(* Planning *)

\* What is found at a path
Found(k) == bytes[link[k[2]]]

\* evaluatePlan: a wanted target the reviewed plan cannot take over
Blocked(want, digest) ==
    \E k \in want :
        IF registry[k] = NoEntry THEN Found(k) # None
        ELSE Found(k) # registry[k].digest
             /\ ~(Found(k) = None /\ registry[k].digest # digest)

\* evaluatePlan: what is to be mutated; a released directory goes when it is unchanged.
Actions(want, digest) ==
    {k \in want : Found(k) # digest}
    \cup {k \in Keys \ want :
             registry[k].claimed /\ Found(k) \in {None, registry[k].digest}}

\* normalizeRuntimeTargets: the keys a request is about
Resolved(runtimes) == {<<r, link[Homes[r]]>> : r \in runtimes}

\* The places of a wanted key that are another runtime's too, wanted or claimed
SharedBy(want) ==
    {k[2] : k \in {j \in want : \E i \in Keys :
        i[1] # j[1] /\ i[2] = j[2] /\ (i \in want \/ registry[i].claimed)}}

MakePlan(want, digest) ==
    /\ at = "idle" /\ count.plans < MaxPlans
    /\ plan' = [want |-> want, digest |-> digest, revision |-> revision,
                actions |-> Actions(want, digest)]
    /\ count' = [count EXCEPT !.plans = @ + 1]
    /\ shared' = shared \cup SharedBy(want)
    /\ UNCHANGED <<files, at, todo, newRegistry, mutations, touched, raced, edited>>

PlanInstall(runtimes, digest) ==
    LET want == Resolved(runtimes)
    IN  (\A k \in want : k[2] \in Allowed) /\ MakePlan(want, digest)

\* PlanUninstall: everything the product claims is released.
PlanUninstall == (\E k \in Keys : registry[k].claimed) /\ MakePlan({}, None)

-----------------------------------------------------------------------------
(* Apply *)

\* Faulty: a path that was resolved when the plan was made is good.
CanonicalOnce(k) == k[2] \in Allowed

\* validateSnapshot and mutateRuntimeTarget: the path resolves to itself.
Canonical(k) == link[k[2]] = k[2] /\ k[2] \in Allowed

\* projectRegistry: an entry without a claim stays when its directory is not what
\* the entry says.
Projected(k) ==
    IF k \in plan.want THEN [digest |-> plan.digest, claimed |-> TRUE]
    ELSE IF Found(k) \in {None, registry[k].digest} THEN NoEntry
    ELSE [registry[k] EXCEPT !.claimed = FALSE]

\* validatePlan, the recheck under the lock, and commitPlan as far as projectRegistry
Apply ==
    /\ at = "idle" /\ plan # NoPlan
    /\ plan.revision = revision
    /\ \A k \in plan.want : Canonical(k)
    /\ plan.actions = Actions(plan.want, plan.digest)
    /\ ~Blocked(plan.want, plan.digest)
    /\ at' = "action" /\ todo' = plan.actions /\ mutations' = <<>>
    /\ newRegistry' = [k \in Keys |-> Projected(k)]
    /\ touched' = {}
    /\ UNCHANGED <<files, plan, count, raced, edited, shared>>

\* The next action of the plan, in the order of sortPlan
IsTarget(k) ==
    /\ k \in todo
    /\ \A j \in todo : k[1] < j[1] \/ (k[1] = j[1] /\ k[2] <= j[2])

\* mutateRuntimeTarget: the target is resolved again.
CheckTarget(k) ==
    /\ at = "action" /\ IsTarget(k)
    /\ at' = IF Canonical(k) THEN "change" ELSE "rollback"
    /\ UNCHANGED <<files, plan, todo, newRegistry, mutations, count, ghosts>>

\* mutateRuntimeTarget: the mutation is recorded, what is there is moved to the
\* backup, and the new tree comes in.
Change(k) ==
    LET place == link[k[2]]
        result == IF k \in plan.want THEN plan.digest ELSE None
    IN  /\ at = "change" /\ IsTarget(k)
        /\ mutations' =
               Append(mutations, [key |-> k, found |-> bytes[place], result |-> result])
        /\ bytes' = [bytes EXCEPT ![place] = result]
        /\ touched' = touched \cup {place}
        /\ todo' = todo \ {k} /\ at' = "action"
        /\ UNCHANGED <<link, registry, revision, plan, newRegistry, count>>
        /\ UNCHANGED <<raced, edited, shared>>

Publish ==
    /\ at = "action" /\ todo = {}
    /\ registry' = newRegistry
    /\ revision' = revision + 1
    /\ at' = "idle" /\ plan' = NoPlan
    /\ UNCHANGED <<link, bytes, todo, newRegistry, mutations, count, ghosts>>

\* rollbackTransaction, a mutation: its path is not resolved, and is what it leads
\* to now; a directory that is not what this transaction put there stops it.
Undo ==
    LET mutation == Last(mutations)
        place == link[mutation.key[2]]
    IN  /\ at = "rollback" /\ mutations # <<>>
        /\ IF bytes[place] \in {None, mutation.result}
           THEN /\ bytes' = [bytes EXCEPT ![place] = mutation.found]
                /\ mutations' = Front(mutations)
                /\ raced' = (raced \/ place # mutation.key[2])
                /\ UNCHANGED at
           ELSE at' = "incomplete" /\ UNCHANGED <<bytes, mutations, raced>>
        /\ UNCHANGED <<link, registry, revision, plan, todo, newRegistry, count>>
        /\ UNCHANGED <<touched, edited, shared>>

\* Apply returns its error, and another plan can be made.
RolledBack ==
    /\ at = "rollback" /\ mutations = <<>>
    /\ at' = "idle" /\ plan' = NoPlan /\ todo' = {} /\ newRegistry' = registry
    /\ UNCHANGED <<files, mutations, count, ghosts>>

-----------------------------------------------------------------------------
(* The user.  Links are one deep, a bound. *)

UserLinks ==
    /\ count.links < MaxLinks
    /\ count' = [count EXCEPT !.links = @ + 1]
    /\ raced' = (raced \/ at = "change")

\* A directory is moved to another place, or removed, and a link is left.
Relink(p, q) ==
    /\ UserLinks
    /\ p # q /\ link[q] = q /\ \A o \in Places : link[o] = p => o = p
    /\ link' = [link EXCEPT ![p] = q]
    /\ \/ /\ bytes[q] = None
          /\ bytes' = [bytes EXCEPT ![q] = bytes[p], ![p] = None]
          /\ edited' = edited \cup {p, q}
       \/ /\ bytes' = [bytes EXCEPT ![p] = None]
          /\ edited' = edited \cup {p}
    /\ UNCHANGED <<library, shared>>

\* A link is removed; the path is an empty directory again.
Unlink(p) ==
    /\ UserLinks
    /\ link[p] # p
    /\ link' = [link EXCEPT ![p] = p]
    /\ UNCHANGED <<bytes, library, edited, shared>>

UserEdit(p) ==
    /\ count.edits < MaxEdits
    /\ count' = [count EXCEPT !.edits = @ + 1]
    /\ bytes' = [bytes EXCEPT ![p] = UserBytes]
    /\ edited' = edited \cup {p}
    /\ UNCHANGED <<link, library, raced, shared>>

Next ==
    \/ \E runtimes \in SUBSET Runtimes \ {{}}, d \in Digests : PlanInstall(runtimes, d)
    \/ PlanUninstall
    \/ Apply \/ Publish \/ Undo \/ RolledBack
    \/ \E k \in Keys : CheckTarget(k) \/ Change(k)
    \/ \E p, q \in Places : Relink(p, q)
    \/ \E p \in Places : Unlink(p) \/ UserEdit(p)

Spec == Init /\ [][Next]_vars

-----------------------------------------------------------------------------
(* Properties *)

\* However the user moves directories and makes links, when the plan is reviewed or
\* while it is applied, Apply changes only directories the plan names, below the
\* allowed roots: what a path leads to now is not what was reviewed.  A link that
\* comes between a target's own check and its change is the race left.
ReviewedPlacesOnly ==
    at \in {"action", "change"} /\ ~raced
        => touched \subseteq Allowed \cap {k[2] : k \in plan.actions}

ClaimedBytes(k) ==
    registry[k].claimed /\ k[2] \notin edited => bytes[k[2]] = registry[k].digest

\* The bytes of a claimed entry stay in its own directory, whatever is released,
\* moved or linked elsewhere: releasing a path the user has since linked to another
\* runtime's directory does not reach that directory.  Not so for a directory that
\* was two runtimes' at once, see ClaimedBytesStay.
ClaimsHold ==
    at = "idle" /\ ~raced => \A k \in Keys : k[2] \notin shared => ClaimedBytes(k)

\* docs/architecture.md:40,48: an entry is a runtime with a canonical skills_dir and a
\* Skill, and a directory goes with the last claim.  The code has two entries for a
\* directory that two runtimes resolve to, and releasing one of them removes it.
ClaimedBytesStay == at = "idle" /\ ~raced => \A k \in Keys : ClaimedBytes(k)
=============================================================================
