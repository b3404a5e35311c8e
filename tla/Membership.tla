----------------------------- MODULE Membership -----------------------------
(***************************************************************************)
(* What the group graph of a sync promises: it is filled group by group    *)
(* (buildGraph of entraid/provider.go), then the groups an entity belongs  *)
(* to, directly or through other groups, are collected (expandTransitive   *)
(* of entraid/membership.go). Groups may contain each other in cycles, and *)
(* members may be groups the listing does not have. GroupGraph is the      *)
(* detailed specification, of Entra ID and of Okta, and implements this.   *)
(*                                                                         *)
(* One entity, a user or a device, stands for all: the graph is the same   *)
(* for each of them. The order of the queue, and of the result, is left    *)
(* out.                                                                    *)
(*                                                                         *)
(* Bound: MaxRemoved memberships annotated as removed.                     *)
(***************************************************************************)
EXTENDS Naturals, FiniteSets

CONSTANTS
    Groups,     \* group ids
    Entity,     \* a user or a device
    MaxRemoved  \* bound on the members listed with a Removed annotation

\* What the entity and the bound are.
MembershipAssumption ==
    /\ Entity \notin Groups
    /\ MaxRemoved \in Nat

VARIABLES
    \* what the API answers
    listed,     \* the groups getGroups returns
    member,     \* getGroupMembers: pairs <<member, group>>
    removed,    \* those of them with a Removed annotation
    \* the graph
    groups,     \* group metadata
    direct,     \* the groups the entity belongs to directly
    parentOf,   \* pairs <<group, a group it is a member of>>
    todo,       \* listed groups still to add
    \* expandTransitive
    pc,         \* "build", "expand" or "done"
    seen, queue, result

api == <<listed, member, removed>>
graph == <<groups, direct, parentOf>>
vars == <<api, graph, todo, pc, seen, queue, result>>

Members == Groups \cup {Entity}

TypeOK ==
    /\ listed \in SUBSET Groups
    /\ member \in SUBSET (Members \X listed)
    /\ removed \in SUBSET member
    /\ groups \in SUBSET Groups
    /\ direct \in SUBSET Groups
    /\ parentOf \in SUBSET (Groups \X Groups)
    /\ todo \in SUBSET listed
    /\ pc \in {"build", "expand", "done"}
    /\ seen \in SUBSET Groups
    /\ queue \in SUBSET seen
    /\ result \in SUBSET Groups

\* Any group graph of the tenant, over the groups getGroups returns.
Init ==
    /\ listed \in SUBSET Groups
    /\ member \in SUBSET (Members \X listed)
    /\ removed \in {r \in SUBSET member : Cardinality(r) <= MaxRemoved}
    /\ groups = {} /\ direct = {} /\ parentOf = {}
    /\ todo = listed
    /\ pc = "build"
    /\ seen = {} /\ queue = {} /\ result = {}

\* The members of g that addMembers links.
MembersOf(g) == {m \in Members : <<m, g>> \in member \ removed}

\* addGroup, then addMembers in one transaction: by type a member becomes an
\* edge from the entity, or from a group, to g.
AddGroup(g) ==
    /\ pc = "build"
    /\ g \in todo
    /\ todo' = todo \ {g}
    /\ groups' = groups \cup {g}
    /\ direct' = IF Entity \in MembersOf(g) THEN direct \cup {g} ELSE direct
    /\ parentOf' = parentOf \cup ((MembersOf(g) \ {Entity}) \X {g})
    /\ UNCHANGED <<api, pc, seen, queue, result>>

\* Every direct group is queued. Without one there is nothing to expand.
Begin ==
    /\ pc = "build"
    /\ todo = {}
    /\ pc' = "expand"
    /\ seen' = direct
    /\ queue' = direct
    /\ UNCHANGED <<api, graph, todo, result>>

ParentGroups(g) == {p \in Groups : <<g, p>> \in parentOf}

\* The loop: take a group from the queue, queue its unseen parents.
Visit(g) ==
    LET new == ParentGroups(g) \ seen IN
    /\ pc = "expand"
    /\ g \in queue
    /\ seen' = seen \cup new
    /\ queue' = (queue \ {g}) \cup new
    /\ UNCHANGED <<api, graph, todo, pc, result>>

\* The seen groups with metadata.
Collect ==
    /\ pc = "expand"
    /\ queue = {}
    /\ pc' = "done"
    /\ result' = seen \cap groups
    /\ UNCHANGED <<api, graph, todo, seen, queue>>

Step ==
    \/ \E g \in Groups : AddGroup(g)
    \/ Begin
    \/ \E g \in Groups : Visit(g)
    \/ Collect

\* The answer is final.
Done == pc = "done" /\ UNCHANGED vars

Next == Step \/ Done

Spec == Init /\ [][Next]_vars

-----------------------------------------------------------------------------
(* Properties *)

\* S contains the entity's groups, and the groups of its groups. Only listed
\* groups have known members.
ClosedUpwards(S) ==
    \A g \in Groups, m \in Members :
        <<m, g>> \in member \ removed /\ (m = Entity \/ m \in S) => g \in S

\* Transitive membership, by its definition: what every such set contains.
Transitive == {g \in Groups : \A S \in SUBSET Groups : ClosedUpwards(S) => g \in S}

\* A document lists exactly the groups its entity belongs to, directly or
\* through any chain of groups, whatever cycles the chains run into
\* (membership.go:73-75).
ResultIsTransitive == pc = "done" => result = Transitive
=============================================================================
