----------------------------- MODULE GroupGraph -----------------------------
(***************************************************************************)
(* How the group memberships of an entity are computed: the listing and    *)
(* member requests page by page, the scratch database filled one group     *)
(* after the other, and the lookup that reads it.                          *)
(*                                                                         *)
(*   Entra ID  buildGraph (entraid/provider.go), scratch_backend.go and    *)
(*             expandTransitive (membership.go): groups of groups          *)
(*   Okta      bulkFetchGroupMapping (okta/provider.go), group_store.go:   *)
(*             the groups a user is listed in                              *)
(*                                                                         *)
(* Both implement Membership, where a group is added, and a lookup         *)
(* answers, in one step. Every request, write and read may fail: the graph *)
(* is closed, and the sync ends with the error.                            *)
(*                                                                         *)
(* Left out: groups without an id, members of other types (both skipped),  *)
(* and a listing that changes while its pages are read.                    *)
(*                                                                         *)
(* Bounds: MaxMembers memberships, MaxRemoved of them annotated removed.   *)
(***************************************************************************)
EXTENDS Scratch, FiniteSets

CONSTANTS
    Groups,     \* ids of groups, of which the API lists some or none
    Entity,     \* the user or device looked up
    Other,      \* another one, in the same bucket
    MaxMembers,
    MaxRemoved

ASSUME GroupGraphAssumption ==
    /\ IsFiniteSet(Groups) /\ Groups # {}
    /\ {Entity, Other} \cap Groups = {} /\ Entity # Other
    /\ \A id \in Groups \cup {Entity, Other} : id \in Seq(Nat \ {0}) \ {<<>>}
    /\ MaxMembers \in Nat /\ MaxRemoved \in Nat

VARIABLES
    provider,   \* "entraid" or "okta"
    listed, member, removed,    \* what the API answers, as in Membership
    unread,     \* the page loop: what the API has still to return
    all,        \* and what its pages returned
    pc,         \* where the sync is
    failed,     \* it ended with an error there
    todo,       \* listed groups to add
    current,    \* the group being added
    pending,    \* its members still to link
    seen, queue,    \* expandTransitive
    left,       \* seen groups whose metadata is still to look up
    result

api == <<provider, listed, member, removed>>
pages == <<unread, all>>
build == <<todo, current, pending>>
lookup == <<seen, queue, left, result>>
vars == <<scratch, api, pages, pc, failed, build, lookup>>

Members == Groups \cup {Entity, Other}

GraphTypeOK ==
    /\ disk["groups"] \subseteq Groups
    /\ disk["user_groups"] \subseteq {edgeKey(m, g) : m \in {Entity, Other}, g \in Groups}
    /\ disk["parent_of"] \subseteq {edgeKey(m, g) : m \in Groups, g \in Groups}
    /\ file \in {"absent", "open", "removed"}
    /\ unread \subseteq Members /\ all \subseteq Members
    /\ pc \in {"groups", "open", "next", "members", "batch", "expand", "collect", "done", "closed"}
    /\ todo \subseteq listed /\ current \in Groups /\ pending \subseteq Members
    /\ queue \subseteq seen /\ seen \subseteq Groups
    /\ left \subseteq seen /\ result \subseteq seen

\* Okta lists users only, and annotates none.
Init ==
    /\ provider \in {"entraid", "okta"}
    /\ listed \in SUBSET Groups
    /\ LET who == IF provider = "okta" THEN {Entity, Other} ELSE Members IN
       member \in UNION {kSubset(k, who \X listed) : k \in 0..MaxMembers}
    /\ removed \in {r \in SUBSET member : Cardinality(r) <= MaxRemoved}
    /\ provider = "okta" => removed = {}
    /\ disk = Empty /\ tx = Empty /\ file = "absent"
    /\ unread = listed /\ all = {}
    /\ pc = "groups" /\ failed = FALSE
    /\ todo = {} /\ pending = {} /\ current = CHOOSE g \in Groups : TRUE
    /\ seen = {} /\ queue = {} /\ left = {} /\ result = {}

Going == ~failed /\ UNCHANGED <<api, failed>>

-----------------------------------------------------------------------------
(* Filling the database *)

\* Mutant of Page: a page replaces the ones before.
PageOnly(p) ==
    /\ unread' = unread \ p
    /\ all' = p

\* One page of a listing, appended to the pages before.
Page(p) ==
    /\ unread' = unread \ p
    /\ all' = all \cup p

\* A page is not empty, except for a listing that is.
PageOf(S) == IF S = {} THEN {{}} ELSE SUBSET S \ {{}}

GroupsPage ==
    /\ pc = "groups" /\ Going
    /\ \E p \in PageOf(unread) : Page(p)
    /\ IF unread' = {} THEN pc' = "open" /\ todo' = all' ELSE UNCHANGED <<pc, todo>>
    /\ UNCHANGED <<scratch, current, pending, lookup>>

OpenGraph ==
    /\ pc = "open" /\ Going
    /\ OpenDB
    /\ pc' = "next"
    /\ UNCHANGED <<pages, build, lookup>>

\* The next group. Entra ID's addGroup writes its metadata first.
NextGroup ==
    /\ pc = "next" /\ Going
    /\ \E g \in todo :
        /\ current' = g
        /\ unread' = {m \in Members : <<m, g>> \in member}
        /\ IF provider = "entraid" THEN PutJSON("groups", g) ELSE UNCHANGED scratch
    /\ all' = {}
    /\ pc' = "members"
    /\ UNCHANGED <<todo, pending, lookup>>

\* Once all members are known their transaction begins, in Okta's with the
\* group's metadata.
MembersPage ==
    /\ pc = "members" /\ Going
    /\ \E p \in PageOf(unread) : Page(p)
    /\ IF unread' # {} THEN UNCHANGED <<pc, pending, scratch>>
       ELSE /\ pc' = "batch"
            /\ pending' = all'
            /\ IF provider = "okta" THEN TxPut("groups", {current}) ELSE UNCHANGED scratch
    /\ UNCHANGED <<todo, current, lookup>>

BucketOf(m) == IF m \in Groups THEN "parent_of" ELSE "user_groups"

\* Mutant of EdgesOf: removed members are linked too.
EdgesOfAll(m) == {edgeKey(m, current)}

\* The edge of a member, unless it is annotated as removed.
EdgesOf(m) == IF <<m, current>> \in removed THEN {} ELSE {edgeKey(m, current)}

LinkMember ==
    /\ pc = "batch" /\ Going
    /\ \E m \in pending :
        /\ pending' = pending \ {m}
        /\ TxPut(BucketOf(m), EdgesOf(m))
    /\ UNCHANGED <<pages, pc, todo, current, lookup>>

CommitGroup ==
    /\ pc = "batch" /\ Going
    /\ pending = {}
    /\ Commit
    /\ todo' = todo \ {current}
    /\ pc' = "next"
    /\ UNCHANGED <<pages, current, pending, lookup>>

-----------------------------------------------------------------------------
(* The lookup of Entity *)

\* Okta looks up the direct groups, Entra ID expands them first.
Begin ==
    /\ pc = "next" /\ Going
    /\ todo = {}
    /\ seen' = Neighbors("user_groups", Entity)
    /\ IF provider = "okta"
       THEN pc' = "collect" /\ left' = seen' /\ UNCHANGED queue
       ELSE pc' = "expand" /\ queue' = seen' /\ UNCHANGED left
    /\ UNCHANGED <<scratch, pages, build, result>>

\* The loop: take a group from the queue, queue its unseen parents.
Visit ==
    /\ pc = "expand" /\ Going
    /\ \E g \in queue :
        LET new == Neighbors("parent_of", g) \ seen IN
        /\ seen' = seen \cup new
        /\ queue' = (queue \ {g}) \cup new
    /\ UNCHANGED <<scratch, pages, build, pc, left, result>>

Expanded ==
    /\ pc = "expand" /\ Going
    /\ queue = {}
    /\ pc' = "collect"
    /\ left' = seen
    /\ UNCHANGED <<scratch, pages, build, seen, queue, result>>

\* A seen group is part of the answer if it has metadata.
Collect ==
    /\ pc = "collect" /\ Going
    /\ \E g \in left :
        /\ left' = left \ {g}
        /\ result' = IF GetJSON("groups", g) THEN result \cup {g} ELSE result
    /\ UNCHANGED <<scratch, pages, build, pc, seen, queue>>

Collected ==
    /\ pc = "collect" /\ Going
    /\ left = {}
    /\ pc' = "done"
    /\ UNCHANGED <<scratch, pages, build, lookup>>

\* The deferred close at the end of the sync.
CloseGraph ==
    /\ pc = "done" /\ Going
    /\ Close
    /\ pc' = "closed"
    /\ UNCHANGED <<pages, build, lookup>>

\* The request, write or read at pc fails.
Fail ==
    /\ ~failed /\ pc \notin {"done", "closed"}
    /\ failed' = TRUE
    /\ Close
    /\ UNCHANGED <<api, pages, pc, build, lookup>>

-----------------------------------------------------------------------------

Step ==
    \/ GroupsPage \/ OpenGraph \/ NextGroup \/ MembersPage \/ LinkMember \/ CommitGroup
    \/ Begin \/ Visit \/ Expanded \/ Collect \/ Collected \/ CloseGraph

\* The sync is over.
Over == (failed \/ pc = "closed") /\ UNCHANGED vars

Next == Step \/ Fail \/ Over

Spec == Init /\ [][Next]_vars

\* The sync's goroutine goes on, unless something fails.
FairSpec == Spec /\ WF_vars(Step)

-----------------------------------------------------------------------------
(* Properties *)

\* What Membership sees: not the other entity, a graph read through Neighbors,
\* a group added when its members are committed, an answer when the lookup ends.
Mine(E) == {e \in E : e[1] # Other}
Metadata == disk["groups"] \ (IF pc \in {"members", "batch"} THEN {current} ELSE {})
Direct == Neighbors("user_groups", Entity)
ParentOf == {e \in Groups \X Groups : e[2] \in Neighbors("parent_of", e[1])}
Todo == IF pc = "groups" THEN listed ELSE todo
Phase ==
    CASE pc \in {"expand", "collect"} -> "expand"
      [] pc \in {"done", "closed"} -> "done"
      [] OTHER -> "build"
Queue == IF provider = "okta" THEN left ELSE queue
Result == IF pc \in {"done", "closed"} THEN result ELSE {}

M == INSTANCE Membership WITH
    member <- Mine(member), removed <- Mine(removed),
    groups <- Metadata, direct <- Direct, parentOf <- ParentOf,
    todo <- Todo, pc <- Phase, queue <- Queue, result <- Result

\* Pages, batches, keys and lookups are the group graph of Membership: no
\* membership is lost between pages or read from another id's keys, and none
\* of a group is seen before all of them are ("a single transaction per
\* group", group_store.go:32; scratch.go:234-237).
ImplementsMembership == M!Spec

\* Whichever provider: the groups of a document are those the entity belongs
\* to, directly or through any chain of groups.
ResultIsTransitive == M!ResultIsTransitive

\* The sync ends whatever cycles the groups form, and however it ends its
\* temporary file is gone.
EndsWithoutFile == <>[]((failed \/ pc = "closed") /\ file # "open")
=============================================================================
