----------------------------- MODULE EntraSync ------------------------------
(***************************************************************************)
(* The Entra ID provider (provider/entraid/provider.go): syncs driven by   *)
(* delta links, one per kind of entity. A query without a link lists what  *)
(* exists and returns a link; a query with a link lists what changed since *)
(* it was made, annotating what was removed, and returns the next link.    *)
(*                                                                         *)
(* The Graph API is external. Assumed of it: a link that a query returns   *)
(* covers every change after that query's first page, and a removal is     *)
(* reported by the links that were made before it. A link is modelled by   *)
(* what a query with it would list: the set of entities changed since.     *)
(* This needs no versions and no bound.                                    *)
(*                                                                         *)
(* Left out: what documents say about groups, MFA, sign-ins and owners. A  *)
(* group graph that cannot be built, as any other failed request, ends the *)
(* sync (Abort).                                                           *)
(***************************************************************************)
EXTENDS FiniteSets

CONSTANTS
    Users, Devices, \* the entities of each kind
    NoLink          \* no delta link: loadDeltaLink returns ""

Entities == Users \cup Devices
Kinds == {"user", "device"}
OfKind == [user |-> Users, device |-> Devices]

ASSUME EntraSyncAssumption ==
    /\ Users \cap Devices = {}
    /\ \A S \in SUBSET Entities : NoLink # S

VARIABLES
    present,    \* the entities of the tenant
    down,       \* what downstream has: "none", or an "old" or the "current" state
    dlink,      \* the durable delta links
    vlink,      \* the delta links in the view of the sync
    newlink,    \* the links returned to the running sync
    pc,         \* "idle", "user" / "device" (fetching), "publish", "links", "commit"
    full,
    batch,      \* fetched and not yet published: "none", "old", "current", "removed"
    unreported  \* history: entities that were downstream, but no longer in the
                \* tenant, when their kind was queried without a link, and have
                \* not been in it since

links == <<dlink, vlink, newlink>>
vars == <<present, down, links, pc, full, batch, unreported>>

States == {"none", "old", "current"}
Links == [Kinds -> {NoLink} \cup SUBSET Entities]

TypeOK ==
    /\ present \in SUBSET Entities
    /\ down \in [Entities -> States]
    /\ dlink \in Links /\ vlink \in Links /\ newlink \in Links
    /\ pc \in {"idle", "user", "device", "publish", "links", "commit"}
    /\ full \in BOOLEAN
    /\ batch \in [Entities -> States \cup {"removed"}]
    /\ unreported \in SUBSET Entities

Unset == [k \in Kinds |-> NoLink]
Nothing == [e \in Entities |-> "none"]

\* A new provider: no link is stored, nothing was published.
Init ==
    /\ present \in SUBSET Entities
    /\ down = Nothing
    /\ dlink = Unset
    /\ vlink = Unset
    /\ newlink = Unset
    /\ pc = "idle"
    /\ full = FALSE
    /\ batch = Nothing
    /\ unreported = {}

-----------------------------------------------------------------------------
(* The tenant (external) *)

\* A link of e's kind will list e.
Noted(l, e) ==
    [k \in Kinds |-> IF l[k] # NoLink /\ e \in OfKind[k] THEN l[k] \cup {e} ELSE l[k]]

Outdated(f, e) == IF f[e] = "current" THEN [f EXCEPT ![e] = "old"] ELSE f

Change(e) ==
    /\ \/ present' = present \cup {e}       \* created, or modified
       \/ e \in present /\ present' = present \ {e}
    /\ down' = Outdated(down, e)
    /\ batch' = Outdated(batch, e)
    /\ dlink' = Noted(dlink, e)
    /\ vlink' = Noted(vlink, e)
    /\ newlink' = Noted(newlink, e)
    /\ unreported' = unreported \ {e}
    /\ UNCHANGED <<pc, full>>

-----------------------------------------------------------------------------
(* FullSync and IncrementalSync *)

\* A full sync deletes the stored links first.
Start(f) ==
    /\ pc = "idle"
    /\ full' = f
    /\ vlink' = IF f THEN Unset ELSE vlink
    /\ newlink' = Unset
    /\ batch' = Nothing
    /\ pc' = "user"
    /\ UNCHANGED <<present, down, dlink, unreported>>

\* Mutant of Listed: removed entities are dropped from the answer.
ListedPresent(k) ==
    IF vlink[k] = NoLink THEN OfKind[k] \cap present ELSE vlink[k] \cap present

\* What getUsers or getDevices returns.
Listed(k) == IF vlink[k] = NoLink THEN OfKind[k] \cap present ELSE vlink[k]

\* Mutant of Fetch: an incremental sync that got no users ends at once.
FetchUsersFirst(k) ==
    /\ pc = k
    /\ batch' = [e \in Entities |->
                    IF e \notin Listed(k) THEN batch[e]
                    ELSE IF e \in present THEN "current" ELSE "removed"]
    /\ newlink' = [newlink EXCEPT ![k] = {}]
    /\ pc' = IF ~full /\ batch' = Nothing THEN "links"
             ELSE IF k = "user" THEN "device" ELSE "publish"
    /\ unreported' = IF vlink[k] # NoLink THEN unreported
                     ELSE unreported \cup {e \in OfKind[k] \ present : down[e] # "none"}
    /\ UNCHANGED <<present, down, dlink, vlink, full>>

\* Users first, then devices. An incremental sync that got nothing skips the
\* group graph and the documents.
Fetch(k) ==
    /\ pc = k
    /\ batch' = [e \in Entities |->
                    IF e \notin Listed(k) THEN batch[e]
                    ELSE IF e \in present THEN "current" ELSE "removed"]
    /\ newlink' = [newlink EXCEPT ![k] = {}]
    /\ pc' = IF k = "user" THEN "device"
             ELSE IF ~full /\ batch' = Nothing THEN "links" ELSE "publish"
    /\ unreported' = IF vlink[k] # NoLink THEN unreported
                     ELSE unreported \cup {e \in OfKind[k] \ present : down[e] # "none"}
    /\ UNCHANGED <<present, down, dlink, vlink, full>>

\* The API refuses the stored link: it is deleted and the query repeated.
Expire(k) ==
    /\ pc = k
    /\ ~full
    /\ vlink[k] # NoLink
    /\ vlink' = [vlink EXCEPT ![k] = NoLink]
    /\ UNCHANGED <<present, down, dlink, newlink, pc, full, batch, unreported>>

\* Mutant of Publish: removed entities are published like the others.
PublishAsFetched(e) ==
    /\ pc = "publish"
    /\ batch[e] # "none"
    /\ e \in Devices => \A u \in Users : batch[u] = "none"
    /\ down' = [down EXCEPT ![e] = batch[e]]
    /\ batch' = [batch EXCEPT ![e] = "none"]
    /\ UNCHANGED <<present, links, pc, full, unreported>>

\* Users first, then devices; removed ones with ActionDeleted.
Publish(e) ==
    /\ pc = "publish"
    /\ batch[e] # "none"
    /\ e \in Devices => \A u \in Users : batch[u] = "none"
    /\ down' = [down EXCEPT ![e] = IF batch[e] = "removed" THEN "none" ELSE batch[e]]
    /\ batch' = [batch EXCEPT ![e] = "none"]
    /\ UNCHANGED <<present, links, pc, full, unreported>>

\* Mutant of Published: the links are stored before everything is published.
PublishedSome ==
    /\ pc = "publish"
    /\ pc' = "links"
    /\ UNCHANGED <<present, down, links, full, batch, unreported>>

Published ==
    /\ pc = "publish"
    /\ batch = Nothing
    /\ pc' = "links"
    /\ UNCHANGED <<present, down, links, full, batch, unreported>>

SetLinks ==
    /\ pc = "links"
    /\ vlink' = newlink
    /\ pc' = "commit"
    /\ UNCHANGED <<present, down, dlink, newlink, full, batch, unreported>>

-----------------------------------------------------------------------------
(* The adapter (external) *)

End ==
    /\ pc' = "idle"
    /\ full' = FALSE
    /\ newlink' = Unset
    /\ batch' = Nothing

FlushLink(k) ==
    /\ pc = "commit"
    /\ dlink' = [dlink EXCEPT ![k] = vlink[k]]
    /\ UNCHANGED <<present, down, vlink, newlink, pc, full, batch, unreported>>

Commit ==
    /\ pc = "commit"
    /\ dlink' = vlink
    /\ End
    /\ UNCHANGED <<present, down, vlink, unreported>>

Abort ==
    /\ pc # "idle"
    /\ vlink' = dlink
    /\ End
    /\ UNCHANGED <<present, down, dlink, unreported>>

Sync ==
    \/ \E k \in Kinds : Fetch(k)
    \/ \E e \in Entities : Publish(e)
    \/ Published
    \/ SetLinks
    \/ Commit

Next ==
    \/ \E e \in Entities : Change(e)
    \/ \E f \in BOOLEAN : Start(f)
    \/ Sync
    \/ \E k \in Kinds : Expire(k)
    \/ \E k \in Kinds : FlushLink(k)
    \/ Abort

Spec == Init /\ [][Next]_vars

\* The adapter runs incremental syncs again and again, and a sync that is
\* not interrupted goes on.
FairSpec == Spec /\ WF_vars(Sync) /\ WF_vars(Start(FALSE))

-----------------------------------------------------------------------------
(* Properties *)

\* With a durable link, every entity whose current state downstream has not
\* got will be listed by a query with that link: links are stored only after
\* everything they are ahead of was published (entraid/provider.go:195, 366).
NothingBehindLink ==
    \A k \in Kinds : dlink[k] # NoLink =>
        \A e \in OfKind[k] \cap present : down[e] # "current" => e \in dlink[k]

\* The same of removed entities, if no query without a link was made after
\* the removal: such a query, of a full sync or of an incremental one whose
\* link expired, lists what exists and says nothing of what does not.
NoRemovalBehindLink ==
    \A k \in Kinds : dlink[k] # NoLink =>
        \A e \in OfKind[k] \ (present \cup unreported) :
            down[e] # "none" => e \in dlink[k]

\* "The API annotates removed entities with @removed, so no idset is needed"
\* (entraid/provider.go:9-10): a removal that a durable link was going to
\* report is published before that link is replaced.
RemovalsReported ==
    [][\A k \in Kinds : dlink[k] # NoLink =>
            \A e \in dlink[k] \ present :
                down'[e] = "none" \/ e \in dlink'[k]]_vars

\* Downstream has the current state of every entity of the tenant.
InSync == \A e \in present : down[e] = "current"

\* A sync fails before its commit. (A commit that fails once everything is
\* flushed ends in the same state as one that succeeds.)
Fails == pc # "commit" /\ Abort

\* When the tenant stops changing and syncs get as far as their commit,
\* downstream catches up for good, also if commits go on failing.
Converges ==
    <>[][~((\E e \in Entities : Change(e)) \/ Fails)]_vars => <>[]InSync
=============================================================================
