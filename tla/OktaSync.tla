------------------------------ MODULE OktaSync ------------------------------
(***************************************************************************)
(* The Okta provider (provider/okta/provider.go): full syncs that list all *)
(* users, then all devices, and find deletions with an id set per kind;    *)
(* incremental syncs that ask for what was updated since a cursor. There   *)
(* are two cursors per kind, one written by full syncs (last_sync), one by *)
(* incremental ones (last_update), and the latter is preferred.            *)
(*                                                                         *)
(* Answers come in pages, and the organization changes between two pages.  *)
(* Of an entity the model keeps when it was updated (lastUpdated, in       *)
(* ticks: several updates may fall into one), and whether what was         *)
(* fetched, or published, is its current state.                            *)
(*                                                                         *)
(* A request that fails for good, also the mapping of groups, ends a sync  *)
(* (Abort); the enrichment of a user may fail without consequence and is   *)
(* left out, as is the content of documents. The id sets are PresenceSet,  *)
(* the store is StagedStore.                                               *)
(*                                                                         *)
(* Assumed of the API (external): it lists entities in the order of their  *)
(* ids, and a next link continues behind the last id listed.               *)
(* Bound: MaxTime ticks. Updates within a tick are not bounded.            *)
(***************************************************************************)
EXTENDS Integers, FiniteSets, FiniteSetsExt

CONSTANTS
    Users, Devices, \* the entities of each kind: ids, as numbers
    PageSize,       \* the page size of the API, or Config.BatchSize
    Populations,    \* bound: the entities that may exist in one behaviour
    MaxTime         \* bound on the organization's clock

Entities == Users \cup Devices
Kinds == {"user", "device"}
OfKind == [user |-> Users, device |-> Devices]

ASSUME OktaSyncAssumption ==
    /\ Users \subseteq Nat \ {0} /\ Devices \subseteq Nat \ {0}
    /\ IsFiniteSet(Users) /\ IsFiniteSet(Devices)
    /\ Users \cap Devices = {}
    /\ PageSize \in Nat \ {0}
    /\ Populations \subseteq SUBSET Entities
    /\ MaxTime \in Nat \ {0}

VARIABLES
    \* the organization
    population, \* one of Populations, for good
    clock,
    present,    \* the entities there are
    stamp,      \* their lastUpdated; 0 for an entity there is not
    \* downstream of the publisher
    down,       \* per entity: "none", or what was published last is "old" or "current"
    \* the durable store, and the view a sync has of it
    last_sync, last_update, ids, vsync, vupdate, vids,
    \* the running sync
    pc,         \* "idle", "pages", "publish", "deletions" or "commit"
    full, kind, since,
    after,      \* the last id listed
    latest,     \* the latest lastUpdated listed
    batch,      \* what was listed and is not published yet
    seen,       \* the id set's current ids
    gone,       \* deletions still to publish
    \* history: present, and absent, since the sync began; updated after the
    \* page that may have listed it and before the last page of its kind
    stayed, away, slipped

organization == <<population, clock, present, stamp>>
durable == <<last_sync, last_update, ids>>
view == <<vsync, vupdate, vids>>
paging == <<kind, since, after, latest>>
history == <<stayed, away, slipped>>
vars == <<organization, down, durable, view, pc, full, paging, batch, seen, gone, history>>

Time == 0 .. MaxTime
States == {"none", "old", "current"}
Cursors == [Kinds -> Time]

TypeOK ==
    /\ population \in Populations
    /\ clock \in 1 .. MaxTime
    /\ present \in SUBSET Entities
    /\ stamp \in [Entities -> Time]
    /\ down \in [Entities -> States]
    /\ last_sync \in Cursors /\ last_update \in Cursors
    /\ vsync \in Cursors /\ vupdate \in Cursors
    /\ ids \in SUBSET Entities /\ vids \in SUBSET Entities
    /\ pc \in {"idle", "pages", "publish", "deletions", "commit"}
    /\ full \in BOOLEAN
    /\ kind \in Kinds
    /\ since \in Time /\ latest \in Time
    /\ after \in Entities \cup {0}
    /\ batch \in [Entities -> States]
    /\ {seen, gone, stayed, away, slipped} \subseteq SUBSET Entities

Nothing == [e \in Entities |-> "none"]
NoCursors == [k \in Kinds |-> 0]

\* A new provider: nothing stored, nothing published.
Init ==
    /\ population \in Populations
    /\ clock = 1
    /\ present \in SUBSET population
    /\ stamp = [e \in Entities |-> IF e \in present THEN 1 ELSE 0]
    /\ down = Nothing
    /\ last_sync = NoCursors /\ last_update = NoCursors /\ ids = {}
    /\ vsync = NoCursors /\ vupdate = NoCursors /\ vids = {}
    /\ pc = "idle" /\ full = FALSE
    /\ kind = "user" /\ since = 0 /\ after = 0 /\ latest = 0
    /\ batch = Nothing /\ seen = {} /\ gone = {}
    /\ stayed = {} /\ away = {} /\ slipped = {}

-----------------------------------------------------------------------------
(* The organization (external) *)

syncing == <<durable, view, pc, full, paging, seen, gone>>

Tick ==
    /\ clock < MaxTime
    /\ clock' = clock + 1
    /\ UNCHANGED <<population, present, stamp, down, batch, syncing, history>>

Outdated(f, e) == IF f[e] = "current" THEN [f EXCEPT ![e] = "old"] ELSE f

\* e is created or updated.
Update(e) ==
    /\ e \in population
    /\ present' = present \cup {e}
    /\ stamp' = [stamp EXCEPT ![e] = clock]
    /\ down' = Outdated(down, e)
    /\ batch' = Outdated(batch, e)
    /\ away' = away \ {e}
    /\ slipped' = IF pc = "pages" /\ e \in OfKind[kind] /\ e <= after
                  THEN slipped \cup {e} ELSE slipped
    /\ UNCHANGED <<population, clock, syncing, stayed>>

Purge(e) ==
    /\ e \in present
    /\ present' = present \ {e}
    /\ stamp' = [stamp EXCEPT ![e] = 0]
    /\ stayed' = stayed \ {e}
    /\ slipped' = slipped \ {e}
    /\ UNCHANGED <<population, clock, down, batch, syncing, away>>

-----------------------------------------------------------------------------
(* FullSync and IncrementalSync *)

\* The cursor of the last incremental sync, else of the last full sync.
loadCursor(k) == IF vupdate[k] # 0 THEN vupdate[k] ELSE vsync[k]

\* Mutant of SinceOf: a full sync asks for updates too.
SinceAlways(f, k) == loadCursor(k)

\* A full sync lists everything.
SinceOf(f, k) == IF f THEN 0 ELSE loadCursor(k)

BeginKind(f, k) ==
    /\ pc' = "pages"
    /\ kind' = k
    /\ since' = SinceOf(f, k)
    /\ after' = 0
    /\ latest' = 0

Start(f) ==
    /\ pc = "idle"
    /\ BeginKind(f, "user")
    /\ full' = f
    /\ stayed' = IF f THEN present ELSE {}
    /\ away' = IF f THEN Entities \ present ELSE {}
    /\ UNCHANGED <<organization, down, durable, view, batch, seen, gone, slipped>>

\* Mutant of Matches: the filter is lastUpdated gt since.
MatchesAfter(e) == stamp[e] > since \/ since = 0

\* The filter lastUpdated ge since.
Matches(e) == stamp[e] >= since

\* What is still to be listed, and the page that comes next.
Listed == {e \in OfKind[kind] \cap present : e > after /\ Matches(e)}
Page == {e \in Listed : Cardinality({f \in Listed : f < e}) < PageSize}

\* Mutant of FetchPage: the page without a next link is not appended.
FetchPageButLast ==
    /\ pc = "pages"
    /\ pc' = IF Page = Listed THEN "publish" ELSE "pages"
    /\ batch' = [e \in Entities |-> IF e \in Page /\ Page # Listed THEN "current" ELSE batch[e]]
    /\ IF Page = Listed THEN since' = 0 /\ after' = 0
                        ELSE since' = since /\ after' = Max(Page)
    /\ latest' = Max({stamp[e] : e \in Page} \cup {latest})
    /\ UNCHANGED <<organization, down, durable, view, full, kind, seen, gone, history>>

\* paginateUsers, paginateDevices: one page; without a next link, the last.
FetchPage ==
    /\ pc = "pages"
    /\ pc' = IF Page = Listed THEN "publish" ELSE "pages"
    /\ batch' = [e \in Entities |-> IF e \in Page THEN "current" ELSE batch[e]]
    /\ IF Page = Listed THEN since' = 0 /\ after' = 0
                        ELSE since' = since /\ after' = Max(Page)
    /\ latest' = Max({stamp[e] : e \in Page} \cup {latest})
    /\ UNCHANGED <<organization, down, durable, view, full, kind, seen, gone, history>>

Fetched == {e \in Entities : batch[e] # "none"}

\* Add and publish, in the order of the list.
Publish(e) ==
    /\ pc = "publish"
    /\ e \in Fetched
    /\ \A f \in Fetched : e <= f
    /\ down' = [down EXCEPT ![e] = batch[e]]
    /\ batch' = [batch EXCEPT ![e] = "none"]
    /\ seen' = IF full THEN seen \cup {e} ELSE seen
    /\ slipped' = IF batch[e] = "current" THEN slipped \ {e} ELSE slipped
    /\ UNCHANGED <<organization, durable, view, pc, full, paging, gone, stayed, away>>

\* Mutant of NextKind: the kind after users is not a known one.
NextKindGroups ==
    IF kind = "user" THEN pc' = "pages" /\ kind' = "group" /\ since' = 0 /\ after' = 0 /\ latest' = 0
    ELSE pc' = "commit" /\ latest' = 0 /\ UNCHANGED <<kind, since, after>>

\* On to the devices, or to the end of the sync.
NextKind ==
    IF kind = "user" THEN BeginKind(full, "device")
    ELSE pc' = "commit" /\ latest' = 0 /\ UNCHANGED <<kind, since, after>>

\* Without anything listed the cursor stays.
Advanced(cursor) == IF latest = 0 THEN cursor ELSE [cursor EXCEPT ![kind] = latest]

\* The end of a kind in an incremental sync.
SetUpdateCursor ==
    /\ pc = "publish"
    /\ Fetched = {}
    /\ ~full
    /\ vupdate' = Advanced(vupdate)
    /\ NextKind
    /\ UNCHANGED <<organization, down, durable, vsync, vids, full, batch, seen, gone,
                   history>>

\* Set.Missing of the id set of this kind.
Missing == (vids \cap OfKind[kind]) \ seen

FindMissing ==
    /\ pc = "publish"
    /\ Fetched = {}
    /\ full
    /\ pc' = "deletions"
    /\ gone' = Missing
    /\ UNCHANGED <<organization, down, durable, view, full, paging, batch, seen, history>>

PublishDeletion(e) ==
    /\ pc = "deletions"
    /\ e \in gone
    /\ down' = [down EXCEPT ![e] = "none"]
    /\ gone' = gone \ {e}
    /\ UNCHANGED <<organization, durable, view, pc, full, paging, batch, seen, history>>

\* Mutant of Save: the deletions are left to the next sync.
SaveEarly ==
    /\ pc = "deletions"
    /\ gone' = {}
    /\ vids' = (vids \ OfKind[kind]) \cup seen
    /\ seen' = {}
    /\ vsync' = Advanced(vsync)
    /\ NextKind
    /\ UNCHANGED <<organization, down, durable, vupdate, full, batch, history>>

\* The end of a kind in a full sync: its id set and its cursor.
Save ==
    /\ pc = "deletions"
    /\ gone = {}
    /\ vids' = (vids \ OfKind[kind]) \cup seen
    /\ seen' = {}
    /\ vsync' = Advanced(vsync)
    /\ NextKind
    /\ UNCHANGED <<organization, down, durable, vupdate, full, batch, gone, history>>

-----------------------------------------------------------------------------
(* The adapter (external): commit, failure, restart *)

Reset ==
    /\ pc' = "idle" /\ full' = FALSE
    /\ kind' = "user" /\ since' = 0 /\ after' = 0 /\ latest' = 0
    /\ batch' = Nothing /\ seen' = {} /\ gone' = {}
    /\ stayed' = {} /\ away' = {}

\* The commit flushes one key and may yet stop.
Flush(k) ==
    /\ pc = "commit"
    /\ \/ /\ last_sync' = [last_sync EXCEPT ![k] = vsync[k]]
          /\ UNCHANGED <<last_update, ids>>
       \/ /\ last_update' = [last_update EXCEPT ![k] = vupdate[k]]
          /\ UNCHANGED <<last_sync, ids>>
       \/ /\ ids' = (ids \ OfKind[k]) \cup (vids \cap OfKind[k])
          /\ UNCHANGED <<last_sync, last_update>>
    /\ UNCHANGED <<organization, down, view, pc, full, paging, batch, seen, gone, history>>

Commit ==
    /\ pc = "commit"
    /\ last_sync' = vsync /\ last_update' = vupdate /\ ids' = vids
    /\ Reset
    /\ UNCHANGED <<organization, down, view, slipped>>

\* A request, the publisher or the store fails, or the process dies.
Abort ==
    /\ pc # "idle"
    /\ vsync' = last_sync /\ vupdate' = last_update /\ vids' = ids
    /\ Reset
    /\ UNCHANGED <<organization, down, durable, slipped>>

Sync ==
    \/ FetchPage
    \/ \E e \in Entities : Publish(e)
    \/ SetUpdateCursor
    \/ FindMissing
    \/ \E e \in Entities : PublishDeletion(e)
    \/ Save
    \/ Commit

Next ==
    \/ Tick
    \/ \E e \in Entities : Update(e) \/ Purge(e)
    \/ \E f \in BOOLEAN : Start(f)
    \/ Sync
    \/ \E k \in Kinds : Flush(k)
    \/ Abort

Spec == Init /\ [][Next]_vars

\* No sync fails and no commit is torn.
UninterruptedSpec ==
    Init /\ [][\/ Tick
               \/ \E e \in Entities : Update(e) \/ Purge(e)
               \/ \E f \in BOOLEAN : Start(f)
               \/ Sync]_vars

\* A sync that is not interrupted goes on, and the adapter runs a full sync
\* again and again, however many incremental ones it runs in between.
FairSpec == Spec /\ WF_vars(Sync) /\ SF_vars(Start(TRUE))

-----------------------------------------------------------------------------
(* Properties *)

\* What the next incremental sync will not fetch.
BehindCursor ==
    {e \in present : \E k \in Kinds :
        /\ e \in OfKind[k]
        /\ stamp[e] < IF last_update[k] # 0 THEN last_update[k] ELSE last_sync[k]}

\* Nothing but what slipped falls behind a cursor: of every other entity whose
\* current state is not downstream the next incremental sync asks, whichever
\* cursor it reads, and although commits of either are torn.
OnlySlipsFallBehind ==
    \A e \in BehindCursor \ slipped : down[e] = "current"

\* A full sync is through with the organization.
FullDone == full /\ pc = "commit"

\* A full sync never leaves an entity deleted downstream that existed all the
\* time the sync ran, wherever the pages were cut.
FullSyncKeepsPresent ==
    FullDone => \A e \in stayed : down[e] # "none"

\* A full sync deletes downstream every entity that a committed id set
\* remembers and that was gone before the sync began, whatever failed since.
FullSyncDeletesRemembered ==
    FullDone => \A e \in away \cap ids : down[e] = "none"

\* "Idset deletion detects users truly purged from the API"
\* (okta/provider.go:16): after a full sync no entity remains downstream that
\* was purged before the sync began, also if an incremental sync found it.
FullSyncLeavesNoGhost ==
    FullDone => \A e \in away : down[e] = "none"

\* A sync fails before its commit. (A commit that fails once everything is
\* flushed ends in the same state as one that succeeds.)
Fails == pc # "commit" /\ Abort

\* When the organization stops changing and syncs get as far as their commit,
\* full syncs repair what slipped past the cursors: downstream catches up for
\* good, also if commits go on failing.
Converges ==
    <>[][~((\E e \in Entities : Update(e) \/ Purge(e)) \/ Fails)]_vars
        => <>[](\A e \in present : down[e] = "current")
=============================================================================
