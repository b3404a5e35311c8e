------------------------------- MODULE ADSync -------------------------------
(***************************************************************************)
(* The Active Directory provider (provider/ad): full syncs that enumerate  *)
(* the directory and find deletions with an id set per kind, incremental   *)
(* syncs that ask for what changed since a whenChanged cursor, which all   *)
(* kinds share.                                                            *)
(*                                                                         *)
(* The directory changes while a sync runs: every page of an LDAP search   *)
(* and every published document is a step. Of an entity the model keeps    *)
(* when it changed (whenChanged, in ticks: several changes may fall into   *)
(* one), and whether what was fetched, or published, is its current state. *)
(* One group stands for those that have members; what is published of a    *)
(* member contains the group's data. While it has no members it is, like   *)
(* groups that never have any, an entity of its own (IncludeEmptyGroups).  *)
(*                                                                         *)
(* The id sets are PresenceSet, the store is StagedStore: the sync writes  *)
(* a view, which a commit flushes key by key and which an interruption     *)
(* drops.                                                                  *)
(*                                                                         *)
(* Bounds: MaxTime ticks, and the entities a configuration comes with.     *)
(* Changes within a tick are not bounded.                                  *)
(***************************************************************************)
EXTENDS Integers, FiniteSets

CONSTANTS
    Users, Devices, Groups, \* the entities of these kinds
    Group,          \* the group that may have members
    Configs,        \* bound: the configurations, <<Dataset, IncludeEmptyGroups>>,
                    \* each with the entities there may be beside Group, and
                    \* with those that may be members
    MaxTime         \* bound on the directory's clock

Entities == Users \cup Devices \cup Groups
Kinds == {"user", "device", "group"}

ASSUME ADSyncAssumption ==
    /\ Users \cap Devices = {} /\ Groups \cap (Users \cup Devices) = {}
    /\ Group \in Groups
    /\ Configs \subseteq {"all", "users", "devices"} \X BOOLEAN
                         \X (SUBSET Entities) \X (SUBSET Entities)
    /\ MaxTime \in Nat \ {0}

VARIABLES
    \* the directory
    wanted,     \* the kinds the configuration asks for, for good
    clock,
    present,    \* the entities there are, Group only while it is empty
    stamp,      \* whenChanged; 0 for one there is not, but Group always is
    members,    \* the members of Group
    \* downstream of the publisher
    down,       \* per entity: "none", or what was published last is "old" or "current"
    \* the durable store, and the view a sync has of it
    cursor, ids, vcursor, vids,
    \* the running sync
    pc, full, kind, since, latest,
    ahead,          \* what the pages of the running search have yet to come to
    gread, gfresh,  \* whenChanged of Group as read, and whether it is the same still
    batch, bstamp,  \* what was fetched, with its whenChanged
    seen,           \* the id set's current ids
    gone,           \* deletions still to publish
    stayed, away,   \* history: present, and remembered but absent, since the full
                    \* sync began
    \* history: what incremental syncs may not see (slipped). Entities that changed
    \* behind their page of a search that goes on, or after it and before a search
    \* for another kind or for members of changed groups; entities that left Group;
    \* those there are when Group changes during a sync, or that change after it
    \* (unsettled); Group when its last member is removed. What changes again at
    \* another time, or is published as it is, is to be seen again.
    slipped, unsettled

directory == <<wanted, clock, present, stamp, members>>
durable == <<cursor, ids>>
view == <<vcursor, vids>>
progress == <<pc, full, kind, since>>
fetched == <<ahead, gread, gfresh, batch, bstamp>>
history == <<stayed, away, slipped, unsettled>>
vars == <<directory, down, durable, view, progress, latest, fetched, seen, gone,
          history>>

Time == 0 .. MaxTime
States == {"none", "old", "current"}
OfKind == [user |-> Users, device |-> Devices, group |-> Groups]

TypeOK ==
    /\ wanted \in SUBSET Kinds
    /\ clock \in 1 .. MaxTime
    /\ present \in SUBSET Entities
    /\ stamp \in [Entities -> Time]
    /\ members \in SUBSET (present \ Groups)
    /\ down \in [Entities -> States]
    /\ cursor \in Time /\ vcursor \in Time
    /\ ids \in SUBSET Entities /\ vids \in SUBSET Entities
    /\ pc \in {"idle", "groups", "entities", "changed", "members", "empty",
               "publish", "deletions", "cursor", "commit"}
    /\ full \in BOOLEAN
    /\ kind \in Kinds
    /\ since \in Time /\ latest \in Time
    /\ ahead \in SUBSET Entities
    /\ gread \in Time /\ gfresh \in BOOLEAN
    /\ batch \in [Entities -> States]
    /\ bstamp \in [Entities -> Time]
    /\ seen \in SUBSET Entities /\ gone \in SUBSET Entities
    /\ {stayed, away, slipped} \subseteq SUBSET Entities
    /\ unsettled \in BOOLEAN

Nothing == [e \in Entities |-> "none"]
NoStamps == [e \in Entities |-> 0]
MaxOf(a, b) == IF a >= b THEN a ELSE b

\* wantUsers, wantDevices, IncludeEmptyGroups. (An empty Dataset is "all".)
wantedKinds(dataset, includeEmptyGroups) ==
    {k \in Kinds :
        CASE k = "user" -> dataset \in {"all", "users"}
          [] k = "device" -> dataset \in {"all", "devices"}
          [] k = "group" -> includeEmptyGroups}

\* The filter !(member=*): what there is of Group to publish when S are its members.
EmptyGroups(S) == IF "group" \in wanted /\ S = {} THEN {Group} ELSE {}

\* The bound on what there may be at a time, and who Group's members are, with
\* the kinds asked for.
Populations == {<<wantedKinds(c[1], c[2]), c[3] \cup {Group}, c[4]>> : c \in Configs}
Possible(S, M) ==
    \E p \in Populations : wanted = p[1] /\ S \subseteq p[2] /\ M \subseteq p[3]

\* The first sync of a provider: nothing stored, nothing published. Entities of
\* kinds not wanted do not matter.
Init ==
    /\ wanted \in {p[1] : p \in Populations}
    /\ clock = 1
    /\ present \in SUBSET UNION {OfKind[k] : k \in wanted}
    /\ stamp = [e \in Entities |-> IF e \in present \cup {Group} THEN 1 ELSE 0]
    /\ members \in SUBSET (present \ Groups)
    /\ present \cap {Group} = EmptyGroups(members)
    /\ Possible(present, members)
    /\ down = Nothing
    /\ cursor = 0 /\ vcursor = 0
    /\ ids = {} /\ vids = {}
    /\ pc = "idle" /\ full = FALSE /\ kind = "user" /\ since = 0 /\ latest = 0
    /\ ahead = {} /\ gread = 0 /\ gfresh = FALSE /\ batch = Nothing /\ bstamp = NoStamps
    /\ seen = {} /\ gone = {}
    /\ stayed = {} /\ away = {} /\ slipped = {} /\ unsettled = FALSE

-----------------------------------------------------------------------------
(* The directory (external): a domain controller and its administrators *)

\* What was fetched or published of the entities of S is their past now.
Outdated(f, S) ==
    [e \in Entities |-> IF e \in S /\ f[e] = "current" THEN "old" ELSE f[e]]

Outdate(S) ==
    /\ down' = Outdated(down, S)
    /\ batch' = Outdated(batch, S)

others == <<durable, view, progress, latest, ahead, gread, bstamp, seen, gone>>

Tick ==
    /\ clock < MaxTime
    /\ clock' = clock + 1
    /\ UNCHANGED <<wanted, present, stamp, members, down, others, gfresh, batch,
                   history>>

\* The order of a sync: users, devices, empty groups.
Later(k) ==
    {j \in wanted : \/ k = "user" /\ j # "user"
                    \/ k = "device" /\ j = "group"}
FirstOf(S) == CHOOSE k \in S : S \subseteq {k} \cup Later(k)

\* The running sync has searched for e, and is to search for more: further
\* pages, another kind, or the members of groups that changed.
Passed(e) ==
    \E k \in Kinds : e \in OfKind[k] /\
        \/ pc # "idle" /\ kind \in Later(k)
        \/ kind = k /\ pc \in {"entities", "empty"} /\ e \notin ahead
        \/ kind = k /\ pc \in {"changed", "members"}
        \/ kind = k /\ pc \in {"publish", "deletions", "cursor", "commit"} /\ Later(k) # {}

Stamp(e) ==
    /\ stamp' = [stamp EXCEPT ![e] = clock]
    /\ Outdate({e})
    /\ slipped' = IF Passed(e) \/ (unsettled /\ e \notin Groups)
                  THEN slipped \cup {e} ELSE slipped \ {e}
    /\ UNCHANGED unsettled

Touch(e) ==
    /\ e \in present \ {Group}
    /\ Stamp(e)
    /\ UNCHANGED <<wanted, clock, present, members, others, gfresh, stayed, away>>

Create(e) ==
    /\ e \notin present \cup {Group}
    /\ \E k \in wanted : e \in OfKind[k]
    /\ Possible(present \cup {e}, members)
    /\ present' = present \cup {e}
    /\ away' = away \ {e}
    /\ Stamp(e)
    /\ UNCHANGED <<wanted, clock, members, others, gfresh, stayed>>

\* e is removed, from Group too, which is not stamped.
Remove(e) ==
    LET emptied == EmptyGroups(members \ {e}) \ present IN
    /\ e \in present \ {Group}
    /\ present' = (present \ {e}) \cup emptied
    /\ stamp' = [stamp EXCEPT ![e] = 0]
    /\ members' = members \ {e}
    /\ stayed' = stayed \ {e}
    /\ away' = away \ emptied
    /\ slipped' = (slipped \ {e}) \cup emptied
    /\ UNCHANGED <<wanted, clock, down, others, gfresh, batch, unsettled>>

\* Group's attributes change, or its members: only Group is stamped.
ChangeGroup(S) ==
    /\ Possible(present, S)
    /\ members' = S
    /\ stamp' = [stamp EXCEPT ![Group] = clock]
    /\ gfresh' = FALSE
    /\ present' = (present \ {Group}) \cup EmptyGroups(S)
    /\ stayed' = stayed \ ({Group} \ EmptyGroups(S))
    /\ away' = away \ EmptyGroups(S)
    /\ Outdate(members \cup S \cup {Group})
    /\ unsettled' = (pc # "idle")
    /\ LET hidden == IF pc = "idle" THEN (slipped \ S) \cup (members \ S)
                                    ELSE slipped \cup (present \ Groups)
       IN  slipped' = (hidden \ {Group}) \cup {g \in {Group} : Passed(g)}
    /\ UNCHANGED <<wanted, clock, others>>

Directory ==
    \/ Tick
    \/ \E e \in Entities : Touch(e) \/ Create(e) \/ Remove(e)
    \/ \E S \in SUBSET (present \ Groups) : ChangeGroup(S)

-----------------------------------------------------------------------------
(* FullSync and IncrementalSync *)

\* Mutant of SinceOf: a full sync filters by the cursor too.
SinceAlways(f) == cursor

\* A full sync ignores the cursor.
SinceOf(f) == IF f THEN 0 ELSE cursor

\* syncEntities begins with the groups; empty groups are searched alone.
BeginKind(k) ==
    /\ kind' = k
    /\ IF k = "group" THEN pc' = "empty" /\ ahead' = Groups
                      ELSE pc' = "groups" /\ UNCHANGED ahead

Start(f) ==
    /\ pc = "idle"
    /\ BeginKind(FirstOf(wanted))
    /\ full' = f
    /\ since' = SinceOf(f)
    /\ latest' = 0
    /\ seen' = {}
    /\ stayed' = IF f THEN present ELSE {}
    /\ away' = IF f THEN ids \ present ELSE {}
    /\ UNCHANGED <<directory, down, durable, view, gread, gfresh, batch, bstamp, gone,
                   slipped, unsettled>>

\* GetDetails: all groups, whatever changed. Of their pages one has Group; the
\* others say nothing of what a member's document contains.
SearchGroups ==
    /\ pc = "groups"
    /\ pc' = "entities"
    /\ ahead' = OfKind[kind]
    /\ gread' = stamp[Group]
    /\ gfresh' = TRUE
    /\ UNCHANGED <<directory, down, durable, view, full, kind, since, latest,
                   batch, bstamp, seen, gone, history>>

\* What a document of e says, with Group's data as they were read.
Document(e) == IF e \in members /\ ~gfresh THEN "old" ELSE "current"

\* whenChanged: the later of the entity's and its groups'.
whenChanged(e) == IF e \in members THEN MaxOf(stamp[e], gread) ELSE stamp[e]

\* The entities of S join what was fetched, those fetched before stay.
Fetch(S) ==
    LET new == {e \in S : batch[e] = "none"} IN
    /\ batch' = [e \in Entities |-> IF e \in new THEN Document(e) ELSE batch[e]]
    /\ bstamp' = [e \in Entities |-> IF e \in new THEN whenChanged(e) ELSE bstamp[e]]

\* search: with PagingSize set it asks for a page at a time, without it for all
\* at once. The server goes through the entities once, in an order of its own,
\* those that are created and removed meanwhile included: S is what the next
\* page covers, matches what it lists of that. A page but the last is not empty.
\* After the last page what was read of Group is done with.
ReadPage(S, matches, next) ==
    /\ matches # {} \/ S = ahead
    /\ Fetch(matches)
    /\ ahead' = ahead \ S
    /\ pc' = IF S = ahead THEN next ELSE pc
    /\ IF S = ahead THEN gread' = 0 /\ gfresh' = FALSE ELSE UNCHANGED <<gread, gfresh>>

\* Mutant of Matches: the filter is whenChanged>since.
MatchesAfter(e) == stamp[e] > since \/ since = 0

\* The filter whenChanged>=since.
Matches(e) == stamp[e] >= since

SearchEntities(S) ==
    /\ pc = "entities"
    /\ ReadPage(S, {e \in S \cap present : Matches(e)},
                IF since = 0 THEN "publish" ELSE "changed")
    /\ UNCHANGED <<directory, down, durable, view, full, kind, since, latest, seen,
                   gone, history>>

\* Incrementals: the groups that changed since the cursor, on whichever page
\* Group is ...
SearchChangedGroups ==
    /\ pc = "changed"
    /\ IF stamp[Group] >= since
       THEN /\ pc' = "members"
            /\ ahead' = OfKind[kind]
            /\ gread' = stamp[Group]
            /\ gfresh' = TRUE
       ELSE /\ pc' = "publish"
            /\ UNCHANGED <<ahead, gread, gfresh>>
    /\ UNCHANGED <<directory, down, durable, view, full, kind, since, latest,
                   batch, bstamp, seen, gone, history>>

\* ... and their members.
SearchMembers(S) ==
    /\ pc = "members"
    /\ ReadPage(S, S \cap members, "publish")
    /\ UNCHANGED <<directory, down, durable, view, full, kind, since, latest, seen,
                   gone, history>>

\* GetEmptyGroups
SearchEmptyGroups(S) ==
    /\ pc = "empty"
    /\ ReadPage(S, {e \in S \cap present : Matches(e)}, "publish")
    /\ UNCHANGED <<directory, down, durable, view, full, kind, since, latest, seen,
                   gone, history>>

\* syncEntities, syncEmptyGroups: Add, publish, keep the latest whenChanged.
Publish(e) ==
    /\ pc = "publish"
    /\ batch[e] # "none"
    /\ down' = [down EXCEPT ![e] = batch[e]]
    /\ batch' = [batch EXCEPT ![e] = "none"]
    /\ latest' = MaxOf(latest, bstamp[e])
    /\ bstamp' = [bstamp EXCEPT ![e] = 0]
    /\ seen' = IF full THEN seen \cup {e} ELSE seen
    /\ slipped' = IF batch[e] = "current" THEN slipped \ {e} ELSE slipped
    /\ UNCHANGED <<directory, durable, view, progress, ahead, gread, gfresh, gone,
                   stayed, away, unsettled>>

\* Mutant of NextKind: the kind after users is not one syncEntities knows.
NextKindComputer ==
    IF Later(kind) = {} THEN pc' = "cursor" /\ UNCHANGED <<kind, ahead>>
    ELSE pc' = "groups" /\ kind' = "computer" /\ UNCHANGED ahead

\* On to the next kind, or to the cursor.
NextKind ==
    IF Later(kind) = {} THEN pc' = "cursor" /\ UNCHANGED <<kind, ahead>>
    ELSE BeginKind(FirstOf(Later(kind)))

\* Set.Missing of the id set of kind k, loaded before anything was saved to it.
Missing(k) == (vids \cap OfKind[k]) \ seen

PublishedAll ==
    /\ pc = "publish"
    /\ batch = Nothing
    /\ IF full
       THEN /\ pc' = "deletions"
            /\ gone' = Missing(kind)
            /\ UNCHANGED <<kind, ahead>>
       ELSE /\ NextKind
            /\ UNCHANGED gone
    /\ UNCHANGED <<directory, down, durable, view, full, since, latest, gread, gfresh,
                   batch, bstamp, seen, history>>

\* emitDeletions
PublishDeletion(e) ==
    /\ pc = "deletions"
    /\ e \in gone
    /\ down' = [down EXCEPT ![e] = "none"]
    /\ gone' = gone \ {e}
    /\ UNCHANGED <<directory, durable, view, progress, latest, fetched, seen, history>>

\* Mutant of SaveIds: the deletions are left to the next sync.
SaveIdsEarly ==
    /\ pc = "deletions"
    /\ gone' = {}
    /\ vids' = (vids \ OfKind[kind]) \cup (seen \cap OfKind[kind])
    /\ NextKind
    /\ UNCHANGED <<directory, down, durable, vcursor, full, since, latest, gread,
                   gfresh, batch, bstamp, seen, history>>

SaveIds ==
    /\ pc = "deletions"
    /\ gone = {}
    /\ vids' = (vids \ OfKind[kind]) \cup (seen \cap OfKind[kind])
    /\ NextKind
    /\ UNCHANGED <<directory, down, durable, vcursor, full, since, latest, gread,
                   gfresh, batch, bstamp, seen, gone, history>>

\* The shared cursor becomes the latest whenChanged of all kinds.
SetCursor ==
    /\ pc = "cursor"
    /\ pc' = "commit"
    /\ vcursor' = IF latest = 0 THEN vcursor ELSE latest
    /\ UNCHANGED <<directory, down, durable, vids, full, kind, since, latest,
                   fetched, seen, gone, history>>

-----------------------------------------------------------------------------
(* The adapter (external): commit, failure, restart *)

Reset ==
    /\ pc' = "idle"
    /\ full' = FALSE /\ kind' = "user" /\ since' = 0 /\ latest' = 0
    /\ ahead' = {} /\ gread' = 0 /\ gfresh' = FALSE /\ batch' = Nothing /\ bstamp' = NoStamps
    /\ seen' = {} /\ gone' = {} /\ stayed' = {} /\ away' = {}
    /\ unsettled' = FALSE

FlushCursor ==
    /\ pc = "commit"
    /\ cursor' = vcursor
    /\ UNCHANGED <<directory, down, ids, view, progress, latest, fetched, seen,
                   gone, history>>

FlushIds(k) ==
    /\ pc = "commit"
    /\ ids' = (ids \ OfKind[k]) \cup (vids \cap OfKind[k])
    /\ UNCHANGED <<directory, down, cursor, view, progress, latest, fetched, seen,
                   gone, history>>

Commit ==
    /\ pc = "commit"
    /\ cursor' = vcursor
    /\ ids' = vids
    /\ Reset
    /\ UNCHANGED <<directory, down, view, slipped>>

\* A search, the publisher or the store fails, or the process dies.
Abort ==
    /\ pc # "idle"
    /\ vcursor' = cursor
    /\ vids' = ids
    /\ Reset
    /\ UNCHANGED <<directory, down, durable, slipped>>

Sync ==
    \/ \E f \in BOOLEAN : Start(f)
    \/ SearchGroups
    \/ \E S \in SUBSET ahead : SearchEntities(S)
    \/ SearchChangedGroups
    \/ \E S \in SUBSET ahead : SearchMembers(S)
    \/ \E S \in SUBSET ahead : SearchEmptyGroups(S)
    \/ \E e \in Entities : Publish(e)
    \/ PublishedAll
    \/ \E e \in Entities : PublishDeletion(e)
    \/ SaveIds
    \/ SetCursor
    \/ Commit

Next ==
    \/ Directory
    \/ Sync
    \/ FlushCursor
    \/ \E k \in Kinds : FlushIds(k)
    \/ Abort

Spec == Init /\ [][Next]_vars

-----------------------------------------------------------------------------
(* Properties *)

\* A full sync is through with the directory.
FullDone == full /\ pc \in {"cursor", "commit"}

\* What the next incremental sync will not fetch.
BehindCursor ==
    IF cursor = 0 THEN {}
    ELSE {e \in present : stamp[e] < cursor /\ (e \in members => stamp[Group] < cursor)}

\* Nothing but what slipped falls behind the cursor: of every other entity
\* whose current state is not downstream, the next incremental sync asks,
\* although searches go page by page, the clock is coarse, commits are torn and
\* syncs fail.
OnlySlipsFallBehind ==
    \A e \in BehindCursor \ slipped : down[e] = "current"

\* A full sync never leaves an entity deleted downstream that was in the
\* directory all the time the sync ran.
FullSyncKeepsPresent ==
    FullDone => \A e \in stayed : down[e] # "none"

\* A full sync deletes downstream every entity that the committed id sets
\* remembered and that was gone when it began, whatever failed before.
FullSyncDeletesRemembered ==
    FullDone => \A e \in away : down[e] = "none"
=============================================================================
