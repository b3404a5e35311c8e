---------------------------- MODULE ADSync_proof ----------------------------
(***************************************************************************)
(* Nothing but what slipped falls behind the Active Directory cursor; a    *)
(* full sync keeps what stayed and deletes what it remembers: for any      *)
(* users, devices, configurations and clock.                               *)
(***************************************************************************)
EXTENDS ADSync, TLAPS

-----------------------------------------------------------------------------
(* Kinds and their order *)

LEMMA KindsApart ==
    /\ \A k \in Kinds : OfKind[k] \subseteq Entities
    /\ \A e \in Entities : \E k \in Kinds : e \in OfKind[k]
    /\ \A j, k \in Kinds : j # k => OfKind[j] \cap OfKind[k] = {}
    /\ Group \in Groups /\ Groups \subseteq Entities /\ OfKind["group"] = Groups
    /\ \A e \in Groups : \A k \in Kinds : e \in OfKind[k] => k = "group"
  <1>1. OfKind["user"] = Users /\ OfKind["device"] = Devices /\ OfKind["group"] = Groups
    BY DEF OfKind
  <1>2. Users \cap Devices = {} /\ Groups \cap (Users \cup Devices) = {} /\ Group \in Groups
    BY ADSyncAssumption
  <1>3. \A e \in Entities : e \in OfKind["user"] \/ e \in OfKind["device"] \/ e \in OfKind["group"]
    BY <1>1 DEF Entities
  <1>4. ASSUME NEW k \in Kinds PROVE OfKind[k] \subseteq Entities
    BY <1>1 DEF Kinds, Entities
  <1>5. ASSUME NEW e \in Groups, NEW k \in Kinds, e \in OfKind[k] PROVE k = "group"
    BY <1>1, <1>2, <1>5 DEF Kinds
  <1>6. ASSUME NEW j \in Kinds, NEW k \in Kinds, j # k PROVE OfKind[j] \cap OfKind[k] = {}
    <2>1. CASE j = "group" \/ k = "group"
      BY <1>1, <1>2, <1>6, <2>1 DEF Kinds
    <2>2. CASE j # "group" /\ k # "group"
      BY <1>1, <1>2, <1>6, <2>2 DEF Kinds
    <2> QED
      BY <2>1, <2>2
  <1>7. Groups \subseteq Entities
    BY DEF Entities
  <1> QED
    BY <1>1, <1>2, <1>3, <1>4, <1>5, <1>6, <1>7 DEF Kinds

\* Later orders the kinds of a sync.
LEMMA Order ==
    ASSUME wanted \in SUBSET Kinds
    PROVE  /\ \A k \in Kinds : Later(k) \subseteq wanted /\ k \notin Later(k)
           /\ \A j, k \in Kinds : j \in Later(k) => k \notin Later(j) /\ Later(j) \subseteq Later(k)
           /\ \A j, k \in wanted : j = k \/ j \in Later(k) \/ k \in Later(j)
           /\ Later("group") = {}
  BY DEF Later, Kinds

\* There is a first one of some kinds.
LEMMA FirstIsFirst ==
    ASSUME wanted \in SUBSET Kinds, NEW S \in SUBSET wanted, S # {}
    PROVE  FirstOf(S) \in S /\ \A k \in S : k = FirstOf(S) \/ k \in Later(FirstOf(S))
  <1>1. \E k \in S : S \subseteq {k} \cup Later(k)
    <2>1. CASE "user" \in S
      BY <2>1 DEF Later, Kinds
    <2>2. CASE "user" \notin S /\ "device" \in S
      BY <2>2 DEF Later, Kinds
    <2>3. CASE "user" \notin S /\ "device" \notin S
      BY <2>3 DEF Kinds
    <2> QED
      BY <2>1, <2>2, <2>3
  <1>2. FirstOf(S) \in S /\ S \subseteq {FirstOf(S)} \cup Later(FirstOf(S))
    BY <1>1 DEF FirstOf
  <1> QED
    BY <1>2

-----------------------------------------------------------------------------
(* The invariant *)

\* The entities the cursor answers for.
Settled == present \ slipped

\* A sync with the cursor t asks for e, for itself or as a member of Group.
Above(e, t) == stamp[e] >= t \/ (e \in members /\ stamp[Group] >= t)

\* The next sync asks for e, also if the running one moves the cursor.
Fresh(e) ==
    /\ Above(e, cursor) /\ Above(e, vcursor) /\ Above(e, latest)
    /\ \A f \in Entities : Above(e, bstamp[f])

\* Nothing is later than the clock.
ClockInv ==
    /\ cursor <= clock /\ vcursor <= clock /\ latest <= clock /\ gread <= clock
    /\ \A e \in Entities : stamp[e] <= clock /\ bstamp[e] <= clock

\* There is nothing of a kind that is not wanted.
WantedInv ==
    /\ wanted # {}
    /\ \A k \in Kinds \ wanted : OfKind[k] \cap (present \cup vids \cup ids \cup away) = {}

\* What the sync has in hand, of the kind it is at.
ControlInv ==
    /\ pc = "idle" => ~full /\ ~unsettled /\ vids = ids /\ vcursor = cursor
    /\ pc # "idle" => kind \in wanted
    /\ pc \in {"cursor", "commit"} => Later(kind) = {}
    /\ pc \in {"groups", "entities", "changed", "members"} => kind # "group"
    /\ pc = "empty" => kind = "group"
    /\ pc \notin {"idle", "cursor", "commit"} => since \in {0, vcursor} /\ (full => since = 0)
    /\ pc \in {"changed", "members"} => since # 0
    /\ ahead \subseteq OfKind[kind]
    /\ pc \notin {"entities", "members", "empty"} => ahead = {}
    /\ \A e \in Entities : batch[e] # "none" =>
          /\ pc \in {"entities", "changed", "members", "empty", "publish"} /\ e \in OfKind[kind]
          /\ pc \in {"entities", "empty"} => e \notin ahead
    /\ pc # "deletions" => gone = {}
    /\ pc = "deletions" => full
    /\ gone \subseteq OfKind[kind] \ seen
    /\ pc \in {"entities", "members"} /\ ~gfresh => unsettled

\* Whatever is not downstream is above the cursor.
CursorInv == \A e \in Settled : down[e] = "current" \/ (Above(e, cursor) /\ Above(e, vcursor))

\* Once Group has changed, only what was published since is settled.
UnsettledInv ==
    unsettled => \A e \in Settled \ Groups :
        /\ down[e] = "current"
        /\ pc \in {"entities", "members"} /\ ~gfresh => e \notin OfKind[kind]

\* e may have changed since the last search of the sync: it will be asked for.
Changed(e) == Later(kind) = {} /\ Fresh(e) /\ (unsettled => e \in Groups)

\* What is outdated in hand, and did not slip, changed after the last search.
OldInv == \A e \in Settled : batch[e] = "old" => pc = "publish" /\ Changed(e)

\* A page of the first search of the kind has come to e.
Paged(e) ==
    \/ pc \in {"changed", "members"}
    \/ pc \in {"entities", "empty"} /\ e \notin ahead

\* What the pages of the first search found is in hand; the others did not change.
FoundInv ==
    \A e \in Settled \cap OfKind[kind] : Paged(e) =>
        batch[e] = "current" \/ (batch[e] = "none" /\ stamp[e] < since)

\* So are the members of changed groups; what no search found is downstream.
MembersInv ==
    pc = "members" => \A e \in (Settled \cap OfKind[kind]) \ ahead :
        batch[e] = "current" \/ (batch[e] = "none" /\ down[e] = "current")

\* The kinds whose searches are done.
Searched(k) ==
    /\ pc # "idle"
    /\ kind \in Later(k) \/ (kind = k /\ pc \in {"publish", "deletions", "cursor", "commit"})

\* What the new cursor passes is or will be downstream.
SearchedInv ==
    \A k \in wanted : Searched(k) =>
        \A e \in Settled \cap OfKind[k] :
            \/ batch[e] = "current"
            \/ batch[e] = "none" /\ down[e] = "current"
            \/ k = kind /\ Changed(e)

\* A full sync does not take for missing what it found.
FullInv ==
    full /\ pc \in {"publish", "deletions"} =>
        \A e \in Settled \cap OfKind[kind] : e \in seen \/ batch[e] # "none" \/ Changed(e)

SettledInv ==
    /\ CursorInv /\ UnsettledInv /\ OldInv /\ FoundInv /\ MembersInv /\ SearchedInv
    /\ FullInv

\* The kinds this sync is through with.
Through(k) == kind \in Later(k) \/ (kind = k /\ pc \in {"cursor", "commit"})

\* What stays is found, then published.
StayedInv ==
    /\ stayed \subseteq present
    /\ full =>
        /\ \A k \in wanted : Through(k) => \A e \in stayed \cap OfKind[k] : down[e] # "none"
        /\ pc \in {"entities", "empty"} =>
            \A e \in (stayed \cap OfKind[kind]) \ ahead : batch[e] # "none"
        /\ pc \in {"publish", "deletions"} =>
            \A e \in stayed \cap OfKind[kind] : batch[e] # "none" \/ (e \in seen /\ down[e] # "none")

\* What is away is never seen, so that the id set names it until it was deleted
\* downstream.
AwayInv ==
    /\ away \cap (present \cup seen) = {}
    /\ \A e \in away : batch[e] = "none"
    /\ full => \A k \in wanted :
        /\ ~Through(k) => away \cap OfKind[k] \subseteq vids
        /\ Through(k) => \A e \in away \cap OfKind[k] : down[e] = "none"
    /\ pc = "deletions" =>
        \A e \in away \cap OfKind[kind] : e \in gone \/ down[e] = "none"

IInv == TypeOK /\ ClockInv /\ WantedInv /\ ControlInv /\ SettledInv /\ StayedInv /\ AwayInv

LEMMA Times ==
    /\ Time \subseteq Nat /\ 0 \in Time /\ 1 \in Time
    /\ 1 .. MaxTime \subseteq Time
    /\ \A a, b \in Time : MaxOf(a, b) \in Time
  BY ADSyncAssumption DEF Time, MaxOf

LEMMA InitEstablishes == Init => IInv
  <1> SUFFICES ASSUME Init PROVE IInv
    OBVIOUS
  <1> USE DEF Init
  <1>1. PICK c \in Configs : wanted = wantedKinds(c[1], c[2])
    BY DEF Populations
  <1>2. wanted \in SUBSET Kinds
    BY <1>1 DEF wantedKinds
  <1>3. wanted # {}
    <2>1. c[1] \in {"all", "users", "devices"}
      BY ADSyncAssumption
    <2> QED
      BY <1>1, <2>1 DEF wantedKinds, Kinds
  <1>4. Nothing \in [Entities -> States] /\ \A e \in Entities : Nothing[e] = "none"
    BY DEF Nothing, States
  <1>5. NoStamps \in [Entities -> Time] /\ \A e \in Entities : NoStamps[e] = 0
    BY Times DEF NoStamps
  <1>6. present \in SUBSET Entities /\ stamp \in [Entities -> Time]
    BY <1>2, KindsApart, Times
  <1>7. TypeOK
    <2>1. clock \in 1 .. MaxTime
      BY ADSyncAssumption
    <2> QED
      BY <1>2, <1>4, <1>5, <1>6, <2>1, Times DEF TypeOK, Kinds
  <1>8. ClockInv
    BY <1>5 DEF ClockInv
  <1>9. WantedInv
    <2>1. \A k \in Kinds \ wanted : OfKind[k] \cap present = {}
      BY <1>2, KindsApart
    <2> QED
      BY <1>3, <2>1 DEF WantedInv
  <1>10. ControlInv
    BY <1>4 DEF ControlInv
  <1>11. SettledInv
    <2>1. \A e \in Settled : e \in Entities /\ stamp[e] = 1
      BY <1>6 DEF Settled
    <2>2. CursorInv
      BY <2>1 DEF CursorInv, Above
    <2>3. OldInv
      BY <1>4, <2>1 DEF OldInv
    <2> QED
      BY <2>2, <2>3 DEF SettledInv, UnsettledInv, FoundInv, Paged, MembersInv, SearchedInv,
                        Searched, FullInv
  <1>12. StayedInv /\ AwayInv
    BY DEF StayedInv, AwayInv
  <1> QED
    BY <1>7, <1>8, <1>9, <1>10, <1>11, <1>12 DEF IInv

-----------------------------------------------------------------------------
(* Types *)

LEMMA DirectoryTypes == TypeOK /\ Directory => TypeOK'
  <1> SUFFICES ASSUME TypeOK, Directory PROVE TypeOK'
    OBVIOUS
  <1> USE DEF TypeOK, others, durable, view, progress, history
  <1>1. \A f \in [Entities -> States] : \A S : Outdated(f, S) \in [Entities -> States]
    BY DEF Outdated, States
  <1>2. Group \in Entities /\ clock \in Time
    BY KindsApart, Times
  <1>3. CASE Tick
    <2>1. clock' \in 1 .. MaxTime
      BY <1>3, ADSyncAssumption DEF Tick
    <2> QED
      BY <1>3, <2>1 DEF Tick
  <1>4. ASSUME NEW e \in Entities, Touch(e) \/ Create(e) PROVE TypeOK'
    <2>1. stamp' \in [Entities -> Time] /\ down' \in [Entities -> States] /\ batch' \in [Entities -> States]
      BY <1>1, <1>2, <1>4 DEF Touch, Create, Stamp, Outdate
    <2>2. /\ present' = present \cup {e} /\ {stayed', away', slipped'} \subseteq SUBSET Entities
          /\ unsettled' = unsettled
      BY <1>4 DEF Touch, Create, Stamp
    <2>3. UNCHANGED <<wanted, clock, members, others, gfresh>>
      BY <1>4 DEF Touch, Create
    <2> QED
      BY <2>1, <2>2, <2>3
  <1>5. ASSUME NEW e \in Entities, Remove(e) PROVE TypeOK'
    <2>1. stamp' \in [Entities -> Time]
      BY <1>5, Times DEF Remove
    <2>2. {present', stayed', away', slipped'} \subseteq SUBSET Entities
      BY <1>2, <1>5 DEF Remove, EmptyGroups
    <2>3. members' \in SUBSET (present' \ Groups)
      BY <1>5 DEF Remove
    <2> QED
      BY <1>5, <2>1, <2>2, <2>3 DEF Remove
  <1>6. ASSUME NEW S \in SUBSET (present \ Groups), ChangeGroup(S) PROVE TypeOK'
    <2>1. down' \in [Entities -> States] /\ batch' \in [Entities -> States]
      BY <1>1, <1>6 DEF ChangeGroup, Outdate
    <2>2. {present', stayed', away', slipped'} \subseteq SUBSET Entities
      BY <1>2, <1>6 DEF ChangeGroup, EmptyGroups
    <2>3. members' \in SUBSET (present' \ Groups) /\ stamp' \in [Entities -> Time]
      BY <1>2, <1>6, KindsApart DEF ChangeGroup
    <2> QED
      BY <1>6, <2>1, <2>2, <2>3 DEF ChangeGroup
  <1> QED
    BY <1>3, <1>4, <1>5, <1>6 DEF Directory

LEMMA FetchTypes ==
    ASSUME TypeOK, NEW S, Fetch(S)
    PROVE  batch' \in [Entities -> States] /\ bstamp' \in [Entities -> Time]
  <1>1. \A e \in Entities : whenChanged(e) \in Time /\ Document(e) \in States
    BY Times DEF TypeOK, whenChanged, Document, States
  <1> QED
    BY <1>1 DEF Fetch, TypeOK

LEMMA PageTypes ==
    ASSUME TypeOK, NEW S, NEW M, NEW next, ReadPage(S, M, next)
    PROVE  /\ batch' \in [Entities -> States] /\ bstamp' \in [Entities -> Time]
           /\ ahead' \in SUBSET Entities /\ gread' \in Time /\ gfresh' \in BOOLEAN
           /\ pc' \in {pc, next}
  BY FetchTypes, Times DEF ReadPage, TypeOK

\* Going on to the next kind.
LEMMA NextKindGoesOn ==
    ASSUME wanted \in SUBSET Kinds, kind \in Kinds, NextKind
    PROVE  \/ Later(kind) = {} /\ pc' = "cursor" /\ kind' = kind /\ ahead' = ahead
           \/ /\ kind' \in Later(kind) /\ kind' \in wanted
              /\ \A k \in Later(kind) : k = kind' \/ k \in Later(kind')
              /\ IF kind' = "group" THEN pc' = "empty" /\ ahead' = Groups
                                    ELSE pc' = "groups" /\ ahead' = ahead
  <1>1. CASE Later(kind) = {}
    BY <1>1 DEF NextKind
  <1>2. CASE Later(kind) # {}
    <2>1. Later(kind) \in SUBSET wanted
      BY Order
    <2> QED
      BY <1>2, <2>1, FirstIsFirst DEF NextKind, BeginKind
  <1> QED
    BY <1>1, <1>2

LEMMA SyncTypes == IInv /\ Sync => TypeOK'
  <1> SUFFICES ASSUME IInv, Sync PROVE TypeOK'
    OBVIOUS
  <1>0. TypeOK /\ Kinds = {"user", "device", "group"} /\ 0 \in Time
    BY Times DEF IInv, Kinds
  <1> USE <1>0 DEF TypeOK, directory, durable, view, progress, fetched, history
  <1>1. ASSUME NEW f \in BOOLEAN, Start(f) PROVE TypeOK'
    <2>1. kind' \in Kinds
      BY <1>1, FirstIsFirst DEF IInv, WantedInv, Start, BeginKind
    <2>2. /\ pc' \in {"empty", "groups"} /\ since' \in Time
          /\ {ahead', seen', stayed', away'} \subseteq SUBSET Entities
      BY <1>1, KindsApart DEF Start, BeginKind, SinceOf
    <2> QED
      BY <1>1, <2>1, <2>2 DEF Start
  <1>2. CASE SearchGroups \/ SearchChangedGroups
    <2>1. OfKind[kind] \in SUBSET Entities /\ stamp[Group] \in Time
      BY KindsApart
    <2> QED
      BY <1>2, <2>1 DEF SearchGroups, SearchChangedGroups
  <1>3. ASSUME NEW S \in SUBSET ahead, SearchEntities(S) PROVE TypeOK'
    <2>1. /\ batch' \in [Entities -> States] /\ bstamp' \in [Entities -> Time]
          /\ ahead' \in SUBSET Entities /\ gread' \in Time /\ gfresh' \in BOOLEAN
          /\ pc' \in {pc, "publish", "changed"}
      BY <1>3, PageTypes DEF SearchEntities
    <2> QED
      BY <1>3, <2>1 DEF SearchEntities
  <1>4. ASSUME NEW S \in SUBSET ahead, SearchMembers(S) \/ SearchEmptyGroups(S) PROVE TypeOK'
    <2>1. /\ batch' \in [Entities -> States] /\ bstamp' \in [Entities -> Time]
          /\ ahead' \in SUBSET Entities /\ gread' \in Time /\ gfresh' \in BOOLEAN
          /\ pc' \in {pc, "publish"}
      BY <1>4, PageTypes DEF SearchMembers, SearchEmptyGroups
    <2> QED
      BY <1>4, <2>1 DEF SearchMembers, SearchEmptyGroups
  <1>5. ASSUME NEW e \in Entities, Publish(e) PROVE TypeOK'
    <2>1. down' \in [Entities -> States] /\ batch' \in [Entities -> States]
      BY <1>5 DEF Publish, States
    <2>2. bstamp' \in [Entities -> Time] /\ latest' \in Time
      BY <1>5, Times DEF Publish
    <2>3. {seen', slipped'} \subseteq SUBSET Entities
      BY <1>5 DEF Publish
    <2> QED
      BY <1>5, <2>1, <2>2, <2>3 DEF Publish
  <1>6. CASE PublishedAll \/ SaveIds
    <2>1. /\ pc' \in {"deletions", "cursor", "empty", "groups"}
          /\ kind' \in Kinds /\ ahead' \in SUBSET Entities
      BY <1>6, NextKindGoesOn, KindsApart DEF PublishedAll, SaveIds
    <2>2. gone' \in SUBSET Entities /\ vids' \in SUBSET Entities
      BY <1>6 DEF PublishedAll, SaveIds, Missing
    <2> QED
      BY <1>6, <2>1, <2>2 DEF PublishedAll, SaveIds
  <1>7. ASSUME NEW e \in Entities, PublishDeletion(e) PROVE TypeOK'
    BY <1>7 DEF PublishDeletion, States
  <1>8. CASE SetCursor
    BY <1>8 DEF SetCursor
  <1>9. CASE Commit
    BY <1>9 DEF Commit, Reset, Nothing, NoStamps, States
  <1> QED
    BY <1>1, <1>2, <1>3, <1>4, <1>5, <1>6, <1>7, <1>8, <1>9 DEF Sync

LEMMA TypesPreserved == IInv /\ [Next]_vars => TypeOK'
  <1> SUFFICES ASSUME IInv, [Next]_vars PROVE TypeOK'
    OBVIOUS
  <1> USE DEF IInv
  <1>1. CASE FlushCursor
    BY <1>1 DEF FlushCursor, TypeOK, directory, view, progress, fetched, history
  <1>2. ASSUME NEW k \in Kinds, FlushIds(k) PROVE TypeOK'
    <2>1. ids' \in SUBSET Entities
      BY <1>2 DEF FlushIds, TypeOK
    <2> QED
      BY <1>2, <2>1 DEF FlushIds, TypeOK, directory, view, progress, fetched, history
  <1>3. CASE Abort
    BY <1>3, Times DEF Abort, Reset, Nothing, NoStamps, States, TypeOK, directory, durable, Kinds
  <1>4. CASE UNCHANGED vars
    BY <1>4 DEF vars, TypeOK, directory, durable, view, progress, fetched, history
  <1> QED
    BY <1>1, <1>2, <1>3, <1>4, DirectoryTypes, SyncTypes DEF Next

LEMMA Numbers ==
    ASSUME TypeOK
    PROVE  /\ clock \in Nat /\ cursor \in Nat /\ vcursor \in Nat /\ latest \in Nat
           /\ since \in Nat /\ gread \in Nat /\ Group \in Entities
           /\ \A e \in Entities : stamp[e] \in Nat /\ bstamp[e] \in Nat
           /\ wanted \in SUBSET Kinds /\ kind \in Kinds
  BY Times, ADSyncAssumption, KindsApart DEF TypeOK

-----------------------------------------------------------------------------
(* The directory changes *)

LEMMA TickStep == ASSUME IInv, TypeOK', Tick PROVE IInv'
  <1> USE DEF IInv, others, directory, durable, view, progress, history
  <1>1. /\ clock' = clock + 1
        /\ UNCHANGED <<wanted, present, stamp, members, down, cursor, ids, vcursor, vids,
                       pc, full, kind, since, latest, ahead, gread, gfresh, batch, bstamp, seen, gone,
                       stayed, away, slipped, unsettled>>
    BY DEF Tick
  <1>2. ClockInv'
    BY <1>1, Numbers DEF ClockInv
  <1>3. WantedInv' /\ ControlInv' /\ StayedInv' /\ AwayInv'
    BY <1>1 DEF WantedInv, ControlInv, StayedInv, AwayInv, Through, Later
  <1>4. SettledInv'
    BY <1>1 DEF SettledInv, CursorInv, UnsettledInv, OldInv, FoundInv, Paged, MembersInv,
                SearchedInv, FullInv, Settled, Searched, Changed, Above, Fresh, Later
  <1> QED
    BY <1>2, <1>3, <1>4

\* A user, a device or a group without members changes or is created: if the
\* page that was to list it is over it slips, unless it was the last one.
LEMMA ChangeStep == ASSUME IInv, TypeOK', NEW x \in Entities, Touch(x) \/ Create(x) PROVE IInv'
  <1> USE DEF IInv, TypeOK, others, durable, view, progress, history
  <1>1. /\ UNCHANGED <<wanted, clock, members, cursor, ids, vcursor, vids, pc, full, kind,
                       since, latest, ahead, gread, gfresh, bstamp, seen, gone, stayed,
                       unsettled>>
        /\ present' = present \cup {x}
        /\ stamp'[x] = clock /\ \A e \in Entities \ {x} : stamp'[e] = stamp[e]
        /\ \A e \in Entities \ {x} : down'[e] = down[e] /\ batch'[e] = batch[e]
        /\ \A e \in Entities \ {x} : e \in slipped' <=> e \in slipped
    BY DEF Touch, Create, Stamp, Outdate, Outdated
  <1>2. away' = away \ {x}
    BY DEF Touch, Create, AwayInv
  <1>3. /\ down[x] = "none" <=> down'[x] = "none"
        /\ batch[x] = "none" <=> batch'[x] = "none"
        /\ down'[x] # "current" /\ batch'[x] # "current"
    BY DEF Touch, Create, Stamp, Outdate, Outdated
  <1>4. x # Group /\ \E k \in wanted : x \in OfKind[k]
    <2>1. CASE Touch(x)
      <3>1. x \in present /\ x # Group
        BY <2>1 DEF Touch
      <3> QED
        BY <3>1, KindsApart DEF WantedInv
    <2>2. CASE Create(x)
      BY <2>2, KindsApart DEF Create
    <2> QED
      BY <2>1, <2>2
  <1>5. Passed(x) \/ (unsettled /\ x \notin Groups) => x \in slipped'
    BY DEF Touch, Create, Stamp
  <1>6. ASSUME NEW e \in Entities
         PROVE  /\ down'[e] = "none" <=> down[e] = "none"
                /\ batch'[e] = "none" <=> batch[e] = "none"
    <2>1. CASE e = x
      BY <1>3, <2>1
    <2>2. CASE e # x
      BY <1>1, <2>2
    <2> QED
      BY <2>1, <2>2
  <1>7. ClockInv'
    BY <1>1, Numbers DEF ClockInv
  <1>8. WantedInv' /\ ControlInv'
    <2>1. ControlInv'
      BY <1>1, <1>6 DEF ControlInv, Later
    <2>2. \A k \in Kinds \ wanted : x \notin OfKind[k]
      BY <1>4, KindsApart
    <2> QED
      BY <1>1, <1>2, <2>1, <2>2 DEF WantedInv
  <1>9. Fresh(x)'
    BY <1>1, <1>4, Numbers DEF ClockInv, Fresh, Above
  <1>10. ASSUME NEW e \in Settled', e # x
         PROVE  /\ e \in Settled /\ e \in Entities
                /\ (Fresh(e)' <=> Fresh(e)) /\ (Changed(e)' <=> Changed(e))
                /\ (Above(e, cursor)' <=> Above(e, cursor))
                /\ (Above(e, vcursor)' <=> Above(e, vcursor))
                /\ down'[e] = down[e] /\ batch'[e] = batch[e] /\ stamp'[e] = stamp[e]
    <2>1. e \in Settled /\ e \in Entities
      BY <1>1, <1>10 DEF Settled
    <2>2. /\ Fresh(e)' <=> Fresh(e)
          /\ Above(e, cursor)' <=> Above(e, cursor)
          /\ Above(e, vcursor)' <=> Above(e, vcursor)
      BY <1>1, <1>4, <1>10, <2>1, KindsApart DEF Above, Fresh
    <2> QED
      BY <1>1, <1>10, <2>1, <2>2 DEF Changed, Later
  \* What did not slip is to be searched still, or changed since the last search.
  <1>11. ASSUME x \in Settled'
         PROVE  /\ unsettled => x \in Groups
                /\ \A k \in wanted : x \in OfKind[k] /\ Searched(k) => k = kind /\ Changed(x)'
                /\ batch[x] # "none" => pc = "publish" /\ Changed(x)'
                /\ x \in OfKind[kind] => ~Paged(x)
    <2>1. (unsettled => x \in Groups) /\ ~Passed(x)
      BY <1>5, <1>11 DEF Settled
    <2>2. x \in OfKind[kind] => ~Paged(x)
      BY <2>1 DEF Passed, Paged
    <2>3. ASSUME NEW k \in wanted, x \in OfKind[k], Searched(k) PROVE k = kind /\ Later(kind) = {}
      <3>1. ~Passed(x) /\ k \in Kinds
        BY <2>1
      <3>2. kind = k /\ pc \in {"publish", "deletions", "cursor", "commit"}
        BY <2>3, <3>1 DEF Passed, Searched
      <3> QED
        BY <2>3, <3>1, <3>2 DEF Passed
    <2>4. ASSUME NEW k \in wanted, x \in OfKind[k], Searched(k) PROVE k = kind /\ Changed(x)'
      BY <1>1, <1>9, <2>1, <2>3, <2>4 DEF Changed, Later
    <2>5. ASSUME batch[x] # "none" PROVE pc = "publish" /\ Changed(x)'
      <3>1. pc = "publish" /\ x \in OfKind[kind] /\ kind \in wanted
        BY <2>2, <2>5 DEF ControlInv, Paged
      <3> QED
        BY <2>4, <3>1 DEF Searched
    <2> QED
      BY <2>1, <2>2, <2>4, <2>5
  <1>12. CursorInv'
    <2> SUFFICES ASSUME NEW e \in Settled'
                 PROVE  (down[e] = "current" \/ (Above(e, cursor) /\ Above(e, vcursor)))'
      BY DEF CursorInv
    <2>1. CASE e = x
      BY <1>9, <2>1 DEF Fresh
    <2>2. CASE e # x
      BY <1>10, <2>2 DEF SettledInv, CursorInv
    <2> QED
      BY <2>1, <2>2
  <1>13. UnsettledInv'
    <2> SUFFICES ASSUME unsettled, NEW e \in Settled' \ Groups
                 PROVE  /\ down'[e] = "current"
                        /\ pc \in {"entities", "members"} /\ ~gfresh => e \notin OfKind[kind]
      BY <1>1 DEF UnsettledInv
    <2> QED
      BY <1>10, <1>11 DEF SettledInv, UnsettledInv
  <1>14. OldInv'
    <2> SUFFICES ASSUME NEW e \in Settled', batch'[e] = "old"
                 PROVE  pc = "publish" /\ Changed(e)'
      BY <1>1 DEF OldInv
    <2>1. CASE e = x
      BY <1>3, <1>11, <2>1
    <2>2. CASE e # x
      BY <1>10, <2>2 DEF SettledInv, OldInv
    <2> QED
      BY <2>1, <2>2
  <1>15. FoundInv'
    <2> SUFFICES ASSUME NEW e \in Settled', e \in OfKind[kind], Paged(e)
                 PROVE  batch'[e] = "current" \/ (batch'[e] = "none" /\ stamp'[e] < since)
      BY <1>1 DEF FoundInv, Paged
    <2> QED
      BY <1>10, <1>11 DEF SettledInv, FoundInv
  <1>20. MembersInv'
    <2> SUFFICES ASSUME pc = "members", NEW e \in Settled', e \in OfKind[kind], e \notin ahead
                 PROVE  batch'[e] = "current" \/ (batch'[e] = "none" /\ down'[e] = "current")
      BY <1>1 DEF MembersInv
    <2> QED
      BY <1>10, <1>11 DEF SettledInv, MembersInv, Paged
  <1>16. SearchedInv'
    <2>0. \A k \in wanted : Searched(k)' <=> Searched(k)
      BY <1>1 DEF Searched, Later
    <2> SUFFICES ASSUME NEW k \in wanted, Searched(k), NEW e \in Settled', e \in OfKind[k]
                 PROVE  \/ batch'[e] = "current"
                        \/ batch'[e] = "none" /\ down'[e] = "current"
                        \/ k = kind /\ Changed(e)'
      BY <1>1, <2>0 DEF SearchedInv
    <2>1. CASE e = x
      BY <1>11, <2>1
    <2>2. CASE e # x
      BY <1>10, <2>2 DEF SettledInv, SearchedInv
    <2> QED
      BY <2>1, <2>2
  <1>17. FullInv'
    <2> SUFFICES ASSUME full, pc \in {"publish", "deletions"}, NEW e \in Settled', e \in OfKind[kind]
                 PROVE  e \in seen \/ batch'[e] # "none" \/ Changed(e)'
      BY <1>1 DEF FullInv
    <2>1. CASE e = x
      <3>1. kind \in wanted /\ Searched(kind)
        BY DEF ControlInv, Searched
      <3> QED
        BY <1>11, <2>1, <3>1
    <2>2. CASE e # x
      BY <1>10, <2>2 DEF SettledInv, FullInv
    <2> QED
      BY <2>1, <2>2
  <1>18. StayedInv'
    BY <1>1, <1>6, KindsApart, Numbers DEF StayedInv, Through, Later
  <1>19. AwayInv'
    BY <1>1, <1>2, <1>6 DEF AwayInv, Through, Later
  <1> QED
    BY <1>7, <1>8, <1>12, <1>13, <1>14, <1>15, <1>16, <1>17, <1>18, <1>19,
       <1>20 DEF SettledInv

LEMMA RemoveStep == ASSUME IInv, TypeOK', NEW x \in Entities, Remove(x) PROVE IInv'
  <1> USE DEF IInv, TypeOK, others, durable, view, progress, history
  <1>1. /\ UNCHANGED <<wanted, clock, down, cursor, ids, vcursor, vids, pc, full, kind, since,
                       latest, ahead, gread, gfresh, batch, bstamp, seen, gone, unsettled>>
        /\ x \in present \ {Group}
        /\ stamp'[x] = 0 /\ \A e \in Entities \ {x} : stamp'[e] = stamp[e]
        /\ members' = members \ {x} /\ stayed' = stayed \ {x}
    BY DEF Remove
  <1>2. PICK emptied \in {{}, {Group}} :
            /\ emptied # {} => "group" \in wanted /\ Group \notin present
            /\ present' = (present \ {x}) \cup emptied
            /\ away' = away \ emptied /\ slipped' = (slipped \ {x}) \cup emptied
    BY DEF Remove, EmptyGroups
  <1>3. ClockInv'
    BY <1>1, Numbers DEF ClockInv
  <1>4. WantedInv'
    <2>1. ASSUME NEW k \in Kinds \ wanted PROVE OfKind[k] \cap present' = {}
      BY <1>2, KindsApart DEF WantedInv
    <2> QED
      BY <1>1, <1>2, <2>1 DEF WantedInv
  <1>5. ControlInv'
    BY <1>1 DEF ControlInv, Later
  <1>6. ASSUME NEW e \in Settled'
        PROVE  /\ e \in Settled /\ e \in Entities /\ stamp'[e] = stamp[e]
               /\ Fresh(e)' <=> Fresh(e)
               /\ Changed(e)' <=> Changed(e)
               /\ Above(e, cursor)' <=> Above(e, cursor)
               /\ Above(e, vcursor)' <=> Above(e, vcursor)
               /\ Paged(e)' <=> Paged(e)
    <2>1. /\ e \in Settled /\ e \in Entities /\ e # x /\ stamp'[e] = stamp[e]
          /\ stamp'[Group] = stamp[Group]
      BY <1>1, <1>2, <1>6, KindsApart DEF Settled
    <2>2. e \in members' <=> e \in members
      BY <1>1, <2>1
    <2> QED
      BY <1>1, <2>1, <2>2 DEF Above, Fresh, Changed, Later, Paged
  <1>7. CursorInv' /\ UnsettledInv' /\ OldInv'
    BY <1>1, <1>6 DEF SettledInv, CursorInv, UnsettledInv, OldInv
  <1>8. FoundInv' /\ MembersInv' /\ FullInv'
    BY <1>1, <1>6 DEF SettledInv, FoundInv, MembersInv, FullInv
  <1>9. SearchedInv'
    <2>1. \A k \in wanted : Searched(k)' <=> Searched(k)
      BY <1>1 DEF Searched, Later
    <2> QED
      BY <1>1, <1>6, <2>1 DEF SettledInv, SearchedInv
  <1>10. StayedInv' /\ AwayInv'
    <2>1. stayed' \subseteq present' /\ away' \cap (present' \cup seen') = {}
      BY <1>1, <1>2 DEF StayedInv, AwayInv
    <2>2. \A k \in wanted : Through(k)' <=> Through(k)
      BY <1>1 DEF Through, Later
    <2>3. stayed' \subseteq stayed /\ away' \subseteq away
      BY <1>1, <1>2
    <2>4. StayedInv'
      BY <1>1, <2>1, <2>2, <2>3 DEF StayedInv
    <2>5. AwayInv'
      BY <1>1, <2>1, <2>2, <2>3 DEF AwayInv
    <2> QED
      BY <2>4, <2>5
  <1> QED
    BY <1>3, <1>4, <1>5, <1>7, <1>8, <1>9, <1>10 DEF SettledInv

\* Group changes: during a sync all but groups slip, else those who leave it.
LEMMA ChangeGroupStep ==
    ASSUME IInv, TypeOK', NEW S \in SUBSET (present \ Groups), ChangeGroup(S)
    PROVE  IInv'
  <1> USE DEF IInv, TypeOK, others, durable, view, progress, history
  <1>1. /\ UNCHANGED <<wanted, clock, cursor, ids, vcursor, vids, pc, full, kind, since, latest,
                       ahead, gread, bstamp, seen, gone>>
        /\ stamp'[Group] = clock /\ \A e \in Entities \ {Group} : stamp'[e] = stamp[e]
        /\ members' = S /\ ~gfresh' /\ (unsettled' <=> pc # "idle")
        /\ pc # "idle" => \A e \in Entities \ {Group} :
              e \in slipped' <=> e \in slipped \/ (e \in present /\ e \notin Groups)
        /\ pc = "idle" => \A e \in Entities \ {Group} :
              e \in slipped' <=> e \notin S /\ (e \in slipped \/ e \in members)
        /\ Passed(Group) => Group \in slipped'
        /\ down' = Outdated(down, members \cup S \cup {Group})
        /\ batch' = Outdated(batch, members \cup S \cup {Group})
    <2>1. Group \in Entities
      BY KindsApart
    <2>2. stamp'[Group] = clock /\ \A e \in Entities \ {Group} : stamp'[e] = stamp[e]
      BY <2>1 DEF ChangeGroup
    <2> QED
      BY <2>2 DEF ChangeGroup, Outdate
  <1>2. PICK empty \in {{}, {Group}} :
            /\ empty # {} => "group" \in wanted
            /\ present' = (present \ {Group}) \cup empty
            /\ stayed' = stayed \ ({Group} \ empty) /\ away' = away \ empty
    BY DEF ChangeGroup, EmptyGroups
  <1>3. ASSUME NEW e \in Entities
        PROVE  /\ down'[e] = "none" <=> down[e] = "none"
               /\ batch'[e] = "none" <=> batch[e] = "none"
               /\ batch'[e] = batch[e] \/ batch'[e] = "old"
               /\ e \notin members \cup S \cup {Group} => down'[e] = down[e] /\ batch'[e] = batch[e]
    BY <1>1, <1>3 DEF Outdated
  <1>4. ClockInv'
    BY <1>1, Numbers DEF ClockInv
  <1>5. WantedInv'
    <2>1. ASSUME NEW k \in Kinds \ wanted PROVE OfKind[k] \cap present' = {}
      BY <1>2, KindsApart DEF WantedInv
    <2> QED
      BY <1>1, <1>2, <2>1 DEF WantedInv
  <1>6. ControlInv'
    BY <1>1, <1>3 DEF ControlInv, Later
  <1>7. Fresh(Group)'
    BY <1>1, Numbers DEF ClockInv, Fresh, Above
  \* Only groups are settled while a sync runs, and nothing is new of the others.
  <1>8. ASSUME NEW e \in Settled', e # Group
        PROVE  /\ e \in Entities /\ (pc # "idle" => e \in Groups)
               /\ e \in Groups =>
                    /\ e \in Settled /\ e \notin members \cup S
                    /\ down'[e] = down[e] /\ batch'[e] = batch[e] /\ stamp'[e] = stamp[e]
                    /\ Changed(e) => Changed(e)'
    <2>1. e \in Entities /\ (pc # "idle" => e \in Groups)
      BY <1>1, <1>2, <1>8 DEF Settled
    <2> SUFFICES ASSUME e \in Groups
                 PROVE  /\ e \in Settled /\ e \notin members \cup S
                        /\ down'[e] = down[e] /\ batch'[e] = batch[e] /\ stamp'[e] = stamp[e]
                        /\ Changed(e) => Changed(e)'
      BY <2>1
    <2>2. /\ e \in Settled /\ e \notin members \cup S
          /\ down'[e] = down[e] /\ batch'[e] = batch[e] /\ stamp'[e] = stamp[e]
      BY <1>1, <1>2, <1>3, <1>8, <2>1 DEF Settled
    <2>3. Fresh(e) => Fresh(e)'
      BY <1>1, <2>2 DEF Fresh, Above
    <2> QED
      BY <1>1, <2>2, <2>3 DEF Changed, Later
  \* Group slips, or its page is still to come, or was the last one.
  <1>9. ASSUME Group \in Settled'
        PROVE  /\ Group \in OfKind[kind] => ~Paged(Group)
               /\ \A k \in wanted : Group \in OfKind[k] /\ Searched(k) => k = kind /\ Changed(Group)'
               /\ batch[Group] # "none" => pc = "publish" /\ Changed(Group)'
    <2>1. ~Passed(Group) /\ Group \in Groups
      BY <1>1, <1>9, KindsApart DEF Settled
    <2>2. Group \in OfKind[kind] => ~Paged(Group)
      BY <2>1 DEF Passed, Paged
    <2>3. ASSUME NEW k \in wanted, Group \in OfKind[k], Searched(k) PROVE k = kind /\ Changed(Group)'
      <3>1. k = "group" /\ Later(k) = {} /\ Later(k)' = Later(k)
        BY <1>1, <2>1, <2>3, KindsApart, Order DEF Later
      <3>2. kind = k
        BY <2>3, <3>1 DEF Searched
      <3> QED
        BY <1>1, <1>7, <2>1, <3>1, <3>2 DEF Changed
    <2>4. ASSUME batch[Group] # "none" PROVE pc = "publish" /\ Changed(Group)'
      <3>1. pc = "publish" /\ Group \in OfKind[kind] /\ kind \in wanted
        BY <2>2, <2>4, Numbers DEF ControlInv, Paged
      <3> QED
        BY <2>3, <3>1 DEF Searched
    <2> QED
      BY <2>2, <2>3, <2>4
  <1>10. CursorInv'
    <2> SUFFICES ASSUME NEW e \in Settled'
                 PROVE  (down[e] = "current" \/ (Above(e, cursor) /\ Above(e, vcursor)))'
      BY DEF CursorInv
    <2>1. e \in Entities
      BY DEF Settled
    <2>2. CASE e = Group
      BY <1>7, <2>2 DEF Fresh
    <2>3. CASE e # Group /\ e \in S
      BY <1>1, <2>1, <2>3, Numbers DEF ClockInv, Above
    <2>4. CASE e # Group /\ e \notin S
      <3>1. e \notin members /\ e \in Settled
        BY <1>1, <1>2, <1>8, <2>4 DEF Settled
      <3>2. /\ down'[e] = down[e]
            /\ Above(e, cursor)' <=> Above(e, cursor)
            /\ Above(e, vcursor)' <=> Above(e, vcursor)
        BY <1>1, <1>3, <2>1, <2>4, <3>1 DEF Above
      <3> QED
        BY <3>1, <3>2 DEF SettledInv, CursorInv
    <2> QED
      BY <2>2, <2>3, <2>4
  <1>11. UnsettledInv'
    <2>1. \A e \in Settled' \ Groups : pc = "idle"
      BY <1>8, KindsApart
    <2> QED
      BY <1>1, <2>1 DEF UnsettledInv
  <1>12. OldInv'
    <2> SUFFICES ASSUME NEW e \in Settled', batch'[e] = "old"
                 PROVE  pc = "publish" /\ Changed(e)'
      BY <1>1 DEF OldInv
    <2>1. e \in Entities /\ batch[e] # "none" /\ pc # "idle"
      BY <1>3 DEF Settled, ControlInv
    <2>2. CASE e = Group
      BY <1>9, <2>1, <2>2
    <2>3. CASE e # Group
      BY <1>8, <2>1, <2>3 DEF SettledInv, OldInv
    <2> QED
      BY <2>2, <2>3
  <1>13. FoundInv' /\ MembersInv' /\ SearchedInv' /\ FullInv'
    <2>1. FoundInv'
      <3> SUFFICES ASSUME NEW e \in Settled', e \in OfKind[kind], Paged(e)
                   PROVE  batch'[e] = "current" \/ (batch'[e] = "none" /\ stamp'[e] < since)
        BY <1>1 DEF FoundInv, Paged
      <3>1. e # Group /\ pc # "idle"
        BY <1>9 DEF Paged
      <3> QED
        BY <1>8, <3>1 DEF SettledInv, FoundInv
    <2>2. MembersInv'
      <3> SUFFICES ASSUME pc = "members" PROVE Settled' \cap OfKind[kind] = {}
        BY <1>1 DEF MembersInv
      <3>1. kind # "group" /\ kind \in Kinds
        BY DEF ControlInv
      <3> QED
        BY <1>8, <3>1, KindsApart
    <2>3. SearchedInv'
      <3> SUFFICES ASSUME NEW k \in wanted, Searched(k), NEW e \in Settled', e \in OfKind[k]
                   PROVE  \/ batch'[e] = "current"
                          \/ batch'[e] = "none" /\ down'[e] = "current"
                          \/ k = kind /\ Changed(e)'
        BY <1>1 DEF SearchedInv, Searched, Later
      <3>1. CASE e = Group
        BY <1>9, <3>1
      <3>2. CASE e # Group
        <4>1. pc # "idle"
          BY DEF Searched
        <4> QED
          BY <1>8, <3>2, <4>1 DEF SettledInv, SearchedInv
      <3> QED
        BY <3>1, <3>2
    <2>4. FullInv'
      <3> SUFFICES ASSUME full, pc \in {"publish", "deletions"}, NEW e \in Settled', e \in OfKind[kind]
                   PROVE  e \in seen \/ batch'[e] # "none" \/ Changed(e)'
        BY <1>1 DEF FullInv
      <3>1. CASE e = Group
        <4>1. kind \in wanted /\ Searched(kind)
          BY DEF ControlInv, Searched
        <4> QED
          BY <1>9, <3>1, <4>1
      <3>2. CASE e # Group
        BY <1>8, <3>2 DEF SettledInv, FullInv
      <3> QED
        BY <3>1, <3>2
    <2> QED
      BY <2>1, <2>2, <2>3, <2>4
  <1>14. StayedInv' /\ AwayInv'
    <2>1. stayed' \subseteq present' /\ away' \cap (present' \cup seen') = {}
      BY <1>1, <1>2 DEF StayedInv, AwayInv
    <2>2. \A k \in wanted : Through(k)' <=> Through(k)
      BY <1>1 DEF Through, Later
    <2>3. stayed' \subseteq stayed /\ away' \subseteq away
      BY <1>1, <1>2
    <2>4. StayedInv'
      BY <1>1, <1>3, <2>1, <2>2, <2>3 DEF StayedInv
    <2>5. AwayInv'
      BY <1>1, <1>3, <2>1, <2>2, <2>3 DEF AwayInv
    <2> QED
      BY <2>4, <2>5
  <1> QED
    BY <1>4, <1>5, <1>6, <1>10, <1>11, <1>12, <1>13, <1>14 DEF SettledInv

-----------------------------------------------------------------------------
(* The sync searches *)

LEMMA StartStep == ASSUME IInv, TypeOK', NEW f \in BOOLEAN, Start(f) PROVE IInv'
  <1> USE DEF IInv, TypeOK, directory, durable, view, fetched
  <1>1. /\ pc = "idle" /\ IF kind' = "group" THEN pc' = "empty" /\ ahead' = Groups
                                          ELSE pc' = "groups" /\ ahead' = ahead
        /\ kind' = FirstOf(wanted) /\ full' = f /\ since' = SinceOf(f) /\ latest' = 0 /\ seen' = {}
        /\ stayed' \subseteq present /\ away' \subseteq ids \ present
        /\ UNCHANGED <<wanted, clock, present, stamp, members, down, cursor, ids, vcursor,
                       vids, gread, gfresh, batch, bstamp, gone, slipped, unsettled>>
    BY DEF Start, BeginKind
  <1>2. /\ ~unsettled /\ vids = ids /\ vcursor = cursor /\ gone = {} /\ ahead = {}
        /\ \A e \in Entities : batch[e] = "none"
    BY <1>1 DEF ControlInv
  <1>3. kind' \in wanted /\ \A k \in wanted : ~Searched(k)' /\ ~Through(k)'
    <2>1. kind' \in wanted /\ \A k \in wanted : k = kind' \/ k \in Later(kind')
      BY <1>1, FirstIsFirst DEF WantedInv
    <2>2. \A k \in wanted : kind' \notin Later(k)
      BY <2>1, Order
    <2>3. \A k \in wanted : Later(k)' = Later(k)
      BY <1>1 DEF Later
    <2> QED
      BY <1>1, <2>1, <2>2, <2>3 DEF Searched, Through
  <1>4. ClockInv' /\ WantedInv'
    BY <1>1, Numbers DEF ClockInv, WantedInv
  <1>5. ControlInv'
    BY <1>1, <1>2, <1>3, KindsApart DEF ControlInv, SinceOf
  <1>6. Settled' = Settled /\ Settled \subseteq Entities
    BY <1>1 DEF Settled
  <1>7. CursorInv'
    BY <1>1, <1>6 DEF SettledInv, CursorInv, Above
  <1>8. FoundInv' /\ (pc' = "empty" => OfKind[kind]' \subseteq ahead')
    BY <1>1, KindsApart DEF FoundInv, Paged
  <1>9. UnsettledInv' /\ OldInv' /\ MembersInv' /\ SearchedInv' /\ FullInv'
    BY <1>1, <1>2, <1>3, <1>6 DEF UnsettledInv, OldInv, MembersInv, SearchedInv, FullInv
  <1>10. StayedInv' /\ AwayInv'
    BY <1>1, <1>2, <1>3, <1>8 DEF StayedInv, AwayInv
  <1> QED
    BY <1>4, <1>5, <1>7, <1>8, <1>9, <1>10 DEF SettledInv

\* Any group's data are read as they are; the first search of the kind begins.
LEMMA GroupsStep == ASSUME IInv, TypeOK', SearchGroups PROVE IInv'
  <1> USE DEF IInv, TypeOK, directory, durable, view, history
  <1>1. /\ pc = "groups" /\ pc' = "entities" /\ ahead' = OfKind[kind]
        /\ gread' = stamp[Group] /\ gfresh'
        /\ UNCHANGED <<wanted, clock, present, stamp, members, down, cursor, ids, vcursor,
                       vids, full, kind, since, latest, batch, bstamp, seen, gone,
                       stayed, away, slipped, unsettled>>
    BY DEF SearchGroups
  <1>2. \A e \in Entities : batch[e] = "none"
    BY <1>1 DEF ControlInv
  <1>3. ClockInv' /\ WantedInv' /\ ControlInv'
    BY <1>1, <1>2, Numbers DEF ClockInv, WantedInv, ControlInv, Later
  <1>4. CursorInv'
    BY <1>1 DEF SettledInv, CursorInv, Settled, Above
  <1>5. UnsettledInv' /\ FoundInv' /\ MembersInv' /\ FullInv'
    BY <1>1 DEF SettledInv, UnsettledInv, FoundInv, Paged, MembersInv, FullInv, Settled
  <1>6. OldInv'
    <2>1. \A e \in Settled' : e \in Entities
      BY <1>1 DEF Settled
    <2> QED
      BY <1>1, <1>2, <2>1 DEF OldInv
  <1>7. SearchedInv'
    BY <1>1 DEF SettledInv, SearchedInv, Searched, Changed, Fresh, Above, Settled, Later
  <1>8. StayedInv' /\ AwayInv'
    BY <1>1 DEF StayedInv, AwayInv, Through, Later
  <1> QED
    BY <1>3, <1>4, <1>5, <1>6, <1>7, <1>8 DEF SettledInv

\* What a page lists: each document once, with its stamp of now.
LEMMA PageFinds ==
    ASSUME IInv, NEW S \in SUBSET ahead, NEW M \in SUBSET S, NEW next, ReadPage(S, M, next),
           UNCHANGED <<clock, kind>>
    PROVE  /\ ahead' = ahead \ S /\ ahead' \subseteq OfKind[kind]' /\ M \subseteq OfKind[kind]
           /\ \/ pc' = pc /\ gread' = gread /\ gfresh' = gfresh
              \/ pc' = next /\ ahead' = {} /\ gread' = 0 /\ ~gfresh'
           /\ \A e \in Entities :
                /\ bstamp'[e] \in Nat /\ bstamp'[e] <= clock
                /\ e \notin M \/ batch[e] # "none" => batch'[e] = batch[e]
                /\ e \in M /\ batch[e] = "none" =>
                     batch'[e] = "current" \/ (batch'[e] = "old" /\ e \in members /\ ~gfresh)
  <1> USE DEF IInv, TypeOK
  <1>1. \A e \in Entities : whenChanged(e) \in Nat /\ whenChanged(e) <= clock
    BY Numbers DEF ClockInv, whenChanged, MaxOf
  <1>2. \A e \in Entities : bstamp[e] \in Nat /\ bstamp[e] <= clock
    BY Numbers DEF ClockInv
  <1>3. \A e \in Entities :
            /\ bstamp'[e] \in Nat /\ bstamp'[e] <= clock
            /\ e \notin M \/ batch[e] # "none" => batch'[e] = batch[e]
            /\ e \in M /\ batch[e] = "none" =>
                 batch'[e] = "current" \/ (batch'[e] = "old" /\ e \in members /\ ~gfresh)
    BY <1>1, <1>2 DEF ReadPage, Fetch, Document
  <1>4. ahead' = ahead \ S /\ ahead \subseteq OfKind[kind]
    BY DEF ReadPage, ControlInv
  <1>5. \/ pc' = pc /\ gread' = gread /\ gfresh' = gfresh
        \/ pc' = next /\ ahead' = {} /\ gread' = 0 /\ ~gfresh'
    BY DEF ReadPage
  <1> QED
    BY <1>3, <1>4, <1>5

\* What no search of an incremental sync finds is no change: the cursor is not
\* ahead of it.
LEMMA NotFound ==
    ASSUME IInv, NEW e \in Settled, since = vcursor,
           stamp[e] < since, e \in members => stamp[Group] < since
    PROVE  down[e] = "current"
  <1>1. e \in Entities
    BY DEF IInv, TypeOK, Settled
  <1>2. ~Above(e, vcursor)
    BY <1>1, Numbers DEF IInv, Above
  <1> QED
    BY <1>2 DEF IInv, SettledInv, CursorInv

\* Documents made with old data of Group are of members that slipped.
LEMMA ReadFresh ==
    ASSUME IInv, pc \in {"entities", "members", "empty"}, NEW e \in Settled \cap OfKind[kind],
           e \in members
    PROVE  gfresh
  <1> USE DEF IInv, TypeOK
  <1>1. e \notin Groups
    OBVIOUS
  <1>2. pc # "empty"
    BY <1>1, KindsApart DEF ControlInv
  <1> QED
    BY <1>1, <1>2 DEF SettledInv, UnsettledInv, ControlInv

\* A page of the first search of a kind: all it covers, in a full sync, and in
\* an incremental one what changed of it. What changes behind it slips, while
\* the search goes on.
LEMMA FirstSearchStep ==
    ASSUME IInv, TypeOK', NEW S \in SUBSET ahead, SearchEntities(S) \/ SearchEmptyGroups(S)
    PROVE  IInv'
  <1> USE DEF IInv, TypeOK, directory, durable, view, history
  <1> DEFINE M == {e \in S \cap present : Matches(e)}
             next == IF pc = "entities" /\ since # 0 THEN "changed" ELSE "publish"
  <1>1. /\ pc \in {"entities", "empty"} /\ ReadPage(S, M, next)
        /\ UNCHANGED <<wanted, clock, present, stamp, members, down, cursor, ids, vcursor,
                       vids, full, kind, since, latest, seen, gone,
                       stayed, away, slipped, unsettled>>
    BY DEF SearchEntities, SearchEmptyGroups
  <1>2. /\ kind \in wanted /\ kind \in Kinds /\ S \subseteq OfKind[kind]
        /\ since \in {0, vcursor} /\ (full => since = 0)
        /\ \A e \in Entities : batch[e] # "none" => e \in OfKind[kind] /\ e \notin ahead
    BY <1>1 DEF ControlInv
  <1>3. M \in SUBSET S
    OBVIOUS
  <1>4. \A e \in Entities : e \in M <=> e \in S /\ e \in present /\ stamp[e] >= since
    BY DEF Matches
  <1> HIDE DEF M, next
  <1>5. ASSUME NEW e \in Entities
        PROVE  /\ bstamp'[e] \in Nat /\ bstamp'[e] <= clock
               /\ e \notin M => batch'[e] = batch[e]
               /\ e \in M => batch'[e] = "current" \/ (batch'[e] = "old" /\ e \in members /\ ~gfresh)
               /\ e \in M <=> e \in S /\ e \in present /\ stamp[e] >= since
    <2>1. /\ bstamp'[e] \in Nat /\ bstamp'[e] <= clock
          /\ e \notin M \/ batch[e] # "none" => batch'[e] = batch[e]
          /\ e \in M /\ batch[e] = "none" =>
               batch'[e] = "current" \/ (batch'[e] = "old" /\ e \in members /\ ~gfresh)
      BY <1>3, <1>1, PageFinds
    <2>2. e \in M => batch[e] = "none"
      BY <1>3, <1>2
    <2> QED
      BY <1>4, <2>1, <2>2
  <1>6. /\ ahead' = ahead \ S /\ ahead' \subseteq OfKind[kind]
        /\ \/ pc' = pc /\ gread' = gread /\ gfresh' = gfresh
           \/ pc' = next /\ ahead' = {} /\ gread' = 0 /\ ~gfresh'
    BY <1>3, <1>1, <1>2, PageFinds
  <1> USE DEF next
  <1>7. ClockInv' /\ WantedInv'
    BY <1>1, <1>5, <1>6, Numbers DEF ClockInv, WantedInv
  <1>8. ControlInv'
    <2>1. ASSUME NEW e \in Entities, batch'[e] # "none"
          PROVE  e \in OfKind[kind] /\ e \notin ahead'
      BY <1>2, <1>5, <1>6, <2>1
    <2>2. pc' \in {"entities", "changed", "empty", "publish"}
      BY <1>1, <1>6
    <2> QED
      BY <1>1, <1>2, <1>6, <2>1, <2>2 DEF ControlInv, Later
  <1>9. Settled' = Settled /\ Settled \subseteq Entities \cap present
    BY <1>1 DEF Settled
  <1>10. CursorInv' /\ UnsettledInv'
    BY <1>1, <1>6, <1>9 DEF SettledInv, CursorInv, UnsettledInv, Above
  <1>11. ASSUME NEW e \in Settled
        PROVE  /\ e \in Entities /\ batch'[e] # "old"
               /\ e \in OfKind[kind] /\ e \notin ahead' =>
                    batch'[e] = "current" \/ (batch'[e] = "none" /\ stamp[e] < since)
               /\ e \notin OfKind[kind] => batch'[e] = batch[e]
    <2>1. e \in Entities /\ e \in present /\ batch[e] # "old"
      BY <1>1, <1>9 DEF SettledInv, OldInv
    <2>2. e \in M => e \in OfKind[kind] /\ batch'[e] = "current"
      <3>1. e \in M /\ e \in members => gfresh
        BY <1>1, <1>2, <1>5, <2>1, ReadFresh
      <3> QED
        BY <1>2, <1>5, <2>1, <3>1
    <2>3. ASSUME e \in OfKind[kind], e \notin ahead', e \notin M
          PROVE  batch[e] = "current" \/ (batch[e] = "none" /\ stamp[e] < since)
      <3>1. CASE e \in ahead
        <4>1. ~(stamp[e] >= since)
          BY <1>5, <1>6, <2>1, <2>3, <3>1
        <4>2. stamp[e] < since
          BY <2>1, <4>1, Numbers
        <4> QED
          BY <1>2, <2>1, <3>1, <4>2
      <3>2. CASE e \notin ahead
        BY <1>1, <2>3, <3>2 DEF SettledInv, FoundInv, Paged
      <3> QED
        BY <3>1, <3>2
    <2> QED
      BY <1>5, <2>1, <2>2, <2>3
  <1>12. ASSUME full, NEW e \in Entities, e \in OfKind[kind], e \notin ahead',
                e \in stayed \/ e \in Settled
         PROVE  batch'[e] # "none"
    <2>1. stamp[e] >= since /\ ~(stamp[e] < since) /\ e \in present
      BY <1>2, <1>9, <1>12, Numbers DEF StayedInv
    <2>2. CASE e \in Settled
      BY <1>11, <1>12, <2>1, <2>2
    <2>3. CASE e \in stayed /\ e \in ahead
      BY <1>5, <1>6, <1>12, <2>1, <2>3
    <2>4. CASE e \in stayed /\ e \notin ahead
      <3>1. batch[e] # "none"
        BY <1>1, <1>12, <2>4 DEF StayedInv
      <3>2. e \in M \/ batch'[e] = batch[e]
        BY <1>5
      <3> QED
        BY <1>5, <3>1, <3>2
    <2> QED
      BY <1>12, <2>2, <2>3, <2>4
  <1>13. OldInv' /\ FoundInv' /\ MembersInv' /\ FullInv'
    <2>1. OldInv'
      <3> SUFFICES ASSUME NEW e \in Settled', batch'[e] = "old" PROVE FALSE
        BY DEF OldInv
      <3> QED
        BY <1>9, <1>11
    <2>2. FoundInv'
      <3> SUFFICES ASSUME NEW e \in Settled, e \in OfKind[kind], Paged(e)'
                   PROVE  batch'[e] = "current" \/ (batch'[e] = "none" /\ stamp[e] < since)
        BY <1>1, <1>9 DEF FoundInv
      <3>1. e \notin ahead'
        BY <1>1, <1>6 DEF Paged
      <3> QED
        BY <1>11, <3>1
    <2>3. MembersInv'
      BY <1>1, <1>6 DEF MembersInv
    <2>4. FullInv'
      <3> SUFFICES ASSUME full, pc' = "publish", NEW e \in Settled, e \in OfKind[kind]
                   PROVE  batch'[e] # "none"
        BY <1>1, <1>6, <1>9 DEF FullInv
      <3>1. e \in Entities /\ ahead' = {}
        BY <1>1, <1>6, <1>9
      <3> QED
        BY <1>12, <3>1
    <2> QED
      BY <2>1, <2>2, <2>3, <2>4
  <1>14. SearchedInv'
    <2> SUFFICES ASSUME NEW k \in wanted, Searched(k)', NEW e \in Settled, e \in OfKind[k]
                 PROVE  batch'[e] = "current" \/ (batch'[e] = "none" /\ down[e] = "current")
      BY <1>1, <1>9 DEF SearchedInv
    <2>1. CASE k = kind
      <3>1. kind \notin Later(kind) /\ Later(kind)' = Later(kind)
        BY <1>1, <1>2, Order DEF Later
      <3>2. pc' = "publish" /\ ahead' = {} /\ (since = 0 \/ pc = "empty")
        BY <1>1, <1>6, <2>1, <3>1 DEF Searched
      <3>3. batch'[e] = "current" \/ (batch'[e] = "none" /\ stamp[e] < since)
        BY <1>11, <2>1, <3>2
      <3>4. ASSUME stamp[e] < since PROVE down[e] = "current"
        <4>1. since # 0 /\ since = vcursor /\ pc = "empty"
          BY <1>2, <1>11, <3>2, <3>4, Numbers
        <4>2. e \notin members
          BY <2>1, <4>1, KindsApart DEF ControlInv
        <4> QED
          BY <3>4, <4>1, <4>2, NotFound
      <3> QED
        BY <3>3, <3>4
    <2>2. CASE k # kind
      <3>1. Searched(k)
        BY <1>1, <1>6, <2>2 DEF Searched, Later
      <3>2. e \notin OfKind[kind]
        BY <1>2, <2>2, KindsApart
      <3>3. batch'[e] = batch[e]
        BY <1>11, <3>2
      <3> QED
        BY <2>2, <3>1, <3>3 DEF SettledInv, SearchedInv
    <2> QED
      BY <2>1, <2>2
  <1>15. StayedInv' /\ AwayInv'
    <2>1. \A k \in wanted : Through(k)' <=> Through(k)
      BY <1>1, <1>6 DEF Through, Later
    <2>2. full => \A e \in (stayed \cap OfKind[kind]) \ ahead' : batch'[e] # "none"
      BY <1>12 DEF StayedInv
    <2>3. StayedInv'
      BY <1>1, <1>6, <2>1, <2>2 DEF StayedInv
    <2>4. \A e \in away : e \in Entities /\ e \notin M
      BY <1>5 DEF AwayInv
    <2>5. \A e \in away : batch'[e] = "none"
      BY <1>5, <2>4 DEF AwayInv
    <2>6. AwayInv'
      BY <1>1, <1>6, <2>1, <2>5 DEF AwayInv
    <2> QED
      BY <2>3, <2>6
  <1> QED
    BY <1>7, <1>8, <1>10, <1>13, <1>14, <1>15 DEF SettledInv

\* The changed groups are read, or there are none.
LEMMA ChangedGroupsStep == ASSUME IInv, TypeOK', SearchChangedGroups PROVE IInv'
  <1> USE DEF IInv, TypeOK, directory, durable, view, history
  <1>1. /\ pc = "changed"
        /\ \/ /\ stamp[Group] >= since /\ pc' = "members" /\ ahead' = OfKind[kind]
              /\ gread' = stamp[Group] /\ gfresh'
           \/ /\ ~(stamp[Group] >= since) /\ pc' = "publish" /\ ahead' = ahead
              /\ gread' = gread /\ gfresh' = gfresh
        /\ UNCHANGED <<wanted, clock, present, stamp, members, down, cursor, ids, vcursor,
                       vids, full, kind, since, latest, batch, bstamp, seen, gone,
                       stayed, away, slipped, unsettled>>
    BY DEF SearchChangedGroups
  <1>2. since = vcursor /\ ~full /\ kind \in wanted /\ kind \in Kinds /\ kind # "group"
    BY <1>1 DEF ControlInv
  <1>3. ClockInv' /\ WantedInv' /\ ControlInv'
    BY <1>1, Numbers DEF ClockInv, WantedInv, ControlInv, Later
  <1>4. /\ Settled' = Settled /\ Settled \subseteq Entities
        /\ \A e : Changed(e)' <=> Changed(e)
    BY <1>1 DEF Settled, Changed, Fresh, Above, Later
  <1>5. CursorInv'
    BY <1>1, <1>4 DEF SettledInv, CursorInv, Above
  <1>6. UnsettledInv'
    BY <1>1, <1>4 DEF SettledInv, UnsettledInv
  <1>7. FoundInv' /\ MembersInv'
    BY <1>1, <1>4 DEF SettledInv, FoundInv, Paged, MembersInv
  <1>8. \A e \in Settled : batch[e] # "old"
    BY <1>1 DEF SettledInv, OldInv
  <1>9. OldInv' /\ FullInv'
    <2>1. OldInv'
      <3> SUFFICES ASSUME NEW e \in Settled', batch'[e] = "old" PROVE FALSE
        BY DEF OldInv
      <3> QED
        BY <1>1, <1>4, <1>8
    <2> QED
      BY <1>1, <1>2, <2>1 DEF FullInv
  <1>10. SearchedInv'
    <2> SUFFICES ASSUME NEW k \in wanted, Searched(k)', NEW e \in Settled, e \in OfKind[k]
                 PROVE  batch[e] = "current" \/ (batch[e] = "none" /\ down[e] = "current")
      BY <1>1, <1>4 DEF SearchedInv
    <2>1. CASE k = kind
      <3>1. kind \notin Later(kind) /\ Later(kind)' = Later(kind)
        BY <1>1, <1>2, Order DEF Later
      <3>2. ~(stamp[Group] >= since) /\ e \in OfKind[kind]
        BY <1>1, <1>2, <2>1, <3>1 DEF Searched
      <3>3. batch[e] = "current" \/ (batch[e] = "none" /\ stamp[e] < since)
        BY <1>1, <3>2 DEF SettledInv, FoundInv, Paged
      <3>4. stamp[Group] < since
        BY <3>2, Numbers
      <3> QED
        BY <1>2, <3>3, <3>4, NotFound
    <2>2. CASE k # kind
      <3>1. Searched(k)
        BY <1>1, <2>2 DEF Searched, Later
      <3> QED
        BY <2>2, <3>1 DEF SettledInv, SearchedInv
    <2> QED
      BY <2>1, <2>2
  <1>11. StayedInv' /\ AwayInv'
    BY <1>1, <1>2 DEF StayedInv, AwayInv, Through, Later
  <1> QED
    BY <1>3, <1>5, <1>6, <1>7, <1>9, <1>10, <1>11 DEF SettledInv

\* A page of the members of changed groups: with the last one everything that
\* changed is in hand.
LEMMA MembersStep == ASSUME IInv, TypeOK', NEW S \in SUBSET ahead, SearchMembers(S) PROVE IInv'
  <1> USE DEF IInv, TypeOK, directory, durable, view, history
  <1> DEFINE M == S \cap members
  <1>1. /\ pc = "members" /\ ReadPage(S, M, "publish")
        /\ UNCHANGED <<wanted, clock, present, stamp, members, down, cursor, ids, vcursor,
                       vids, full, kind, since, latest, seen, gone,
                       stayed, away, slipped, unsettled>>
    BY DEF SearchMembers
  <1>2. since = vcursor /\ ~full /\ kind \in wanted /\ kind \in Kinds /\ kind # "group"
    BY <1>1 DEF ControlInv
  <1>3. ASSUME NEW e \in Entities
        PROVE  /\ bstamp'[e] \in Nat /\ bstamp'[e] <= clock
               /\ e \notin M \/ batch[e] # "none" => batch'[e] = batch[e]
               /\ e \in M /\ batch[e] = "none" =>
                    batch'[e] = "current" \/ (batch'[e] = "old" /\ e \in members /\ ~gfresh)
    BY <1>1, PageFinds
  <1>4. /\ M \subseteq present /\ M \subseteq OfKind[kind]
        /\ ahead' = ahead \ S /\ ahead' \subseteq OfKind[kind]
        /\ \/ pc' = pc /\ gread' = gread /\ gfresh' = gfresh
           \/ pc' = "publish" /\ ahead' = {} /\ gread' = 0 /\ ~gfresh'
    BY <1>1, PageFinds
  <1>5. ClockInv' /\ WantedInv'
    BY <1>1, <1>3, <1>4, Numbers DEF ClockInv, WantedInv
  <1>6. ControlInv'
    <2>1. \A e \in Entities : batch'[e] # "none" => e \in OfKind[kind]
      BY <1>1, <1>3, <1>4 DEF ControlInv
    <2> QED
      BY <1>1, <1>2, <1>4, <2>1 DEF ControlInv, Later
  <1>7. Settled' = Settled /\ Settled \subseteq Entities \cap present
    BY <1>1 DEF Settled
  <1>8. CursorInv' /\ UnsettledInv'
    BY <1>1, <1>4, <1>7 DEF SettledInv, CursorInv, UnsettledInv, Above
  \* Those found before are still current, or they would be unsettled.
  <1>9. ASSUME NEW e \in Settled
        PROVE  /\ e \in Entities /\ batch'[e] # "old"
               /\ e \in OfKind[kind] =>
                    batch'[e] = "current" \/ (batch'[e] = "none" /\ stamp[e] < since)
               /\ e \in OfKind[kind] /\ e \notin ahead' =>
                    batch'[e] = "current" \/ (batch'[e] = "none" /\ down[e] = "current")
               /\ e \notin OfKind[kind] => batch'[e] = batch[e]
    <2>1. e \in Entities /\ batch[e] # "old"
      BY <1>1, <1>7 DEF SettledInv, OldInv
    <2>2. e \in OfKind[kind] => batch[e] = "current" \/ (batch[e] = "none" /\ stamp[e] < since)
      BY <1>1 DEF SettledInv, FoundInv, Paged
    <2>3. e \in M => e \in OfKind[kind] /\ batch'[e] = "current"
      <3>1. e \in M => gfresh /\ e \in OfKind[kind]
        BY <1>1, <1>4, ReadFresh
      <3> QED
        BY <1>3, <2>1, <2>2, <3>1
    <2>4. e \notin M => batch'[e] = batch[e]
      BY <1>3, <2>1
    <2>5. ASSUME e \in OfKind[kind], e \notin ahead', e \notin M
          PROVE  batch[e] = "current" \/ (batch[e] = "none" /\ down[e] = "current")
      <3>1. CASE e \in ahead
        <4>1. e \notin members
          BY <1>4, <2>5, <3>1
        <4> QED
          BY <1>2, <2>2, <2>5, <4>1, NotFound
      <3>2. CASE e \notin ahead
        BY <1>1, <2>5, <3>2 DEF SettledInv, MembersInv
      <3> QED
        BY <3>1, <3>2
    <2> QED
      BY <2>1, <2>2, <2>3, <2>4, <2>5
  <1>10. OldInv' /\ FoundInv' /\ MembersInv' /\ FullInv'
    <2>1. OldInv'
      <3> SUFFICES ASSUME NEW e \in Settled', batch'[e] = "old" PROVE FALSE
        BY DEF OldInv
      <3> QED
        BY <1>7, <1>9
    <2>2. FoundInv' /\ MembersInv'
      BY <1>1, <1>7, <1>9 DEF FoundInv, MembersInv
    <2> QED
      BY <1>1, <1>2, <2>1, <2>2 DEF FullInv
  <1>11. SearchedInv'
    <2> SUFFICES ASSUME NEW k \in wanted, Searched(k)', NEW e \in Settled, e \in OfKind[k]
                 PROVE  batch'[e] = "current" \/ (batch'[e] = "none" /\ down[e] = "current")
      BY <1>1, <1>7 DEF SearchedInv
    <2>1. CASE k = kind
      <3>1. kind \notin Later(kind) /\ Later(kind)' = Later(kind)
        BY <1>1, <1>2, Order DEF Later
      <3>2. ahead' = {}
        BY <1>1, <1>4, <2>1, <3>1 DEF Searched
      <3> QED
        BY <1>9, <2>1, <3>2
    <2>2. CASE k # kind
      <3>1. Searched(k)
        BY <1>1, <1>4, <2>2 DEF Searched, Later
      <3>2. e \notin OfKind[kind]
        BY <1>2, <2>2, KindsApart
      <3>3. batch'[e] = batch[e]
        BY <1>9, <3>2
      <3> QED
        BY <2>2, <3>1, <3>3 DEF SettledInv, SearchedInv
    <2> QED
      BY <2>1, <2>2
  <1>12. StayedInv' /\ AwayInv'
    <2>1. \A k \in wanted : Through(k)' <=> Through(k)
      BY <1>1, <1>4 DEF Through, Later
    <2>2. StayedInv'
      BY <1>1, <1>2 DEF StayedInv
    <2>3. \A e \in away : batch'[e] = "none"
      BY <1>3, <1>4 DEF AwayInv
    <2>4. AwayInv'
      BY <1>1, <1>2, <1>4, <2>1, <2>3 DEF AwayInv
    <2> QED
      BY <2>2, <2>4
  <1> QED
    BY <1>5, <1>6, <1>8, <1>10, <1>11, <1>12 DEF SettledInv

-----------------------------------------------------------------------------
(* The sync publishes, and ends a kind *)

LEMMA PublishStep == ASSUME IInv, TypeOK', NEW x \in Entities, Publish(x) PROVE IInv'
  <1> USE DEF IInv, TypeOK, directory, durable, view, progress
  <1>1. /\ pc = "publish" /\ batch[x] # "none"
        /\ down'[x] = batch[x] /\ batch'[x] = "none" /\ bstamp'[x] = 0
        /\ \A e \in Entities \ {x} : /\ down'[e] = down[e] /\ batch'[e] = batch[e]
                                     /\ bstamp'[e] = bstamp[e]
        /\ latest' \in {latest, bstamp[x]}
        /\ seen' = (IF full THEN seen \cup {x} ELSE seen)
        /\ slipped' = (IF batch[x] = "current" THEN slipped \ {x} ELSE slipped)
        /\ UNCHANGED <<wanted, clock, present, stamp, members, cursor, ids, vcursor, vids,
                       pc, full, kind, since, ahead, gread, gfresh, gone, stayed, away, unsettled>>
    BY DEF Publish, MaxOf
  <1>2. /\ x \in OfKind[kind] /\ kind \in wanted /\ kind \in Kinds
        /\ \A k \in wanted : x \in OfKind[k] => k = kind
        /\ x \notin away /\ gone = {}
    BY <1>1, KindsApart DEF ControlInv, AwayInv
  <1>3. ClockInv'
    BY <1>1, Numbers DEF ClockInv
  <1>4. WantedInv' /\ ControlInv'
    BY <1>1, <1>2 DEF WantedInv, ControlInv, Later
  \* What the cursor may move to was in hand before.
  <1>5. ASSUME NEW e \in Entities
        PROVE  /\ Above(e, cursor)' <=> Above(e, cursor)
               /\ Above(e, vcursor)' <=> Above(e, vcursor)
               /\ Changed(e) => Changed(e)'
    <2>1. /\ Above(e, cursor)' <=> Above(e, cursor)
          /\ Above(e, vcursor)' <=> Above(e, vcursor)
      BY <1>1 DEF Above
    <2>2. ASSUME Fresh(e) PROVE Fresh(e)'
      <3>1. Above(e, latest)'
        BY <1>1, <2>2 DEF Fresh, Above
      <3>2. ASSUME NEW f \in Entities PROVE Above(e, bstamp[f])'
        <4>1. CASE f = x
          BY <1>1, <4>1, Numbers DEF Above
        <4>2. CASE f # x
          BY <1>1, <2>2, <4>2 DEF Fresh, Above
        <4> QED
          BY <4>1, <4>2
      <3> QED
        BY <2>1, <2>2, <3>1, <3>2 DEF Fresh
    <2> QED
      BY <1>1, <2>1, <2>2 DEF Changed, Later
  <1>6. ASSUME NEW e \in Settled', e # x
        PROVE  e \in Settled /\ e \in Entities /\ down'[e] = down[e] /\ batch'[e] = batch[e]
    BY <1>1, <1>6 DEF Settled
  <1>7. x \in Settled' => down'[x] = "current" \/ (x \in Settled /\ batch[x] = "old" /\ Changed(x))
    <2> SUFFICES ASSUME x \in Settled', batch[x] # "current" PROVE x \in Settled /\ batch[x] = "old" /\ Changed(x)
      BY <1>1
    <2>1. x \in Settled /\ batch[x] = "old"
      BY <1>1 DEF Settled, States
    <2> QED
      BY <2>1 DEF SettledInv, OldInv
  <1>8. CursorInv'
    <2> SUFFICES ASSUME NEW e \in Settled'
                 PROVE  (down[e] = "current" \/ (Above(e, cursor) /\ Above(e, vcursor)))'
      BY DEF CursorInv
    <2>1. CASE e = x
      BY <1>5, <1>7, <2>1 DEF Changed, Fresh
    <2>2. CASE e # x
      BY <1>5, <1>6, <2>2 DEF SettledInv, CursorInv
    <2> QED
      BY <2>1, <2>2
  <1>9. UnsettledInv'
    <2> SUFFICES ASSUME unsettled, NEW e \in Settled' \ Groups PROVE down'[e] = "current"
      BY <1>1 DEF UnsettledInv
    <2>1. CASE e = x
      BY <1>7, <2>1 DEF Changed
    <2>2. CASE e # x
      BY <1>6, <2>2 DEF SettledInv, UnsettledInv
    <2> QED
      BY <2>1, <2>2
  <1>10. OldInv'
    <2> SUFFICES ASSUME NEW e \in Settled', batch'[e] = "old" PROVE Changed(e)'
      BY <1>1 DEF OldInv
    <2>1. e # x
      BY <1>1
    <2> QED
      BY <1>5, <1>6, <2>1 DEF SettledInv, OldInv
  <1>11. FoundInv' /\ MembersInv'
    BY <1>1 DEF FoundInv, Paged, MembersInv
  <1>12. SearchedInv'
    <2>1. \A k \in wanted : Searched(k)' <=> Searched(k)
      BY <1>1 DEF Searched, Later
    <2> SUFFICES ASSUME NEW k \in wanted, Searched(k), NEW e \in Settled', e \in OfKind[k]
                 PROVE  \/ batch'[e] = "current"
                        \/ batch'[e] = "none" /\ down'[e] = "current"
                        \/ k = kind /\ Changed(e)'
      BY <1>1, <2>1 DEF SearchedInv
    <2>2. CASE e = x
      BY <1>1, <1>2, <1>5, <1>7, <2>2
    <2>3. CASE e # x
      BY <1>5, <1>6, <2>3 DEF SettledInv, SearchedInv
    <2> QED
      BY <2>2, <2>3
  <1>13. FullInv'
    <2> SUFFICES ASSUME full, NEW e \in Settled', e \in OfKind[kind]
                 PROVE  e \in seen' \/ batch'[e] # "none" \/ Changed(e)'
      BY <1>1 DEF FullInv
    <2>1. CASE e = x
      BY <1>1, <2>1
    <2>2. CASE e # x
      BY <1>1, <1>5, <1>6, <2>2 DEF SettledInv, FullInv
    <2> QED
      BY <2>1, <2>2
  <1>14. \A k \in wanted : Through(k)' <=> Through(k)
    BY <1>1 DEF Through, Later
  <1>15. \A e \in Entities : e # x \/ down'[e] # "none"
    BY <1>1
  <1>16. StayedInv'
    <2>1. \A e \in stayed : e \in Entities
      BY DEF StayedInv
    <2> QED
      BY <1>1, <1>14, <2>1 DEF StayedInv
  <1>17. AwayInv'
    BY <1>1, <1>2, <1>14 DEF AwayInv
  <1> QED
    BY <1>3, <1>4, <1>8, <1>9, <1>10, <1>11, <1>12, <1>13, <1>16, <1>17 DEF SettledInv

\* From kind to kind, nothing the sync is through with falls behind.
LEMMA KindEnds ==
    ASSUME IInv, pc \in {"publish", "deletions"}, \A e \in Entities : batch[e] = "none", NextKind,
           UNCHANGED <<directory, down, durable, vcursor, full, since, latest, gread, gfresh,
                     batch, bstamp, history>>
    PROVE  /\ SettledInv' /\ pc' \in {"groups", "empty", "cursor"} /\ kind' \in wanted
           /\ pc' = "groups" => kind' # "group"
           /\ pc' = "empty" => kind' = "group"
           /\ ahead' = IF pc' = "empty" THEN Groups ELSE {}
           /\ pc' = "cursor" => Later(kind)' = {}
           /\ \A k \in wanted : Through(k)' <=> (k = kind \/ Through(k))
  <1> USE DEF IInv, TypeOK, directory, durable, history
  <1>1. kind \in wanted /\ kind \in Kinds /\ ahead = {} /\ \A k \in Kinds : Later(k)' = Later(k)
    BY DEF ControlInv, Later
  <1>2. \/ Later(kind) = {} /\ pc' = "cursor" /\ kind' = kind /\ ahead' = ahead
        \/ /\ kind' \in Later(kind) /\ kind' \in wanted
           /\ \A k \in Later(kind) : k = kind' \/ k \in Later(kind')
           /\ IF kind' = "group" THEN pc' = "empty" /\ ahead' = Groups
                                 ELSE pc' = "groups" /\ ahead' = ahead
    BY NextKindGoesOn
  <1>3. ASSUME NEW k \in wanted PROVE Through(k)' <=> (k = kind \/ kind \in Later(k))
    <2>1. CASE pc' = "cursor"
      BY <1>1, <1>2, <2>1 DEF Through
    <2>2. CASE pc' # "cursor"
      <3>1. Through(k)' <=> kind' \in Later(k)
        BY <1>1, <1>2, <2>2 DEF Through
      <3>2. kind' \in Later(kind) /\ \A j \in Later(kind) : j = kind' \/ j \in Later(kind')
        BY <1>2, <2>2
      <3>3. k = kind \/ k \in Later(kind) \/ kind \in Later(k)
        BY <1>1, Order
      <3>4. kind' \in Later(k) => ~(k \in Later(kind))
        BY <1>1, <1>2, <3>2, Order
      <3>5. kind \in Later(k) => kind' \in Later(k)
        BY <1>1, <3>2, Order
      <3> QED
        BY <3>1, <3>2, <3>3, <3>4, <3>5
    <2> QED
      BY <2>1, <2>2
  <1>4. ASSUME NEW k \in wanted PROVE Through(k)' <=> Searched(k)
    BY <1>3 DEF Searched
  <1>5. ASSUME NEW k \in wanted PROVE Searched(k)' => Searched(k)
    BY <1>1, <1>2, <1>4 DEF Searched, Through
  <1>6. Settled' = Settled /\ Settled \subseteq Entities
    BY DEF Settled
  <1>7. CursorInv' /\ UnsettledInv'
    BY <1>2, <1>6 DEF SettledInv, CursorInv, UnsettledInv, Above
  <1>8. OldInv' /\ FoundInv' /\ MembersInv' /\ FullInv'
    BY <1>2, <1>6, KindsApart DEF OldInv, FoundInv, Paged, MembersInv, FullInv
  <1>9. SearchedInv'
    <2> SUFFICES ASSUME NEW k \in wanted, Searched(k)', NEW e \in Settled, e \in OfKind[k]
                 PROVE  /\ batch[e] = "none"
                        /\ down[e] = "current" \/ (k = kind' /\ Changed(e)')
      BY <1>6 DEF SearchedInv
    <2>1. /\ batch[e] = "none" /\ e \in Entities
          /\ down[e] = "current" \/ (k = kind /\ Changed(e))
      BY <1>5, <1>6 DEF SettledInv, SearchedInv
    <2>2. Changed(e) => kind' = kind /\ Changed(e)'
      <3> SUFFICES ASSUME Changed(e) PROVE kind' = kind /\ Changed(e)'
        OBVIOUS
      <3>1. kind' = kind
        BY <1>2 DEF Changed
      <3> QED
        BY <1>1, <3>1 DEF Changed, Fresh, Above
    <2> QED
      BY <2>1, <2>2
  <1>10. \A k \in wanted : Through(k)' <=> (k = kind \/ Through(k))
    BY <1>3 DEF Through
  <1> QED
    BY <1>1, <1>2, <1>7, <1>8, <1>9, <1>10 DEF SettledInv

\* A full sync goes on to the deletions of the kind, another to the next one.
LEMMA PublishedAllStep == ASSUME IInv, TypeOK', PublishedAll PROVE IInv'
  <1> USE DEF IInv, TypeOK, directory, durable, view, history
  <1>1. /\ pc = "publish" /\ \A e \in Entities : batch[e] = "none"
        /\ UNCHANGED <<wanted, clock, present, stamp, members, down, cursor, ids, vcursor,
                       vids, full, since, latest, gread, gfresh, batch, bstamp, seen,
                       stayed, away, slipped, unsettled>>
    BY DEF PublishedAll, Nothing
  <1>2. ClockInv' /\ WantedInv'
    BY <1>1 DEF ClockInv, WantedInv
  <1>3. CASE full
    <2>1. pc' = "deletions" /\ gone' = (vids \cap OfKind[kind]) \ seen /\ kind' = kind /\ ahead' = ahead
      BY <1>3 DEF PublishedAll, Missing
    <2>2. ControlInv'
      BY <1>1, <1>3, <2>1 DEF ControlInv, Later
    <2>3. /\ Settled' = Settled /\ Settled \subseteq Entities
          /\ \A e : Changed(e)' <=> Changed(e)
          /\ \A k \in wanted : /\ Searched(k)' <=> Searched(k)
                               /\ Through(k)' <=> Through(k)
      BY <1>1, <2>1 DEF Settled, Changed, Fresh, Above, Later, Searched, Through
    <2>4. CursorInv' /\ UnsettledInv'
      BY <1>1, <2>1, <2>3 DEF SettledInv, CursorInv, UnsettledInv, Above
    <2>5. OldInv' /\ FoundInv' /\ MembersInv' /\ FullInv'
      BY <1>1, <2>1, <2>3 DEF SettledInv, OldInv, FoundInv, Paged, MembersInv, FullInv
    <2>6. SearchedInv'
      BY <1>1, <2>1, <2>3 DEF SettledInv, SearchedInv
    <2>7. StayedInv'
      BY <1>1, <2>1, <2>3 DEF StayedInv
    <2>8. AwayInv'
      <3>1. kind \in wanted /\ kind \in Kinds /\ ~Through(kind)
        BY <1>1, Order DEF ControlInv, Through
      <3>2. away \cap OfKind[kind] \subseteq gone'
        BY <1>3, <2>1, <3>1 DEF AwayInv
      <3> QED
        BY <1>1, <1>3, <2>1, <2>3, <3>2 DEF AwayInv
    <2> QED
      BY <1>2, <2>2, <2>4, <2>5, <2>6, <2>7, <2>8 DEF SettledInv
  <1>4. CASE ~full
    <2>1. NextKind /\ gone' = gone /\ gone = {}
      BY <1>1, <1>4 DEF PublishedAll, ControlInv
    <2>2. /\ SettledInv' /\ pc' \in {"groups", "empty", "cursor"} /\ kind' \in wanted
          /\ pc' = "groups" => kind' # "group"
          /\ pc' = "empty" => kind' = "group"
          /\ ahead' = IF pc' = "empty" THEN Groups ELSE {}
          /\ pc' = "cursor" => Later(kind)' = {}
      BY <1>1, <2>1, KindEnds
    <2>3. ControlInv'
      BY <1>1, <1>4, <2>1, <2>2, KindsApart DEF ControlInv
    <2>4. StayedInv' /\ AwayInv'
      BY <1>1, <1>4, <2>2 DEF StayedInv, AwayInv
    <2> QED
      BY <1>2, <2>2, <2>3, <2>4
  <1> QED
    BY <1>3, <1>4

LEMMA DeletionStep == ASSUME IInv, TypeOK', NEW x \in Entities, PublishDeletion(x) PROVE IInv'
  <1> USE DEF IInv, TypeOK, directory, durable, view, progress, fetched, history
  <1>1. /\ pc = "deletions" /\ x \in gone /\ gone' = gone \ {x} /\ full
        /\ down'[x] = "none" /\ \A e \in Entities \ {x} : down'[e] = down[e]
        /\ UNCHANGED <<wanted, clock, present, stamp, members, cursor, ids, vcursor, vids,
                       pc, full, kind, since, latest, ahead, gread, gfresh, batch, bstamp, seen,
                       stayed, away, slipped, unsettled>>
    BY DEF PublishDeletion, ControlInv
  <1>2. /\ x \in OfKind[kind] /\ x \notin seen /\ batch[x] = "none"
        /\ kind \in wanted /\ \A k \in wanted : x \in OfKind[k] => k = kind
    BY <1>1, KindsApart DEF ControlInv
  <1>3. ClockInv' /\ WantedInv' /\ ControlInv'
    BY <1>1 DEF ClockInv, WantedInv, ControlInv, Later
  <1>4. /\ Settled' = Settled /\ Settled \subseteq Entities
        /\ \A e : Changed(e)' <=> Changed(e)
        /\ \A k \in wanted : /\ Searched(k)' <=> Searched(k)
                             /\ Through(k)' <=> Through(k)
    BY <1>1 DEF Settled, Changed, Fresh, Above, Later, Searched, Through
  \* It was deleted for its absence from the search, and has come back since.
  <1>5. x \in Settled => Changed(x)
    BY <1>1, <1>2 DEF SettledInv, FullInv
  <1>6. CursorInv'
    <2> SUFFICES ASSUME NEW e \in Settled
                 PROVE  down'[e] = "current" \/ (Above(e, cursor) /\ Above(e, vcursor))'
      BY <1>4 DEF CursorInv
    <2>1. /\ Above(e, cursor)' <=> Above(e, cursor)
          /\ Above(e, vcursor)' <=> Above(e, vcursor)
      BY <1>1 DEF Above
    <2>2. CASE e = x
      BY <1>5, <2>1, <2>2 DEF Changed, Fresh
    <2>3. CASE e # x
      BY <1>1, <1>4, <2>1, <2>3 DEF SettledInv, CursorInv
    <2> QED
      BY <2>2, <2>3
  <1>7. UnsettledInv'
    <2> SUFFICES ASSUME unsettled, NEW e \in Settled \ Groups PROVE down'[e] = "current"
      BY <1>1, <1>4 DEF UnsettledInv
    <2>1. e # x
      BY <1>5 DEF Changed
    <2> QED
      BY <1>1, <1>4, <2>1 DEF SettledInv, UnsettledInv
  <1>8. OldInv' /\ FoundInv' /\ MembersInv' /\ FullInv'
    BY <1>1, <1>4 DEF SettledInv, OldInv, FoundInv, Paged, MembersInv, FullInv
  <1>9. SearchedInv'
    <2> SUFFICES ASSUME NEW k \in wanted, Searched(k), NEW e \in Settled, e \in OfKind[k]
                 PROVE  \/ batch[e] = "current"
                        \/ batch[e] = "none" /\ down'[e] = "current"
                        \/ k = kind /\ Changed(e)
      BY <1>1, <1>4 DEF SearchedInv
    <2>1. CASE e = x
      BY <1>2, <1>5, <2>1
    <2>2. CASE e # x
      BY <1>1, <1>4, <2>2 DEF SettledInv, SearchedInv
    <2> QED
      BY <2>1, <2>2
  <1>10. StayedInv'
    <2>1. \A k \in wanted : Through(k) => x \notin OfKind[k]
      BY <1>1, <1>2, Order DEF Through
    <2>2. stayed \subseteq Entities
      BY DEF StayedInv
    <2> QED
      BY <1>1, <1>2, <1>4, <2>1, <2>2 DEF StayedInv
  <1>11. AwayInv'
    BY <1>1, <1>4 DEF AwayInv
  <1> QED
    BY <1>3, <1>6, <1>7, <1>8, <1>9, <1>10, <1>11 DEF SettledInv

LEMMA SaveStep == ASSUME IInv, TypeOK', SaveIds PROVE IInv'
  <1> USE DEF IInv, TypeOK, directory, durable, history
  <1>1. /\ pc = "deletions" /\ full /\ gone = {} /\ \A e \in Entities : batch[e] = "none"
        /\ vids' = (vids \ OfKind[kind]) \cup (seen \cap OfKind[kind]) /\ NextKind
        /\ UNCHANGED <<wanted, clock, present, stamp, members, down, cursor, ids, vcursor,
                       full, since, latest, gread, gfresh, batch, bstamp, seen, gone,
                       stayed, away, slipped, unsettled>>
    BY DEF SaveIds, ControlInv
  <1>2. kind \in wanted /\ kind \in Kinds /\ ~Through(kind)
    BY <1>1, Order DEF ControlInv, Through
  <1>3. /\ SettledInv' /\ pc' \in {"groups", "empty", "cursor"} /\ kind' \in wanted
        /\ pc' = "groups" => kind' # "group"
        /\ pc' = "empty" => kind' = "group"
        /\ ahead' = IF pc' = "empty" THEN Groups ELSE {}
        /\ pc' = "cursor" => Later(kind)' = {}
        /\ \A k \in wanted : Through(k)' <=> (k = kind \/ Through(k))
    BY <1>1, KindEnds
  <1>4. ClockInv'
    BY <1>1 DEF ClockInv
  <1>5. WantedInv'
    <2>1. \A k \in Kinds \ wanted : OfKind[k] \cap OfKind[kind] = {}
      BY <1>2, KindsApart
    <2> QED
      BY <1>1, <2>1 DEF WantedInv
  <1>6. ControlInv'
    BY <1>1, <1>3, KindsApart DEF ControlInv
  <1>7. StayedInv'
    BY <1>1, <1>3, KindsApart DEF StayedInv
  <1>8. AwayInv'
    <2>1. ASSUME NEW k \in wanted, k # kind PROVE vids' \cap OfKind[k] = vids \cap OfKind[k]
      <3>1. OfKind[k] \cap OfKind[kind] = {}
        BY <1>2, <2>1, KindsApart
      <3> QED
        BY <1>1, <3>1
    <2>2. \A e \in away \cap OfKind[kind] : down[e] = "none"
      BY <1>1, <1>2 DEF AwayInv
    <2>3. ASSUME NEW k \in wanted
          PROVE  /\ ~Through(k)' => away \cap OfKind[k] \subseteq vids'
                 /\ Through(k)' => \A e \in away \cap OfKind[k] : down[e] = "none"
      <3>1. CASE k = kind
        BY <1>3, <2>2, <3>1
      <3>2. CASE k # kind
        <4>1. vids' \cap OfKind[k] = vids \cap OfKind[k] /\ (Through(k)' <=> Through(k))
          BY <1>3, <2>1, <3>2
        <4> QED
          BY <1>1, <4>1 DEF AwayInv
      <3> QED
        BY <3>1, <3>2
    <2> QED
      BY <1>1, <1>3, <2>3 DEF AwayInv
  <1> QED
    BY <1>3, <1>4, <1>5, <1>6, <1>7, <1>8

-----------------------------------------------------------------------------
(* The cursor moves; the adapter commits or fails *)

\* Once all kinds are searched, the latest whenChanged leaves nothing behind.
LEMMA SetCursorStep == ASSUME IInv, TypeOK', SetCursor PROVE IInv'
  <1> USE DEF IInv, TypeOK, directory, durable, fetched, history
  <1>1. /\ pc = "cursor" /\ pc' = "commit" /\ vcursor' \in {vcursor, latest}
        /\ UNCHANGED <<wanted, clock, present, stamp, members, down, cursor, ids, vids,
                       full, kind, since, latest, ahead, gread, gfresh, batch, bstamp, seen, gone,
                       stayed, away, slipped, unsettled>>
    BY DEF SetCursor
  <1>2. kind \in wanted /\ Later(kind) = {} /\ \A e \in Entities : batch[e] = "none"
    BY <1>1 DEF ControlInv
  <1>3. ClockInv' /\ WantedInv' /\ ControlInv'
    BY <1>1, <1>2 DEF ClockInv, WantedInv, ControlInv, Later
  <1>4. /\ Settled' = Settled /\ Settled \subseteq Entities
        /\ \A k \in wanted : /\ Searched(k)' <=> Searched(k)
                             /\ Through(k)' <=> Through(k)
    BY <1>1 DEF Settled, Searched, Through, Later
  <1>5. ASSUME NEW e, Changed(e) PROVE Changed(e)'
    <2>1. Fresh(e)'
      BY <1>1, <1>5 DEF Changed, Fresh, Above
    <2> QED
      BY <1>1, <1>5, <2>1 DEF Changed, Later
  <1>6. \A k \in wanted : Searched(k)
    BY <1>1, <1>2, Order DEF Searched
  <1>7. \A e \in Settled : down[e] = "current" \/ Changed(e)
    <2> SUFFICES ASSUME NEW e \in Settled PROVE down[e] = "current" \/ Changed(e)
      OBVIOUS
    <2>1. e \in Entities /\ \E k \in wanted : e \in OfKind[k]
      BY <1>4, KindsApart DEF WantedInv, Settled
    <2> QED
      BY <1>2, <1>6, <2>1 DEF SettledInv, SearchedInv
  <1>8. CursorInv'
    <2> SUFFICES ASSUME NEW e \in Settled
                 PROVE  (down[e] = "current" \/ (Above(e, cursor) /\ Above(e, vcursor)))'
      BY <1>4 DEF CursorInv
    <2> QED
      BY <1>1, <1>5, <1>7 DEF Changed, Fresh
  <1>9. UnsettledInv' /\ OldInv' /\ FoundInv' /\ MembersInv' /\ FullInv'
    BY <1>1, <1>2, <1>4 DEF SettledInv, UnsettledInv, OldInv, FoundInv, Paged, MembersInv,
                            FullInv
  <1>10. SearchedInv'
    BY <1>1, <1>4, <1>5 DEF SettledInv, SearchedInv
  <1>11. StayedInv' /\ AwayInv'
    BY <1>1, <1>4 DEF StayedInv, AwayInv
  <1> QED
    BY <1>3, <1>8, <1>9, <1>10, <1>11 DEF SettledInv

\* A key of the commit is flushed.
LEMMA FlushStep ==
    ASSUME IInv, TypeOK', FlushCursor \/ \E k \in Kinds : FlushIds(k)
    PROVE  IInv'
  <1> USE DEF IInv, TypeOK, directory, view, progress, fetched, history
  <1>1. /\ pc = "commit" /\ cursor' \in {cursor, vcursor}
        /\ ids' = ids \/ \E k \in Kinds : ids' = (ids \ OfKind[k]) \cup (vids \cap OfKind[k])
        /\ UNCHANGED <<wanted, clock, present, stamp, members, down, vcursor, vids,
                       pc, full, kind, since, latest, ahead, gread, gfresh, batch, bstamp, seen, gone,
                       stayed, away, slipped, unsettled>>
    BY DEF FlushCursor, FlushIds
  <1>2. ids' \subseteq ids \cup vids
    BY <1>1
  <1>3. ClockInv'
    BY <1>1, Numbers DEF ClockInv
  <1>4. WantedInv' /\ ControlInv'
    BY <1>1, <1>2 DEF WantedInv, ControlInv, Later
  <1>5. /\ Settled' = Settled /\ Settled \subseteq Entities
        /\ \A e : Above(e, vcursor)' <=> Above(e, vcursor)
        /\ \A e : Above(e, cursor) /\ Above(e, vcursor) => Above(e, cursor)'
        /\ \A k \in wanted : /\ Searched(k)' <=> Searched(k)
                             /\ Through(k)' <=> Through(k)
    BY <1>1 DEF Settled, Above, Searched, Through, Later
  <1>6. \A e : Changed(e) => Changed(e)'
    BY <1>1, <1>5 DEF Changed, Fresh, Above, Later
  <1>7. CursorInv' /\ UnsettledInv'
    BY <1>1, <1>5 DEF SettledInv, CursorInv, UnsettledInv
  <1>8. OldInv' /\ FoundInv' /\ MembersInv' /\ FullInv'
    BY <1>1, <1>5, <1>6 DEF SettledInv, OldInv, FoundInv, Paged, MembersInv, FullInv
  <1>9. SearchedInv'
    BY <1>1, <1>5, <1>6 DEF SettledInv, SearchedInv
  <1>10. StayedInv'
    BY <1>1, <1>5 DEF StayedInv
  <1>11. AwayInv'
    BY <1>1, <1>5 DEF AwayInv
  <1> QED
    BY <1>3, <1>4, <1>7, <1>8, <1>9, <1>10, <1>11 DEF SettledInv

LEMMA EndStep == ASSUME IInv, TypeOK', Commit \/ Abort PROVE IInv'
  <1> USE DEF IInv, TypeOK, directory, durable, view
  <1>1. /\ pc' = "idle" /\ ~full' /\ latest' = 0 /\ gread' = 0 /\ seen' = {} /\ gone' = {}
        /\ away' = {} /\ stayed' = {} /\ ahead' = {} /\ ~unsettled'
        /\ \A e \in Entities : batch'[e] = "none" /\ bstamp'[e] = 0
        /\ UNCHANGED <<wanted, clock, present, stamp, members, down, slipped>>
    BY DEF Commit, Abort, Reset, Nothing, NoStamps
  <1>2. /\ vids' = ids' /\ vcursor' = cursor'
        /\ cursor' \in {cursor, vcursor} /\ ids' \subseteq ids \cup vids
    BY DEF Commit, Abort
  <1>3. ClockInv' /\ WantedInv' /\ ControlInv'
    BY <1>1, <1>2, Numbers DEF ClockInv, WantedInv, ControlInv
  <1>4. /\ Settled' = Settled /\ Settled \subseteq Entities
        /\ \A e : Above(e, cursor) /\ Above(e, vcursor) => Above(e, cursor)' /\ Above(e, vcursor)'
    BY <1>1, <1>2 DEF Settled, Above
  <1>5. CursorInv'
    BY <1>1, <1>4 DEF SettledInv, CursorInv
  <1>6. UnsettledInv' /\ OldInv' /\ FoundInv' /\ MembersInv' /\ SearchedInv' /\ FullInv'
    BY <1>1, <1>4 DEF UnsettledInv, OldInv, FoundInv, Paged, MembersInv, SearchedInv, Searched,
                      FullInv
  <1>7. StayedInv' /\ AwayInv'
    BY <1>1 DEF StayedInv, AwayInv
  <1> QED
    BY <1>3, <1>5, <1>6, <1>7 DEF SettledInv

LEMMA StutterStep == ASSUME IInv, TypeOK', UNCHANGED vars PROVE IInv'
  <1> USE DEF IInv, vars, directory, durable, view, progress, fetched, history
  <1>1. ClockInv' /\ WantedInv' /\ ControlInv' /\ StayedInv' /\ AwayInv'
    BY DEF ClockInv, WantedInv, ControlInv, StayedInv, AwayInv, Through, Later
  <1>2. SettledInv'
    BY DEF SettledInv, CursorInv, UnsettledInv, OldInv, FoundInv, Paged, MembersInv, SearchedInv,
           FullInv, Settled, Searched, Changed, Fresh, Above, Later
  <1> QED
    BY <1>1, <1>2

LEMMA InvPreserved == IInv /\ [Next]_vars => IInv'
  <1> SUFFICES ASSUME IInv, [Next]_vars PROVE IInv'
    OBVIOUS
  <1>1. TypeOK'
    BY TypesPreserved
  <1>2. CASE Tick
    BY <1>1, <1>2, TickStep
  <1>3. ASSUME NEW e \in Entities, Touch(e) \/ Create(e) \/ Remove(e) PROVE IInv'
    BY <1>1, <1>3, ChangeStep, RemoveStep
  <1>4. ASSUME NEW S \in SUBSET (present \ Groups), ChangeGroup(S) PROVE IInv'
    BY <1>1, <1>4, ChangeGroupStep
  <1>5. ASSUME NEW f \in BOOLEAN, Start(f) PROVE IInv'
    BY <1>1, <1>5, StartStep
  <1>6. CASE SearchGroups \/ SearchChangedGroups
    BY <1>1, <1>6, GroupsStep, ChangedGroupsStep
  <1>7. ASSUME NEW S \in SUBSET ahead,
                SearchEntities(S) \/ SearchMembers(S) \/ SearchEmptyGroups(S)
         PROVE  IInv'
    BY <1>1, <1>7, FirstSearchStep, MembersStep
  <1>8. ASSUME NEW e \in Entities, Publish(e) \/ PublishDeletion(e) PROVE IInv'
    BY <1>1, <1>8, PublishStep, DeletionStep
  <1>9. CASE PublishedAll \/ SaveIds \/ SetCursor
    BY <1>1, <1>9, PublishedAllStep, SaveStep, SetCursorStep
  <1>10. CASE FlushCursor \/ \E k \in Kinds : FlushIds(k)
    BY <1>1, <1>10, FlushStep
  <1>11. CASE Commit \/ Abort
    BY <1>1, <1>11, EndStep
  <1>12. CASE UNCHANGED vars
    BY <1>1, <1>12, StutterStep
  <1> QED
    BY <1>2, <1>3, <1>4, <1>5, <1>6, <1>7, <1>8, <1>9, <1>10, <1>11, <1>12
       DEF Next, Directory, Sync

-----------------------------------------------------------------------------
(* The theorems *)

LEMMA ADInvariant == Spec => []IInv
  BY InitEstablishes, InvPreserved, PTL DEF Spec

\* Every variable keeps its type; a sync goes through the kinds it knows.
THEOREM ADTypes == Spec => []TypeOK
  <1>1. IInv => TypeOK
    BY DEF IInv
  <1> QED
    BY ADInvariant, <1>1, PTL

\* The cursor that all kinds share never passes a change that is not
\* downstream, unless it slipped: behind its page between the pages and searches
\* of a sync, or with a change of Group. Whatever syncs follow each other, fail,
\* and tear their commits.
THEOREM CursorPassesOnlySlips == Spec => []OnlySlipsFallBehind
  <1>1. IInv => OnlySlipsFallBehind
    <2> SUFFICES ASSUME IInv, NEW e \in BehindCursor \ slipped PROVE down[e] = "current"
      BY DEF OnlySlipsFallBehind
    <2>1. /\ e \in present
          /\ stamp[e] < cursor /\ (e \in members => stamp[Group] < cursor)
      BY DEF BehindCursor
    <2>2. e \in Settled /\ e \in Entities
      BY <2>1 DEF IInv, TypeOK, Settled
    <2>3. ~Above(e, cursor)
      BY <2>1, <2>2, Numbers DEF IInv, Above
    <2> QED
      BY <2>2, <2>3 DEF IInv, SettledInv, CursorInv
  <1> QED
    BY ADInvariant, <1>1, PTL

\* At the end of a full sync it is through with every kind that is wanted.
LEMMA AllThrough ==
    ASSUME IInv, FullDone, NEW e \in present \cup away
    PROVE  \E k \in wanted : e \in OfKind[k] /\ Through(k)
  <1>1. e \in Entities
    BY DEF IInv, TypeOK
  <1>2. PICK k \in wanted : e \in OfKind[k]
    BY <1>1, KindsApart DEF IInv, WantedInv
  <1>3. Through(k)
    BY Order DEF IInv, TypeOK, ControlInv, FullDone, Through
  <1> QED
    BY <1>2, <1>3

\* However the directory changes between its pages and searches, a full sync
\* does not delete what existed all along.
THEOREM FullSyncKeepsWhatStayed == Spec => []FullSyncKeepsPresent
  <1>1. IInv => FullSyncKeepsPresent
    <2> SUFFICES ASSUME IInv, FullDone, NEW e \in stayed PROVE down[e] # "none"
      BY DEF FullSyncKeepsPresent
    <2>1. PICK k \in wanted : e \in OfKind[k] /\ Through(k)
      BY AllThrough DEF IInv, StayedInv
    <2> QED
      BY <2>1 DEF IInv, StayedInv, FullDone
  <1> QED
    BY ADInvariant, <1>1, PTL

\* A full sync deletes everything a committed id set remembers that was gone
\* when it began.
THEOREM FullSyncDeletesWhatLeft == Spec => []FullSyncDeletesRemembered
  <1>1. IInv => FullSyncDeletesRemembered
    <2> SUFFICES ASSUME IInv, FullDone, NEW e \in away PROVE down[e] = "none"
      BY DEF FullSyncDeletesRemembered
    <2>1. PICK k \in wanted : e \in OfKind[k] /\ Through(k)
      BY AllThrough
    <2> QED
      BY <2>1 DEF IInv, AwayInv, FullDone
  <1> QED
    BY ADInvariant, <1>1, PTL
=============================================================================
