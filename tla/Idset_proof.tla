---------------------------- MODULE Idset_proof -----------------------------
(***************************************************************************)
(* Proofs about Idset.                                                     *)
(*                                                                         *)
(* SInv relates the maps of a session to the store Load found and to the   *)
(* ids added since; it holds whatever happens to the store. Coherence of   *)
(* the stored layouts does not: it needs that commits are whole, or that   *)
(* the shard count never changes (StableStore), and so do the theorems     *)
(* that rest on it.                                                        *)
(***************************************************************************)
EXTENDS Idset, TLAPS

\* A hash falls into a shard of the layout it is taken for.
LEMMA ShardInLayout ==
  ASSUME NEW id \in Ids, NEW c \in Counts
  PROVE  shard(id, c) \in Layout(c) /\ shard(id, c) \in Shards
  <1>1. Hash[id] \in Nat /\ c \in Nat \ {0}
    BY IdsetAssumption
  <1>2. Hash[id] % c \in 0 .. c - 1
    BY <1>1
  <1> QED
    BY <1>2 DEF shard, Layout, Shards

\* A layout in use is made of known shards; there is none without a meta key.
LEMMA LayoutShards ==
  ASSUME NEW c \in Counts \cup {0}
  PROVE  Layout(c) \subseteq Shards /\ (c = 0 => Layout(c) = {})
  BY DEF Layout, Shards

\* Every operation preserves types.
LEMMA TypeStep == TypeOK /\ [Next]_vars => TypeOK'
  <1> SUFFICES ASSUME TypeOK, [Next]_vars PROVE TypeOK'
    OBVIOUS
  <1> USE DEF TypeOK, Keyspace
  <1>1. ASSUME NEW c \in Counts, Load(c) PROVE TypeOK'
    <2>1. loadDirect(view) \in [Shards -> SUBSET Ids]
      BY DEF loadDirect
    <2>2. loadRehash(view, c) \in [Shards -> SUBSET Ids]
      <3>1. Stored(view) \subseteq Ids
        BY LayoutShards DEF Stored
      <3> QED
        BY <3>1 DEF loadRehash
    <2>3. dirty' \in SUBSET Shards
      BY <1>1, LayoutShards DEF Load
    <2> QED
      BY <1>1, <2>1, <2>2, <2>3 DEF Load, NoShards
  <1>2. ASSUME NEW id \in Ids, Add(id) PROVE TypeOK'
    <2>1. shard(id, n) \in Shards
      BY <1>2, ShardInLayout DEF Add
    <2> QED
      BY <1>2, <2>1 DEF Add
  <1>3. CASE Save
    <2>1. Changed \subseteq Shards
      BY <1>3, LayoutShards DEF Save, Changed
    <2> QED
      BY <1>3, <2>1 DEF Save
  <1>4. CASE FlushMeta
    BY <1>4 DEF FlushMeta, set
  <1>5. ASSUME NEW i \in Shards, FlushShard(i) PROVE TypeOK'
    BY <1>5 DEF FlushShard, set
  <1>6. CASE Commit \/ Abort
    BY <1>6 DEF Commit, Abort, EndSession, NoShards
  <1>7. ASSUME NEW i \in Shards, LoseShard(i) PROVE TypeOK'
    BY <1>7 DEF LoseShard, set
  <1>8. CASE UNCHANGED vars
    BY <1>8 DEF vars
  <1> QED
    BY <1>1, <1>2, <1>3, <1>4, <1>5, <1>6, <1>7, <1>8 DEF Next

-----------------------------------------------------------------------------
(* What a session knows, however damaged the store it began on.            *)

\* prev is what Load makes of the store, curr the ids added so far.
PrevInv ==
    prev = IF loaded.meta = n THEN loadDirect(loaded) ELSE loadRehash(loaded, n)

CurrInv == \A i \in Shards : curr[i] = {id \in added : shard(id, n) = i}

\* A shard that is not dirty has got no id it did not have before, and its
\* layout is the stored one.
DirtyInv ==
    /\ loaded.meta \notin {0, n} => Layout(n) \subseteq dirty
    /\ \A id \in added : WasPresent(id) \/ shard(id, n) \in dirty

\* What Save has left in the view.
SavedInv ==
    /\ view.meta = n
    /\ \A i \in Layout(n) :
        /\ view.shard[i] \in {curr[i], loaded.shard[i]}
        /\ curr[i] \subseteq view.shard[i]
        /\ loaded.meta # 0 => view.shard[i] = curr[i]

\* The inductive invariant of a session.
SInv ==
    /\ TypeOK
    /\ pc = "idle" => view = disk /\ n = 0
    /\ pc # "idle" => PrevInv /\ CurrInv /\ DirtyInv
    /\ pc = "syncing" => view = loaded
    /\ pc = "saved" => SavedInv

\* Before the first sync there is no session.
LEMMA InitSInv == Init => SInv
  BY DEF Init, NoSession, SInv, TypeOK, Keyspace, NoShards

\* A save leaves every shard of the layout holding its ids of this session.
LEMMA SaveStep == SInv /\ Save => SavedInv'
  <1> SUFFICES ASSUME SInv, Save PROVE SavedInv'
    OBVIOUS
  <1> USE DEF SInv, TypeOK, Keyspace
  <1>1. n \in Counts /\ Layout(n) \subseteq Shards
    BY LayoutShards DEF Save
  <1>2. ASSUME NEW i \in Layout(n), i \in Changed
        PROVE view'.shard[i] = curr[i]
    BY <1>1, <1>2 DEF Save
  <1>3. ASSUME NEW i \in Layout(n), i \notin Changed
        PROVE /\ view'.shard[i] = loaded.shard[i]
              /\ curr[i] \subseteq prev[i]
              /\ prev[i] \subseteq curr[i]
              /\ loaded.meta \in {0, n}
    <2>1. i \notin dirty /\ prev[i] \subseteq curr[i]
      BY <1>3 DEF Changed
    <2>2. loaded.meta \in {0, n}
      BY <1>3, <2>1 DEF Save, DirtyInv
    <2>3. curr[i] \subseteq prev[i]
      BY <1>1, <2>1 DEF Save, CurrInv, DirtyInv, WasPresent
    <2> QED
      BY <1>1, <1>3, <2>1, <2>2, <2>3 DEF Save
  <1>4. ASSUME NEW i \in Layout(n), i \notin Changed, loaded.meta = n
        PROVE prev[i] = loaded.shard[i]
    BY <1>1, <1>4 DEF Save, PrevInv, loadDirect
  <1>5. ASSUME NEW i \in Layout(n), i \notin Changed, loaded.meta = 0
        PROVE prev[i] = {}
    <2>1. Stored(loaded) = {}
      BY <1>5, LayoutShards DEF Stored
    <2>2. n # 0
      BY <1>1, IdsetAssumption
    <2> QED
      BY <1>1, <1>5, <2>1, <2>2 DEF Save, PrevInv, loadRehash
  <1>6. view'.meta = n
    BY DEF Save
  <1>7. ASSUME NEW i \in Layout(n)
        PROVE /\ view'.shard[i] \in {curr[i], loaded.shard[i]}
              /\ curr[i] \subseteq view'.shard[i]
              /\ loaded.meta # 0 => view'.shard[i] = curr[i]
    <2>1. CASE i \in Changed
      BY <1>2, <2>1
    <2>2. CASE i \notin Changed
      BY <1>3, <1>4, <1>5, <2>2
    <2> QED
      BY <2>1, <2>2
  <1> QED
    BY <1>6, <1>7 DEF Save, SavedInv, Layout

\* The session invariant is preserved by every step, damage included.
LEMMA SInvStep == SInv /\ [Next]_vars => SInv'
  <1> SUFFICES ASSUME SInv, [Next]_vars PROVE SInv'
    OBVIOUS
  <1>0. TypeOK'
    BY TypeStep DEF SInv
  <1>1. ASSUME NEW c \in Counts, Load(c) PROVE SInv'
    <2>1. c # 0
      BY IdsetAssumption
    <2>2. PrevInv'
      BY <1>1 DEF Load, PrevInv, loadDirect, loadRehash, Stored, Layout, shard
    <2>3. CurrInv' /\ DirtyInv'
      BY <1>1 DEF Load, CurrInv, DirtyInv, NoShards, Layout
    <2> QED
      BY <1>0, <1>1, <2>2, <2>3 DEF Load, SInv
  <1>2. ASSUME NEW id \in Ids, Add(id) PROVE SInv'
    <2>1. n \in Counts /\ shard(id, n) \in Shards
      BY <1>2, ShardInLayout DEF Add, SInv, TypeOK
    <2>2. PrevInv'
      BY <1>2 DEF Add, SInv, PrevInv
    <2>3. CurrInv'
      BY <1>2, <2>1 DEF Add, SInv, TypeOK, CurrInv, shard
    <2>4. DirtyInv'
      BY <1>2, <2>1 DEF Add, SInv, DirtyInv, WasPresent, shard
    <2> QED
      BY <1>0, <1>2, <2>2, <2>3, <2>4 DEF Add, SInv
  <1>3. CASE Save
    <2>1. SavedInv'
      BY <1>3, SaveStep
    <2>2. dirty \subseteq dirty'
      BY <1>3 DEF Save, Changed
    <2> QED
      BY <1>0, <1>3, <2>1, <2>2
      DEF Save, SInv, PrevInv, CurrInv, DirtyInv, WasPresent
  <1>4. CASE FlushMeta \/ \E i \in Shards : FlushShard(i)
    BY <1>0, <1>4
    DEF FlushMeta, FlushShard, SInv, PrevInv, CurrInv, DirtyInv, WasPresent,
        SavedInv, set
  <1>5. CASE Commit \/ Abort
    BY <1>0, <1>5 DEF Commit, Abort, EndSession, SInv
  <1>6. CASE \E i \in Shards : LoseShard(i)
    BY <1>0, <1>6 DEF LoseShard, SInv, set
  <1>7. CASE UNCHANGED vars
    BY <1>0, <1>7
    DEF vars, SInv, PrevInv, CurrInv, DirtyInv, WasPresent, SavedInv
  <1> QED
    BY <1>1, <1>2, <1>3, <1>4, <1>5, <1>6, <1>7 DEF Next

-----------------------------------------------------------------------------
(* Theorems that hold whatever happens to the store.                       *)

\* Ids the store remembered that were not added are Missing.
LEMMA SessionNoMissed == SInv => NoMissedDeletion
  <1> SUFFICES ASSUME SInv, pc # "idle", NEW id \in Stored(loaded) \ added
               PROVE id \in Missing
    BY DEF NoMissedDeletion
  <1>1. n \in Counts /\ Layout(n) \subseteq Shards /\ id \in Ids
    BY LayoutShards DEF SInv, TypeOK, Keyspace, Stored
  <1>2. PICK i \in Layout(n) : id \in prev[i]
    <2>1. CASE loaded.meta = n
      BY <1>1, <2>1 DEF SInv, PrevInv, Stored, loadDirect
    <2>2. CASE loaded.meta # n
      BY <1>1, <2>2, ShardInLayout DEF SInv, PrevInv, loadRehash
    <2> QED
      BY <2>1, <2>2
  <1>3. id \notin curr[i]
    BY <1>1, <1>2 DEF SInv, CurrInv
  <1> QED
    BY <1>2, <1>3 DEF Missing

\* The shards of the layout together hold the added ids.
LEMMA CurrIsAdded ==
  ASSUME SInv, pc # "idle"
  PROVE  UNION {curr[i] : i \in Layout(n)} = added
  <1>1. n \in Counts /\ Layout(n) \subseteq Shards /\ added \subseteq Ids
    BY LayoutShards DEF SInv, TypeOK
  <1>2. \A id \in added : shard(id, n) \in Layout(n)
    BY <1>1, ShardInLayout
  <1> QED
    BY <1>1, <1>2 DEF SInv, CurrInv

\* A save remembers every id of the session, and nothing else if the session
\* began on a store with a meta key.
LEMMA SessionRemembers == SInv => SaveRemembers
  <1> SUFFICES ASSUME SInv, pc = "saved"
               PROVE  /\ added \subseteq Stored(view)
                      /\ loaded.meta # 0 => Stored(view) = added
    BY DEF SaveRemembers
  <1>1. SavedInv
    BY DEF SInv
  <1>2. added \subseteq Stored(view)
    BY <1>1, CurrIsAdded DEF SavedInv, Stored
  <1>3. ASSUME loaded.meta # 0 PROVE Stored(view) = added
    BY <1>1, <1>3, CurrIsAdded DEF SavedInv, Stored
  <1> QED
    BY <1>2, <1>3

\* A save over a store with a meta key puts every id in its place.
LEMMA SessionRepairs == SInv => SaveRepairs
  <1> SUFFICES ASSUME SInv, pc = "saved", loaded.meta # 0, NEW c \in Counts,
                      view.meta \in {0, c}, NEW i \in Layout(c),
                      NEW id \in view.shard[i]
               PROVE  shard(id, c) = i
    BY DEF SaveRepairs, Coherent
  <1>1. n \in Counts /\ n # 0 /\ Layout(n) \subseteq Shards
    BY LayoutShards, IdsetAssumption DEF SInv, TypeOK
  <1>2. c = n
    BY <1>1 DEF SInv, SavedInv
  <1> QED
    BY <1>1, <1>2 DEF SInv, SavedInv, CurrInv

\* The invariant of a session holds whatever happens to the store.
LEMMA SessionInvariant == Spec => []SInv
  BY InitSInv, SInvStep, PTL DEF Spec

\* Whatever torn commits, lost shards and changes of the shard count did to
\* the store, no remembered id escapes deletion detection.
THEOREM DetectionSurvivesDamage == Spec => []NoMissedDeletion
  BY SessionInvariant, SessionNoMissed, PTL

\* Nor does it keep a full sync from remembering what it saw: although Save
\* writes the dirty shards only, every id of the sync is in the store after it.
THEOREM SaveSurvivesDamage == Spec => []SaveRemembers
  BY SessionInvariant, SessionRemembers, PTL

\* A full Save leaves no shard of another layout, and no misplaced id, behind.
THEOREM SaveRepairsLayout == Spec => []SaveRepairs
  BY SessionInvariant, SessionRepairs, PTL

\* Idset keeps its types.
THEOREM IdsetTypes == Spec => []TypeOK
  <1>1. SInv => TypeOK
    BY DEF SInv
  <1> QED
    BY SessionInvariant, <1>1, PTL

-----------------------------------------------------------------------------
(* Theorems that need a stable store.                                      *)

\* Commits are whole, or the shard count never changes.
StableStore == ~Damage \/ \E c \in Counts : Counts = {c}

CoherentStore == Coherent(disk) /\ Coherent(view) /\ Coherent(loaded)

\* The save of a session that began on a coherent store leaves one.
LEMMA SaveCoherent ==
  SInv /\ CoherentStore /\ Save => Coherent(view')
  <1> SUFFICES ASSUME SInv, CoherentStore, Save, NEW c \in Counts,
                      view'.meta \in {0, c}, NEW i \in Layout(c),
                      NEW id \in view'.shard[i]
               PROVE  shard(id, c) = i
    BY DEF Coherent
  <1>1. n \in Counts /\ n # 0 /\ Layout(n) \subseteq Shards
    BY LayoutShards, IdsetAssumption DEF Save, SInv, TypeOK
  <1>2. c = n /\ view'.meta = n
    BY <1>1 DEF Save
  <1>3. CASE i \in Changed
    BY <1>1, <1>2, <1>3 DEF Save, SInv, CurrInv
  <1>4. CASE i \notin Changed
    <2>1. id \in loaded.shard[i]
      BY <1>1, <1>2, <1>4 DEF Save, SInv
    <2>2. loaded.meta \in {0, n}
      BY <1>2, <1>4 DEF Save, SInv, DirtyInv, Changed
    <2> QED
      BY <1>2, <2>1, <2>2 DEF CoherentStore, Coherent
  <1> QED
    BY <1>3, <1>4

\* Coherence of what is stored is preserved if the store is stable: only
\* without damage does the shard count change, and then the disk takes over
\* the saved view as a whole.
LEMMA CoherentStep ==
  ASSUME StableStore
  PROVE  SInv /\ CoherentStore /\ [Next]_vars => CoherentStore'
  <1> SUFFICES ASSUME SInv, CoherentStore, [Next]_vars PROVE CoherentStore'
    OBVIOUS
  <1> USE DEF CoherentStore
  <1>1. CASE \E c \in Counts : Load(c)
    BY <1>1 DEF Load, Coherent, shard
  <1>2. CASE \E id \in Ids : Add(id)
    BY <1>2 DEF Add, Coherent, shard
  <1>3. CASE Save
    <2>1. Coherent(view')
      BY <1>3, SaveCoherent
    <2> QED
      BY <1>3, <2>1 DEF Save, Coherent, shard
  <1>4. CASE Commit \/ Abort
    BY <1>4 DEF Commit, Abort, EndSession, Coherent, shard
  <1>5. CASE UNCHANGED vars
    BY <1>5 DEF vars, Coherent, shard
  <1>6. ASSUME Damage, SInv PROVE \E c \in Counts : Counts = {c} /\ Shards = Layout(c)
    BY <1>6 DEF StableStore, Shards, Layout
  <1>7. ASSUME Damage, NEW s \in Keyspace, Coherent(s),
               NEW i \in Shards, NEW id \in s.shard[i], NEW c \in Counts
        PROVE shard(id, c) = i
    BY <1>6, <1>7 DEF Keyspace, Coherent
  <1>8. CASE FlushMeta
    <2>1. disk'.shard = disk.shard /\ Damage
      BY <1>8 DEF FlushMeta, SInv, TypeOK, Keyspace
    <2>2. Coherent(disk')
      <3> SUFFICES ASSUME NEW c \in Counts, NEW i \in Layout(c),
                          NEW id \in disk'.shard[i]
                   PROVE shard(id, c) = i
        BY DEF Coherent
      <3> QED
        BY <1>7, <2>1, LayoutShards DEF SInv, TypeOK
    <2> QED
      BY <1>8, <2>2 DEF FlushMeta, set, Coherent, shard
  <1>9. ASSUME NEW j \in Shards, FlushShard(j) PROVE CoherentStore'
    <2>1. \A i \in Shards : disk'.shard[i] \in {disk.shard[i], view.shard[i]}
      BY <1>9 DEF FlushShard, SInv, TypeOK, Keyspace
    <2>2. Damage
      BY <1>9 DEF FlushShard
    <2>3. Coherent(disk')
      <3> SUFFICES ASSUME NEW c \in Counts, NEW i \in Layout(c),
                          NEW id \in disk'.shard[i]
                   PROVE shard(id, c) = i
        BY DEF Coherent
      <3>1. i \in Shards /\ (id \in disk.shard[i] \/ id \in view.shard[i])
        BY <2>1, LayoutShards
      <3> QED
        BY <1>7, <2>2, <3>1 DEF SInv, TypeOK
    <2> QED
      BY <1>9, <2>3 DEF FlushShard, set, Coherent, shard
  <1>10. ASSUME NEW j \in Shards, LoseShard(j) PROVE CoherentStore'
    <2>1. /\ disk'.meta = disk.meta
          /\ \A i \in Shards : disk'.shard[i] \subseteq disk.shard[i]
      BY <1>10 DEF LoseShard, SInv, TypeOK, Keyspace
    <2>2. Coherent(disk')
      BY <2>1, LayoutShards DEF Coherent
    <2> QED
      BY <1>10, <2>2 DEF LoseShard, set, Coherent, shard
  <1> QED
    BY <1>1, <1>2, <1>3, <1>4, <1>5, <1>8, <1>9, <1>10 DEF Next

\* prev holds every remembered id in the shard of its hash, and no other id.
LEMMA SessionRecall == SInv /\ CoherentStore => RecallExact
  <1> SUFFICES ASSUME SInv, CoherentStore, pc # "idle", NEW id \in Ids
               PROVE WasPresent(id) <=> id \in Stored(loaded)
    BY DEF RecallExact
  <1>1. n \in Counts /\ shard(id, n) \in Layout(n) /\ shard(id, n) \in Shards
    BY ShardInLayout DEF SInv, TypeOK
  <1>2. CASE loaded.meta = n
    BY <1>1, <1>2
    DEF SInv, PrevInv, CoherentStore, Coherent, WasPresent, Stored, loadDirect
  <1>3. CASE loaded.meta # n
    BY <1>1, <1>3 DEF SInv, PrevInv, WasPresent, loadRehash
  <1> QED
    BY <1>2, <1>3

\* An id that was added is in curr where prev has it.
LEMMA SessionNoSpurious == SInv /\ CoherentStore => NoSpuriousDeletion
  <1> SUFFICES ASSUME SInv, CoherentStore, NEW id \in Missing, id \in added
               PROVE FALSE
    BY DEF NoSpuriousDeletion
  <1>1. PICK i \in Layout(n) : id \in prev[i] /\ id \notin curr[i]
    BY DEF Missing
  <1>2. pc # "idle" /\ n \in Counts /\ n # 0 /\ i \in Shards
    BY <1>1, LayoutShards, IdsetAssumption DEF SInv, TypeOK
  <1>3. shard(id, n) = i
    <2>1. CASE loaded.meta = n
      BY <1>1, <1>2, <2>1
      DEF SInv, PrevInv, CoherentStore, Coherent, loadDirect
    <2>2. CASE loaded.meta # n
      BY <1>1, <1>2, <2>2 DEF SInv, PrevInv, loadRehash
    <2> QED
      BY <2>1, <2>2
  <1> QED
    BY <1>1, <1>2, <1>3 DEF SInv, CurrInv

\* An empty store is coherent.
LEMMA InitCoherent == Init => CoherentStore
  BY LayoutShards DEF Init, NoShards, CoherentStore, Coherent

\* A stable store stays coherent.
LEMMA StableInvariant ==
  ASSUME StableStore
  PROVE  Spec => [](SInv /\ CoherentStore)
  <1>1. Init => SInv /\ CoherentStore
    BY InitSInv, InitCoherent
  <1>2. SInv /\ CoherentStore /\ [Next]_vars => SInv' /\ CoherentStore'
    BY SInvStep, CoherentStep
  <1> QED
    BY <1>1, <1>2, PTL DEF Spec

\* With whole commits, or with one shard count for ever, a full sync deletes
\* no entity it saw; this includes stores that lost shards.
THEOREM NoSpuriousDeletionIfStable ==
  ASSUME StableStore
  PROVE  Spec => []NoSpuriousDeletion
  BY StableInvariant, SessionNoSpurious, PTL

\* And then WasPresent knows exactly which entities the store remembered: an
\* entity is published as "discovered" or as "modified" as it should be.
THEOREM RecallExactIfStable ==
  ASSUME StableStore
  PROVE  Spec => []RecallExact
  BY StableInvariant, SessionRecall, PTL

-----------------------------------------------------------------------------
(* Idset implements PresenceSet when commits are whole.                    *)

\* A session works on what the disk holds, and there are no shards without
\* a meta key.
WholeInv ==
    /\ pc # "idle" => disk = loaded
    /\ disk.meta = 0 => disk.shard = NoShards

\* Whole commits keep it: between them the disk does not change, and a commit
\* always brings a meta key.
LEMMA WholeStep ==
  ASSUME ~Damage
  PROVE  SInv /\ WholeInv /\ [Next]_vars => WholeInv'
  <1> SUFFICES ASSUME SInv, WholeInv, [Next]_vars PROVE WholeInv'
    OBVIOUS
  <1> USE DEF WholeInv
  <1>1. CASE \E c \in Counts : Load(c)
    BY <1>1 DEF Load, SInv, NoShards
  <1>2. CASE (\E id \in Ids : Add(id)) \/ Save
    BY <1>2 DEF Add, Save, NoShards
  <1>3. CASE Commit
    <2>1. n # 0 /\ view.meta = n
      BY <1>3, IdsetAssumption DEF Commit, SInv, SavedInv, TypeOK
    <2> QED
      BY <1>3, <2>1 DEF Commit, EndSession
  <1>4. CASE Abort
    BY <1>4 DEF Abort, EndSession, NoShards
  <1>5. CASE UNCHANGED vars
    BY <1>5 DEF vars, NoShards
  <1> QED
    BY <1>1, <1>2, <1>3, <1>4, <1>5 DEF Next, FlushMeta, FlushShard, LoseShard

\* A session that began on an empty store remembers exactly what it added.
LEMMA WholeSave ==
  ASSUME SInv, WholeInv, pc = "saved"
  PROVE  Stored(view) = added
  <1>1. n \in Counts /\ Layout(n) \subseteq Shards /\ SavedInv
    BY LayoutShards DEF SInv, TypeOK
  <1>2. CASE loaded.meta # 0
    BY <1>2, SessionRemembers DEF SaveRemembers
  <1>3. CASE loaded.meta = 0
    <2>1. \A i \in Layout(n) : view.shard[i] = curr[i]
      BY <1>1, <1>3 DEF WholeInv, NoShards, SavedInv
    <2> QED
      BY <1>1, <2>1, CurrIsAdded DEF Stored, SavedInv
  <1> QED
    BY <1>2, <1>3

\* Every step of the Set is a step of presence tracking.
LEMMA PresenceStep ==
  ASSUME ~Damage
  PROVE  SInv /\ WholeInv /\ [Next]_vars => [Presence!Next]_(Presence!vars)
  <1> SUFFICES ASSUME SInv, WholeInv, [Next]_vars
               PROVE  [Presence!Next]_(Presence!vars)
    OBVIOUS
  <1>1. ASSUME NEW c \in Counts, Load(c) PROVE Presence!Load
    BY <1>1 DEF Load, SInv, Stored, Layout, Presence!Load
  <1>2. ASSUME NEW id \in Ids, Add(id) PROVE Presence!Add(id)
    BY <1>2 DEF Add, Stored, Layout, Presence!Add
  <1>3. ASSUME Save PROVE Presence!Save
    BY <1>3 DEF Save, Stored, Layout, Presence!Save
  <1>4. ASSUME Commit PROVE Presence!Commit
    <2>1. Stored(view) = added
      BY <1>4, WholeSave DEF Commit
    <2> QED
      BY <1>4, <2>1
      DEF Commit, EndSession, Stored, Layout, Presence!Commit, Presence!Finish
  <1>5. ASSUME Abort PROVE Presence!Abort
    BY <1>5
    DEF Abort, EndSession, Stored, Layout, Presence!Abort, Presence!Finish
  <1>6. ASSUME UNCHANGED vars PROVE UNCHANGED Presence!vars
    BY <1>6 DEF vars, Stored, Layout, Presence!vars
  <1> QED
    BY <1>1, <1>2, <1>3, <1>4, <1>5, <1>6
    DEF Next, FlushMeta, FlushShard, LoseShard, Presence!Next

\* Through whole commits, and any changes of the shard count, the sharded set
\* is presence tracking: a full sync starts from exactly the ids of the last
\* committed one, and its commit replaces them by its own.
THEOREM IdsetImplementsPresenceSet ==
  ASSUME ~Damage
  PROVE  Spec => ImplementsPresenceSet
  <1> DEFINE Inv == SInv /\ WholeInv
  <1>1. Init => Inv
    BY InitSInv DEF Init, NoShards, WholeInv
  <1>2. Inv /\ [Next]_vars => Inv'
    BY SInvStep, WholeStep
  <1>3. Init => Presence!Init
    BY LayoutShards DEF Init, NoSession, Stored, Presence!Init
  <1>4. Inv /\ [Next]_vars => [Presence!Next]_(Presence!vars)
    BY PresenceStep
  <1> QED
    BY <1>1, <1>2, <1>3, <1>4, PTL
    DEF Spec, Presence!Spec, ImplementsPresenceSet
=============================================================================
