------------------------------- MODULE Idset --------------------------------
(***************************************************************************)
(* idset.Set (idset/idset.go): the sharded set of entity ids that a full   *)
(* sync keeps in its store to find out which entities are gone.            *)
(*                                                                         *)
(* A session is one full sync: New and Load, then Add for every entity of  *)
(* the inventory, Missing, and Save. Save goes through a Buffer, so its    *)
(* writes are seen in the view at once and reach the disk key by key, in   *)
(* any order, when the adapter commits (StagedStore; the map order of      *)
(* Buffer.Commit). The commit may stop half way, and the process may die.  *)
(*                                                                         *)
(* Sorting and the JSON form of the id lists are left out. Sets under      *)
(* different prefixes use disjoint keys, so one Set is modelled.           *)
(*                                                                         *)
(* Bounds: none, the state is finite for finite Ids and Counts.            *)
(***************************************************************************)
EXTENDS Integers, FiniteSets

CONSTANTS
    Ids,        \* entity ids
    Hash,       \* their 32 bit FNV-1a hash
    Counts,     \* the shard counts the provider may be configured with
    Damage      \* TRUE: a commit may stop half way, and a shard key may get
                \* lost in the store (TestPartialShardCorruption)

\* New raises any count below one to one.
ASSUME IdsetAssumption ==
    /\ Hash \in [Ids -> Nat]
    /\ Counts \subseteq Nat \ {0}
    /\ Damage \in BOOLEAN

VARIABLES
    disk,       \* the durable keys: meta, 0 if there is no such key, and the
                \* shards, {} if there is no such key (Save writes no empty one)
    view,       \* the same keys as the sync sees them through its Buffer
    pc,         \* "idle", "syncing" (Load .. Save) or "saved" (Save .. Commit)
    n,          \* Set.shards
    prev,       \* Set.prev
    curr,       \* Set.curr
    dirty,      \* Set.dirty, as the set of dirty shards
    loaded,     \* history: the view when Load read it
    added       \* history: the ids Add was called with

set == <<n, prev, curr, dirty>>
vars == <<disk, view, pc, n, prev, curr, dirty, loaded, added>>

\* The numbers of all shards under some layout, and those of a layout of c.
Shards == UNION {0 .. c - 1 : c \in Counts}
Layout(c) == 0 .. c - 1

shard(id, c) == Hash[id] % c

\* Mutant of NoShards: New allocates one shard too few.
OneShardShort == [i \in Shards \ {0} |-> {}]

NoShards == [i \in Shards |-> {}]
Keyspace == [meta : Counts \cup {0}, shard : [Shards -> SUBSET Ids]]

TypeOK ==
    /\ disk \in Keyspace
    /\ view \in Keyspace
    /\ pc \in {"idle", "syncing", "saved"}
    /\ n \in Counts \cup {0}
    /\ (pc # "idle") => n \in Counts
    /\ prev \in [Shards -> SUBSET Ids]
    /\ curr \in [Shards -> SUBSET Ids]
    /\ dirty \in SUBSET Shards
    /\ loaded \in Keyspace
    /\ added \in SUBSET Ids

\* The ids a store remembers: those of the shards its meta key vouches for.
Stored(s) == UNION {s.shard[i] : i \in Layout(s.meta)}

NoSession ==
    /\ n = 0
    /\ prev = NoShards
    /\ curr = NoShards
    /\ dirty = {}
    /\ added = {}

Init ==
    /\ disk = [meta |-> 0, shard |-> NoShards]
    /\ view = disk
    /\ loaded = disk
    /\ pc = "idle"
    /\ NoSession

-----------------------------------------------------------------------------
(* Operations of the Set *)

\* The shards Load reads, as they are found under the configured count.
loadDirect(s) == [i \in Shards |-> IF i \in Layout(s.meta) THEN s.shard[i] ELSE {}]

\* Mutant of loadRehash: the ids stay in the shard they were found in.
loadRehashInPlace(s, c) ==
    [i \in Shards |-> IF i \in Layout(s.meta) THEN s.shard[i] ELSE {}]

\* The stored ids, hashed again for c shards.
loadRehash(s, c) ==
    [i \in Shards |-> {id \in Stored(s) : shard(id, c) = i}]

\* New(c), then Load: a no-op without a meta key.
Load(c) ==
    /\ pc = "idle"
    /\ pc' = "syncing"
    /\ n' = c
    /\ prev' = IF view.meta = c THEN loadDirect(view) ELSE loadRehash(view, c)
    /\ dirty' = IF view.meta \in {0, c} THEN {} ELSE Layout(c)
    /\ curr' = NoShards
    /\ loaded' = view
    /\ added' = {}
    /\ UNCHANGED <<disk, view>>

\* Mutant of Add: a new id does not mark its shard.
AddClean(id) ==
    LET i == shard(id, n) IN
    /\ pc = "syncing"
    /\ curr' = [curr EXCEPT ![i] = @ \cup {id}]
    /\ added' = added \cup {id}
    /\ UNCHANGED <<disk, view, pc, n, prev, dirty, loaded>>

Add(id) ==
    LET i == shard(id, n) IN
    /\ pc = "syncing"
    /\ curr' = [curr EXCEPT ![i] = @ \cup {id}]
    /\ dirty' = IF id \in prev[i] THEN dirty ELSE dirty \cup {i}
    /\ added' = added \cup {id}
    /\ UNCHANGED <<disk, view, pc, n, prev, loaded>>

WasPresent(id) == id \in prev[shard(id, n)]

\* Mutant of Missing: only the shards known to have changed are compared.
MissingOfDirty == UNION {prev[i] \ curr[i] : i \in dirty}

Missing == UNION {prev[i] \ curr[i] : i \in Layout(n)}

\* Mutant of Changed: the first loop of Save is missing.
ChangedByAdd == dirty

\* The shards Save finds dirty: those marked so far and those that lost an id.
Changed == dirty \cup {i \in Layout(n) : ~(prev[i] \subseteq curr[i])}

\* Save: the meta key, then every changed shard, an empty one being deleted.
Save ==
    /\ pc = "syncing"
    /\ pc' = "saved"
    /\ dirty' = Changed
    /\ view' = [meta |-> n,
                shard |-> [i \in Shards |->
                    IF i \in Changed THEN curr[i] ELSE view.shard[i]]]
    /\ UNCHANGED <<disk, n, prev, curr, loaded, added>>

-----------------------------------------------------------------------------
(* The store under the Set: the adapter's commit, crashes, lost keys *)

EndSession ==
    /\ pc' = "idle"
    /\ n' = 0
    /\ prev' = NoShards
    /\ curr' = NoShards
    /\ dirty' = {}
    /\ added' = {}
    /\ UNCHANGED loaded

\* The commit flushes one key and may yet stop.
FlushMeta ==
    /\ Damage
    /\ pc = "saved"
    /\ disk' = [disk EXCEPT !.meta = view.meta]
    /\ UNCHANGED <<view, pc, set, loaded, added>>

FlushShard(i) ==
    /\ Damage
    /\ pc = "saved"
    /\ disk' = [disk EXCEPT !.shard[i] = view.shard[i]]
    /\ UNCHANGED <<view, pc, set, loaded, added>>

\* The commit reaches its end.
Commit ==
    /\ pc = "saved"
    /\ disk' = view
    /\ EndSession
    /\ UNCHANGED view

\* The sync fails, its buffer is discarded, or the process dies; without
\* Damage this does not happen between two keys of a commit.
Abort ==
    /\ pc # "idle"
    /\ view' = disk
    /\ EndSession
    /\ UNCHANGED disk

\* A shard key disappears from the store between two syncs.
LoseShard(i) ==
    /\ Damage
    /\ pc = "idle"
    /\ disk' = [disk EXCEPT !.shard[i] = {}]
    /\ view' = disk'
    /\ UNCHANGED <<pc, set, loaded, added>>

Next ==
    \/ \E c \in Counts : Load(c)
    \/ \E id \in Ids : Add(id)
    \/ Save
    \/ FlushMeta
    \/ \E i \in Shards : FlushShard(i)
    \/ Commit
    \/ Abort
    \/ \E i \in Shards : LoseShard(i)

Spec == Init /\ [][Next]_vars

-----------------------------------------------------------------------------
(* Properties *)

\* "No spurious deletions" (idset_test.go, TestPartialShardCorruption): an id
\* that was Add-ed in this sync is never among the Missing ones, whatever was
\* left in the store by earlier syncs.
NoSpuriousDeletion == Missing \cap added = {}

\* Every id the store remembered and this sync did not see is Missing, so
\* its entity is deleted downstream.
NoMissedDeletion == pc # "idle" => Stored(loaded) \ added \subseteq Missing

\* WasPresent, which picks "modified" over "discovered", says yes exactly for
\* the ids the store remembered.
RecallExact ==
    pc # "idle" => \A id \in Ids : WasPresent(id) <=> id \in Stored(loaded)

\* What the store remembers after Save, although only the dirty shards are
\* written: every id of this sync, and no other one if the session began on
\* a store with a meta key. Without one, shards of a torn first commit may
\* add ids that were published by that sync.
SaveRemembers ==
    pc = "saved" =>
        /\ added \subseteq Stored(view)
        /\ loaded.meta # 0 => Stored(view) = added

\* Where an id is: in the shard its hash gives under the layout that a later
\* Load will read it with, which is any layout if there is no meta key.
Coherent(s) ==
    \A c \in Counts : s.meta \in {0, c} =>
        \A i \in Layout(c) : \A id \in s.shard[i] : shard(id, c) = i

\* One full Save repairs a store whose shards a torn commit left behind under
\* two layouts, or that lost shards: afterwards every id is in its place.
SaveRepairs == pc = "saved" /\ loaded.meta # 0 => Coherent(view)

\* Presence tracking as providers rely on it.
Presence == INSTANCE PresenceSet WITH
    stored <- Stored(disk),
    known <- IF pc = "idle" THEN {} ELSE Stored(loaded),
    seen <- added
ImplementsPresenceSet == Presence!Spec
=============================================================================
