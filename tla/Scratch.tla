------------------------------ MODULE Scratch -------------------------------
(***************************************************************************)
(* The scratch database (internal/scratch/scratch.go): a temporary file of *)
(* buckets, written in transactions. An edge from one id to another is a   *)
(* key of its own, "from\x00to", and the neighbours of an id are read by   *)
(* scanning the keys that begin with "from\x00".                           *)
(*                                                                         *)
(* Ids are sequences of letters, the numbers from 1, so that one id may be *)
(* the beginning of another; 0 is the separator. A value carries nothing   *)
(* but its key. The file's content and transactions are bbolt's, external. *)
(***************************************************************************)
EXTENDS Naturals, SequencesExt

VARIABLES
    disk,   \* the committed keys of each bucket
    tx,     \* the keys put by the transaction that runs
    file    \* "absent", "open" or "removed"

scratch == <<disk, tx, file>>

Bucket == {"groups", "user_groups", "parent_of"}

Empty == [b \in Bucket |-> {}]

\* Mutant of edgeSep: the ids are run together.
noSep == <<>>

edgeSep == <<0>>

edgeKey(from, to) == from \o edgeSep \o to

edgePrefix(from) == from \o edgeSep

\* A cursor's walk over the keys with the prefix, cut off at its length.
Neighbors(bucket, from) ==
    LET prefix == edgePrefix(from) IN
    {SubSeq(k, Len(prefix) + 1, Len(k)) : k \in {k \in disk[bucket] : IsPrefix(prefix, k)}}

GetJSON(bucket, key) == key \in disk[bucket]

\* The temporary file is created and opened.
OpenDB ==
    /\ file = "absent"
    /\ file' = "open"
    /\ UNCHANGED <<disk, tx>>

\* PutJSON outside a batch: a transaction of its own.
PutJSON(bucket, key) ==
    /\ file = "open"
    /\ disk' = [disk EXCEPT ![bucket] = @ \cup {key}]
    /\ UNCHANGED <<tx, file>>

\* Mutant of TxPut: the key is written without a transaction.
PutDirectly(bucket, keys) ==
    /\ file = "open"
    /\ disk' = [disk EXCEPT ![bucket] = @ \cup keys]
    /\ UNCHANGED <<tx, file>>

\* Tx.PutJSON of a value and Tx.Link of an edge.
TxPut(bucket, keys) ==
    /\ file = "open"
    /\ tx' = [tx EXCEPT ![bucket] = @ \cup keys]
    /\ UNCHANGED <<disk, file>>

\* BatchWrite when its function returned nil.
Commit ==
    /\ disk' = [b \in Bucket |-> disk[b] \cup tx[b]]
    /\ tx' = Empty
    /\ UNCHANGED file

\* Mutant of Close: the file stays.
CloseOnly == tx' = Empty /\ UNCHANGED <<disk, file>>

\* A transaction that runs is rolled back. Closing the database removes its
\* file, what it held can no longer be read. Nothing to do for one not opened.
Close ==
    /\ file' = IF file = "open" THEN "removed" ELSE file
    /\ tx' = Empty
    /\ UNCHANGED disk
=============================================================================
