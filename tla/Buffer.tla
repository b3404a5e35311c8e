------------------------------- MODULE Buffer -------------------------------
(***************************************************************************)
(* entcollect.Buffer (buffer.go): a Store that holds a sync's writes in    *)
(* two maps, pending and deleted, until the adapter calls Commit.          *)
(*                                                                         *)
(* Commit is not atomic: it deletes, then sets, one key of the base store  *)
(* at a time in map order, any of these calls may fail, and the process    *)
(* may die between two of them. Here every call to the base store is a     *)
(* step of its own, with phase and todo the place of the two loops.        *)
(*                                                                         *)
(* Bounds: none are needed, the state is finite for finite Keys, Values.   *)
(***************************************************************************)
EXTENDS FiniteSets

CONSTANTS
    Keys,       \* the keys of the store
    Values,     \* the encoded (JSON) values
    Absent      \* "no such key": ErrKeyNotFound from Get, not in the map

ASSUME AbsentNotAValue == Absent \notin Values

VARIABLES
    base,       \* the adapter's durable store
    pending,    \* Buffer.pending: encoded value per key, Absent if not in the map
    deleted,    \* Buffer.deleted
    phase,      \* "idle", or the loop of Commit that is running
    todo,       \* the keys that loop has not visited yet
    result      \* what Commit returned: "ok" or "error"; "none" while it runs
                \* and once another operation is called

buf == <<pending, deleted>>
vars == <<base, pending, deleted, phase, todo, result>>

Cells == Values \cup {Absent}
NoWrites == [k \in Keys |-> Absent]
Written == {k \in Keys : pending[k] # Absent}

\* Get: a pending delete hides the key, a pending write shadows the base.
View(k) ==
    IF k \in deleted THEN Absent
    ELSE IF pending[k] # Absent THEN pending[k]
    ELSE base[k]

TypeOK ==
    /\ base \in [Keys -> Cells]
    /\ pending \in [Keys -> Cells]
    /\ deleted \in SUBSET Keys
    /\ phase \in {"idle", "deletes", "sets"}
    /\ todo \in SUBSET Keys
    /\ result \in {"none", "ok", "error"}

\* NewBuffer over whatever an earlier run left in the store.
Init ==
    /\ base \in [Keys -> Cells]
    /\ pending = NoWrites
    /\ deleted = {}
    /\ phase = "idle"
    /\ todo = {}
    /\ result = "none"

\* Mutant of Set: without delete(b.deleted, key).
SetKeepsDeleted(k, v) ==
    /\ phase = "idle"
    /\ pending' = [pending EXCEPT ![k] = v]
    /\ result' = "none"
    /\ UNCHANGED <<base, deleted, phase, todo>>

\* Set. A value that does not encode is refused before either map is touched,
\* which is a stuttering step.
Set(k, v) ==
    /\ phase = "idle"
    /\ deleted' = deleted \ {k}
    /\ pending' = [pending EXCEPT ![k] = v]
    /\ result' = "none"
    /\ UNCHANGED <<base, phase, todo>>

\* Mutant of Delete: without delete(b.pending, key).
DeleteKeepsPending(k) ==
    /\ phase = "idle"
    /\ deleted' = deleted \cup {k}
    /\ result' = "none"
    /\ UNCHANGED <<base, pending, phase, todo>>

Delete(k) ==
    /\ phase = "idle"
    /\ pending' = [pending EXCEPT ![k] = Absent]
    /\ deleted' = deleted \cup {k}
    /\ result' = "none"
    /\ UNCHANGED <<base, phase, todo>>

\* Mutant of Reset: pending becomes a map that can hold no key.
ResetToNil ==
    /\ pending' = [k \in {} |-> Absent]
    /\ deleted' = {}

\* Both maps are replaced by empty ones.
Reset ==
    /\ pending' = NoWrites
    /\ deleted' = {}

Discard ==
    /\ phase = "idle"
    /\ Reset
    /\ result' = "none"
    /\ UNCHANGED <<base, phase, todo>>

-----------------------------------------------------------------------------
(* Commit *)

CommitStart ==
    /\ phase = "idle"
    /\ phase' = "deletes"
    /\ todo' = deleted
    /\ result' = "none"
    /\ UNCHANGED <<base, buf>>

CommitDelete(k) ==
    /\ phase = "deletes"
    /\ k \in todo
    /\ base' = [base EXCEPT ![k] = Absent]
    /\ todo' = todo \ {k}
    /\ UNCHANGED <<buf, phase, result>>

\* Mutant of CommitDeletesDone: leaves the first loop early.
CommitDeletesCutShort ==
    /\ phase = "deletes"
    /\ phase' = "sets"
    /\ todo' = Written
    /\ UNCHANGED <<base, buf, result>>

\* The loop over deleted is over, the loop over pending begins.
CommitDeletesDone ==
    /\ phase = "deletes"
    /\ todo = {}
    /\ phase' = "sets"
    /\ todo' = Written
    /\ UNCHANGED <<base, buf, result>>

CommitSet(k) ==
    /\ phase = "sets"
    /\ k \in todo
    /\ base' = [base EXCEPT ![k] = pending[k]]
    /\ todo' = todo \ {k}
    /\ UNCHANGED <<buf, phase, result>>

\* Mutant of CommitFail: the buffer is reset on the error path too.
CommitFailResets ==
    /\ phase # "idle"
    /\ todo # {}
    /\ Reset
    /\ phase' = "idle"
    /\ todo' = {}
    /\ result' = "error"
    /\ UNCHANGED base

\* The base store refuses the key Commit is at: Commit returns the error
\* and leaves the buffer as it is.
CommitFail ==
    /\ phase # "idle"
    /\ todo # {}
    /\ phase' = "idle"
    /\ todo' = {}
    /\ result' = "error"
    /\ UNCHANGED <<base, buf>>

\* Mutant of CommitDone: reports success before the last key is set.
CommitDoneEarly ==
    /\ phase = "sets"
    /\ Reset
    /\ phase' = "idle"
    /\ todo' = {}
    /\ result' = "ok"
    /\ UNCHANGED base

CommitDone ==
    /\ phase = "sets"
    /\ todo = {}
    /\ Reset
    /\ phase' = "idle"
    /\ result' = "ok"
    /\ UNCHANGED <<base, todo>>

\* The process dies and a new one wraps the same base store.
Crash ==
    /\ Reset
    /\ phase' = "idle"
    /\ todo' = {}
    /\ result' = "none"
    /\ UNCHANGED base

CommitStep ==
    \/ \E k \in Keys : CommitDelete(k)
    \/ CommitDeletesDone
    \/ \E k \in Keys : CommitSet(k)
    \/ CommitDone

Next ==
    \/ \E k \in Keys, v \in Values : Set(k, v)
    \/ \E k \in Keys : Delete(k)
    \/ Discard
    \/ CommitStart
    \/ CommitStep
    \/ CommitFail
    \/ Crash

Spec == Init /\ [][Next]_vars

-----------------------------------------------------------------------------
(* Properties *)

\* A key has at most one fate in the buffer. Were a key both pending and
\* deleted, Get would hide a write that Commit then makes durable.
OneFatePerKey == deleted \cap Written = {}

\* Where Commit is, the keys behind it hold in the base store exactly what
\* the buffer shows for them (buffer.go:108-121).
FlushedBehind ==
    /\ phase = "deletes" =>
        /\ todo \subseteq deleted
        /\ \A k \in deleted \ todo : base[k] = Absent
    /\ phase = "sets" =>
        /\ todo \subseteq Written
        /\ \A k \in deleted : base[k] = Absent
        /\ \A k \in Written \ todo : base[k] = pending[k]

\* Commit never changes what a reader sees through the buffer, whether it
\* advances, fails half way or resets the buffer at its end: a retry after a
\* partial flush starts from the same view.
CommitKeepsView ==
    [][CommitStep \/ CommitFail => \A k \in Keys : View(k)' = View(k)]_vars

\* "If the process crashes before Commit, the underlying store is unchanged"
\* (buffer.go:22-23): only a running Commit writes to the base store, and it
\* writes there nothing but the view.
BaseMovesOnlyToView ==
    [][\A k \in Keys : base'[k] # base[k] =>
            phase # "idle" /\ base'[k] = View(k)]_vars

\* The buffer, observed through Get and through what Commit returns, is a
\* staged store: among others, a Commit that returns no error has made
\* everything durable that Get has shown before it.
Staged == INSTANCE StagedStore WITH
    durable <- base,
    view <- [k \in Keys |-> View(k)],
    flushing <- phase # "idle",
    outcome <- result
ImplementsStagedStore == Staged!Spec
=============================================================================
