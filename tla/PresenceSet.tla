---------------------------- MODULE PresenceSet -----------------------------
(***************************************************************************)
(* Presence tracking as a provider relies on it: which entities the last   *)
(* committed full sync saw, and which this one has seen so far. Entities   *)
(* known and not seen are the ones to delete.                              *)
(*                                                                         *)
(* Idset implements this specification when no commit is torn.             *)
(***************************************************************************)
CONSTANT Ids

VARIABLES
    pc,         \* "idle", "syncing", or "saved" and waiting for its commit
    stored,     \* what the last committed sync saw
    known,      \* what this sync started from
    seen        \* what this sync has seen so far

vars == <<pc, stored, known, seen>>

Missing == known \ seen

Init ==
    /\ pc = "idle"
    /\ stored = {}
    /\ known = {}
    /\ seen = {}

Load ==
    /\ pc = "idle"
    /\ pc' = "syncing"
    /\ known' = stored
    /\ seen' = {}
    /\ UNCHANGED stored

Add(id) ==
    /\ pc = "syncing"
    /\ seen' = seen \cup {id}
    /\ UNCHANGED <<pc, stored, known>>

Save ==
    /\ pc = "syncing"
    /\ pc' = "saved"
    /\ UNCHANGED <<stored, known, seen>>

Finish ==
    /\ pc' = "idle"
    /\ known' = {}
    /\ seen' = {}

\* The commit replaces what was stored by what this sync saw.
Commit ==
    /\ pc = "saved"
    /\ stored' = seen
    /\ Finish

Abort ==
    /\ pc # "idle"
    /\ Finish
    /\ UNCHANGED stored

Next ==
    \/ Load
    \/ \E id \in Ids : Add(id)
    \/ Save
    \/ Commit
    \/ Abort

Spec == Init /\ [][Next]_vars
=============================================================================
