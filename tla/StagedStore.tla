---------------------------- MODULE StagedStore ----------------------------
(***************************************************************************)
(* What entcollect promises a sync about its cursor store: the sync reads  *)
(* its own writes in a view, nothing it writes is durable until the        *)
(* adapter asks for a flush, a flush copies the view key by key and may    *)
(* stop half way, and a flush that ends has made the whole view durable.   *)
(* A crash, or a discard, falls back to what is durable.                   *)
(*                                                                         *)
(* Buffer implements this specification.                                   *)
(***************************************************************************)
CONSTANTS
    Keys,       \* the keys of the store
    Values,     \* the encoded values a key may hold
    Absent      \* "no such key" (ErrKeyNotFound)

VARIABLES
    durable,    \* what survives a crash
    view,       \* what a Get through the buffer returns
    flushing,   \* a flush is under way
    outcome     \* "ok" or "error" when a flush has just ended, else "none"

vars == <<durable, view, flushing, outcome>>

Cells == Values \cup {Absent}

TypeOK ==
    /\ durable \in [Keys -> Cells]
    /\ view \in [Keys -> Cells]
    /\ flushing \in BOOLEAN
    /\ outcome \in {"none", "ok", "error"}

Init ==
    /\ durable \in [Keys -> Cells]
    /\ view = durable
    /\ flushing = FALSE
    /\ outcome = "none"

\* A Set (c a value) or a Delete (c = Absent) by the sync.
Write(k, c) ==
    /\ ~flushing
    /\ view' = [view EXCEPT ![k] = c]
    /\ outcome' = "none"
    /\ UNCHANGED <<durable, flushing>>

BeginFlush ==
    /\ ~flushing
    /\ flushing' = TRUE
    /\ outcome' = "none"
    /\ UNCHANGED <<durable, view>>

FlushKey(k) ==
    /\ flushing
    /\ durable' = [durable EXCEPT ![k] = view[k]]
    /\ UNCHANGED <<view, flushing, outcome>>

\* The flush succeeds: it may report success only once it copied every key.
EndFlush ==
    /\ flushing
    /\ durable = view
    /\ flushing' = FALSE
    /\ outcome' = "ok"
    /\ UNCHANGED <<durable, view>>

\* The underlying store refused a key: the view is kept for a retry.
AbortFlush ==
    /\ flushing
    /\ flushing' = FALSE
    /\ outcome' = "error"
    /\ UNCHANGED <<durable, view>>

\* A discard or a crash: the unflushed part of the view is lost.
Drop ==
    /\ view' = durable
    /\ flushing' = FALSE
    /\ outcome' = "none"
    /\ UNCHANGED durable

Next ==
    \/ \E k \in Keys, c \in Cells : Write(k, c)
    \/ BeginFlush
    \/ \E k \in Keys : FlushKey(k)
    \/ EndFlush
    \/ AbortFlush
    \/ Drop

Spec == Init /\ [][Next]_vars
=============================================================================
