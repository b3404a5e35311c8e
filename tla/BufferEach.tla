----------------------------- MODULE BufferEach -----------------------------
(***************************************************************************)
(* Buffer.Each (buffer.go:77-102): the iteration over what is visible      *)
(* through the buffer, first the live pending map, then the base store     *)
(* without the keys met in the first part and the deleted ones. The        *)
(* callback is the caller's code: it may itself write to the buffer.       *)
(*                                                                         *)
(* Go leaves the order of a map range open. Entries removed before they    *)
(* are reached are not produced, entries created meanwhile may or may not  *)
(* be: must and may keep these two kinds of entries apart. The base store  *)
(* does not change, as no Commit runs inside an Each.                      *)
(*                                                                         *)
(* The module takes Buffer over: outside an Each, its steps are Buffer's.  *)
(* Bound: a callback performs at most one operation on the buffer.         *)
(***************************************************************************)
EXTENDS Buffer

VARIABLES
    stage,      \* "off", the part that is running ("pending", "base"), or
                \* "done": Each went through both parts, and returns
    must, may,  \* pending keys the range will, respectively can, produce
    left,       \* base keys not reached yet
    seen,       \* Each's seen
    item,       \* what the running callback was given, or NoItem
    delivered,  \* history: the keys given to callbacks
    rewritten   \* history: the keys Set by callbacks

each == <<stage, must, may, left, seen, item, delivered, rewritten>>
eachVars == <<vars, each>>

NoItem == [key |-> Absent, value |-> Absent]
Items == [key : Keys, value : Values]

EachTypeOK ==
    /\ TypeOK
    /\ stage \in {"off", "pending", "base", "done"}
    /\ must \in SUBSET Keys
    /\ may \in SUBSET Keys
    /\ left \in SUBSET Keys
    /\ seen \in SUBSET Keys
    /\ item \in Items \cup {NoItem}
    /\ delivered \in SUBSET Keys
    /\ rewritten \in SUBSET Keys

EachInit ==
    /\ Init
    /\ stage = "off"
    /\ must = {} /\ may = {} /\ left = {} /\ seen = {}
    /\ item = NoItem
    /\ delivered = {} /\ rewritten = {}

\* Outside an Each.
Outside ==
    /\ stage = "off"
    /\ Next
    /\ UNCHANGED each

\* Each is not called while a Commit runs.
EachStart ==
    /\ stage = "off"
    /\ phase = "idle"
    /\ stage' = "pending"
    /\ must' = Written
    /\ UNCHANGED <<vars, may, left, seen, item, delivered, rewritten>>

\* fn is called with a key and the value it was found with.
Deliver(k, v) ==
    /\ item' = [key |-> k, value |-> v]
    /\ delivered' = delivered \cup {k}

\* Mutant of NextPending: keys of the pending map are not noted as seen.
NextPendingUnseen(k) ==
    /\ stage = "pending"
    /\ item = NoItem
    /\ k \in (must \cup may) \cap Written
    /\ must' = must \ {k}
    /\ may' = may \ {k}
    /\ Deliver(k, pending[k])
    /\ UNCHANGED <<vars, stage, left, seen, rewritten>>

NextPending(k) ==
    /\ stage = "pending"
    /\ item = NoItem
    /\ k \in (must \cup may) \cap Written
    /\ must' = must \ {k}
    /\ may' = may \ {k}
    /\ seen' = seen \cup {k}
    /\ Deliver(k, pending[k])
    /\ UNCHANGED <<vars, stage, left, rewritten>>

PendingDone ==
    /\ stage = "pending"
    /\ item = NoItem
    /\ must = {}
    /\ stage' = "base"
    /\ left' = {k \in Keys : base[k] # Absent}
    /\ UNCHANGED <<vars, must, may, seen, item, delivered, rewritten>>

\* Mutant of Hidden: the deleted keys are not skipped.
HiddenIfSeen(k) == k \in seen

Hidden(k) == k \in seen \/ k \in deleted

NextBase(k) ==
    /\ stage = "base"
    /\ item = NoItem
    /\ k \in left
    /\ left' = left \ {k}
    /\ IF Hidden(k) THEN UNCHANGED <<item, delivered>> ELSE Deliver(k, base[k])
    /\ UNCHANGED <<vars, stage, must, may, seen, rewritten>>

\* Mutant of EachDone: the base store is left before its end.
EachDoneEarly ==
    /\ stage = "base"
    /\ item = NoItem
    /\ stage' = "done"
    /\ UNCHANGED <<vars, must, may, left, seen, item, delivered, rewritten>>

EachDone ==
    /\ stage = "base"
    /\ item = NoItem
    /\ left = {}
    /\ stage' = "done"
    /\ UNCHANGED <<vars, must, may, left, seen, item, delivered, rewritten>>

-----------------------------------------------------------------------------
(* The callback, and the return of Each *)

Return == item # NoItem /\ item' = NoItem

CallbackContinue ==
    /\ Return
    /\ UNCHANGED <<vars, stage, must, may, left, seen, delivered, rewritten>>

\* Each went through both parts, or fn returned false or an error.
EachReturn ==
    /\ stage = "done" \/ item # NoItem
    /\ stage' = "off"
    /\ must' = {} /\ may' = {} /\ left' = {} /\ seen' = {}
    /\ item' = NoItem
    /\ delivered' = {} /\ rewritten' = {}
    /\ UNCHANGED vars

\* A Delete takes the key out of the map range.
CallbackDelete(k) ==
    /\ Return
    /\ Delete(k)
    /\ must' = must \ {k}
    /\ may' = may \ {k}
    /\ UNCHANGED <<stage, left, seen, delivered, rewritten>>

\* A Set of a key that is not in the map makes a new entry.
CallbackSet(k, v) ==
    /\ Return
    /\ Set(k, v)
    /\ may' = IF k \in Written THEN may ELSE may \cup {k}
    /\ rewritten' = rewritten \cup {k}
    /\ UNCHANGED <<stage, must, left, seen, delivered>>

EachNext ==
    \/ Outside
    \/ EachStart
    \/ \E k \in Keys : NextPending(k)
    \/ PendingDone
    \/ \E k \in Keys : NextBase(k)
    \/ EachDone
    \/ CallbackContinue
    \/ EachReturn
    \/ \E k \in Keys : CallbackDelete(k)
    \/ \E k \in Keys, v \in Values : CallbackSet(k, v)

EachSpec == EachInit /\ [][EachNext]_eachVars

-----------------------------------------------------------------------------
(* Properties *)

\* "Each iterates all key-value pairs visible through the buffer: base keys not
\* shadowed by a pending delete, plus pending writes" (buffer.go:73-74): a
\* callback that deletes and writes keys while Each runs is still never given a
\* key that is deleted, and what it is given for a key is what Get would return
\* for it at that moment. The value of a key that an earlier callback has Set is
\* excepted: if it was in the base store only, and Each is past the pending map,
\* the callback is given its old value.
EachShowsView ==
    item # NoItem =>
        /\ View(item.key) # Absent
        /\ item.key \notin rewritten => item.value = View(item.key)

\* No key is given to the callback twice, not even one that is both pending
\* and in the base store, unless a callback has Set it meanwhile.
EachOnce ==
    [][item = NoItem /\ item' # NoItem =>
            item'.key \notin delivered \ rewritten]_eachVars

\* Each that ran to its end gave every visible key to the callback, except
\* those that callbacks made; deletes by the callback do not lose other keys.
EachComplete ==
    stage = "done" =>
        \A k \in Keys : View(k) # Absent => k \in delivered \cup rewritten
=============================================================================
