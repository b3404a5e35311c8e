---------------------------- MODULE Buffer_proof ----------------------------
(***************************************************************************)
(* Proofs about Buffer: its invariants, the action properties of Commit,   *)
(* that it implements StagedStore, and what Each delivers while its        *)
(* callback writes.                                                        *)
(*                                                                         *)
(* OneFatePerKey and FlushedBehind are not inductive one by one: that the  *)
(* sets of Commit do not undo its deletes needs OneFatePerKey, and that    *)
(* CommitDone may reset the buffer needs FlushedBehind. Their conjunction  *)
(* with TypeOK is.                                                         *)
(***************************************************************************)
EXTENDS BufferEach, TLAPS

\* The inductive invariant.
IInv == TypeOK /\ OneFatePerKey /\ FlushedBehind

\* A fresh buffer satisfies the invariant.
LEMMA InitIInv == Init => IInv
  BY AbsentNotAValue DEF Init, IInv, TypeOK, OneFatePerKey, FlushedBehind,
     Written, NoWrites, Cells

\* Every operation of the buffer and every step of Commit preserves types.
LEMMA TypeStep == TypeOK /\ [Next]_vars => TypeOK'
  <1> SUFFICES ASSUME TypeOK, [Next]_vars PROVE TypeOK'
    OBVIOUS
  <1> USE DEF TypeOK, Cells, NoWrites
  <1>1. ASSUME NEW k \in Keys, NEW v \in Values, Set(k, v) PROVE TypeOK'
    BY <1>1 DEF Set
  <1>2. ASSUME NEW k \in Keys, Delete(k) PROVE TypeOK'
    BY <1>2 DEF Delete
  <1>3. CASE Discard
    BY <1>3 DEF Discard, Reset
  <1>4. CASE CommitStart
    BY <1>4 DEF CommitStart, buf
  <1>5. ASSUME NEW k \in Keys, CommitDelete(k) PROVE TypeOK'
    BY <1>5 DEF CommitDelete, buf
  <1>6. CASE CommitDeletesDone
    BY <1>6 DEF CommitDeletesDone, Written, buf
  <1>7. ASSUME NEW k \in Keys, CommitSet(k) PROVE TypeOK'
    BY <1>7 DEF CommitSet, buf
  <1>8. CASE CommitDone
    BY <1>8 DEF CommitDone, Reset
  <1>9. CASE CommitFail
    BY <1>9 DEF CommitFail, buf
  <1>10. CASE Crash
    BY <1>10 DEF Crash, Reset
  <1>11. CASE UNCHANGED vars
    BY <1>11 DEF vars
  <1> QED
    BY <1>1, <1>2, <1>3, <1>4, <1>5, <1>6, <1>7, <1>8, <1>9, <1>10, <1>11
    DEF Next, CommitStep

\* Only Set and Delete give a key a fate, and each takes away the other one.
LEMMA OneFateStep ==
  TypeOK /\ OneFatePerKey /\ [Next]_vars => OneFatePerKey'
  <1> SUFFICES ASSUME TypeOK, OneFatePerKey, [Next]_vars PROVE OneFatePerKey'
    OBVIOUS
  <1> USE DEF TypeOK, OneFatePerKey, Written, NoWrites, Cells
  <1>1. ASSUME NEW k \in Keys, NEW v \in Values, Set(k, v) PROVE OneFatePerKey'
    BY <1>1 DEF Set
  <1>2. ASSUME NEW k \in Keys, Delete(k) PROVE OneFatePerKey'
    BY <1>2 DEF Delete
  <1>3. CASE Discard \/ CommitDone \/ Crash
    BY <1>3 DEF Discard, CommitDone, Crash, Reset
  <1>4. CASE UNCHANGED buf
    BY <1>4 DEF buf
  <1> QED
    BY <1>1, <1>2, <1>3, <1>4
    DEF Next, CommitStep, CommitStart, CommitDelete, CommitDeletesDone,
        CommitSet, CommitFail, vars, buf

\* The loops of Commit leave behind them what the buffer shows.
LEMMA FlushedStep == IInv /\ [Next]_vars => FlushedBehind'
  <1> SUFFICES ASSUME IInv, [Next]_vars PROVE FlushedBehind'
    OBVIOUS
  <1> USE DEF IInv, TypeOK, FlushedBehind, Cells
  <1>1. CASE phase' = "idle"
    BY <1>1
  <1>2. CASE CommitStart
    BY <1>2 DEF CommitStart, buf
  <1>3. ASSUME NEW k \in Keys, CommitDelete(k) PROVE FlushedBehind'
    BY <1>3 DEF CommitDelete, buf
  <1>4. CASE CommitDeletesDone
    BY <1>4 DEF CommitDeletesDone, Written, buf
  <1>5. ASSUME NEW k \in Keys, CommitSet(k) PROVE FlushedBehind'
    <2>1. \A d \in deleted : d # k
      BY <1>5 DEF CommitSet, OneFatePerKey
    <2> QED
      BY <1>5, <2>1 DEF CommitSet, Written, buf
  <1>6. CASE UNCHANGED vars
    BY <1>6 DEF vars, Written
  <1> QED
    BY <1>1, <1>2, <1>3, <1>4, <1>5, <1>6
    DEF Next, CommitStep, Set, Delete, Discard, CommitFail, CommitDone, Crash

\* The whole invariant is preserved by every step.
LEMMA IInvStep == IInv /\ [Next]_vars => IInv'
  BY TypeStep, OneFateStep, FlushedStep DEF IInv

\* The invariants of the buffer hold in every reachable state, for any set of
\* keys and values and through any failure, crash or retry of Commit.
THEOREM BufferInvariant ==
  Spec => [](TypeOK /\ OneFatePerKey /\ FlushedBehind)
  <1>1. IInv => TypeOK /\ OneFatePerKey /\ FlushedBehind
    BY DEF IInv
  <1> QED
    BY InitIInv, IInvStep, <1>1, PTL DEF Spec

-----------------------------------------------------------------------------
(* What Commit may do to the base store and to the view.                   *)

\* A step of Commit, successful or failing, changes the view of no key.
LEMMA KeepViewStep ==
  IInv /\ (CommitStep \/ CommitFail) => \A k \in Keys : View(k)' = View(k)
  <1> SUFFICES ASSUME IInv, CommitStep \/ CommitFail, NEW k \in Keys
               PROVE View(k)' = View(k)
    OBVIOUS
  <1> USE DEF IInv, TypeOK, Cells, View, buf
  <1>1. ASSUME NEW d \in Keys, CommitDelete(d) PROVE View(k)' = View(k)
    BY <1>1 DEF CommitDelete, FlushedBehind
  <1>2. CASE CommitDeletesDone
    BY <1>2 DEF CommitDeletesDone
  <1>3. ASSUME NEW d \in Keys, CommitSet(d) PROVE View(k)' = View(k)
    BY <1>3 DEF CommitSet, FlushedBehind, Written
  <1>4. CASE CommitDone
    BY <1>4 DEF CommitDone, FlushedBehind, Written, Reset, NoWrites
  <1>5. CASE CommitFail
    BY <1>5 DEF CommitFail
  <1> QED
    BY <1>1, <1>2, <1>3, <1>4, <1>5 DEF CommitStep

\* A step that changes the base store is one of Commit, and moves the key to
\* its view.
LEMMA BaseStep ==
  IInv /\ [Next]_vars =>
    \A k \in Keys : base'[k] # base[k] => phase # "idle" /\ base'[k] = View(k)
  <1> SUFFICES ASSUME IInv, [Next]_vars, NEW k \in Keys, base'[k] # base[k]
               PROVE phase # "idle" /\ base'[k] = View(k)
    OBVIOUS
  <1> USE DEF IInv, TypeOK
  <1>1. ASSUME NEW d \in Keys, CommitDelete(d)
        PROVE phase # "idle" /\ base'[k] = View(k)
    BY <1>1 DEF CommitDelete, FlushedBehind, View
  <1>2. ASSUME NEW d \in Keys, CommitSet(d)
        PROVE phase # "idle" /\ base'[k] = View(k)
    <2>1. d \in Written /\ d \notin deleted
      BY <1>2 DEF CommitSet, FlushedBehind, OneFatePerKey
    <2> QED
      BY <1>2, <2>1 DEF CommitSet, View, Written
  <1>3. CASE UNCHANGED base
    BY <1>3
  <1> QED
    BY <1>1, <1>2, <1>3
    DEF Next, CommitStep, Set, Delete, Discard, CommitStart, CommitDeletesDone,
        CommitDone, CommitFail, Crash, vars

\* Nothing a Commit does, a failure half way included, changes what Get
\* returns through the buffer.
THEOREM CommitKeepsTheView == Spec => CommitKeepsView
  BY InitIInv, IInvStep, KeepViewStep, PTL DEF Spec, CommitKeepsView

\* The base store is written by Commit only, and only with the view: before
\* Commit a crash finds the store as the last commit left it.
THEOREM BaseOnlyMovesToView == Spec => BaseMovesOnlyToView
  BY InitIInv, IInvStep, BaseStep, PTL DEF Spec, BaseMovesOnlyToView

-----------------------------------------------------------------------------
(* Buffer implements StagedStore.                                          *)

\* The refinement mapping sends every step to a step of the staged store.
LEMMA RefineStep == IInv /\ [Next]_vars => [Staged!Next]_(Staged!vars)
  <1> SUFFICES ASSUME IInv, [Next]_vars PROVE [Staged!Next]_(Staged!vars)
    OBVIOUS
  <1> DEFINE view == [k \in Keys |-> View(k)]
  <1> USE DEF IInv, TypeOK
  <1>1. ASSUME NEW k \in Keys, NEW v \in Values, Set(k, v)
        PROVE Staged!Write(k, v)
    <2>1. view' = [view EXCEPT ![k] = v]
      BY <1>1, AbsentNotAValue DEF Set, View, Cells
    <2> QED
      BY <1>1, <2>1 DEF Set, Staged!Write
  <1>2. ASSUME NEW k \in Keys, Delete(k) PROVE Staged!Write(k, Absent)
    <2>1. view' = [view EXCEPT ![k] = Absent]
      BY <1>2 DEF Delete, View, Cells
    <2> QED
      BY <1>2, <2>1 DEF Delete, Staged!Write
  <1>3. ASSUME Discard \/ Crash PROVE Staged!Drop
    <2>1. view' = base
      BY <1>3 DEF Discard, Crash, Reset, View, NoWrites
    <2> QED
      BY <1>3, <2>1 DEF Discard, Crash, Staged!Drop
  <1>4. ASSUME CommitStep \/ CommitFail PROVE view' = view
    BY <1>4, KeepViewStep
  <1>5. ASSUME CommitStart PROVE Staged!BeginFlush
    <2>1. view' = view
      BY <1>5 DEF CommitStart, buf, View
    <2> QED
      BY <1>5, <2>1 DEF CommitStart, Staged!BeginFlush
  <1>6. ASSUME NEW k \in Keys, CommitDelete(k) PROVE Staged!FlushKey(k)
    <2>1. View(k) = Absent
      BY <1>6 DEF CommitDelete, FlushedBehind, View
    <2> QED
      BY <1>4, <1>6, <2>1 DEF CommitDelete, CommitStep, Staged!FlushKey
  <1>7. ASSUME NEW k \in Keys, CommitSet(k) PROVE Staged!FlushKey(k)
    <2>1. View(k) = pending[k]
      BY <1>7 DEF CommitSet, FlushedBehind, OneFatePerKey, View, Written
    <2> QED
      BY <1>4, <1>7, <2>1 DEF CommitSet, CommitStep, Staged!FlushKey
  <1>8. ASSUME CommitDeletesDone PROVE UNCHANGED Staged!vars
    BY <1>4, <1>8 DEF CommitDeletesDone, CommitStep, Staged!vars
  <1>9. ASSUME CommitDone PROVE Staged!EndFlush
    <2>1. \A k \in Keys : base[k] = View(k)
      BY <1>9 DEF CommitDone, FlushedBehind, View, Written
    <2>2. base = view
      BY <2>1
    <2> QED
      BY <1>4, <1>9, <2>2 DEF CommitDone, CommitStep, Staged!EndFlush
  <1>10. ASSUME CommitFail PROVE Staged!AbortFlush
    BY <1>4, <1>10 DEF CommitFail, Staged!AbortFlush
  <1>11. ASSUME UNCHANGED vars PROVE UNCHANGED Staged!vars
    BY <1>11 DEF vars, Staged!vars, View
  <1> QED
    BY <1>1, <1>2, <1>3, <1>5, <1>6, <1>7, <1>8, <1>9, <1>10, <1>11
    DEF Next, CommitStep, Staged!Next, Staged!Cells

\* A fresh buffer shows the base store.
LEMMA RefineInit == Init => Staged!Init
  BY DEF Init, Staged!Init, View, NoWrites, Cells, Staged!Cells

\* Through Get the buffer is a staged store: writes are read back at once,
\* become durable key by key during Commit, and all of them are durable when
\* Commit reports success.
THEOREM BufferImplementsStagedStore == Spec => ImplementsStagedStore
  BY InitIInv, IInvStep, RefineInit, RefineStep, PTL
  DEF Spec, Staged!Spec, ImplementsStagedStore

-----------------------------------------------------------------------------
(* Each, with a callback that writes.                                      *)

\* No Commit runs inside an Each, and outside of one nothing is left over.
RangeInv ==
    /\ stage # "off" => phase = "idle"
    /\ stage = "off" =>
        /\ may = {} /\ seen = {}
        /\ item = NoItem /\ delivered = {} /\ rewritten = {}
    /\ stage \in {"off", "pending"} => left = {}
    /\ stage # "pending" => must = {}
    /\ stage = "done" => left = {} /\ item = NoItem

\* The range over the pending map: entries it must produce are there and were
\* not met, the others are new; what is not among them was met or is new.
PendingInv ==
    /\ must \subseteq Written /\ must \cap delivered = {}
    /\ may \subseteq rewritten
    /\ seen \subseteq delivered
    /\ stage = "pending" => delivered = seen /\ Written \subseteq must \cup seen \cup rewritten
    /\ stage \in {"base", "done"} => Written \subseteq seen \cup rewritten

\* The base store: what is still to come was not met there, what is behind was
\* met, or is deleted.
BaseInv ==
    /\ \A k \in left : base[k] # Absent
    /\ left \cap delivered \subseteq seen
    /\ stage \in {"base", "done"} =>
        \A k \in Keys \ left : base[k] # Absent => k \in delivered \cup rewritten \cup deleted

EachInv == EachTypeOK /\ IInv /\ RangeInv /\ PendingInv /\ BaseInv /\ EachShowsView

\* A fresh buffer is not iterated over.
LEMMA InitEachInv == EachInit => EachInv
  BY InitIInv DEF EachInit, EachInv, IInv, EachTypeOK, RangeInv, PendingInv, BaseInv,
     EachShowsView

\* Outside, and in the callback, the steps are those of the buffer.
LEMMA EachIsBuffer == [EachNext]_eachVars => [Next]_vars
  <1>1. ASSUME NEW k \in Keys, CallbackDelete(k) PROVE Next
    BY <1>1 DEF CallbackDelete, Next
  <1>2. ASSUME NEW k \in Keys, NEW v \in Values, CallbackSet(k, v) PROVE Next
    BY <1>2 DEF CallbackSet, Next
  <1> QED
    BY <1>1, <1>2 DEF EachNext, eachVars, Outside, EachStart, NextPending, PendingDone,
       NextBase, EachDone, CallbackContinue, EachReturn

\* What Each gives to the callback has the types of the store.
LEMMA EachTypeStep == EachInv /\ [EachNext]_eachVars => EachTypeOK'
  <1> SUFFICES ASSUME EachInv, [EachNext]_eachVars PROVE EachTypeOK'
    OBVIOUS
  <1>1. TypeOK /\ TypeOK'
    BY EachIsBuffer, TypeStep DEF EachInv, IInv
  <1>2. Written \subseteq Keys /\ \A k \in Written : pending[k] \in Values
    BY <1>1 DEF TypeOK, Cells, Written
  <1>3. \A k \in left : k \in Keys /\ base[k] \in Values
    BY <1>1 DEF EachInv, BaseInv, EachTypeOK, TypeOK, Cells
  <1> USE DEF EachInv, EachTypeOK
  <1>4. ASSUME NEW k \in Keys, NextPending(k) PROVE EachTypeOK'
    BY <1>1, <1>2, <1>4 DEF NextPending, Deliver, Items
  <1>5. ASSUME NEW k \in Keys, NextBase(k) PROVE EachTypeOK'
    <2>1. CASE Hidden(k)
      BY <1>1, <1>5, <2>1 DEF NextBase
    <2>2. CASE ~Hidden(k)
      BY <1>1, <1>3, <1>5, <2>2 DEF NextBase, Deliver, Items
    <2> QED
      BY <2>1, <2>2
  <1>6. ASSUME NEW k \in Keys, CallbackDelete(k) PROVE EachTypeOK'
    BY <1>1, <1>6 DEF CallbackDelete, Return
  <1>7. ASSUME NEW k \in Keys, NEW v \in Values, CallbackSet(k, v) PROVE EachTypeOK'
    BY <1>1, <1>7 DEF CallbackSet, Return
  <1>8. CASE Outside \/ EachStart \/ PendingDone \/ EachDone \/ CallbackContinue \/ EachReturn
             \/ UNCHANGED eachVars
    BY <1>1, <1>2, <1>8 DEF Outside, EachStart, PendingDone, EachDone, CallbackContinue, Return,
       EachReturn, eachVars, each
  <1> QED
    BY <1>4, <1>5, <1>6, <1>7, <1>8 DEF EachNext

\* The two ranges go on over what the callback leaves them.
LEMMA EachRangeStep == EachInv /\ [EachNext]_eachVars => RangeInv' /\ PendingInv' /\ BaseInv'
  <1> SUFFICES ASSUME EachInv, [EachNext]_eachVars PROVE RangeInv' /\ PendingInv' /\ BaseInv'
    OBVIOUS
  <1> USE DEF EachInv, RangeInv, PendingInv, BaseInv
  <1>0. TypeOK /\ OneFatePerKey /\ EachTypeOK
    BY DEF IInv
  <1>1. CASE Outside
    BY <1>0, <1>1 DEF Outside, each, EachTypeOK
  <1>2. CASE EachStart
    BY <1>0, <1>2 DEF EachStart, vars, Written
  <1>3. ASSUME NEW k \in Keys, NextPending(k) PROVE RangeInv' /\ PendingInv' /\ BaseInv'
    BY <1>0, <1>3 DEF NextPending, Deliver, vars, Written
  <1>4. CASE PendingDone
    BY <1>0, <1>4 DEF PendingDone, vars, Written
  <1>5. ASSUME NEW k \in Keys, NextBase(k) PROVE RangeInv' /\ PendingInv' /\ BaseInv'
    <2>1. CASE Hidden(k)
      BY <1>0, <1>5, <2>1 DEF NextBase, Hidden, vars, Written
    <2>2. CASE ~Hidden(k)
      <3>1. /\ stage = "base" /\ stage' = "base" /\ k \in left /\ left' = left \ {k}
            /\ delivered' = delivered \cup {k} /\ k \notin seen
            /\ UNCHANGED <<vars, must, may, seen, rewritten>>
        BY <1>5, <2>2 DEF NextBase, Hidden, Deliver
      <3>2. Written' = Written /\ UNCHANGED <<base, deleted, phase>>
        BY <3>1 DEF vars, Written
      <3>3. must \cap {k} = {}
        BY <1>0, <3>1
      <3> QED
        BY <1>0, <3>1, <3>2, <3>3
    <2> QED
      BY <2>1, <2>2
  <1>6. CASE EachDone
    BY <1>0, <1>6 DEF EachDone, vars, Written
  <1>7. CASE CallbackContinue
    BY <1>0, <1>7 DEF CallbackContinue, Return, vars, Written
  <1>8. CASE EachReturn
    BY <1>0, <1>8 DEF EachReturn, vars, Written
  <1>9. ASSUME NEW k \in Keys, CallbackDelete(k) PROVE RangeInv' /\ PendingInv' /\ BaseInv'
    <2>1. Written' = Written \ {k} /\ deleted' = deleted \cup {k} /\ base' = base
      BY <1>0, <1>9 DEF CallbackDelete, Delete, Written, TypeOK
    <2> QED
      BY <1>0, <1>9, <2>1 DEF CallbackDelete, Delete, Return
  <1>10. ASSUME NEW k \in Keys, NEW v \in Values, CallbackSet(k, v)
         PROVE RangeInv' /\ PendingInv' /\ BaseInv'
    <2>1. Written' = Written \cup {k} /\ deleted' = deleted \ {k} /\ base' = base
      BY <1>0, <1>10, AbsentNotAValue DEF CallbackSet, Set, Written, TypeOK
    <2> QED
      BY <1>0, <1>10, <2>1 DEF CallbackSet, Set, Return
  <1>11. CASE UNCHANGED eachVars
    BY <1>11 DEF eachVars, each, vars, Written
  <1> QED
    BY <1>1, <1>2, <1>3, <1>4, <1>5, <1>6, <1>7, <1>8, <1>9, <1>10, <1>11 DEF EachNext

\* What is found is what Get would return.
LEMMA EachShowsStep == EachInv /\ [EachNext]_eachVars => EachShowsView'
  <1> SUFFICES ASSUME EachInv, [EachNext]_eachVars, item' # NoItem PROVE EachShowsView'
    BY DEF EachShowsView
  <1> USE DEF EachInv, EachShowsView
  <1>0. TypeOK /\ OneFatePerKey /\ EachTypeOK /\ EachTypeOK'
    BY EachTypeStep DEF IInv
  <1>1. ASSUME NEW k \in Keys, NextPending(k) PROVE EachShowsView'
    <2>1. item'.key = k /\ item'.value = pending[k] /\ UNCHANGED vars
      BY <1>1 DEF NextPending, Deliver
    <2>2. View(k)' = pending[k] /\ pending[k] # Absent
      BY <1>0, <1>1, <2>1 DEF NextPending, View, Written, OneFatePerKey, vars
    <2> QED
      BY <2>1, <2>2 DEF View
  <1>2. ASSUME NEW k \in Keys, NextBase(k) PROVE EachShowsView'
    <2>1. ~Hidden(k)
      BY <1>2 DEF NextBase, RangeInv
    <2>2. item'.key = k /\ item'.value = base[k] /\ UNCHANGED vars /\ rewritten' = rewritten
      BY <1>2, <2>1 DEF NextBase, Deliver
    <2>3. base[k] # Absent /\ k \notin deleted /\ (k \in Written => k \in rewritten)
      BY <1>2, <2>1 DEF NextBase, Hidden, BaseInv, PendingInv
    <2>4. View(k)' # Absent /\ (k \notin rewritten => View(k)' = base[k])
      BY <1>0, <2>2, <2>3 DEF View, Written, vars
    <2> QED
      BY <2>2, <2>4 DEF View
  <1>3. CASE Outside
    BY <1>3 DEF Outside, each, RangeInv
  <1>4. CASE EachStart \/ PendingDone \/ EachDone \/ UNCHANGED eachVars
    BY <1>4 DEF EachStart, PendingDone, EachDone, eachVars, each, vars, View, Written
  <1>5. CASE CallbackContinue \/ EachReturn \/ (\E k \in Keys : CallbackDelete(k))
             \/ (\E k \in Keys, v \in Values : CallbackSet(k, v))
    BY <1>5 DEF CallbackContinue, EachReturn, CallbackDelete, CallbackSet, Return
  <1> QED
    BY <1>1, <1>2, <1>3, <1>4, <1>5 DEF EachNext

\* All of it is invariant.
LEMMA EachInvariant == EachSpec => []EachInv
  <1>1. EachInv /\ [EachNext]_eachVars => EachInv'
    BY EachTypeStep, EachRangeStep, EachShowsStep, EachIsBuffer, IInvStep DEF EachInv
  <1> QED
    BY InitEachInv, <1>1, PTL DEF EachSpec

\* Each keeps its types.
THEOREM EachTypes == EachSpec => []EachTypeOK
  <1>1. EachInv => EachTypeOK
    BY DEF EachInv
  <1> QED
    BY EachInvariant, <1>1, PTL

\* Whatever the callback writes and deletes, in whatever order the maps are
\* ranged over, it is given what Get would return, and never a deleted key.
THEOREM EachGivesTheView == EachSpec => []EachShowsView
  <1>1. EachInv => EachShowsView
    BY DEF EachInv
  <1> QED
    BY EachInvariant, <1>1, PTL

\* And an Each that ran to its end missed no key that its callbacks did not make.
THEOREM EachMissesNothing == EachSpec => []EachComplete
  <1>1. EachInv => EachComplete
    BY DEF EachInv, EachTypeOK, EachComplete, RangeInv, PendingInv, BaseInv, View, Written
  <1> QED
    BY EachInvariant, <1>1, PTL

\* Nor did it give one twice.
THEOREM EachRepeatsNothing == EachSpec => EachOnce
  <1>1. EachInv /\ [EachNext]_eachVars =>
            (item = NoItem /\ item' # NoItem => item'.key \notin delivered \ rewritten)
    <2> SUFFICES ASSUME EachInv, [EachNext]_eachVars, item = NoItem, item' # NoItem
                 PROVE  item'.key \notin delivered \ rewritten
      OBVIOUS
    <2>1. PICK k \in Keys : NextPending(k) \/ NextBase(k)
      BY DEF EachNext, eachVars, each, EachInv, RangeInv, Outside, EachStart, PendingDone,
         EachDone, CallbackContinue, EachReturn, CallbackDelete, CallbackSet, Return
    <2>2. CASE NextPending(k)
      BY <2>2 DEF NextPending, Deliver, EachInv, PendingInv
    <2>3. CASE NextBase(k)
      BY <2>3 DEF NextBase, Hidden, Deliver, EachInv, BaseInv
    <2> QED
      BY <2>1, <2>2, <2>3
  <1> QED
    BY EachInvariant, <1>1, PTL DEF EachSpec, EachOnce

\* With iterations the buffer is still the buffer: every theorem about Spec is
\* one about EachSpec.
THEOREM EachKeepsTheBuffer == EachSpec => Spec
  BY EachIsBuffer, PTL DEF EachSpec, EachInit, Spec
=============================================================================
