--------------------------- MODULE JamfSync_proof ---------------------------
(***************************************************************************)
(* A Jamf sync emits all current devices and deletes the absent ones, for  *)
(* any number of devices and any page size.                                *)
(***************************************************************************)
EXTENDS JamfSync, FiniteSetTheorems, TLAPS

-----------------------------------------------------------------------------
(* Ranks, and the pages cut from them *)

Before(d) == {x \in inventory : x < d}

LEMMA DevicesAreFinite == IsFiniteSet(Devices) /\ \A S \in SUBSET Devices : IsFiniteSet(S)
  <1>1. IsFiniteSet(Devices)
    BY FS_Interval, JamfSyncAssumption DEF Devices
  <1> QED
    BY <1>1, FS_Subset

\* A later device has a higher rank, and every rank is below the total.
LEMMA RankIsMonotonic ==
    ASSUME inventory \in SUBSET Devices, NEW d \in inventory
    PROVE  /\ Rank(d) \in Nat /\ Rank(d) < Cardinality(inventory)
           /\ \A e \in inventory : d < e => Rank(d) < Rank(e)
  <1>0. Devices \subseteq Int /\ IsFiniteSet(inventory)
    BY DevicesAreFinite DEF Devices
  <1>1. \A e : IsFiniteSet(Before(e)) /\ Cardinality(Before(e)) \in Nat
    BY <1>0, FS_Subset, FS_CardinalityType DEF Before
  <1>2. ASSUME NEW T \in SUBSET inventory, Before(d) \subseteq T, d \in T
        PROVE  Cardinality(Before(d)) < Cardinality(T)
    <2>1. d \notin Before(d)
      BY <1>0 DEF Before
    <2>2. IsFiniteSet(T) /\ Cardinality(T) \in Nat
      BY <1>0, FS_Subset, FS_CardinalityType
    <2>3. Cardinality(Before(d)) <= Cardinality(T)
      BY <1>2, <2>2, FS_Subset
    <2>4. Cardinality(Before(d)) # Cardinality(T)
      BY <1>2, <2>1, <2>2, FS_Subset
    <2> QED
      BY <1>1, <2>2, <2>3, <2>4
  <1>3. Cardinality(Before(d)) < Cardinality(inventory)
    BY <1>2 DEF Before
  <1>4. ASSUME NEW e \in inventory, d < e PROVE Cardinality(Before(d)) < Cardinality(Before(e))
    <2>1. d \in Int /\ e \in Int /\ \A x \in inventory : x \in Int
      BY <1>0
    <2>2. \A x \in inventory : x < d => x < e
      BY <1>4, <2>1
    <2>3. Before(d) \subseteq Before(e)
      BY <2>2 DEF Before
    <2>4. d \in Before(e) /\ Before(e) \in SUBSET inventory
      BY <1>4 DEF Before
    <2> QED
      BY <1>2, <2>3, <2>4
  <1>5. \A e : Rank(e) = Cardinality(Before(e))
    BY DEF Rank, Before
  <1> QED
    BY <1>1, <1>3, <1>4, <1>5

\* So no two devices share a rank.
LEMMA RankIsInjective ==
    ASSUME inventory \in SUBSET Devices, NEW S \in SUBSET inventory, NEW T,
           \A d \in S : Rank(d) \in T
    PROVE  [d \in S |-> Rank(d)] \in Injection(S, T)
  <1>1. ASSUME NEW d \in S, NEW e \in S, Rank(d) = Rank(e) PROVE d = e
    <2>1. d \in Int /\ e \in Int
      BY DEF Devices
    <2> QED
      BY <1>1, <2>1, RankIsMonotonic
  <1> QED
    BY <1>1 DEF Injection, IsInjective

\* A page has no more devices than it may have.
LEMMA PageIsBounded ==
    ASSUME inventory \in SUBSET Devices, NEW p \in Nat
    PROVE  Cardinality(PageOf(p)) \in Nat /\ Cardinality(PageOf(p)) <= PageSize
  <1> DEFINE T == p * PageSize .. (p + 1) * PageSize - 1
  <1>1. p * PageSize \in Int /\ (p + 1) * PageSize = p * PageSize + PageSize /\ PageSize \in Nat \ {0}
    BY JamfSyncAssumption
  <1>2. IsFiniteSet(T) /\ Cardinality(T) = PageSize
    BY <1>1, FS_Interval
  <1>3. [d \in PageOf(p) |-> Rank(d)] \in Injection(PageOf(p), T)
    BY RankIsInjective DEF PageOf
  <1> QED
    BY <1>2, <1>3, FS_Injection, FS_CardinalityType

\* If a device is on this page or a later one, this page is not empty: every
\* rank below the total is some device's.
LEMMA PageIsNotEmpty ==
    ASSUME inventory \in SUBSET Devices, NEW p \in Nat,
           NEW d \in inventory, Rank(d) >= p * PageSize
    PROVE  PageOf(p) # {}
  <1> DEFINE n == Cardinality(inventory)
             T == 0 .. n - 1
             f == [x \in inventory |-> Rank(x)]
  <1>1. IsFiniteSet(inventory) /\ n \in Nat
    BY DevicesAreFinite, FS_CardinalityType
  <1>2. IsFiniteSet(T) /\ Cardinality(T) = n
    <2>1. \A a, b \in Int : IsFiniteSet(a .. b)
                              /\ Cardinality(a .. b) = IF a > b THEN 0 ELSE b - a + 1
      BY FS_Interval
    <2> HIDE DEF n
    <2> QED
      BY <1>1, <2>1
  <1>3. \A x \in inventory : Rank(x) \in T
    BY <1>1, RankIsMonotonic
  <1>4. f \in Injection(inventory, T)
    BY <1>3, RankIsInjective
  <1>5. f \in Surjection(inventory, T)
    BY <1>2, <1>4, FS_Injection
  <1>6. /\ p * PageSize \in Nat /\ (p + 1) * PageSize = p * PageSize + PageSize
        /\ PageSize \in Nat \ {0}
    BY JamfSyncAssumption
  <1>7. p * PageSize \in T
    BY <1>1, <1>3, <1>6
  <1>8. PICK x \in inventory : Rank(x) = p * PageSize
    BY <1>5, <1>7 DEF Surjection
  <1>9. x \in PageOf(p)
    BY <1>6, <1>8 DEF PageOf
  <1> QED
    BY <1>9

-----------------------------------------------------------------------------
(* The invariant *)

LEMMA PagesAdvance ==
    ASSUME NEW p \in Nat
    PROVE  p * PageSize \in Nat /\ (p + 1) * PageSize = p * PageSize + PageSize
           /\ PageSize \in Nat \ {0}
  BY JamfSyncAssumption

\* The rank the sync has read up to, the page it is publishing included.
ReadUpTo == (IF pc = "fetch" THEN page ELSE page + 1) * PageSize

\* Where the sync is, and what it then has in hand.
ControlInv ==
    /\ pc = "fetch" => batch = {} /\ ~last
    /\ pc \in {"deletions", "saved"} => batch = {} /\ last
    /\ pc # "deletions" => gone = {}
    /\ gone \cap seen = {}
    /\ pc \in {"fetch", "publish"} => total <= ReadUpTo

InBatch(d) == \E r \in batch : r.device = d

\* What was fetched, and what was published, of a device that did not change is
\* what the server has; a device that was never there is in neither.
PublishedInv ==
    pc # "idle" =>
        /\ \A r \in batch : r.device \in steady =>
                r.device \in inventory /\ (r.isManaged <=> r.device \in managed)
        /\ \A d \in seen \cap steady :
                d \in inventory /\ (d \in down <=> d \in managed)

\* A device that neither changed nor was shifted was read, or its rank is not
\* reached yet.
ListedInv ==
    pc # "idle" =>
        \A d \in (steady \cap inventory) \ (NoUDID \cup shifted) :
            \/ d \in seen
            \/ InBatch(d)
            \/ pc \in {"fetch", "publish"} /\ ~last /\ Rank(d) >= ReadUpTo

\* Of what the id set remembers and the sync did not see nothing is left
\* downstream but what still waits for its deletion.
DeletedInv == pc \in {"deletions", "saved"} => \A d \in ids \ seen : d \in gone \/ d \notin down

IInv == TypeOK /\ ControlInv /\ PublishedInv /\ ListedInv /\ DeletedInv

LEMMA InitEstablishes == Init => IInv
  <1> SUFFICES ASSUME Init PROVE IInv
    OBVIOUS
  <1>1. TypeOK
    BY DEF Init, NoSync, TypeOK
  <1>2. ControlInv /\ PublishedInv /\ ListedInv /\ DeletedInv
    BY DEF Init, NoSync, ControlInv, PublishedInv, ListedInv, DeletedInv
  <1> QED
    BY <1>1, <1>2 DEF IInv

-----------------------------------------------------------------------------
(* Types *)

LEMMA TypesPreserved == TypeOK /\ [Next]_vars => TypeOK'
  <1> SUFFICES ASSUME TypeOK, [Next]_vars PROVE TypeOK'
    OBVIOUS
  <1> USE DEF TypeOK
  <1>1. ASSUME NEW d \in Devices, Enrol(d) \/ Retire(d) \/ SwitchManaged(d) PROVE TypeOK'
    BY <1>1 DEF Enrol, Retire, SwitchManaged, Changed, progress
  <1>2. CASE Start
    BY <1>2 DEF Start, world
  <1>3. CASE FetchPage
    <2> DEFINE results == PageOf(page)
    <2>1. results \in SUBSET Devices
      BY DEF PageOf
    <2>2. Cardinality(results) \in Nat
      BY PageIsBounded
    <2>3. batch' \in SUBSET [device : Devices, isManaged : BOOLEAN]
      <3>1. batch' = {[device |-> d, isManaged |-> d \in managed] : d \in results}
        BY <1>3 DEF FetchPage
      <3> HIDE DEF results
      <3>2. ASSUME NEW d \in results
            PROVE  [device |-> d, isManaged |-> d \in managed] \in [device : Devices, isManaged : BOOLEAN]
        <4>1. d \in Devices /\ (d \in managed) \in BOOLEAN
          BY <2>1
        <4> QED
          BY <4>1
      <3> QED
        BY <3>1, <3>2
    <2>4. total' \in Nat /\ last' \in BOOLEAN
      BY <1>3, <2>2 DEF FetchPage, IsLast
    <2> QED
      BY <1>3, <2>3, <2>4 DEF FetchPage, world, history
  <1>4. ASSUME NEW r \in batch, Publish(r) PROVE TypeOK'
    BY <1>4 DEF Publish, world, history
  <1>5. CASE NextPage
    BY <1>5 DEF NextPage, world, history
  <1>6. CASE PagesDone
    BY <1>6 DEF PagesDone, Missing, world, history
  <1>7. ASSUME NEW d \in gone, PublishDeletion(d) PROVE TypeOK'
    BY <1>7 DEF PublishDeletion, world, history
  <1>8. CASE Save
    BY <1>8 DEF Save, world, progress, history
  <1>9. CASE Commit \/ Abort
    <2>1. End /\ UNCHANGED <<world, down>> /\ (ids' = seen \/ ids' = ids)
      BY <1>9 DEF Commit, Abort
    <2>2. ids' \in SUBSET (Devices \ NoUDID)
      BY <2>1
    <2> QED
      BY <2>1, <2>2 DEF End, world
  <1>10. CASE UNCHANGED vars
    BY <1>10 DEF vars, world, progress, history
  <1> QED
    BY <1>1, <1>2, <1>3, <1>4, <1>5, <1>6, <1>7, <1>8, <1>9, <1>10 DEF Next, DoSync

-----------------------------------------------------------------------------
(* The inventory changes *)

\* A rank falls only for the devices behind one that leaves.
LEMMA RankRises ==
    ASSUME inventory \in SUBSET Devices, inventory' \in SUBSET Devices,
           NEW d \in inventory, d \in inventory',
           \A x \in inventory : x < d => x \in inventory'
    PROVE  Rank(d) \in Nat /\ Rank(d)' \in Nat /\ Rank(d)' >= Rank(d)
  <1> DEFINE B == {x \in inventory : x < d}
             C == {x \in inventory' : x < d}
  <1>1. IsFiniteSet(C) /\ B \subseteq C
    BY DevicesAreFinite
  <1>2. Cardinality(B) \in Nat /\ Cardinality(C) \in Nat /\ Cardinality(B) <= Cardinality(C)
    BY <1>1, FS_Subset, FS_CardinalityType
  <1> QED
    BY <1>2 DEF Rank

LEMMA InventoryPreserves ==
    ASSUME IInv, TypeOK', NEW d \in Devices, Enrol(d) \/ Retire(d) \/ SwitchManaged(d)
    PROVE  IInv'
  <1> USE DEF IInv, TypeOK
  <1>1. /\ UNCHANGED <<down, ids, pc, page, total, last, batch, seen, gone>>
        /\ steady' = steady \ {d}
    BY DEF Enrol, Retire, SwitchManaged, Changed, progress
  <1>2. \A x \in Devices : x # d => (x \in inventory' <=> x \in inventory)
                                  /\ (x \in managed' <=> x \in managed)
    BY DEF Enrol, Retire, SwitchManaged
  <1>3. ControlInv' /\ DeletedInv'
    BY <1>1 DEF ControlInv, DeletedInv, ReadUpTo
  <1>4. PublishedInv'
    BY <1>1, <1>2 DEF PublishedInv
  <1>5. ASSUME pc # "idle",
               NEW x \in ((steady \cap inventory) \ (NoUDID \cup shifted))'
        PROVE  x \in (steady \cap inventory) \ (NoUDID \cup shifted) /\ Rank(x)' >= Rank(x)
               /\ Rank(x) \in Nat /\ Rank(x)' \in Nat
    <2>1. x \in Devices /\ x # d /\ x \in steady /\ x \in inventory /\ x \in inventory'
      BY <1>1, <1>2
    <2>2. x \notin shifted /\ x \notin NoUDID
      BY <1>5 DEF Enrol, Retire, SwitchManaged
    <2>3. \A y \in inventory : y < x => y \in inventory'
      <3>1. CASE Retire(d)
        <4>1. ~(x > d)
          BY <1>5, <2>1, <3>1 DEF Retire
        <4>2. x \in Int /\ d \in Int
          BY <2>1 DEF Devices
        <4> QED
          BY <1>2, <4>1, <4>2
      <3>2. CASE Enrol(d) \/ SwitchManaged(d)
        BY <3>2 DEF Enrol, SwitchManaged
      <3> QED
        BY <3>1, <3>2
    <2> QED
      BY <2>1, <2>2, <2>3, RankRises
  <1>6. ReadUpTo \in Nat /\ ReadUpTo' = ReadUpTo
    BY <1>1, PagesAdvance DEF ReadUpTo
  <1>7. ListedInv'
    BY <1>1, <1>5, <1>6 DEF ListedInv, InBatch
  <1> QED
    BY <1>3, <1>4, <1>7 DEF IInv

-----------------------------------------------------------------------------
(* The sync's steps *)

LEMMA FetchPreserves == ASSUME IInv, TypeOK', FetchPage PROVE IInv'
  <1> USE DEF IInv, TypeOK
  <1> DEFINE results == PageOf(page)
  <1>1. /\ pc = "fetch" /\ pc' = "publish" /\ batch = {} /\ ~last
        /\ total' = total + Cardinality(results)
        /\ last' = IsLast(results, total')
        /\ UNCHANGED <<inventory, managed, down, ids, page, seen, gone, steady, shifted>>
    BY DEF FetchPage, ControlInv, world, history
  <1>2. batch' = {[device |-> d, isManaged |-> d \in managed] : d \in results}
    BY DEF FetchPage
  <1>3. /\ page * PageSize \in Nat /\ PageSize \in Nat
        /\ (page + 1) * PageSize = page * PageSize + PageSize
    BY PagesAdvance
  <1>4. Cardinality(results) \in Nat /\ Cardinality(results) <= PageSize
    BY PageIsBounded
  <1>5. ReadUpTo = page * PageSize /\ ReadUpTo' = page * PageSize + PageSize
    BY <1>1, <1>3 DEF ReadUpTo
  <1>6. total' <= ReadUpTo'
    BY <1>1, <1>3, <1>4, <1>5 DEF ControlInv
  <1>7. ControlInv' /\ DeletedInv'
    BY <1>1, <1>6 DEF ControlInv, DeletedInv
  <1>8. PublishedInv'
    <2>1. results \subseteq inventory
      BY DEF PageOf
    <2>2. ASSUME NEW r \in batch' PROVE r.device \in inventory /\ (r.isManaged <=> r.device \in managed)
      BY <1>2, <2>1, <2>2
    <2> QED
      BY <1>1, <2>2 DEF PublishedInv
  <1>9. ASSUME NEW d \in results PROVE InBatch(d)'
    <2>1. [device |-> d, isManaged |-> d \in managed] \in batch'
      BY <1>2
    <2> QED
      BY <2>1 DEF InBatch
  <1>10. ASSUME NEW d \in inventory, Rank(d) >= page * PageSize, d \notin results
         PROVE  ~last' /\ Rank(d)' >= ReadUpTo'
    <2>1. Rank(d) \in Nat /\ Rank(d) < Cardinality(inventory) /\ Cardinality(inventory) \in Nat
      BY RankIsMonotonic, DevicesAreFinite, FS_CardinalityType
    <2>2. Rank(d) >= page * PageSize + PageSize
      BY <1>3, <1>10, <2>1 DEF PageOf
    <2>3. results # {}
      BY <1>10, PageIsNotEmpty
    <2>4. ~(total' >= Cardinality(inventory))
      BY <1>3, <1>5, <1>6, <2>1, <2>2
    <2>5. Rank(d)' = Rank(d)
      BY <1>1 DEF Rank
    <2> QED
      BY <1>1, <1>5, <2>2, <2>3, <2>4, <2>5 DEF IsLast
  <1>11. ListedInv'
    <2> SUFFICES ASSUME NEW d \in (steady \cap inventory) \ (NoUDID \cup shifted), d \notin seen
                 PROVE  InBatch(d)' \/ (~last' /\ Rank(d)' >= ReadUpTo')
      BY <1>1 DEF ListedInv
    <2>1. Rank(d) >= page * PageSize
      BY <1>1, <1>5 DEF ListedInv, InBatch
    <2>2. CASE d \in results
      BY <1>9, <2>2
    <2>3. CASE d \notin results
      BY <1>10, <2>1, <2>3
    <2> QED
      BY <2>2, <2>3
  <1> QED
    BY <1>7, <1>8, <1>11 DEF IInv

LEMMA PublishPreserves == ASSUME IInv, TypeOK', NEW r \in batch, Publish(r) PROVE IInv'
  <1> USE DEF IInv, TypeOK
  <1>1. /\ pc = "publish" /\ batch' = batch \ {r}
        /\ UNCHANGED <<inventory, managed, ids, pc, page, total, last, gone, steady, shifted>>
        /\ r.device \in Devices
    BY DEF Publish, world, history
  <1>2. /\ seen \subseteq seen' /\ seen' \subseteq seen \cup {r.device}
        /\ r.device \in seen' \/ r.device \in NoUDID
        /\ \A d \in Devices \ {r.device} : d \in down' <=> d \in down
    BY DEF Publish
  <1>3. r.device \notin NoUDID =>
           (r.device \in down' <=> r.isManaged)
    BY DEF Publish
  <1>4. ControlInv' /\ DeletedInv'
    BY <1>1, <1>2 DEF ControlInv, DeletedInv, ReadUpTo
  <1>5. PublishedInv'
    <2>1. ASSUME NEW d \in seen' \cap steady PROVE d \in inventory /\ (d \in down' <=> d \in managed)
      <3>1. CASE d = r.device
        BY <1>1, <1>3, <2>1, <3>1 DEF PublishedInv
      <3>2. CASE d # r.device
        BY <1>1, <1>2, <2>1, <3>2 DEF PublishedInv
      <3> QED
        BY <3>1, <3>2
    <2> QED
      BY <1>1, <2>1 DEF PublishedInv
  <1>6. ASSUME NEW d \in Devices \ NoUDID, InBatch(d) PROVE InBatch(d)' \/ d \in seen'
    <2>1. PICK q \in batch : q.device = d
      BY <1>6 DEF InBatch
    <2>2. CASE q = r
      BY <1>2, <1>6, <2>1, <2>2
    <2>3. CASE q # r
      BY <1>1, <2>1, <2>3 DEF InBatch
    <2> QED
      BY <2>2, <2>3
  <1>7. ReadUpTo' = ReadUpTo /\ \A d : Rank(d)' = Rank(d)
    BY <1>1 DEF ReadUpTo, Rank
  <1>8. ListedInv'
    BY <1>1, <1>2, <1>6, <1>7 DEF ListedInv
  <1> QED
    BY <1>4, <1>5, <1>8 DEF IInv

LEMMA NextPagePreserves == ASSUME IInv, TypeOK', NextPage PROVE IInv'
  <1> USE DEF IInv, TypeOK
  <1>1. /\ pc = "publish" /\ pc' = "fetch" /\ batch = {} /\ ~last /\ page' = page + 1
        /\ UNCHANGED <<inventory, managed, down, ids, total, last, batch, seen, gone, steady, shifted>>
    BY DEF NextPage, world, history
  <1>2. ReadUpTo' = ReadUpTo /\ \A d : Rank(d)' = Rank(d)
    BY <1>1 DEF ReadUpTo, Rank
  <1>3. ControlInv' /\ DeletedInv' /\ PublishedInv'
    BY <1>1, <1>2 DEF ControlInv, DeletedInv, PublishedInv
  <1>4. ListedInv'
    BY <1>1, <1>2 DEF ListedInv, InBatch
  <1> QED
    BY <1>3, <1>4 DEF IInv

LEMMA PagesDonePreserves == ASSUME IInv, TypeOK', PagesDone PROVE IInv'
  <1> USE DEF IInv, TypeOK
  <1>1. /\ pc = "publish" /\ pc' = "deletions" /\ batch = {} /\ last /\ gone' = ids \ seen
        /\ UNCHANGED <<inventory, managed, down, ids, page, total, last, batch, seen, steady, shifted>>
    BY DEF PagesDone, Missing, world, history
  <1>2. ControlInv' /\ DeletedInv' /\ PublishedInv'
    BY <1>1 DEF ControlInv, DeletedInv, PublishedInv
  <1>3. ListedInv'
    BY <1>1 DEF ListedInv, InBatch
  <1> QED
    BY <1>2, <1>3 DEF IInv

LEMMA DeletionPreserves == ASSUME IInv, TypeOK', NEW g \in gone, PublishDeletion(g) PROVE IInv'
  <1> USE DEF IInv, TypeOK
  <1>1. /\ pc = "deletions" /\ gone' = gone \ {g} /\ down' = down \ {g} /\ g \notin seen
        /\ UNCHANGED <<inventory, managed, ids, pc, page, total, last, batch, seen, steady, shifted>>
    BY DEF PublishDeletion, ControlInv, world, history
  <1>2. ControlInv' /\ DeletedInv' /\ PublishedInv'
    BY <1>1 DEF ControlInv, DeletedInv, PublishedInv
  <1>3. ListedInv'
    BY <1>1 DEF ListedInv, InBatch
  <1> QED
    BY <1>2, <1>3 DEF IInv

LEMMA SavePreserves == ASSUME IInv, TypeOK', Save PROVE IInv'
  <1> USE DEF IInv, TypeOK
  <1>1. /\ pc = "deletions" /\ pc' = "saved" /\ gone = {}
        /\ UNCHANGED <<inventory, managed, down, ids, page, total, last, batch, seen, gone, steady, shifted>>
    BY DEF Save, world, progress, history
  <1>2. ControlInv' /\ DeletedInv' /\ PublishedInv'
    BY <1>1 DEF ControlInv, DeletedInv, PublishedInv
  <1>3. ListedInv'
    BY <1>1 DEF ListedInv, InBatch
  <1> QED
    BY <1>2, <1>3 DEF IInv

LEMMA StartPreserves == ASSUME IInv, TypeOK', Start PROVE IInv'
  <1> USE DEF IInv, TypeOK
  <1>1. /\ pc' = "fetch" /\ page' = 0 /\ total' = 0 /\ last' = FALSE
        /\ batch' = {} /\ seen' = {} /\ gone' = {}
    BY DEF Start
  <1>2. ReadUpTo' = 0
    BY <1>1, JamfSyncAssumption DEF ReadUpTo
  <1>3. inventory' = inventory /\ \A d : Rank(d)' = Rank(d)
    BY DEF Start, world, Rank
  <1>4. \A d \in inventory : Rank(d) \in Nat
    BY RankIsMonotonic
  <1> QED
    BY <1>1, <1>2, <1>3, <1>4 DEF ControlInv, DeletedInv, PublishedInv, ListedInv, IInv

LEMMA EndPreserves == ASSUME IInv, TypeOK', Commit \/ Abort PROVE IInv'
  <1>1. pc' = "idle" /\ gone' = {}
    BY DEF Commit, Abort, End
  <1> QED
    BY <1>1 DEF ControlInv, DeletedInv, PublishedInv, ListedInv, IInv

LEMMA StutterPreserves == ASSUME IInv, UNCHANGED vars PROVE IInv'
  <1> USE DEF vars, world, progress, history
  <1>1. TypeOK' /\ ControlInv'
    BY DEF IInv, TypeOK, ControlInv, ReadUpTo
  <1>2. PublishedInv' /\ DeletedInv'
    BY DEF IInv, PublishedInv, DeletedInv
  <1>3. ListedInv'
    BY DEF IInv, ListedInv, InBatch, ReadUpTo, Rank
  <1> QED
    BY <1>1, <1>2, <1>3 DEF IInv

LEMMA InvPreserved == IInv /\ [Next]_vars => IInv'
  <1> SUFFICES ASSUME IInv, [Next]_vars PROVE IInv'
    OBVIOUS
  <1>1. TypeOK'
    BY TypesPreserved DEF IInv
  <1>2. CASE \E d \in Devices : Enrol(d) \/ Retire(d) \/ SwitchManaged(d)
    BY <1>1, <1>2, InventoryPreserves
  <1>3. CASE Start
    BY <1>1, <1>3, StartPreserves
  <1>4. CASE FetchPage
    BY <1>1, <1>4, FetchPreserves
  <1>5. CASE \E r \in batch : Publish(r)
    BY <1>1, <1>5, PublishPreserves
  <1>6. CASE NextPage \/ PagesDone \/ Save
    BY <1>1, <1>6, NextPagePreserves, PagesDonePreserves, SavePreserves
  <1>7. CASE \E d \in gone : PublishDeletion(d)
    BY <1>1, <1>7, DeletionPreserves
  <1>8. CASE Commit \/ Abort
    BY <1>1, <1>8, EndPreserves
  <1>9. CASE UNCHANGED vars
    BY <1>9, StutterPreserves
  <1> QED
    BY <1>2, <1>3, <1>4, <1>5, <1>6, <1>7, <1>8, <1>9 DEF Next, DoSync

-----------------------------------------------------------------------------
(* The theorems *)

LEMMA JamfInvariant == Spec => []IInv
  BY InitEstablishes, InvPreserved, PTL DEF Spec

\* Every variable keeps its type, for any inventory and any page size.
THEOREM JamfTypes == Spec => []TypeOK
  <1>1. IInv => TypeOK
    BY DEF IInv
  <1> QED
    BY JamfInvariant, <1>1, PTL

\* doSync misses no device that stayed where it was: whatever else is enrolled,
\* retired or switched while it pages, what a completed sync leaves downstream
\* is what the server has of every such device.
THEOREM SyncEmitsAllCurrent == Spec => []EmitsAllCurrent
  <1>1. IInv => EmitsAllCurrent
    <2> SUFFICES ASSUME IInv, pc = "saved",
                        NEW d \in (steady \cap inventory) \ (NoUDID \cup shifted)
                 PROVE  d \in down <=> d \in managed
      BY DEF EmitsAllCurrent
    <2>1. batch = {} /\ last
      BY DEF IInv, ControlInv
    <2>2. d \in seen
      BY <2>1 DEF IInv, ListedInv, InBatch
    <2> QED
      BY <2>2 DEF IInv, PublishedInv
  <1> QED
    BY JamfInvariant, <1>1, PTL

\* A completed sync leaves nothing downstream of a device that the last
\* committed sync listed and that was absent throughout this one.
THEOREM SyncDeletesAbsent == Spec => []DeletesAbsent
  <1>1. IInv => DeletesAbsent
    <2> SUFFICES ASSUME IInv, pc = "saved", NEW d \in (steady \cap ids) \ inventory
                 PROVE  d \notin down
      BY DEF DeletesAbsent
    <2>1. d \notin seen
      BY DEF IInv, PublishedInv
    <2>2. gone = {}
      BY DEF IInv, ControlInv
    <2> QED
      BY <2>1, <2>2 DEF IInv, DeletedInv
  <1> QED
    BY JamfInvariant, <1>1, PTL
=============================================================================
