--------------------------- MODULE OktaSync_proof ---------------------------
(***************************************************************************)
(* Nothing but what slipped falls behind an Okta cursor; a full sync keeps *)
(* what stayed and deletes what it remembers: for any users, devices, page *)
(* size and clock.                                                         *)
(***************************************************************************)
EXTENDS OktaSync, FiniteSetTheorems, WellFoundedInduction, TLAPS

-----------------------------------------------------------------------------
(* Minima and maxima *)

LEMMA MinimumExists ==
    ASSUME NEW S, S \subseteq Nat, S # {}
    PROVE  \E x \in S : \A y \in S : x <= y
  <1>1. PICK x \in S : \A y \in S : <<y, x>> \notin OpToRel(<, Nat)
    BY NatLessThanWellFounded, WFMin
  <1>2. ASSUME NEW y \in S PROVE x <= y
    <2>1. y \in Nat /\ x \in Nat
      OBVIOUS
    <2>2. ~(y < x)
      BY <1>1, <2>1 DEF OpToRel
    <2> QED
      BY <2>1, <2>2
  <1> QED
    BY <1>2

LEMMA MaximumExists ==
    ASSUME NEW S, S \subseteq Nat, S # {}, IsFiniteSet(S)
    PROVE  Max(S) \in S /\ \A y \in S : Max(S) >= y
  <1> DEFINE Below(x) == {y \in S : y < x}
             n == Cardinality(S)
             D == {n - Cardinality(Below(x)) : x \in S}
  <1>1. n \in Nat
    BY FS_CardinalityType
  <1>2. ASSUME NEW x \in S
        PROVE  IsFiniteSet(Below(x)) /\ Cardinality(Below(x)) \in Nat /\ Cardinality(Below(x)) <= n
    BY FS_Subset, FS_CardinalityType
  <1>3. D \subseteq Nat /\ D # {}
    <2> HIDE DEF Below, n
    <2>1. \A x \in S : n - Cardinality(Below(x)) \in Nat
      BY <1>1, <1>2
    <2> QED
      BY <2>1
  <1>4. PICK m \in D : \A e \in D : m <= e
    BY <1>3, MinimumExists
  <1>5. PICK x \in S : m = n - Cardinality(Below(x))
    BY <1>4
  <1>6. ASSUME NEW y \in S, ~(x >= y) PROVE FALSE
    <2>1. x \in Nat /\ y \in Nat /\ x < y
      BY <1>6
    <2>2. \A z \in S : z < x => z < y
      BY <2>1
    <2>3. Below(x) \subseteq Below(y) /\ x \in Below(y) /\ x \notin Below(x)
      <3>1. Below(x) \subseteq Below(y)
        BY <2>2
      <3>2. x \in Below(y) /\ ~(x < x)
        BY <2>1
      <3> QED
        BY <3>1, <3>2
    <2>4. Cardinality(Below(x)) <= Cardinality(Below(y)) /\ Cardinality(Below(x)) # Cardinality(Below(y))
      BY <1>2, <2>3, FS_Subset
    <2>5. m <= n - Cardinality(Below(y))
      BY <1>4
    <2> HIDE DEF Below, n
    <2> QED
      BY <1>1, <1>2, <1>5, <2>4, <2>5
  <1>7. \E z \in S : \A y \in S : z >= y
    BY <1>6
  <1> QED
    BY <1>7 DEF Max
-----------------------------------------------------------------------------
(* The invariant *)

\* The entities the cursors answer for.
Settled(k) == (present \cap OfKind[k]) \ slipped

\* The next sync asks for e, whichever cursor of its kind it reads, ...
Above(e, k) ==
    /\ stamp[e] >= last_sync[k] /\ stamp[e] >= last_update[k]
    /\ stamp[e] >= vsync[k] /\ stamp[e] >= vupdate[k]

\* ... and also if the running sync moves that cursor.
Fresh(e, k) == Above(e, k) /\ stamp[e] >= latest

\* Nothing is later than the clock.
ClockInv ==
    /\ latest <= clock /\ \A e \in Entities : stamp[e] <= clock
    /\ \A k \in Kinds : /\ last_sync[k] <= clock /\ last_update[k] <= clock
                        /\ vsync[k] <= clock /\ vupdate[k] <= clock

\* What the sync has in hand, of the kind it is at.
ControlInv ==
    /\ pc = "idle" => ~full /\ vids = ids
    /\ pc \in {"idle", "commit"} => seen = {}
    /\ pc = "commit" => kind = "device"
    /\ \A e \in Entities : batch[e] # "none" =>
          pc \in {"pages", "publish"} /\ e \in OfKind[kind] /\ (pc = "pages" => e <= after)
    /\ pc # "deletions" => gone = {}
    /\ pc = "deletions" => full
    /\ seen \subseteq OfKind[kind] /\ gone \subseteq OfKind[kind] \ seen
    /\ ~full => seen = {}
    /\ pc = "pages" => since \in {0, vsync[kind], vupdate[kind]} /\ (full => since = 0)

CursorInv == \A k \in Kinds : \A e \in Settled(k) : down[e] = "current" \/ Above(e, k)

\* What changed after it was fetched, and did not slip, did so behind the last page.
OldInv ==
    \A k \in Kinds : \A e \in Settled(k) :
        batch[e] = "old" => pc = "publish" /\ Fresh(e, k)

\* The pages up to here hold what they had to.
PagesInv ==
    pc = "pages" =>
        \A e \in Settled(kind) : e <= after =>
            batch[e] = "current" \/ (batch[e] = "none" /\ stamp[e] < since)

\* Once all pages are there, what the new cursor passes is or will be downstream.
ListedInv ==
    pc \in {"publish", "deletions"} =>
        \A e \in Settled(kind) :
            \/ stamp[e] >= latest
            \/ batch[e] = "current"
            \/ batch[e] = "none" /\ down[e] = "current"

\* A full sync does not take for missing what it listed.
FullInv ==
    full /\ pc \in {"publish", "deletions"} =>
        \A e \in Settled(kind) : e \in seen \/ batch[e] # "none" \/ Fresh(e, kind)

SettledInv == CursorInv /\ OldInv /\ PagesInv /\ ListedInv /\ FullInv

\* The kinds this sync is through with.
Through(k) == pc = "commit" \/ (kind = "device" /\ k = "user")

\* What stays is listed, then published.
StayedInv ==
    /\ stayed \subseteq present
    /\ full =>
        /\ \A k \in Kinds : Through(k) => \A e \in stayed \cap OfKind[k] : down[e] # "none"
        /\ \A e \in stayed \cap OfKind[kind] :
            /\ pc = "pages" /\ e <= after => batch[e] # "none"
            /\ pc \in {"publish", "deletions"} => batch[e] # "none" \/ (e \in seen /\ down[e] # "none")

\* What is away is never seen, so that the id set names it as long as it is
\* downstream.
AwayInv ==
    /\ away \cap (present \cup seen) = {}
    /\ \A e \in away : batch[e] = "none"
    /\ full =>
        /\ \A k \in Kinds : ~Through(k) => vids \cap OfKind[k] = ids \cap OfKind[k]
        /\ \A k \in Kinds : Through(k) =>
            /\ vids \cap away \cap OfKind[k] = {}
            /\ \A e \in ids \cap away \cap OfKind[k] : down[e] = "none"
        /\ pc = "deletions" =>
            \A e \in vids \cap away \cap OfKind[kind] : e \in gone \/ down[e] = "none"

IInv == TypeOK /\ ClockInv /\ ControlInv /\ SettledInv /\ StayedInv /\ AwayInv

LEMMA KindsApart ==
    /\ \A k \in Kinds : OfKind[k] \subseteq Entities
    /\ \A j, k \in Kinds : j # k => OfKind[j] \cap OfKind[k] = {}
    /\ Entities \subseteq Nat \ {0} /\ IsFiniteSet(Entities)
    /\ \A e \in Entities : \E k \in Kinds : e \in OfKind[k]
  <1>1. OfKind["user"] = Users /\ OfKind["device"] = Devices
    BY DEF OfKind
  <1>2. Entities \subseteq Nat \ {0} /\ IsFiniteSet(Entities)
    BY OktaSyncAssumption, FS_Union DEF Entities
  <1>3. \A e \in Entities : e \in OfKind["user"] \/ e \in OfKind["device"]
    BY <1>1 DEF Entities
  <1>4. ASSUME NEW k \in Kinds PROVE OfKind[k] = Users \/ OfKind[k] = Devices
    BY <1>1 DEF Kinds
  <1>5. \A k \in Kinds : OfKind[k] \subseteq Entities
    BY <1>4 DEF Entities
  <1>6. ASSUME NEW j \in Kinds, NEW k \in Kinds, j # k PROVE OfKind[j] \cap OfKind[k] = {}
    <2>1. (j = "user" /\ k = "device") \/ (j = "device" /\ k = "user")
      BY <1>6 DEF Kinds
    <2>2. Users \cap Devices = {}
      BY OktaSyncAssumption
    <2>3. CASE j = "user" /\ k = "device"
      BY <1>1, <2>2, <2>3
    <2>4. CASE j = "device" /\ k = "user"
      BY <1>1, <2>2, <2>4
    <2> QED
      BY <2>1, <2>3, <2>4
  <1> QED
    BY <1>2, <1>3, <1>5, <1>6 DEF Kinds

LEMMA TimeIsFinite == Time \subseteq Nat /\ IsFiniteSet(Time) /\ 0 \in Time /\ 1 \in Time
  <1>1. 0 \in Int /\ MaxTime \in Int /\ MaxTime >= 1
    BY OktaSyncAssumption
  <1> QED
    BY <1>1, FS_Interval DEF Time

LEMMA InitEstablishes == Init => IInv
  <1> SUFFICES ASSUME Init PROVE IInv
    OBVIOUS
  <1> USE DEF Init, Nothing, NoCursors
  <1>1. TypeOK
    <2>1. stamp \in [Entities -> Time]
      BY TimeIsFinite
    <2>2. NoCursors \in Cursors
      BY TimeIsFinite DEF Cursors
    <2>3. Nothing \in [Entities -> States]
      BY DEF States
    <2>4. clock \in 1 .. MaxTime /\ present \in SUBSET Entities
      BY OktaSyncAssumption
    <2> QED
      BY <2>1, <2>2, <2>3, <2>4, TimeIsFinite DEF TypeOK, Kinds
  <1>2. ClockInv /\ ControlInv
    BY OktaSyncAssumption DEF ClockInv, ControlInv
  <1>3. SettledInv
    <2>1. CursorInv
      BY KindsApart DEF CursorInv, Settled, Above
    <2>2. OldInv
      BY KindsApart DEF OldInv, Settled
    <2> QED
      BY <2>1, <2>2 DEF SettledInv, PagesInv, ListedInv, FullInv
  <1>4. StayedInv /\ AwayInv
    BY DEF StayedInv, AwayInv, Through
  <1> QED
    BY <1>1, <1>2, <1>3, <1>4 DEF IInv

-----------------------------------------------------------------------------
(* Pages *)

\* A page that is not the last ends at an entity behind the one before it, and
\* passes over nothing that was to be listed.
LEMMA PagesAdvance ==
    ASSUME TypeOK
    PROVE  /\ Page \subseteq Listed /\ Listed \subseteq Entities
           /\ Page # Listed =>
                /\ Max(Page) \in Page /\ Max(Page) > after
                /\ \A e \in Listed : e <= Max(Page) => e \in Page
  <1>1. kind \in Kinds /\ after \in Nat /\ PageSize \in Nat \ {0}
    BY KindsApart, OktaSyncAssumption DEF TypeOK
  <1>2. Listed \subseteq OfKind[kind] /\ \A e \in Listed : e > after
    BY DEF Listed
  <1>3. Page \subseteq Listed /\ Listed \subseteq Entities /\ Listed \subseteq Nat
    BY <1>1, <1>2, KindsApart DEF Page
  <1> DEFINE Before(e) == {f \in Listed : f < e}
  <1>4. ASSUME NEW e \in Listed
        PROVE  /\ IsFiniteSet(Before(e)) /\ Cardinality(Before(e)) \in Nat
               /\ e \in Page <=> Cardinality(Before(e)) < PageSize
    <2>1. Before(e) \subseteq Entities
      BY <1>3
    <2>2. IsFiniteSet(Before(e)) /\ Cardinality(Before(e)) \in Nat
      BY <2>1, KindsApart, FS_Subset, FS_CardinalityType
    <2> QED
      BY <2>2 DEF Page
  <1>5. ASSUME Page # Listed PROVE Page # {}
    <2>1. PICK e \in Listed : \A f \in Listed : e <= f
      BY <1>3, <1>5, MinimumExists
    <2>2. \A f \in Listed : ~(f < e)
      BY <1>3, <2>1
    <2>3. Before(e) = {}
      BY <2>2
    <2>4. Cardinality(Before(e)) = 0
      BY <2>3, FS_EmptySet
    <2> QED
      BY <1>1, <1>4, <2>4
  <1>6. ASSUME Page # Listed PROVE Max(Page) \in Page
    BY <1>3, <1>5, <1>6, KindsApart, FS_Subset, MaximumExists
  <1>7. ASSUME NEW m \in Page, NEW e \in Listed, e <= m PROVE e \in Page
    <2>1. \A f \in Listed : f < e => f < m
      BY <1>3, <1>7
    <2>2. Before(e) \subseteq Before(m)
      BY <2>1
    <2>3. m \in Listed
      BY <1>3
    <2>4. Cardinality(Before(e)) <= Cardinality(Before(m))
      BY <1>4, <2>2, <2>3, FS_Subset
    <2> HIDE DEF Before
    <2> QED
      BY <1>1, <1>4, <2>3, <2>4
  <1> QED
    BY <1>2, <1>3, <1>6, <1>7

\* The latest stamp is that of an entity listed, or the one before.
LEMMA LatestAdvances ==
    ASSUME TypeOK, NEW S \in SUBSET Entities
    PROVE  /\ Max({stamp[e] : e \in S} \cup {latest}) \in Time
           /\ \A t \in Nat : latest <= t /\ (\A e \in S : stamp[e] <= t)
                  => Max({stamp[e] : e \in S} \cup {latest}) <= t
  <1> DEFINE T == {stamp[e] : e \in S} \cup {latest}
  <1>1. T \subseteq Time /\ T # {}
    BY DEF TypeOK
  <1>2. Max(T) \in T
    BY <1>1, TimeIsFinite, FS_Subset, MaximumExists
  <1>3. \A t \in Nat : latest <= t /\ (\A e \in S : stamp[e] <= t) => \A u \in T : u <= t
    OBVIOUS
  <1> HIDE DEF T
  <1>4. Max(T) \in Time /\ \A t \in Nat : (\A u \in T : u <= t) => Max(T) <= t
    BY <1>1, <1>2
  <1> QED
    BY <1>3, <1>4 DEF T

-----------------------------------------------------------------------------
(* Types *)

LEMMA TypesPreserved == TypeOK /\ [Next]_vars => TypeOK'
  <1> SUFFICES ASSUME TypeOK, [Next]_vars PROVE TypeOK'
    OBVIOUS
  <1> USE DEF TypeOK, organization, durable, view, paging, history, syncing
  <1>0. /\ {seen, gone, stayed, away, slipped} \subseteq SUBSET Entities
        /\ 0 \in Time /\ \A t \in 1 .. MaxTime : t \in Time
    BY TimeIsFinite DEF Time
  <1>1. CASE Tick
    <2>1. clock' \in 1 .. MaxTime
      BY <1>1, OktaSyncAssumption DEF Tick
    <2> QED
      BY <1>1, <2>1 DEF Tick
  <1>2. ASSUME NEW e \in Entities, Update(e) PROVE TypeOK'
    <2>1. stamp' \in [Entities -> Time]
      BY <1>0, <1>2 DEF Update
    <2>2. \A f \in [Entities -> States] : Outdated(f, e) \in [Entities -> States]
      BY DEF Outdated, States
    <2>3. {present', away', slipped'} \subseteq SUBSET Entities
      BY <1>0, <1>2 DEF Update
    <2> QED
      BY <1>0, <1>2, <2>1, <2>2, <2>3 DEF Update
  <1>3. ASSUME NEW e \in Entities, Purge(e) PROVE TypeOK'
    <2>1. stamp' \in [Entities -> Time]
      BY <1>0, <1>3 DEF Purge
    <2> QED
      BY <1>3, <2>1 DEF Purge
  <1>4. ASSUME NEW f \in BOOLEAN, Start(f) PROVE TypeOK'
    <2>1. loadCursor("user") \in Time
      BY DEF loadCursor, Cursors, Kinds
    <2>2. {stayed', away'} \subseteq SUBSET Entities
      BY <1>4 DEF Start
    <2> QED
      BY <1>0, <1>4, <2>1, <2>2 DEF Start, BeginKind, SinceOf, Kinds
  <1>5. CASE FetchPage
    <2>1. Page \in SUBSET Entities
      BY PagesAdvance
    <2>2. latest' \in Time
      BY <1>5, <2>1, LatestAdvances DEF FetchPage
    <2>3. after' \in Entities \cup {0} /\ since' \in Time
      BY <1>0, <1>5, <2>1, PagesAdvance DEF FetchPage
    <2>4. batch' \in [Entities -> States]
      BY <1>5 DEF FetchPage, States
    <2> QED
      BY <1>5, <2>2, <2>3, <2>4 DEF FetchPage
  <1>6. ASSUME NEW e \in Entities, Publish(e) PROVE TypeOK'
    <2>1. down' \in [Entities -> States] /\ batch' \in [Entities -> States]
      BY <1>6 DEF Publish, States
    <2>2. {seen', slipped'} \subseteq SUBSET Entities
      BY <1>0, <1>6 DEF Publish
    <2> QED
      BY <1>6, <2>1, <2>2 DEF Publish
  <1>7. CASE SetUpdateCursor \/ Save
    <2>1. /\ Advanced(vupdate) \in Cursors /\ Advanced(vsync) \in Cursors
          /\ \A k \in Kinds : loadCursor(k)' \in Time \/ vupdate' \notin Cursors \/ vsync' \notin Cursors
      BY DEF Advanced, loadCursor, Cursors
    <2>2. vsync' \in Cursors /\ vupdate' \in Cursors
      BY <1>7, <2>1 DEF SetUpdateCursor, Save
    <2>3. \A k \in Kinds : loadCursor(k) \in Time
      BY DEF loadCursor, Cursors
    <2>4. /\ pc' \in {"pages", "commit"} /\ kind' \in Kinds /\ since' \in Time
          /\ latest' \in Time /\ after' \in Entities \cup {0}
      BY <1>0, <1>7, <2>3 DEF SetUpdateCursor, Save, NextKind, BeginKind, SinceOf, Kinds
    <2>5. {seen', gone', stayed', away', slipped'} \subseteq SUBSET Entities /\ vids' \in SUBSET Entities
      BY <1>0, <1>7 DEF SetUpdateCursor, Save
    <2> QED
      BY <1>7, <2>2, <2>4, <2>5 DEF SetUpdateCursor, Save
  <1>8. CASE FindMissing
    BY <1>0, <1>8 DEF FindMissing, Missing
  <1>9. ASSUME NEW e \in Entities, PublishDeletion(e) PROVE TypeOK'
    BY <1>9 DEF PublishDeletion, States
  <1>10. ASSUME NEW k \in Kinds, Flush(k) PROVE TypeOK'
    <2>1. last_sync' \in Cursors /\ last_update' \in Cursors
      BY <1>10 DEF Flush, Cursors
    <2>2. ids' \in SUBSET Entities
      BY <1>10 DEF Flush
    <2> QED
      BY <1>10, <2>1, <2>2 DEF Flush
  <1>11. CASE Commit \/ Abort
    <2>1. Nothing \in [Entities -> States]
      BY DEF Nothing, States
    <2>2. Reset /\ UNCHANGED <<organization, down, slipped>>
      BY <1>11 DEF Commit, Abort
    <2>3. /\ {last_sync', last_update', vsync', vupdate'} \subseteq Cursors
          /\ {ids', vids'} \subseteq SUBSET Entities
      BY <1>11 DEF Commit, Abort
    <2> QED
      BY <1>0, <2>1, <2>2, <2>3 DEF Reset, Kinds
  <1>12. CASE UNCHANGED vars
    BY <1>12 DEF vars
  <1> QED
    BY <1>1, <1>2, <1>3, <1>4, <1>5, <1>6, <1>7, <1>8, <1>9, <1>10, <1>11, <1>12 DEF Next, Sync

-----------------------------------------------------------------------------
(* The organization changes *)

LEMMA Numbers ==
    ASSUME TypeOK
    PROVE  /\ clock \in Nat /\ latest \in Nat /\ since \in Nat /\ after \in Nat
           /\ kind \in Kinds
           /\ \A e \in Entities : stamp[e] \in Nat
           /\ \A k \in Kinds : /\ last_sync[k] \in Nat /\ last_update[k] \in Nat
                               /\ vsync[k] \in Nat /\ vupdate[k] \in Nat
  <1>1. clock \in Nat /\ latest \in Nat /\ since \in Nat /\ after \in Nat /\ kind \in Kinds
    BY TimeIsFinite, KindsApart, OktaSyncAssumption DEF TypeOK
  <1>2. \A e \in Entities : stamp[e] \in Nat
    BY TimeIsFinite DEF TypeOK
  <1>3. \A c \in Cursors : \A k \in Kinds : c[k] \in Nat
    BY TimeIsFinite DEF Cursors
  <1> QED
    BY <1>1, <1>2, <1>3 DEF TypeOK

LEMMA TickStep == ASSUME IInv, TypeOK', Tick PROVE IInv'
  <1> USE DEF IInv, organization, durable, view, paging, history, syncing
  <1>1. /\ clock' = clock + 1
        /\ UNCHANGED <<population, present, stamp, down, batch, durable, view, pc, full,
                       kind, since, after, latest, seen, gone, stayed, away, slipped>>
    BY DEF Tick
  <1>2. ClockInv'
    BY <1>1, Numbers DEF ClockInv
  <1>3. ControlInv' /\ SettledInv' /\ StayedInv' /\ AwayInv'
    BY <1>1 DEF ControlInv, SettledInv, CursorInv, OldInv, PagesInv, ListedInv, FullInv,
                Settled, Above, Fresh, StayedInv, AwayInv, Through
  <1> QED
    BY <1>2, <1>3

LEMMA UpdateStep == ASSUME IInv, TypeOK', NEW x \in Entities, Update(x) PROVE IInv'
  <1> USE DEF IInv, TypeOK, organization, durable, view, paging, history, syncing
  <1>1. /\ UNCHANGED <<clock, last_sync, last_update, ids, vsync, vupdate, vids, pc, full,
                       kind, since, after, latest, seen, gone, stayed>>
        /\ present' = present \cup {x} /\ away' = away \ {x} /\ slipped \subseteq slipped'
        /\ stamp'[x] = clock /\ \A e \in Entities \ {x} : stamp'[e] = stamp[e]
        /\ \A e \in Entities \ {x} : down'[e] = down[e] /\ batch'[e] = batch[e]
        /\ \A e \in Entities \ {x} : e \in slipped' <=> e \in slipped
    BY DEF Update, Outdated
  <1>2. /\ down[x] = "none" <=> down'[x] = "none"
        /\ batch[x] = "none" <=> batch'[x] = "none"
        /\ down'[x] # "current" /\ batch'[x] # "current"
    BY DEF Update, Outdated
  <1>3. pc = "pages" /\ x \in OfKind[kind] /\ x <= after => x \in slipped'
    BY DEF Update
  <1>4. ASSUME NEW e \in Entities
         PROVE  /\ down'[e] = "none" <=> down[e] = "none"
                /\ batch'[e] = "none" <=> batch[e] = "none"
    <2>1. CASE e = x
      BY <1>2, <2>1
    <2>2. CASE e # x
      BY <1>1, <2>2
    <2> QED
      BY <2>1, <2>2
  <1>5. ClockInv'
    BY <1>1, Numbers DEF ClockInv
  <1>6. ControlInv'
    BY <1>1, <1>2 DEF ControlInv
  <1>7. \A k \in Kinds : Fresh(x, k)'
    BY <1>1 DEF ClockInv, Fresh, Above
  <1>8. ASSUME NEW k \in Kinds, NEW e \in Settled(k)', e # x
        PROVE  /\ e \in Settled(k) /\ e \in Entities
               /\ Above(e, k)' <=> Above(e, k)
               /\ Fresh(e, k)' <=> Fresh(e, k)
               /\ down'[e] = down[e] /\ batch'[e] = batch[e] /\ stamp'[e] = stamp[e]
    <2>1. e \in Settled(k) /\ e \in Entities
      BY <1>1, <1>8 DEF Settled
    <2> QED
      BY <1>1, <1>8, <2>1 DEF Above, Fresh
  <1>9. CursorInv'
    BY <1>7, <1>8 DEF SettledInv, CursorInv, Fresh
  <1>10. OldInv'
    <2> SUFFICES ASSUME NEW k \in Kinds, NEW e \in Settled(k)', batch'[e] = "old"
                 PROVE  pc' = "publish" /\ Fresh(e, k)'
      BY DEF OldInv
    <2>1. CASE e = x
      <3>1. batch[x] # "none" /\ x \in OfKind[k] /\ x \notin slipped'
        BY <1>2, <2>1 DEF Settled
      <3>2. pc = "publish"
        BY <1>3, <3>1, KindsApart DEF ControlInv
      <3> QED
        BY <1>1, <1>7, <2>1, <3>2
    <2>2. CASE e # x
      BY <1>1, <1>8, <2>2 DEF SettledInv, OldInv
    <2> QED
      BY <2>1, <2>2
  <1>11. PagesInv'
    <2> SUFFICES ASSUME pc = "pages", NEW e \in Settled(kind)', e <= after
                 PROVE  batch'[e] = "current" \/ (batch'[e] = "none" /\ stamp'[e] < since)
      BY <1>1 DEF PagesInv
    <2>1. e # x
      BY <1>1, <1>3 DEF Settled
    <2> QED
      BY <1>1, <1>8, <2>1, Numbers DEF SettledInv, PagesInv
  <1>12. ListedInv' /\ FullInv'
    <2>1. \A e \in Settled(kind)' : e = x => stamp'[e] >= latest /\ Fresh(e, kind)'
      BY <1>1, <1>7, Numbers DEF Fresh
    <2> QED
      BY <1>1, <1>8, <2>1, Numbers DEF SettledInv, ListedInv, FullInv
  <1>13. StayedInv'
    BY <1>1, <1>4 DEF StayedInv, Through
  <1>14. AwayInv'
    BY <1>1, <1>4 DEF AwayInv, Through
  <1> QED
    BY <1>5, <1>6, <1>9, <1>10, <1>11, <1>12, <1>13, <1>14 DEF SettledInv

LEMMA PurgeStep == ASSUME IInv, TypeOK', NEW x \in Entities, Purge(x) PROVE IInv'
  <1> USE DEF IInv, TypeOK, organization, durable, view, paging, history, syncing
  <1>1. /\ UNCHANGED <<clock, down, batch, last_sync, last_update, ids, vsync, vupdate, vids,
                       pc, full, kind, since, after, latest, seen, gone, away>>
        /\ present' = present \ {x} /\ stayed' = stayed \ {x} /\ slipped' = slipped \ {x}
        /\ stamp'[x] = 0 /\ \A e \in Entities \ {x} : stamp'[e] = stamp[e]
    BY DEF Purge
  <1>2. ClockInv' /\ ControlInv'
    BY <1>1, Numbers DEF ClockInv, ControlInv
  <1>3. ASSUME NEW k \in Kinds, NEW e \in Settled(k)'
        PROVE  /\ e \in Settled(k) /\ e \in Entities /\ stamp'[e] = stamp[e]
               /\ Above(e, k)' <=> Above(e, k)
               /\ Fresh(e, k)' <=> Fresh(e, k)
    <2>1. e \in Settled(k) /\ e \in Entities /\ e # x
      BY <1>1, <1>3 DEF Settled
    <2> QED
      BY <1>1, <1>3, <2>1 DEF Above, Fresh
  <1>4. SettledInv'
    BY <1>1, <1>3 DEF SettledInv, CursorInv, OldInv, PagesInv, ListedInv, FullInv
  <1>5. StayedInv' /\ AwayInv'
    BY <1>1 DEF StayedInv, AwayInv, Through
  <1> QED
    BY <1>2, <1>4, <1>5

-----------------------------------------------------------------------------
(* The sync begins, and fetches *)

LEMMA StartStep == ASSUME IInv, TypeOK', NEW f \in BOOLEAN, Start(f) PROVE IInv'
  <1> USE DEF IInv, TypeOK, organization, durable, view, paging, history
  <1>1. /\ pc = "idle" /\ pc' = "pages" /\ full' = f /\ kind' = "user"
        /\ after' = 0 /\ latest' = 0 /\ since' = SinceOf(f, "user")
        /\ stayed' = (IF f THEN present ELSE {}) /\ away' = (IF f THEN Entities \ present ELSE {})
        /\ UNCHANGED <<population, clock, present, stamp, down, durable, view, batch, seen, gone,
                       slipped>>
    BY DEF Start, BeginKind
  <1>2. /\ \A e \in Entities : batch[e] = "none" /\ ~(e <= 0)
        /\ seen = {} /\ gone = {} /\ vids = ids
    BY <1>1, KindsApart DEF ControlInv
  <1>3. ClockInv' /\ ControlInv'
    BY <1>1, <1>2, Numbers DEF ClockInv, ControlInv, SinceOf, loadCursor
  <1>4. \A k \in Kinds : Settled(k)' = Settled(k) /\ Settled(k) \subseteq Entities
                        /\ \A e : Above(e, k)' <=> Above(e, k)
    BY <1>1 DEF Settled, Above
  <1>5. CursorInv'
    BY <1>1, <1>4 DEF SettledInv, CursorInv
  <1>6. OldInv' /\ PagesInv' /\ ListedInv' /\ FullInv'
    BY <1>1, <1>2, <1>4 DEF OldInv, PagesInv, ListedInv, FullInv, Kinds
  <1>7. StayedInv' /\ AwayInv'
    BY <1>1, <1>2 DEF StayedInv, AwayInv, Through
  <1> QED
    BY <1>3, <1>5, <1>6, <1>7 DEF SettledInv

LEMMA FetchStep == ASSUME IInv, TypeOK', FetchPage PROVE IInv'
  <1> USE DEF IInv, TypeOK, organization, durable, view, paging, history
  <1>1. /\ pc = "pages" /\ pc' = IF Page = Listed THEN "publish" ELSE "pages"
        /\ \A e \in Entities : batch'[e] = IF e \in Page THEN "current" ELSE batch[e]
        /\ latest' = Max({stamp[e] : e \in Page} \cup {latest})
        /\ Page # Listed => since' = since /\ after' = Max(Page)
        /\ UNCHANGED <<population, clock, present, stamp, down, last_sync, last_update, ids,
                       vsync, vupdate, vids, full, kind, seen, gone, stayed, away, slipped>>
    BY DEF FetchPage
  <1>2. Page \in SUBSET Entities /\ Page \subseteq Listed
    BY PagesAdvance
  <1>3. /\ kind \in Kinds /\ OfKind[kind] \subseteq Entities
        /\ \A e \in Listed : e \in OfKind[kind] /\ e \in present
    BY KindsApart DEF Listed
  <1>4. ClockInv'
    <2>1. latest' <= clock
      BY <1>1, <1>2, Numbers, LatestAdvances DEF ClockInv
    <2> QED
      BY <1>1, <2>1 DEF ClockInv
  \* What is passed over has been listed, or is older than the cursor.
  <1>5. ASSUME NEW e \in OfKind[kind] \cap present, e \notin Page,
               Page = Listed \/ e <= after'
        PROVE  e <= after \/ stamp[e] < since
    <2>1. e \in Nat /\ after \in Nat /\ stamp[e] \in Nat /\ since \in Nat
      BY <1>3, KindsApart, Numbers
    <2>2. e \notin Listed
      BY <1>1, <1>5, PagesAdvance
    <2> QED
      BY <2>1, <2>2 DEF Listed, Matches
  <1>6. ASSUME NEW e \in Entities, Page # Listed, e <= after PROVE e <= after'
    BY <1>1, <1>6, KindsApart, PagesAdvance, Numbers
  <1>7. ControlInv'
    <2>1. ASSUME NEW e \in Entities, batch'[e] # "none", Page # Listed PROVE e <= after'
      <3>1. CASE e \in Page
        <4>1. /\ Page \subseteq Nat /\ IsFiniteSet(Page)
          BY <1>2, KindsApart, FS_Subset
        <4> QED
          BY <1>1, <2>1, <3>1, <4>1, MaximumExists
      <3>2. CASE e \notin Page
        BY <1>1, <1>6, <2>1, <3>2 DEF ControlInv
      <3> QED
        BY <3>1, <3>2
    <2>2. \A e \in Entities : batch'[e] # "none" => e \in OfKind[kind]
      BY <1>1, <1>2, <1>3 DEF ControlInv
    <2> QED
      BY <1>1, <2>1, <2>2 DEF ControlInv
  <1>8. \A k \in Kinds : Settled(k)' = Settled(k) /\ Settled(k) \subseteq Entities
                        /\ \A e : Above(e, k)' <=> Above(e, k)
    BY <1>1 DEF Settled, Above
  <1>9. CursorInv'
    BY <1>1, <1>8 DEF SettledInv, CursorInv
  <1>10. OldInv'
    BY <1>1, <1>8 DEF SettledInv, OldInv
  \* What was not listed again is as it was, and not behind.
  <1>11. ASSUME NEW e \in Settled(kind), e \notin Page, Page = Listed \/ e <= after'
         PROVE  /\ batch'[e] = batch[e]
                /\ batch[e] = "current" \/ (batch[e] = "none" /\ stamp[e] < since)
    <2>1. e \in OfKind[kind] \cap present /\ e \in Entities
      BY <1>3 DEF Settled
    <2>2. CASE e <= after
      BY <1>1, <1>11, <2>1, <2>2 DEF SettledInv, PagesInv
    <2>3. CASE ~(e <= after)
      BY <1>1, <1>5, <1>11, <2>1, <2>3 DEF ControlInv
    <2> QED
      BY <2>2, <2>3
  <1>12. PagesInv'
    <2> SUFFICES ASSUME Page # Listed, NEW e \in Settled(kind), e <= after'
                 PROVE  batch'[e] = "current" \/ (batch'[e] = "none" /\ stamp[e] < since)
      BY <1>1, <1>8 DEF PagesInv
    <2> QED
      BY <1>1, <1>8, <1>11, <1>3
  <1>13. ListedInv'
    <2> SUFFICES ASSUME Page = Listed, NEW e \in Settled(kind), batch'[e] # "current"
                 PROVE  batch'[e] = "none" /\ down[e] = "current"
      BY <1>1, <1>8, <1>3 DEF ListedInv
    <2>1. e \in Entities /\ e \notin Page
      BY <1>1, <1>3, <1>8
    <2>2. batch'[e] = "none" /\ stamp[e] < since
      BY <1>11, <2>1
    <2>3. since \in {vsync[kind], vupdate[kind]}
      BY <1>1, <2>1, <2>2, Numbers DEF ControlInv
    <2>4. ~Above(e, kind)
      BY <1>3, <2>1, <2>2, <2>3, Numbers DEF Above
    <2> QED
      BY <1>3, <2>2, <2>4 DEF SettledInv, CursorInv
  <1>14. FullInv'
    <2> SUFFICES ASSUME full, Page = Listed, NEW e \in Settled(kind)
                 PROVE  batch'[e] # "none"
      BY <1>1, <1>8, <1>3 DEF FullInv
    <2>1. e \in Entities /\ since = 0 /\ ~(stamp[e] < 0)
      BY <1>1, <1>3, <1>8, Numbers DEF ControlInv
    <2> QED
      BY <1>1, <1>11, <2>1
  <1>15. StayedInv'
    <2>1. ASSUME full, NEW e \in stayed \cap OfKind[kind], Page = Listed \/ e <= after'
          PROVE  batch'[e] # "none"
      <3>1. e \in Entities /\ e \in present /\ since = 0 /\ ~(stamp[e] < 0)
        BY <1>1, <1>3, <2>1, Numbers DEF StayedInv, ControlInv
      <3>2. CASE e \in Page
        BY <1>1, <3>1, <3>2
      <3>3. CASE e \notin Page
        BY <1>1, <1>5, <2>1, <3>1, <3>3 DEF StayedInv
      <3> QED
        BY <3>2, <3>3
    <2> QED
      BY <1>1, <2>1 DEF StayedInv, Through
  <1>16. AwayInv'
    <2>1. \A e \in away : e \notin Page
      BY <1>2, <1>3 DEF AwayInv
    <2> QED
      BY <1>1, <2>1 DEF AwayInv, Through
  <1> QED
    BY <1>4, <1>7, <1>9, <1>10, <1>12, <1>13, <1>14, <1>15, <1>16 DEF SettledInv

-----------------------------------------------------------------------------
(* The sync publishes, and ends a kind *)

LEMMA PublishStep == ASSUME IInv, TypeOK', NEW x \in Entities, Publish(x) PROVE IInv'
  <1> USE DEF IInv, TypeOK, organization, durable, view, paging, history
  <1>1. /\ pc = "publish" /\ batch[x] # "none"
        /\ down'[x] = batch[x] /\ batch'[x] = "none"
        /\ \A e \in Entities \ {x} : down'[e] = down[e] /\ batch'[e] = batch[e]
        /\ seen' = (IF full THEN seen \cup {x} ELSE seen)
        /\ slipped' = (IF batch[x] = "current" THEN slipped \ {x} ELSE slipped)
        /\ UNCHANGED <<population, clock, present, stamp, last_sync, last_update, ids, vsync,
                       vupdate, vids, pc, full, kind, since, after, latest, gone, stayed, away>>
    BY DEF Publish, Fetched
  <1>2. /\ x \in OfKind[kind] /\ kind \in Kinds /\ \A k \in Kinds : x \in OfKind[k] => k = kind
        /\ x \notin away /\ gone = {}
    BY <1>1, KindsApart DEF ControlInv, AwayInv
  <1>3. ClockInv' /\ ControlInv'
    BY <1>1, <1>2 DEF ClockInv, ControlInv
  <1>4. ASSUME NEW k \in Kinds, NEW e \in Settled(k)'
        PROVE  /\ e \in Entities
               /\ e # x => e \in Settled(k)
               /\ e = x => down'[e] = "current" \/ (k = kind /\ Fresh(e, k)')
               /\ Above(e, k)' <=> Above(e, k)
               /\ Fresh(e, k)' <=> Fresh(e, k)
    <2>1. e \in Entities /\ (e # x => e \in Settled(k))
      BY <1>1, <1>4, KindsApart DEF Settled
    <2>2. (Above(e, k)' <=> Above(e, k)) /\ (Fresh(e, k)' <=> Fresh(e, k))
      BY <1>1 DEF Above, Fresh
    <2>3. ASSUME e = x, batch[x] # "current" PROVE k = kind /\ Fresh(e, k)
      <3>1. batch[x] = "old" /\ e \in Settled(k) /\ k = kind
        BY <1>1, <1>2, <1>4, <2>3 DEF Settled, States
      <3> QED
        BY <2>3, <3>1 DEF SettledInv, OldInv
    <2> QED
      BY <1>1, <2>1, <2>2, <2>3
  <1>5. CursorInv'
    <2> SUFFICES ASSUME NEW k \in Kinds, NEW e \in Settled(k)'
                 PROVE  down'[e] = "current" \/ Above(e, k)'
      BY DEF CursorInv
    <2>1. CASE e = x
      BY <1>4, <2>1 DEF Fresh
    <2>2. CASE e # x
      BY <1>1, <1>4, <2>2 DEF SettledInv, CursorInv
    <2> QED
      BY <2>1, <2>2
  <1>6. OldInv'
    BY <1>1, <1>4 DEF SettledInv, OldInv
  <1>7. PagesInv'
    BY <1>1 DEF PagesInv
  <1>8. ListedInv'
    <2> SUFFICES ASSUME NEW e \in Settled(kind)'
                 PROVE  \/ stamp[e] >= latest
                        \/ batch'[e] = "current"
                        \/ batch'[e] = "none" /\ down'[e] = "current"
      BY <1>1 DEF ListedInv
    <2>1. CASE e = x
      BY <1>1, <1>2, <1>4, <2>1 DEF Fresh
    <2>2. CASE e # x
      BY <1>1, <1>2, <1>4, <2>2 DEF SettledInv, ListedInv
    <2> QED
      BY <2>1, <2>2
  <1>9. FullInv'
    <2> SUFFICES ASSUME full, NEW e \in Settled(kind)'
                 PROVE  e \in seen' \/ batch'[e] # "none" \/ Fresh(e, kind)
      BY <1>1, <1>2, <1>4 DEF FullInv
    <2>1. CASE e = x
      BY <1>1, <2>1
    <2>2. CASE e # x
      BY <1>1, <1>2, <1>4, <2>2 DEF SettledInv, FullInv
    <2> QED
      BY <2>1, <2>2
  <1>10. StayedInv'
    BY <1>1, <1>2 DEF StayedInv, Through
  <1>11. AwayInv'
    BY <1>1, <1>2 DEF AwayInv, Through
  <1> QED
    BY <1>3, <1>5, <1>6, <1>7, <1>8, <1>9, <1>10, <1>11 DEF SettledInv

LEMMA MissingStep == ASSUME IInv, TypeOK', FindMissing PROVE IInv'
  <1> USE DEF IInv, TypeOK, organization, durable, view, paging, history
  <1>1. /\ pc = "publish" /\ pc' = "deletions" /\ full /\ gone' = (vids \cap OfKind[kind]) \ seen
        /\ \A e \in Entities : batch[e] = "none"
        /\ UNCHANGED <<population, clock, present, stamp, down, last_sync, last_update, ids, vsync,
                       vupdate, vids, full, kind, since, after, latest, batch, seen, stayed, away,
                       slipped>>
    BY DEF FindMissing, Missing, Fetched
  <1>2. ClockInv' /\ ControlInv'
    BY <1>1 DEF ClockInv, ControlInv
  <1>3. \A k \in Kinds : /\ Settled(k)' = Settled(k) /\ Settled(k) \subseteq Entities
                        /\ \A e : (Above(e, k)' <=> Above(e, k)) /\ (Fresh(e, k)' <=> Fresh(e, k))
    BY <1>1 DEF Settled, Above, Fresh
  <1>4. CursorInv' /\ OldInv'
    BY <1>1, <1>3 DEF SettledInv, CursorInv, OldInv
  <1>5. PagesInv' /\ ListedInv' /\ FullInv'
    BY <1>1, <1>3, Numbers DEF SettledInv, PagesInv, ListedInv, FullInv
  <1>6. StayedInv' /\ AwayInv'
    BY <1>1 DEF StayedInv, AwayInv, Through
  <1> QED
    BY <1>2, <1>4, <1>5, <1>6 DEF SettledInv

LEMMA DeletionStep == ASSUME IInv, TypeOK', NEW x \in Entities, PublishDeletion(x) PROVE IInv'
  <1> USE DEF IInv, TypeOK, organization, durable, view, paging, history
  <1>1. /\ pc = "deletions" /\ x \in gone /\ gone' = gone \ {x} /\ full
        /\ down'[x] = "none" /\ \A e \in Entities \ {x} : down'[e] = down[e]
        /\ UNCHANGED <<population, clock, present, stamp, last_sync, last_update, ids, vsync,
                       vupdate, vids, pc, full, kind, since, after, latest, batch, seen, stayed,
                       away, slipped>>
    BY DEF PublishDeletion, ControlInv
  <1>2. /\ x \in OfKind[kind] /\ x \notin seen /\ batch[x] = "none" /\ kind \in Kinds
        /\ \A k \in Kinds : x \in OfKind[k] => k = kind
    BY <1>1, KindsApart DEF ControlInv
  <1>3. ClockInv' /\ ControlInv'
    BY <1>1 DEF ClockInv, ControlInv
  <1>4. \A k \in Kinds : /\ Settled(k)' = Settled(k) /\ Settled(k) \subseteq Entities
                        /\ \A e : (Above(e, k)' <=> Above(e, k)) /\ (Fresh(e, k)' <=> Fresh(e, k))
    BY <1>1 DEF Settled, Above, Fresh
  \* It was deleted for its absence from the pages, and has come back since.
  <1>5. \A k \in Kinds : x \in Settled(k) => k = kind /\ Fresh(x, k)
    <2>1. x \in Settled(kind) => Fresh(x, kind)
      BY <1>1, <1>2 DEF SettledInv, FullInv
    <2> QED
      BY <1>2, <2>1 DEF Settled
  <1>6. CursorInv'
    <2> SUFFICES ASSUME NEW k \in Kinds, NEW e \in Settled(k)
                 PROVE  down'[e] = "current" \/ Above(e, k)
      BY <1>4 DEF CursorInv
    <2>1. CASE e = x
      BY <1>5, <2>1 DEF Fresh
    <2>2. CASE e # x
      BY <1>1, <1>4, <2>2 DEF SettledInv, CursorInv
    <2> QED
      BY <2>1, <2>2
  <1>7. OldInv' /\ PagesInv' /\ FullInv'
    BY <1>1, <1>2, <1>4 DEF SettledInv, OldInv, PagesInv, FullInv
  <1>8. ListedInv'
    <2> SUFFICES ASSUME NEW e \in Settled(kind)
                 PROVE  \/ stamp[e] >= latest
                        \/ batch[e] = "current"
                        \/ batch[e] = "none" /\ down'[e] = "current"
      BY <1>1, <1>2, <1>4 DEF ListedInv
    <2>1. CASE e = x
      BY <1>2, <1>5, <2>1 DEF Fresh
    <2>2. CASE e # x
      BY <1>1, <1>2, <1>4, <2>2 DEF SettledInv, ListedInv
    <2> QED
      BY <2>1, <2>2
  <1>9. StayedInv' /\ AwayInv'
    BY <1>1, <1>2 DEF StayedInv, AwayInv, Through
  <1> QED
    BY <1>3, <1>6, <1>7, <1>8, <1>9 DEF SettledInv

\* A cursor that moves to the latest stamp listed leaves nothing behind.
LEMMA AdvancePreserves ==
    ASSUME IInv, TypeOK', pc \in {"publish", "deletions"}, \A e \in Entities : batch[e] = "none",
           NextKind, UNCHANGED <<organization, down, durable, full, batch, slipped>>,
           \/ vsync' = Advanced(vsync) /\ UNCHANGED vupdate
           \/ vupdate' = Advanced(vupdate) /\ UNCHANGED vsync
    PROVE  ClockInv' /\ SettledInv'
  <1> USE DEF IInv, TypeOK, organization, durable
  <1>1. /\ pc' \in {"pages", "commit"} /\ kind' \in Kinds /\ latest' = 0
        /\ pc' = "pages" => after' = 0
    BY DEF NextKind, BeginKind, Kinds
  <1>2. kind \in Kinds /\ \A k \in Kinds \ {kind} : vsync'[k] = vsync[k] /\ vupdate'[k] = vupdate[k]
    BY DEF Advanced, Cursors
  <1>3. /\ vsync'[kind] \in {vsync[kind], latest}
        /\ vupdate'[kind] \in {vupdate[kind], latest}
    BY DEF Advanced, Cursors
  <1>4. ClockInv'
    <2>1. ASSUME NEW k \in Kinds PROVE vsync'[k] <= clock /\ vupdate'[k] <= clock
      BY <1>2, <1>3 DEF ClockInv
    <2> QED
      BY <1>1, <2>1, Numbers DEF ClockInv
  <1>5. \A k \in Kinds : Settled(k)' = Settled(k) /\ Settled(k) \subseteq Entities
    BY DEF Settled
  <1>6. CursorInv'
    <2> SUFFICES ASSUME NEW k \in Kinds, NEW e \in Settled(k)
                 PROVE  down[e] = "current" \/ Above(e, k)'
      BY <1>5 DEF CursorInv
    <2>1. CASE k # kind
      <3>1. Above(e, k)' <=> Above(e, k)
        BY <1>2, <2>1 DEF Above
      <3> QED
        BY <3>1 DEF SettledInv, CursorInv
    <2>2. CASE k = kind
      <3>1. e \in Entities
        BY <1>5
      <3>2. down[e] = "current" \/ (Above(e, k) /\ stamp[e] >= latest)
        BY <2>2, <3>1 DEF SettledInv, CursorInv, ListedInv
      <3>3. Above(e, k) /\ stamp[e] >= latest => Above(e, k)'
        BY <1>3, <2>2 DEF Above
      <3> QED
        BY <3>2, <3>3
    <2> QED
      BY <2>1, <2>2
  <1>7. OldInv' /\ ListedInv' /\ FullInv'
    BY <1>1, <1>5 DEF OldInv, ListedInv, FullInv
  <1>8. PagesInv'
    <2>1. \A e \in Settled(kind)' : ~(e <= 0)
      BY <1>1, KindsApart DEF Settled
    <2> QED
      BY <1>1, <2>1 DEF PagesInv
  <1> QED
    BY <1>4, <1>6, <1>7, <1>8 DEF SettledInv

LEMMA UpdateCursorStep == ASSUME IInv, TypeOK', SetUpdateCursor PROVE IInv'
  <1> USE DEF IInv, TypeOK, organization, durable, view, paging, history
  <1>1. /\ pc = "publish" /\ ~full /\ \A e \in Entities : batch[e] = "none"
        /\ vupdate' = Advanced(vupdate) /\ NextKind /\ gone = {} /\ seen = {}
        /\ UNCHANGED <<population, clock, present, stamp, down, last_sync, last_update, ids, vsync,
                       vids, full, batch, seen, gone, stayed, away, slipped>>
    BY DEF SetUpdateCursor, Fetched, ControlInv
  <1>2. ClockInv' /\ SettledInv'
    BY <1>1, AdvancePreserves
  <1>3. \/ kind = "user" /\ pc' = "pages" /\ kind' = "device" /\ since' = loadCursor("device")
        \/ kind = "device" /\ pc' = "commit" /\ kind' = "device"
    BY <1>1 DEF NextKind, BeginKind, SinceOf, Kinds
  <1>4. ControlInv'
    <2>1. ASSUME kind = "user" PROVE since' \in {0, vsync'["device"], vupdate'["device"]}
      <3>1. vupdate'["device"] = vupdate["device"]
        BY <1>1, <2>1 DEF Advanced, Cursors, Kinds
      <3> QED
        BY <1>1, <1>3, <2>1, <3>1 DEF loadCursor
    <2> QED
      BY <1>1, <1>3, <2>1 DEF ControlInv
  <1>5. StayedInv' /\ AwayInv'
    BY <1>1 DEF StayedInv, AwayInv
  <1> QED
    BY <1>2, <1>4, <1>5

LEMMA SaveStep == ASSUME IInv, TypeOK', Save PROVE IInv'
  <1> USE DEF IInv, TypeOK, organization, durable, view, paging, history
  <1>1. /\ pc = "deletions" /\ full /\ gone = {} /\ \A e \in Entities : batch[e] = "none"
        /\ vids' = (vids \ OfKind[kind]) \cup seen /\ seen' = {}
        /\ vsync' = Advanced(vsync) /\ NextKind /\ seen \subseteq OfKind[kind]
        /\ UNCHANGED <<population, clock, present, stamp, down, last_sync, last_update, ids, vupdate,
                       full, batch, gone, stayed, away, slipped>>
    BY DEF Save, ControlInv
  <1>2. ClockInv' /\ SettledInv'
    BY <1>1, AdvancePreserves
  <1>3. \/ kind = "user" /\ pc' = "pages" /\ kind' = "device" /\ since' = 0 /\ after' = 0
        \/ kind = "device" /\ pc' = "commit" /\ kind' = "device"
    BY <1>1 DEF NextKind, BeginKind, SinceOf, Kinds
  <1>4. ControlInv'
    BY <1>1, <1>3 DEF ControlInv
  <1>5. \A k \in Kinds : Through(k)' <=> Through(k) \/ k = kind
    BY <1>1, <1>3 DEF Through, Kinds
  <1>6. kind \in Kinds /\ kind' \in Kinds /\ \A e \in OfKind[kind'] : ~(e <= 0)
        /\ \A k \in Kinds : k # kind => vids' \cap OfKind[k] = vids \cap OfKind[k]
    <2>1. \A k \in Kinds : k # kind => OfKind[k] \cap OfKind[kind] = {}
      BY KindsApart
    <2>2. \A k \in Kinds : k # kind => vids' \cap OfKind[k] = vids \cap OfKind[k]
      BY <1>1, <2>1
    <2>3. kind \in Kinds /\ kind' \in Kinds
      OBVIOUS
    <2>4. \A e \in OfKind[kind'] : ~(e <= 0)
      <3>1. OfKind[kind'] \subseteq Nat \ {0}
        BY <2>3, KindsApart
      <3> QED
        BY <3>1
    <2> QED
      BY <2>2, <2>3, <2>4
  <1>7. StayedInv'
    <2>1. \A e \in stayed \cap OfKind[kind] : down[e] # "none"
      BY <1>1 DEF StayedInv
    <2>2. ASSUME NEW k \in Kinds, Through(k)' PROVE \A e \in stayed \cap OfKind[k] : down[e] # "none"
      BY <1>1, <1>5, <2>1, <2>2 DEF StayedInv
    <2>3. pc' = "pages" => after' = 0
      BY <1>3
    <2> QED
      BY <1>1, <1>3, <1>6, <2>2, <2>3 DEF StayedInv
  <1>8. AwayInv'
    <2>1. ASSUME NEW k \in Kinds, ~Through(k)' PROVE vids' \cap OfKind[k] = ids \cap OfKind[k]
      <3>1. ~Through(k) /\ k # kind
        BY <1>5, <2>1
      <3>2. vids \cap OfKind[k] = ids \cap OfKind[k]
        BY <1>1, <3>1 DEF AwayInv
      <3>3. vids' \cap OfKind[k] = vids \cap OfKind[k]
        <4>1. OfKind[k] \cap OfKind[kind] = {}
          BY <1>6, <3>1, KindsApart
        <4> QED
          BY <1>1, <4>1
      <3> QED
        BY <3>2, <3>3
    <2>2. ASSUME NEW k \in Kinds, Through(k)'
          PROVE  /\ vids' \cap away \cap OfKind[k] = {}
                 /\ \A e \in ids \cap away \cap OfKind[k] : down[e] = "none"
      <3>1. CASE k = kind
        <4>1. ~Through(kind)
          BY <1>1, <1>3 DEF Through
        <4>2. vids \cap OfKind[kind] = ids \cap OfKind[kind]
          BY <1>1, <1>6, <4>1 DEF AwayInv
        <4>3. \A e \in vids \cap away \cap OfKind[kind] : down[e] = "none"
          BY <1>1 DEF AwayInv
        <4>4. vids' \cap away \cap OfKind[kind] = {}
          BY <1>1 DEF AwayInv
        <4> QED
          BY <3>1, <4>2, <4>3, <4>4
      <3>2. CASE k # kind
        BY <1>1, <1>5, <1>6, <2>2, <3>2 DEF AwayInv
      <3> QED
        BY <3>1, <3>2
    <2> QED
      BY <1>1, <1>3, <2>1, <2>2 DEF AwayInv
  <1> QED
    BY <1>2, <1>4, <1>7, <1>8

-----------------------------------------------------------------------------
(* The commit *)

LEMMA FlushStep == ASSUME IInv, TypeOK', NEW j \in Kinds, Flush(j) PROVE IInv'
  <1> USE DEF IInv, TypeOK, organization, durable, view, paging, history
  <1>1. /\ pc = "commit"
        /\ UNCHANGED <<population, clock, present, stamp, down, vsync, vupdate, vids, pc, full, kind,
                       since, after, latest, batch, seen, gone, stayed, away, slipped>>
        /\ ids' \in {ids, (ids \ OfKind[j]) \cup (vids \cap OfKind[j])}
        /\ \A k \in Kinds : /\ last_sync'[k] \in {last_sync[k], vsync[k]}
                            /\ last_update'[k] \in {last_update[k], vupdate[k]}
    BY DEF Flush, Cursors
  <1>2. ClockInv' /\ ControlInv'
    BY <1>1 DEF ClockInv, ControlInv
  <1>3. \A k \in Kinds : /\ Settled(k)' = Settled(k) /\ Settled(k) \subseteq Entities
                        /\ \A e : Above(e, k) => Above(e, k)'
    BY <1>1 DEF Settled, Above
  <1>4. CursorInv'
    BY <1>1, <1>3 DEF SettledInv, CursorInv
  <1>5. OldInv' /\ PagesInv' /\ ListedInv' /\ FullInv'
    BY <1>1, <1>3 DEF SettledInv, ControlInv, OldInv, PagesInv, ListedInv, FullInv
  <1>6. StayedInv'
    BY <1>1 DEF StayedInv, Through
  <1>7. AwayInv'
    <2>1. full => \A k \in Kinds : vids \cap away \cap OfKind[k] = {}
      BY <1>1 DEF AwayInv, Through
    <2>2. full => \A k \in Kinds : \A e \in ids' \cap away \cap OfKind[k] : down[e] = "none"
      BY <1>1, <2>1 DEF AwayInv, Through
    <2> QED
      BY <1>1, <2>1, <2>2 DEF AwayInv, Through
  <1> QED
    BY <1>2, <1>4, <1>5, <1>6, <1>7 DEF SettledInv

LEMMA EndStep == ASSUME IInv, TypeOK', Commit \/ Abort PROVE IInv'
  <1> USE DEF IInv, TypeOK, organization, durable, view, paging, history
  <1>1. /\ pc' = "idle" /\ ~full' /\ latest' = 0 /\ seen' = {} /\ gone' = {} /\ away' = {}
        /\ stayed' = {} /\ \A e \in Entities : batch'[e] = "none"
        /\ UNCHANGED <<population, clock, present, stamp, down, slipped>>
        /\ vids' = ids'
    BY DEF Commit, Abort, Reset, Nothing
  <1>2. \A k \in Kinds : /\ last_sync'[k] \in {last_sync[k], vsync[k]}
                        /\ vsync'[k] \in {last_sync[k], vsync[k]}
                        /\ last_update'[k] \in {last_update[k], vupdate[k]}
                        /\ vupdate'[k] \in {last_update[k], vupdate[k]}
    BY DEF Commit, Abort
  <1>3. ClockInv' /\ ControlInv'
    BY <1>1, <1>2, Numbers DEF ClockInv, ControlInv
  <1>4. \A k \in Kinds : /\ Settled(k)' = Settled(k) /\ Settled(k) \subseteq Entities
                        /\ \A e : Above(e, k) => Above(e, k)'
    BY <1>1, <1>2 DEF Settled, Above
  <1>5. CursorInv'
    BY <1>1, <1>4 DEF SettledInv, CursorInv
  <1>6. OldInv' /\ PagesInv' /\ ListedInv' /\ FullInv'
    BY <1>1, <1>4 DEF OldInv, PagesInv, ListedInv, FullInv
  <1>7. StayedInv' /\ AwayInv'
    BY <1>1 DEF StayedInv, AwayInv
  <1> QED
    BY <1>3, <1>5, <1>6, <1>7 DEF SettledInv

LEMMA StutterStep == ASSUME IInv, TypeOK', UNCHANGED vars PROVE IInv'
  <1> USE DEF IInv, vars, organization, durable, view, paging, history
  <1>1. ClockInv' /\ ControlInv' /\ StayedInv' /\ AwayInv'
    BY DEF ClockInv, ControlInv, StayedInv, AwayInv, Through
  <1>2. SettledInv'
    BY DEF SettledInv, CursorInv, OldInv, PagesInv, ListedInv, FullInv, Settled, Above, Fresh
  <1> QED
    BY <1>1, <1>2

LEMMA InvPreserved == IInv /\ [Next]_vars => IInv'
  <1> SUFFICES ASSUME IInv, [Next]_vars PROVE IInv'
    OBVIOUS
  <1>1. TypeOK'
    BY TypesPreserved DEF IInv
  <1>2. CASE Tick
    BY <1>1, <1>2, TickStep
  <1>3. ASSUME NEW e \in Entities, Update(e) \/ Purge(e) PROVE IInv'
    BY <1>1, <1>3, UpdateStep, PurgeStep
  <1>4. ASSUME NEW f \in BOOLEAN, Start(f) PROVE IInv'
    BY <1>1, <1>4, StartStep
  <1>5. CASE FetchPage \/ FindMissing
    BY <1>1, <1>5, FetchStep, MissingStep
  <1>6. ASSUME NEW e \in Entities, Publish(e) \/ PublishDeletion(e) PROVE IInv'
    BY <1>1, <1>6, PublishStep, DeletionStep
  <1>7. CASE SetUpdateCursor \/ Save
    BY <1>1, <1>7, UpdateCursorStep, SaveStep
  <1>8. ASSUME NEW k \in Kinds, Flush(k) PROVE IInv'
    BY <1>1, <1>8, FlushStep
  <1>9. CASE Commit \/ Abort
    BY <1>1, <1>9, EndStep
  <1>10. CASE UNCHANGED vars
    BY <1>1, <1>10, StutterStep
  <1> QED
    BY <1>2, <1>3, <1>4, <1>5, <1>6, <1>7, <1>8, <1>9, <1>10 DEF Next, Sync

-----------------------------------------------------------------------------
(* The theorems *)

LEMMA OktaInvariant == Spec => []IInv
  BY InitEstablishes, InvPreserved, PTL DEF Spec

\* Every variable keeps its type.
THEOREM OktaTypes == Spec => []TypeOK
  <1>1. IInv => TypeOK
    BY DEF IInv
  <1> QED
    BY OktaInvariant, <1>1, PTL

\* Neither of the two cursors of a kind ever passes a change that is not
\* downstream, unless it slipped by the pages of a sync: whatever syncs
\* follow each other, fail, and tear their commits.
THEOREM CursorsPassOnlySlips == Spec => []OnlySlipsFallBehind
  <1>1. IInv => OnlySlipsFallBehind
    <2> SUFFICES ASSUME IInv, NEW e \in BehindCursor \ slipped PROVE down[e] = "current"
      BY DEF OnlySlipsFallBehind
    <2>1. PICK k \in Kinds :
            /\ e \in OfKind[k] /\ e \in present
            /\ stamp[e] < IF last_update[k] # 0 THEN last_update[k] ELSE last_sync[k]
      BY DEF BehindCursor
    <2>2. e \in Settled(k) /\ e \in Entities
      BY <2>1, KindsApart DEF Settled
    <2>3. stamp[e] \in Nat /\ last_sync[k] \in Nat /\ last_update[k] \in Nat
      BY <2>2, Numbers DEF IInv
    <2>4. ~Above(e, k)
      BY <2>1, <2>3 DEF Above
    <2> QED
      BY <2>2, <2>4 DEF IInv, SettledInv, CursorInv
  <1> QED
    BY OktaInvariant, <1>1, PTL

LEMMA EntityHasKind ==
    ASSUME TypeOK, NEW e \in Entities, pc = "commit"
    PROVE  \E k \in Kinds : e \in OfKind[k] /\ Through(k)
  BY KindsApart DEF Through

\* However its pages are cut, a full sync does not delete what existed all along.
THEOREM FullSyncKeepsWhatStayed == Spec => []FullSyncKeepsPresent
  <1>1. IInv => FullSyncKeepsPresent
    BY EntityHasKind DEF IInv, TypeOK, FullSyncKeepsPresent, FullDone, StayedInv
  <1> QED
    BY OktaInvariant, <1>1, PTL

\* A full sync deletes everything a committed id set remembers that was gone
\* when it began.
THEOREM FullSyncDeletesWhatLeft == Spec => []FullSyncDeletesRemembered
  <1>1. IInv => FullSyncDeletesRemembered
    <2> SUFFICES ASSUME IInv, FullDone, NEW e \in away \cap ids PROVE down[e] = "none"
      BY DEF FullSyncDeletesRemembered
    <2>1. PICK k \in Kinds : e \in OfKind[k] /\ Through(k)
      BY EntityHasKind DEF IInv, TypeOK, FullDone
    <2> QED
      BY <2>1 DEF IInv, AwayInv, FullDone
  <1> QED
    BY OktaInvariant, <1>1, PTL
=============================================================================
