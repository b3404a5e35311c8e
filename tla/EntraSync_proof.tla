-------------------------- MODULE EntraSync_proof ---------------------------
(***************************************************************************)
(* No change and no removal falls behind a durable delta link.             *)
(*                                                                         *)
(* The invariant follows an entity whose state is not downstream through a *)
(* sync: it is listed by the link the sync started from, then fetched and  *)
(* waiting to be published, or, changed since, listed by the next link.    *)
(* Kinds do not mix, and links are made before their documents are         *)
(* published and stored after.                                             *)
(***************************************************************************)
EXTENDS EntraSync, TLAPS

\* Downstream lacks the current state, or has what is gone.
Behind ==
    {e \in Entities :
        \/ e \in present /\ down[e] # "current"
        \/ e \notin present \cup unreported /\ down[e] # "none"}

\* What was fetched is the state the entity has; or no longer is.
Right == {e \in Entities : batch[e] = IF e \in present THEN "current" ELSE "removed"}
Stale == {e \in Entities \ Right : batch[e] # "none"}

\* The link lists every entity of its kind that is, or soon will be, behind.
Covers(link, k) ==
    link # NoLink => OfKind[k] \cap (Behind \cup Stale) \subseteq link

\* The answers of the running sync and the link that came with them cover
\* what is behind.
Fetched(k) ==
    /\ newlink[k] = NoLink => \A e \in OfKind[k] : batch[e] = "none"
    /\ newlink[k] # NoLink =>
        /\ OfKind[k] \cap Behind \subseteq newlink[k] \cup Right
        /\ OfKind[k] \cap Stale \subseteq newlink[k]

\* Links are sets of entities of their kind.
KindLinks(l) == \A k \in Kinds : l[k] # NoLink => l[k] \subseteq OfKind[k]

\* "current" is said of entities that exist, and of a fetched state that has
\* changed since downstream has no later one.
Truthful ==
    \A e \in Entities :
        /\ down[e] = "current" => e \in present
        /\ batch[e] = "current" => e \in present
        /\ batch[e] \in {"old", "removed"} => down[e] # "current"

\* A kind has no new link before it was queried.
Unqueried ==
    /\ pc = "user" => \A k \in Kinds : newlink[k] = NoLink
    /\ pc = "device" => newlink["device"] = NoLink

\* The inductive invariant.
IInv ==
    /\ TypeOK
    /\ Truthful
    /\ Unqueried
    /\ KindLinks(dlink) /\ KindLinks(vlink) /\ KindLinks(newlink)
    /\ \A k \in Kinds : Covers(dlink[k], k) /\ Covers(vlink[k], k) /\ Fetched(k)
    /\ pc \in {"idle", "links", "commit"} => batch = Nothing

\* Users and devices are entities, and no device is a user.
LEMMA KindsApart ==
  /\ \A k \in Kinds : OfKind[k] \subseteq Entities
  /\ \A j, k \in Kinds : j # k => OfKind[j] \cap OfKind[k] = {}
  BY EntraSyncAssumption DEF Kinds, OfKind, Entities

\* A new provider has no link, an established one is in sync.
LEMMA InitIInv == Init => IInv
  <1> SUFFICES ASSUME Init PROVE IInv
    OBVIOUS
  <1> USE DEF Init, Unset, Nothing
  <1>1. dlink \in Links /\ vlink = dlink /\ newlink = Unset
    BY DEF Links
  <1>2. TypeOK
    BY <1>1 DEF TypeOK, Links, States
  <1>3. KindLinks(dlink) /\ KindLinks(vlink) /\ KindLinks(newlink)
    BY DEF KindLinks
  <1>4. ASSUME NEW k \in Kinds PROVE Covers(dlink[k], k) /\ Covers(vlink[k], k)
    BY DEF Covers
  <1>5. ASSUME NEW k \in Kinds PROVE Fetched(k)
    BY KindsApart DEF Fetched
  <1>6. Truthful /\ Unqueried
    BY EntraSyncAssumption DEF Truthful, Unqueried
  <1> QED
    BY <1>2, <1>3, <1>4, <1>5, <1>6 DEF IInv

\* Types are preserved.
LEMMA TypeStep == TypeOK /\ [Next]_vars => TypeOK'
  <1> SUFFICES ASSUME TypeOK, [Next]_vars PROVE TypeOK'
    OBVIOUS
  <1> USE DEF TypeOK, Links, States
  <1>1. ASSUME NEW e \in Entities, Change(e) PROVE TypeOK'
    <2>1. \A l \in Links : Noted(l, e) \in Links
      <3> SUFFICES ASSUME NEW l \in Links, NEW k \in Kinds
                   PROVE Noted(l, e)[k] \in {NoLink} \cup SUBSET Entities
        BY DEF Noted
      <3>1. l[k] = NoLink \/ l[k] \cup {e} \in SUBSET Entities
        OBVIOUS
      <3> QED
        BY <3>1 DEF Noted
    <2>2. Outdated(down, e) \in [Entities -> States]
      BY DEF Outdated
    <2>3. Outdated(batch, e) \in [Entities -> States \cup {"removed"}]
      BY DEF Outdated
    <2>4. present' \in SUBSET Entities
      BY <1>1 DEF Change
    <2>5. /\ down' = Outdated(down, e) /\ batch' = Outdated(batch, e)
          /\ dlink' = Noted(dlink, e) /\ vlink' = Noted(vlink, e)
          /\ newlink' = Noted(newlink, e) /\ unreported' = unreported \ {e}
          /\ UNCHANGED <<pc, full>>
      BY <1>1 DEF Change
    <2> QED
      BY <2>1, <2>2, <2>3, <2>4, <2>5
  <1>2. ASSUME NEW f \in BOOLEAN, Start(f) PROVE TypeOK'
    BY <1>2 DEF Start, Unset, Nothing
  <1>3. ASSUME NEW k \in Kinds, Fetch(k) PROVE TypeOK'
    <2>1. newlink' \in Links
      BY <1>3 DEF Fetch
    <2>2. batch' \in [Entities -> States \cup {"removed"}]
      BY <1>3 DEF Fetch
    <2>3. pc' \in {"device", "links", "publish"}
      BY <1>3 DEF Fetch
    <2>4. unreported' \in SUBSET Entities
      BY <1>3, KindsApart DEF Fetch
    <2> QED
      BY <1>3, <2>1, <2>2, <2>3, <2>4 DEF Fetch
  <1>4. ASSUME NEW k \in Kinds, Expire(k) PROVE TypeOK'
    BY <1>4 DEF Expire
  <1>5. ASSUME NEW e \in Entities, Publish(e) PROVE TypeOK'
    BY <1>5 DEF Publish, links
  <1>6. CASE Published \/ SetLinks
    BY <1>6 DEF Published, SetLinks, links
  <1>7. CASE Commit \/ Abort
    BY <1>7 DEF Commit, Abort, End, Unset, Nothing
  <1>8. ASSUME NEW k \in Kinds, FlushLink(k) PROVE TypeOK'
    BY <1>8 DEF FlushLink
  <1>9. CASE UNCHANGED vars
    BY <1>9 DEF vars, links
  <1> QED
    BY <1>1, <1>2, <1>3, <1>4, <1>5, <1>6, <1>7, <1>8, <1>9 DEF Next, Sync

-----------------------------------------------------------------------------
(* One lemma per kind of step.                                             *)

\* A change of the tenant is noted in every link there is.
LEMMA ChangeStep == ASSUME NEW x \in Entities PROVE IInv /\ Change(x) => IInv'
  <1> SUFFICES ASSUME IInv, Change(x) PROVE IInv'
    OBVIOUS
  <1>1. TypeOK'
    BY TypeStep DEF IInv, Next
  <1>2. /\ down' = Outdated(down, x) /\ batch' = Outdated(batch, x)
        /\ dlink' = Noted(dlink, x) /\ vlink' = Noted(vlink, x)
        /\ newlink' = Noted(newlink, x) /\ unreported' = unreported \ {x}
        /\ UNCHANGED <<pc, full>>
        /\ \A e \in Entities : e # x => (e \in present' <=> e \in present)
    BY DEF Change
  <1>3. ASSUME NEW l \in Links, KindLinks(l), NEW k \in Kinds
        PROVE /\ Noted(l, x)[k] = NoLink <=> l[k] = NoLink
              /\ l[k] # NoLink =>
                    /\ Noted(l, x)[k] \subseteq OfKind[k]
                    /\ \A e \in OfKind[k] :
                          e \in Noted(l, x)[k] <=> e \in l[k] \/ e = x
    <2>1. l[k] # NoLink => l[k] \cup {x} # NoLink
      BY <1>3, EntraSyncAssumption DEF Links
    <2> QED
      BY <1>3, <2>1 DEF Noted, KindLinks
  <1>4. KindLinks(dlink') /\ KindLinks(vlink') /\ KindLinks(newlink')
    BY <1>2, <1>3 DEF IInv, TypeOK, KindLinks
  <1>5. \A e \in Entities :
          /\ e # x => down'[e] = down[e] /\ batch'[e] = batch[e]
          /\ batch'[e] = "none" <=> batch[e] = "none"
          /\ batch'[e] = "removed" <=> batch[e] = "removed"
    BY <1>2 DEF Outdated, IInv, TypeOK
  <1>6. ASSUME NEW k \in Kinds
        PROVE Covers(dlink[k], k)' /\ Covers(vlink[k], k)' /\ Fetched(k)'
    <2>1. /\ Behind' \ {x} = Behind \ {x}
          /\ Right' \ {x} = Right \ {x}
          /\ Stale' \ {x} = Stale \ {x}
      BY <1>2, <1>5 DEF Behind, Right, Stale
    <2>2. Covers(dlink[k], k)'
      BY <1>2, <1>3, <2>1 DEF IInv, TypeOK, Covers
    <2>3. Covers(vlink[k], k)'
      BY <1>2, <1>3, <2>1 DEF IInv, TypeOK, Covers
    <2>4. Fetched(k)'
      BY <1>2, <1>3, <1>5, <2>1, KindsApart DEF IInv, TypeOK, Fetched
    <2> QED
      BY <2>2, <2>3, <2>4
  <1>7. pc' \in {"idle", "links", "commit"} => batch' = Nothing
    BY <1>2 DEF IInv, Outdated, Nothing
  <1>8. Truthful'
    <2>1. down'[x] # "current" /\ batch'[x] # "current"
      BY <1>2 DEF Outdated, IInv, TypeOK
    <2>2. \A e \in Entities : e # x => down'[e] = down[e] /\ batch'[e] = batch[e]
      BY <1>5
    <2> QED
      BY <1>2, <2>1, <2>2 DEF IInv, Truthful
  <1>9. Unqueried'
    BY <1>2, <1>3 DEF IInv, TypeOK, Unqueried, Kinds
  <1> QED
    BY <1>1, <1>4, <1>6, <1>7, <1>8, <1>9 DEF IInv

\* A query lists what its link covers, and returns a link that lists nothing.
LEMMA FetchStep == ASSUME NEW j \in Kinds PROVE IInv /\ Fetch(j) => IInv'
  <1> SUFFICES ASSUME IInv, Fetch(j) PROVE IInv'
    OBVIOUS
  <1>1. TypeOK'
    BY TypeStep DEF IInv, Next, Sync
  <1>2. Listed(j) \subseteq OfKind[j]
    BY DEF Listed, IInv, KindLinks
  <1>3. /\ newlink' = [newlink EXCEPT ![j] = {}]
        /\ batch' = [e \in Entities |->
                        IF e \notin Listed(j) THEN batch[e]
                        ELSE IF e \in present THEN "current" ELSE "removed"]
        /\ unreported \subseteq unreported'
        /\ vlink[j] = NoLink =>
              \A e \in OfKind[j] \ present : down[e] # "none" => e \in unreported'
        /\ UNCHANGED <<present, down, dlink, vlink>>
    BY DEF Fetch
  <1>4. KindLinks(dlink') /\ KindLinks(vlink') /\ KindLinks(newlink')
    BY <1>3 DEF IInv, KindLinks, TypeOK, Links
  <1>5. /\ Entities \cap Listed(j) \subseteq Right' \ Stale'
        /\ Right' \ Listed(j) = Right \ Listed(j)
        /\ Stale' \ Listed(j) = Stale \ Listed(j)
        /\ Behind' \subseteq Behind
    BY <1>3 DEF Right, Stale, Behind
  <1>6. ASSUME NEW k \in Kinds PROVE Covers(dlink[k], k)' /\ Covers(vlink[k], k)'
    BY <1>3, <1>5, KindsApart DEF IInv, Covers
  <1>7. ASSUME NEW k \in Kinds PROVE Fetched(k)'
    <2>1. CASE k # j
      <3>1. \A e \in OfKind[k] : e \in Entities /\ e \notin Listed(j)
        BY <1>2, <2>1, KindsApart
      <3>2. newlink'[k] = newlink[k]
        BY <1>3, <2>1 DEF IInv, TypeOK, Links
      <3>3. \A e \in OfKind[k] : batch'[e] = batch[e]
        BY <1>3, <3>1
      <3> QED
        BY <1>5, <3>1, <3>2, <3>3 DEF IInv, Fetched
    <2>2. CASE k = j
      <3>1. newlink'[j] = {} /\ newlink'[j] # NoLink
        BY <1>3, EntraSyncAssumption DEF IInv, TypeOK, Links
      <3>2. OfKind[j] \cap Behind' \subseteq Listed(j)
        BY <1>3, <1>5, KindsApart DEF IInv, Covers, Behind, Listed
      <3>3. \A e \in OfKind[j] : e \in Entities
        BY KindsApart
      <3>4. \A e \in OfKind[j] : batch[e] = "none"
        BY DEF Fetch, IInv, Unqueried, Fetched, Kinds
      <3> QED
        BY <1>5, <2>2, <3>1, <3>2, <3>3, <3>4 DEF Fetched, Stale
    <2> QED
      BY <2>1, <2>2
  <1>8. pc' \in {"idle", "links", "commit"} => batch' = Nothing
    BY DEF Fetch
  <1>9. Truthful'
    BY <1>3 DEF IInv, Truthful
  <1>10. Unqueried'
    BY <1>3 DEF Fetch, IInv, Unqueried, TypeOK, Links, Kinds
  <1> QED
    BY <1>1, <1>4, <1>6, <1>7, <1>8, <1>9, <1>10 DEF IInv

\* A full sync forgets the links of its view; an incremental one keeps them.
LEMMA StartStep == ASSUME NEW f \in BOOLEAN PROVE IInv /\ Start(f) => IInv'
  <1> SUFFICES ASSUME IInv, Start(f) PROVE IInv'
    OBVIOUS
  <1>1. TypeOK'
    BY TypeStep DEF IInv, Next
  <1>2. /\ vlink' \in {Unset, vlink} /\ newlink' = Unset /\ batch' = Nothing
        /\ pc' = "user" /\ UNCHANGED <<present, down, dlink, unreported>>
    BY DEF Start
  <1>3. KindLinks(dlink') /\ KindLinks(vlink') /\ KindLinks(newlink')
    BY <1>2 DEF IInv, KindLinks, Unset
  <1>4. ASSUME NEW k \in Kinds PROVE Covers(dlink[k], k)' /\ Covers(vlink[k], k)'
    BY <1>2, KindsApart DEF IInv, Covers, Behind, Stale, Unset, Nothing
  <1>5. ASSUME NEW k \in Kinds PROVE Fetched(k)'
    BY <1>2, KindsApart DEF Fetched, Unset, Nothing
  <1>6. Truthful' /\ Unqueried'
    BY <1>2 DEF IInv, Truthful, Unqueried, Unset, Nothing, Kinds
  <1> QED
    BY <1>1, <1>2, <1>3, <1>4, <1>5, <1>6 DEF IInv

\* Without a link there is nothing to cover.
LEMMA ExpireStep == ASSUME NEW j \in Kinds PROVE IInv /\ Expire(j) => IInv'
  <1> SUFFICES ASSUME IInv, Expire(j) PROVE IInv'
    OBVIOUS
  <1>1. TypeOK'
    BY TypeStep DEF IInv, Next
  <1>2. /\ vlink' = [vlink EXCEPT ![j] = NoLink]
        /\ UNCHANGED <<present, down, dlink, newlink, pc, full, batch, unreported>>
    BY DEF Expire
  <1>3. \A k \in Kinds : vlink'[k] = NoLink \/ vlink'[k] = vlink[k]
    BY <1>2 DEF IInv, TypeOK, Links
  <1> QED
    BY <1>1, <1>2, <1>3
    DEF IInv, KindLinks, Covers, Fetched, Behind, Right, Stale, Truthful, Unqueried

\* What is published is no longer behind, or the next link lists it.
LEMMA PublishStep == ASSUME NEW x \in Entities PROVE IInv /\ Publish(x) => IInv'
  <1> SUFFICES ASSUME IInv, Publish(x) PROVE IInv'
    OBVIOUS
  <1>1. TypeOK'
    BY TypeStep DEF IInv, Next, Sync
  <1>2. /\ down' = [down EXCEPT ![x] =
                        IF batch[x] = "removed" THEN "none" ELSE batch[x]]
        /\ batch' = [batch EXCEPT ![x] = "none"]
        /\ pc = "publish"
        /\ UNCHANGED <<present, dlink, vlink, newlink, pc, full, unreported>>
    BY DEF Publish, links
  <1>3. \A e \in Entities \ {x} : down'[e] = down[e] /\ batch'[e] = batch[e]
    BY <1>2 DEF IInv, TypeOK
  <1>4. /\ batch'[x] = "none"
        /\ down'[x] = IF batch[x] = "removed" THEN "none" ELSE batch[x]
    BY <1>2 DEF IInv, TypeOK
  <1>5. batch[x] \in {"old", "current", "removed"}
    BY DEF Publish, IInv, TypeOK, States
  <1>6. /\ Behind' \ {x} = Behind \ {x}
        /\ Right' \ {x} = Right \ {x}
        /\ Stale' \ {x} = Stale \ {x}
        /\ x \in Behind' => x \in Stale
        /\ x \notin Stale'
    BY <1>2, <1>3, <1>4, <1>5 DEF Behind, Right, Stale
  <1>7. ASSUME NEW k \in Kinds PROVE Covers(dlink[k], k)' /\ Covers(vlink[k], k)'
    BY <1>2, <1>6, KindsApart DEF IInv, Covers
  <1>8. ASSUME NEW k \in Kinds PROVE Fetched(k)'
    BY <1>2, <1>3, <1>4, <1>6, KindsApart DEF IInv, Fetched
  <1>9. Truthful'
    BY <1>2, <1>3, <1>4, <1>5 DEF IInv, Truthful
  <1> QED
    BY <1>1, <1>2, <1>7, <1>8, <1>9 DEF IInv, KindLinks, Unqueried

\* With nothing left to publish, the new links cover what is behind.
LEMMA LinksStep == IInv /\ (Published \/ SetLinks) => IInv'
  <1> SUFFICES ASSUME IInv, Published \/ SetLinks PROVE IInv'
    OBVIOUS
  <1>1. TypeOK'
    BY TypeStep DEF IInv, Next, Sync
  <1>2. /\ vlink' \in {vlink, newlink} /\ batch = Nothing
        /\ pc' \in {"links", "commit"}
        /\ UNCHANGED <<present, down, dlink, newlink, full, batch, unreported>>
    BY DEF IInv, Published, SetLinks, links
  <1>3. ASSUME NEW k \in Kinds PROVE Covers(newlink[k], k)
    <2>1. \A e \in OfKind[k] : batch[e] = "none"
      BY <1>2, KindsApart DEF Nothing
    <2> QED
      BY <2>1 DEF IInv, Covers, Fetched, Right, Stale
  <1>4. ASSUME NEW k \in Kinds
        PROVE Covers(dlink[k], k)' /\ Covers(vlink[k], k)' /\ Fetched(k)'
    BY <1>2, <1>3 DEF IInv, Covers, Fetched, Behind, Right, Stale
  <1> QED
    BY <1>1, <1>2, <1>4 DEF IInv, KindLinks, Truthful, Unqueried

\* Flushed or dropped, durable links are links of the view or older ones.
LEMMA AdapterStep ==
  IInv /\ ((\E k \in Kinds : FlushLink(k)) \/ Commit \/ Abort) => IInv'
  <1> SUFFICES ASSUME IInv, (\E k \in Kinds : FlushLink(k)) \/ Commit \/ Abort
               PROVE IInv'
    OBVIOUS
  <1>1. TypeOK'
    BY TypeStep DEF IInv, Next, Sync
  <1>2. /\ UNCHANGED <<present, down, unreported>>
        /\ vlink' \in {vlink, dlink}
        /\ \A k \in Kinds : dlink'[k] \in {dlink[k], vlink[k]}
    BY DEF FlushLink, Commit, Abort, IInv, TypeOK, Links
  <1>3. \/ UNCHANGED <<newlink, batch, pc>>
        \/ newlink' = Unset /\ batch' = Nothing /\ pc' = "idle"
    BY DEF FlushLink, Commit, Abort, End
  <1>4. KindLinks(dlink') /\ KindLinks(vlink') /\ KindLinks(newlink')
    BY <1>2, <1>3 DEF IInv, KindLinks, Unset
  <1>5. ASSUME NEW k \in Kinds PROVE Covers(dlink[k], k)' /\ Covers(vlink[k], k)'
    BY <1>2, <1>3, KindsApart DEF IInv, Covers, Behind, Right, Stale, Nothing
  <1>6. ASSUME NEW k \in Kinds PROVE Fetched(k)'
    BY <1>2, <1>3, KindsApart DEF IInv, Fetched, Behind, Right, Stale, Unset, Nothing
  <1>7. Truthful' /\ Unqueried'
    BY <1>2, <1>3 DEF IInv, Truthful, Unqueried, Nothing
  <1>8. pc' \in {"idle", "links", "commit"} => batch' = Nothing
    BY <1>3 DEF IInv, Nothing
  <1> QED
    BY <1>1, <1>4, <1>5, <1>6, <1>7, <1>8 DEF IInv

\* Every step preserves the invariant.
LEMMA IInvStep == IInv /\ [Next]_vars => IInv'
  <1> SUFFICES ASSUME IInv, [Next]_vars PROVE IInv'
    OBVIOUS
  <1>1. CASE UNCHANGED vars
    BY <1>1 DEF vars, links, IInv, TypeOK, KindLinks, Covers, Fetched, Behind,
                Right, Stale, Truthful, Unqueried
  <1> QED
    BY <1>1, ChangeStep, StartStep, FetchStep, ExpireStep, PublishStep, LinksStep,
       AdapterStep DEF Next, Sync

\* The whole invariant holds.
LEMMA Invariant == Spec => []IInv
  BY InitIInv, IInvStep, PTL DEF Spec

\* EntraSync keeps its types.
THEOREM EntraTypes == Spec => []TypeOK
  <1>1. IInv => TypeOK
    BY DEF IInv
  <1> QED
    BY Invariant, <1>1, PTL

\* An entity whose current state downstream has not got is always listed by
\* the next query with the durable link, whatever fails, expires or is torn:
\* links come with the answers and are stored after the documents of those
\* answers were published (entraid/provider.go:195-202, 366-373).
THEOREM NothingFallsBehind == Spec => []NothingBehindLink
  <1>1. IInv => NothingBehindLink
    BY KindsApart DEF IInv, NothingBehindLink, Covers, Behind
  <1> QED
    BY Invariant, <1>1, PTL

\* So is an entity that is gone without downstream knowing, unless a query
\* without a link passed it over.
THEOREM RemovalsAreListed == Spec => []NoRemovalBehindLink
  <1>1. IInv => NoRemovalBehindLink
    BY KindsApart DEF IInv, NoRemovalBehindLink, Covers, Behind
  <1> QED
    BY Invariant, <1>1, PTL
=============================================================================
