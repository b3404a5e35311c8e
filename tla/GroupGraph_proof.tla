-------------------------- MODULE GroupGraph_proof --------------------------
(***************************************************************************)
(* GroupGraph implements Membership, for any ids, groups and memberships.  *)
(*                                                                         *)
(* Three things carry the proof. Keys separate: an id's edges are found by *)
(* prefix because the separator is no letter of an id. The file holds the  *)
(* edges of the groups added (DiskInv), because a transaction holds only   *)
(* those of the current group and is dropped with an error (TxInv), and    *)
(* because pages lose no member (PagesInv). Then each step of a lookup     *)
(* sees what Membership sees, and correctness follows from what is proved  *)
(* of Membership at the end.                                               *)
(***************************************************************************)
EXTENDS GroupGraph, SequenceTheorems, FiniteSetTheorems, TLAPS

Id == Seq(Nat \ {0})

\* A key begins with the prefix of an id only if it is an edge from that id:
\* the separator is no letter. What follows the prefix is the other id.
LEMMA PrefixSeparates ==
    ASSUME NEW a \in Id, NEW b \in Id, NEW g \in Id
    PROVE  /\ IsPrefix(edgePrefix(a), edgeKey(b, g)) <=> a = b
           /\ SubSeq(edgeKey(a, g), Len(edgePrefix(a)) + 1, Len(edgeKey(a, g))) = g
  <1> DEFINE p == edgePrefix(a)
             k == edgeKey(b, g)
  <1>1. /\ p \in Seq(Nat) /\ Len(p) = Len(a) + 1
        /\ \A i \in 1..Len(a) : p[i] = a[i]
        /\ p[Len(a) + 1] = 0
    BY DEF Id, edgePrefix, edgeSep
  <1>2. /\ k \in Seq(Nat) /\ Len(k) = Len(b) + 1 + Len(g)
        /\ \A i \in 1..Len(b) : k[i] = b[i]
        /\ k[Len(b) + 1] = 0
        /\ \A i \in 1..Len(g) : k[Len(b) + 1 + i] = g[i]
    BY DEF Id, edgeKey, edgeSep
  <1> HIDE DEF p, k
  <1>3. ASSUME IsPrefix(p, k) PROVE a = b
    <2>1. Len(p) <= Len(k) /\ SubSeq(p, 1, Len(p)) = SubSeq(k, 1, Len(p))
      BY <1>3 DEF IsPrefix
    <2>2. \A i \in 1..Len(p) : p[i] = k[i]
      <3>1. \A i \in 1..Len(p) : SubSeq(p, 1, Len(p))[i] = p[i]
        BY <1>1
      <3>2. \A i \in 1..Len(p) : SubSeq(k, 1, Len(p))[i] = k[i]
        BY <1>1, <1>2, <2>1
      <3> QED
        BY <2>1, <3>1, <3>2
    <2>3. /\ Len(a) \in Nat /\ \A i \in 1..Len(a) : a[i] \in Nat \ {0}
          /\ Len(b) \in Nat /\ \A i \in 1..Len(b) : b[i] \in Nat \ {0}
      BY ElementOfSeq, LenProperties DEF Id
    <2>4. ~(Len(a) < Len(b))
      <3> SUFFICES ASSUME Len(a) < Len(b) PROVE FALSE
        OBVIOUS
      <3> DEFINE i == Len(a) + 1
      <3>1. i \in 1..Len(b) /\ i \in 1..Len(p)
        BY <1>1, <2>3
      <3>2. b[i] = 0
        BY <1>1, <1>2, <2>2, <3>1
      <3> QED
        BY <2>3, <3>1, <3>2
    <2>5. ~(Len(b) < Len(a))
      <3> SUFFICES ASSUME Len(b) < Len(a) PROVE FALSE
        OBVIOUS
      <3> DEFINE i == Len(b) + 1
      <3>1. i \in 1..Len(a) /\ i \in 1..Len(p)
        BY <1>1, <2>3
      <3>2. a[i] = 0
        BY <1>1, <1>2, <2>2, <3>1
      <3> QED
        BY <2>3, <3>1, <3>2
    <2>6. Len(a) = Len(b) /\ \A i \in 1..Len(a) : a[i] = b[i]
      <3>1. Len(a) = Len(b)
        BY <2>3, <2>4, <2>5
      <3>2. ASSUME NEW i \in 1..Len(a) PROVE a[i] = b[i]
        <4>1. i \in 1..Len(p) /\ i \in 1..Len(b)
          BY <1>1, <2>3, <3>1
        <4> QED
          BY <1>1, <1>2, <2>2, <4>1
      <3> QED
        BY <3>1, <3>2
    <2> QED
      BY <2>6, SeqEqual DEF Id
  <1>4. ASSUME a = b PROVE IsPrefix(p, k)
    <2>1. Len(a) \in Nat /\ Len(g) \in Nat
      BY LenProperties DEF Id
    <2>2. Len(p) <= Len(k)
      BY <1>1, <1>2, <1>4, <2>1
    <2>3. ASSUME NEW i \in 1..Len(p) PROVE p[i] = k[i]
      <3>1. i \in 1..Len(a) \/ i = Len(a) + 1
        BY <1>1, <2>1
      <3> QED
        BY <1>1, <1>2, <1>4, <3>1
    <2>4. SubSeq(p, 1, Len(p)) = SubSeq(k, 1, Len(p))
      BY <1>1, <1>2, <2>2, <2>3
    <2> QED
      BY <2>2, <2>4 DEF IsPrefix
  <1>5. SubSeq(edgeKey(a, g), Len(edgePrefix(a)) + 1, Len(edgeKey(a, g))) = g
    <2> DEFINE q == edgeKey(a, g)
    <2>1. /\ q \in Seq(Nat) /\ Len(q) = Len(a) + 1 + Len(g)
          /\ \A i \in 1..Len(g) : q[Len(a) + 1 + i] = g[i]
      BY DEF Id, edgeKey, edgeSep
    <2>2. Len(edgePrefix(a)) = Len(a) + 1
      BY <1>1 DEF p
    <2>3. Len(a) \in Nat /\ Len(g) \in Nat /\ g \in Seq(Nat)
      BY LenProperties, SeqMonotonic DEF Id
    <2> HIDE DEF q
    <2> DEFINE s == SubSeq(q, Len(a) + 2, Len(q))
    <2>4. s \in Seq(Nat) /\ Len(s) = Len(g) /\ \A i \in 1..Len(g) : s[i] = q[Len(a) + 1 + i]
      <3>1. \A i \in Len(a) + 2 .. Len(q) : q[i] \in Nat
        BY <2>1, <2>3, ElementOfSeq
      <3>2. /\ s \in Seq(Nat)
            /\ Len(s) = IF Len(a) + 2 <= Len(q) THEN Len(q) - (Len(a) + 2) + 1 ELSE 0
            /\ \A i \in 1..Len(q) - (Len(a) + 2) + 1 : s[i] = q[Len(a) + 2 + i - 1]
        BY <2>1, <2>3, <3>1, SubSeqProperties
      <3> QED
        BY <2>1, <2>3, <3>2
    <2>5. s = g
      BY <2>1, <2>3, <2>4, SeqEqual
    <2> QED
      BY <2>2, <2>3, <2>5 DEF q
  <1> QED
    BY <1>3, <1>4, <1>5 DEF p, k

\* The keys of a set of edges.
Keys(E) == {edgeKey(e[1], e[2]) : e \in E}

\* Scanning them for the prefix of an id gives its neighbours.
LEMMA ScanFindsNeighbors ==
    ASSUME NEW E \in SUBSET (Id \X Id), NEW a \in Id
    PROVE  LET prefix == edgePrefix(a) IN
           {SubSeq(k, Len(prefix) + 1, Len(k)) : k \in {k \in Keys(E) : IsPrefix(prefix, k)}}
             = {g \in Id : <<a, g>> \in E}
  <1> DEFINE prefix == edgePrefix(a)
             after(k) == SubSeq(k, Len(prefix) + 1, Len(k))
  <1>1. ASSUME NEW b \in Id, NEW g \in Id
        PROVE  /\ IsPrefix(prefix, edgeKey(b, g)) <=> a = b
               /\ after(edgeKey(a, g)) = g
    BY PrefixSeparates
  <1> HIDE DEF prefix, after
  <1>2. ASSUME NEW g \in Id, <<a, g>> \in E
        PROVE  g \in {after(k) : k \in {k \in Keys(E) : IsPrefix(prefix, k)}}
    <2>1. edgeKey(a, g) \in Keys(E)
      BY <1>2 DEF Keys
    <2> QED
      BY <1>1, <2>1
  <1>3. ASSUME NEW k \in Keys(E), IsPrefix(prefix, k)
        PROVE  after(k) \in Id /\ <<a, after(k)>> \in E
    <2>1. PICK b \in Id, g \in Id : <<b, g>> \in E /\ k = edgeKey(b, g)
      BY DEF Keys
    <2> QED
      BY <1>1, <1>3, <2>1
  <1>4. {after(k) : k \in {k \in Keys(E) : IsPrefix(prefix, k)}} = {g \in Id : <<a, g>> \in E}
    BY <1>2, <1>3
  <1> QED
    BY <1>4 DEF prefix, after

-----------------------------------------------------------------------------
(* The inductive invariant *)

Users == {Entity, Other}

\* The groups whose members are in the graph.
Added == IF pc = "groups" THEN {} ELSE listed \ todo

\* The memberships of S in G that count.
Edges(S, G) == {e \in member \ removed : e[1] \in S /\ e[2] \in G}

ApiInv ==
    /\ provider \in {"entraid", "okta"}
    /\ listed \subseteq Groups
    /\ member \subseteq Members \X listed
    /\ provider = "okta" => member \subseteq Users \X listed

\* Nothing is lost between pages.
PagesInv ==
    /\ pc \in {"groups", "open", "next", "members", "batch", "expand", "collect", "done", "closed"}
    /\ pc = "groups" => all \cup unread = listed
    /\ pc # "groups" => todo \subseteq listed
    /\ pc \in {"members", "batch"} => current \in todo
    /\ pc = "members" => all \cup unread = {m \in Members : <<m, current>> \in member}
    /\ pc = "batch" => pending \subseteq {m \in Members : <<m, current>> \in member}
    /\ pc \in {"expand", "collect", "done", "closed"} => todo = {}

\* The file holds the edges of the groups added, and of Entra ID's current one
\* the metadata.
DiskInv ==
    /\ disk = [b \in Bucket |-> disk[b]]
    /\ disk["user_groups"] = Keys(Edges(Users, Added))
    /\ disk["parent_of"] = Keys(Edges(Groups, Added))
    /\ disk["groups"] = Added \cup
         (IF provider = "entraid" /\ pc \in {"members", "batch"} THEN {current} ELSE {})

\* The transaction holds the edges linked so far, of the current group only.
TxInv ==
    ~failed =>
        /\ tx = [b \in Bucket |-> tx[b]]
        /\ pc # "batch" => tx = Empty
        /\ pc = "batch" =>
            /\ tx["user_groups"] = Keys({e \in Edges(Users, {current}) : e[1] \notin pending})
            /\ tx["parent_of"] = Keys({e \in Edges(Groups, {current}) : e[1] \notin pending})
            /\ tx["groups"] = IF provider = "okta" THEN {current} ELSE {}

\* The lookup has in its result what it has looked up.
LookupInv ==
    /\ pc \in {"groups", "open", "next", "members", "batch"} =>
           seen = {} /\ queue = {} /\ left = {} /\ result = {}
    /\ pc = "expand" => provider = "entraid" /\ left = {} /\ result = {}
    /\ pc = "collect" => left \subseteq seen /\ result = (seen \ left) \cap Added
    /\ pc \in {"done", "closed"} => left = {}
    /\ pc \in {"collect", "done", "closed"} => queue = {}
    /\ queue \subseteq seen /\ seen \subseteq Groups

IInv == ApiInv /\ PagesInv /\ DiskInv /\ TxInv /\ LookupInv

\* A graph before its first page.
LEMMA InitIInv == Init => IInv
  <1> SUFFICES ASSUME Init PROVE IInv
    OBVIOUS
  <1>1. ApiInv
    BY DEF Init, ApiInv, kSubset, Members, Users
  <1>2. PagesInv
    BY DEF Init, PagesInv
  <1>3. DiskInv
    <2>1. Added = {}
      BY DEF Init, Added
    <2>2. \A S : Keys(Edges(S, {})) = {}
      BY DEF Keys, Edges
    <2> QED
      BY <2>1, <2>2 DEF Init, DiskInv, Empty, Bucket
  <1>4. TxInv
    BY DEF Init, TxInv, Empty
  <1>5. LookupInv
    BY DEF Init, LookupInv
  <1> QED
    BY <1>1, <1>2, <1>3, <1>4, <1>5 DEF IInv

\* Every step leaves what the API answers alone, and happens before the error.
LEMMA ApiStep ==
    ASSUME IInv, Next
    PROVE  ApiInv' /\ UNCHANGED api
  BY DEF IInv, ApiInv, Members, Users, Next, Step, GroupsPage, OpenGraph, NextGroup, MembersPage,
     LinkMember, CommitGroup, Begin, Visit, Expanded, Collect, Collected, CloseGraph, Fail, Over,
     Going, vars, api

\* A page moves entries from what is unread to what is read.
LEMMA PageKeepsAll ==
    ASSUME NEW p \in PageOf(unread), Page(p)
    PROVE  all' \cup unread' = all \cup unread
  <1>1. p \subseteq unread
    BY DEF PageOf
  <1> QED
    BY <1>1 DEF Page

LEMMA PagesStep ==
    ASSUME IInv, Next
    PROVE  PagesInv'
  <1> USE DEF IInv, PagesInv, Going, api
  <1>1. CASE GroupsPage
    <2>1. all' \cup unread' = all \cup unread
      BY <1>1, PageKeepsAll DEF GroupsPage
    <2> QED
      BY <1>1, <2>1 DEF GroupsPage
  <1>2. CASE OpenGraph
    BY <1>2 DEF OpenGraph, build, pages
  <1>3. CASE NextGroup
    BY <1>3 DEF NextGroup, lookup
  <1>4. CASE MembersPage
    <2>1. all' \cup unread' = all \cup unread
      BY <1>4, PageKeepsAll DEF MembersPage
    <2> QED
      BY <1>4, <2>1 DEF MembersPage
  <1>5. CASE LinkMember
    BY <1>5 DEF LinkMember, pages
  <1>6. CASE CommitGroup
    BY <1>6 DEF CommitGroup, pages
  <1>7. CASE Begin
    BY <1>7 DEF Begin, pages, build
  <1>8. CASE Visit
    BY <1>8 DEF Visit, pages, build
  <1>9. CASE Expanded
    BY <1>9 DEF Expanded, pages, build
  <1>10. CASE Collect
    BY <1>10 DEF Collect, pages, build
  <1>11. CASE Collected
    BY <1>11 DEF Collected, pages, build
  <1>12. CASE CloseGraph
    BY <1>12 DEF CloseGraph, pages, build
  <1>13. CASE Fail
    BY <1>13 DEF Fail, pages, build
  <1>14. CASE Over
    BY <1>14 DEF Over, vars, pages, build
  <1> QED
    BY <1>1, <1>2, <1>3, <1>4, <1>5, <1>6, <1>7, <1>8, <1>9, <1>10, <1>11, <1>12, <1>13, <1>14
    DEF Next, Step

\* Only a commit adds a group.
LEMMA AddedStep ==
    ASSUME IInv, Next, ~CommitGroup
    PROVE  Added' = Added
  <1> USE DEF IInv, PagesInv, Going, api, Added
  <1>1. CASE GroupsPage
    BY <1>1 DEF GroupsPage, Page
  <1>2. CASE OpenGraph \/ Begin \/ Visit \/ Expanded \/ Collect \/ Collected \/ CloseGraph
    BY <1>2 DEF OpenGraph, Begin, Visit, Expanded, Collect, Collected, CloseGraph, build
  <1>3. CASE NextGroup \/ MembersPage \/ LinkMember
    BY <1>3 DEF NextGroup, MembersPage, LinkMember
  <1>4. CASE Fail \/ Over
    BY <1>4 DEF Fail, Over, vars, build
  <1> QED
    BY <1>1, <1>2, <1>3, <1>4 DEF Next, Step

\* Edges of ids are keys of ids.
LEMMA EdgesOfIds ==
    ASSUME ApiInv, NEW S \in SUBSET Members, NEW G \in SUBSET Groups
    PROVE  Edges(S, G) \in SUBSET (Id \X Id)
  BY GroupGraphAssumption DEF ApiInv, Edges, Members, Id

\* The file is what it was, but for the commit of a group, and the metadata
\* that Entra ID writes before.
LEMMA DiskStep ==
    ASSUME IInv, Next
    PROVE  DiskInv'
  <1> USE DEF IInv
  <1>0. UNCHANGED <<provider, listed, member, removed>>
    BY ApiStep DEF api
  <1>1. CASE CommitGroup
    <2>1. /\ ~failed /\ pc = "batch" /\ pc' = "next" /\ pending = {} /\ todo' = todo \ {current}
          /\ disk' = [b \in Bucket |-> disk[b] \cup tx[b]]
      BY <1>1 DEF CommitGroup, Commit, Going
    <2>2. Added' = Added \cup {current}
      BY <1>0, <2>1 DEF Added, PagesInv
    <2>3. \A S : Edges(S, Added)' = Edges(S, Added) \cup Edges(S, {current})
      BY <1>0, <2>2 DEF Edges
    <2>4. /\ tx["user_groups"] = Keys(Edges(Users, {current}))
          /\ tx["parent_of"] = Keys(Edges(Groups, {current}))
          /\ tx["groups"] = IF provider = "okta" THEN {current} ELSE {}
      BY <2>1 DEF TxInv, Edges
    <2>5. \A E, F : Keys(E \cup F) = Keys(E) \cup Keys(F)
      BY DEF Keys
    <2>6. /\ disk'["user_groups"] = Keys(Edges(Users, Added)')
          /\ disk'["parent_of"] = Keys(Edges(Groups, Added)')
      BY <2>1, <2>3, <2>4, <2>5 DEF DiskInv, Bucket
    <2>7. disk'["groups"] = Added'
      BY <2>1, <2>2, <2>4 DEF DiskInv, Bucket, ApiInv
    <2>8. disk' = [b \in Bucket |-> disk'[b]]
      BY <2>1
    <2> QED
      BY <2>1, <2>6, <2>7, <2>8 DEF DiskInv, Keys
  <1>2. ASSUME ~CommitGroup PROVE DiskInv'
    <2>1. Added' = Added /\ \A S : Edges(S, Added)' = Edges(S, Added)
      BY <1>0, <1>2, AddedStep DEF Edges
    <2>2. CASE NextGroup
      <3>1. CASE provider = "okta"
        BY <1>0, <2>1, <2>2, <3>1 DEF NextGroup, scratch, DiskInv, Edges
      <3>2. CASE provider = "entraid"
        <4>1. /\ pc = "next" /\ pc' = "members"
              /\ disk' = [disk EXCEPT !["groups"] = @ \cup {current'}]
          BY <2>2, <3>2 DEF NextGroup, PutJSON
        <4> QED
          BY <1>0, <2>1, <3>2, <4>1 DEF DiskInv, Bucket, Edges
      <3> QED
        BY <3>1, <3>2 DEF ApiInv
    <2>3. CASE ~NextGroup
      <3>1. disk' = disk
        BY <1>2, <2>3 DEF Next, Step, GroupsPage, OpenGraph, OpenDB, MembersPage, TxPut, LinkMember,
           Begin, Visit, Expanded, Collect, Collected, CloseGraph, Close, Fail, Over, vars, scratch
      <3>2. current' = current /\ (pc \in {"members", "batch"} <=> pc' \in {"members", "batch"})
        BY <1>2, <2>3 DEF Next, Step, GroupsPage, OpenGraph, MembersPage, LinkMember, Begin, Visit,
           Expanded, Collect, Collected, CloseGraph, Fail, Over, vars, build
      <3> QED
        BY <1>0, <2>1, <3>1, <3>2 DEF DiskInv, Edges
    <2> QED
      BY <2>2, <2>3
  <1> QED
    BY <1>1, <1>2

\* A transaction holds what was linked since it began, and an error leaves none.
LEMMA TxStep ==
    ASSUME IInv, Next
    PROVE  TxInv'
  <1> USE DEF IInv
  <1>0. UNCHANGED <<provider, listed, member, removed>>
    BY ApiStep DEF api
  <1>1. CASE MembersPage
    <2>1. CASE unread' # {}
      BY <1>1, <2>1 DEF MembersPage, TxInv, scratch, Going
    <2>2. CASE unread' = {}
      <3>1. /\ ~failed /\ pc = "members" /\ pc' = "batch" /\ current' = current
            /\ pending' = all'
            /\ \/ provider = "okta" /\ tx' = [tx EXCEPT !["groups"] = @ \cup {current}]
               \/ provider # "okta" /\ tx' = tx
        BY <1>1, <2>2 DEF MembersPage, Going, TxPut, scratch
      <3>2. all' = {m \in Members : <<m, current>> \in member}
        <4>1. all' \cup unread' = all \cup unread
          BY <1>1, PageKeepsAll DEF MembersPage
        <4> QED
          BY <2>2, <3>1, <4>1 DEF PagesInv
      <3>3. \A S \in SUBSET Members :
               {e \in Edges(S, {current}) : e[1] \notin all'} = {}
        BY <3>2 DEF Edges, ApiInv
      <3>4. Users \subseteq Members /\ Groups \subseteq Members
        BY DEF Users, Members
      <3>5. tx = Empty
        BY <3>1 DEF TxInv
      <3>6. Keys({}) = {}
        BY DEF Keys
      <3>7. /\ \A S : Edges(S, {current})' = Edges(S, {current})
        BY <1>0, <3>1 DEF Edges
      <3>8. /\ {e \in Edges(Users, {current}) : e[1] \notin pending}' = {}
            /\ {e \in Edges(Groups, {current}) : e[1] \notin pending}' = {}
        BY <3>1, <3>3, <3>4, <3>7
      <3>9. /\ tx'["user_groups"] = {} /\ tx'["parent_of"] = {}
            /\ tx'["groups"] = IF provider = "okta" THEN {current} ELSE {}
            /\ tx' = [b \in Bucket |-> tx'[b]]
        BY <3>1, <3>5 DEF Empty, Bucket
      <3> QED
        BY <1>0, <3>1, <3>6, <3>8, <3>9 DEF TxInv, Keys
    <2> QED
      BY <2>1, <2>2
  <1>2. CASE LinkMember
    <2>1. PICK m \in pending :
             /\ ~failed /\ ~failed' /\ pc = "batch" /\ pc' = "batch" /\ current' = current
             /\ pending' = pending \ {m}
             /\ tx' = [tx EXCEPT ![BucketOf(m)] = @ \cup EdgesOf(m)]
      BY <1>2 DEF LinkMember, TxPut, Going
    <2>2. m \in Members /\ <<m, current>> \in member
      BY <2>1 DEF PagesInv
    <2>3. \A S : m \in S =>
             Keys({e \in Edges(S, {current}) : e[1] \notin pending'})
               = Keys({e \in Edges(S, {current}) : e[1] \notin pending}) \cup EdgesOf(m)
      <3> SUFFICES ASSUME NEW S, m \in S
                   PROVE  Keys({e \in Edges(S, {current}) : e[1] \notin pending'})
                            = Keys({e \in Edges(S, {current}) : e[1] \notin pending}) \cup EdgesOf(m)
        OBVIOUS
      <3> DEFINE Old == {e \in Edges(S, {current}) : e[1] \notin pending}
                 New == {e \in Edges(S, {current}) : e[1] \notin pending'}
                 Own == IF <<m, current>> \in removed THEN {} ELSE {<<m, current>>}
      <3>1. New = Old \cup Own
        BY <2>1, <2>2 DEF Edges, ApiInv
      <3>2. Keys(Own) = EdgesOf(m)
        BY DEF Keys, EdgesOf
      <3>3. \A E, F : Keys(E \cup F) = Keys(E) \cup Keys(F)
        BY DEF Keys
      <3> QED
        BY <3>1, <3>2, <3>3
    <2>4. \A S : m \notin S =>
             {e \in Edges(S, {current}) : e[1] \notin pending'}
               = {e \in Edges(S, {current}) : e[1] \notin pending}
      BY <2>1 DEF Edges
    <2>5. (m \in Groups /\ m \notin Users) \/ (m \notin Groups /\ m \in Users)
      BY <2>2, GroupGraphAssumption DEF Members, Users
    <2>6. \A S : Edges(S, {current})' = Edges(S, {current})
      BY <1>0, <2>1 DEF Edges
    <2>7. /\ tx'["user_groups"] = Keys({e \in Edges(Users, {current}) : e[1] \notin pending'})
          /\ tx'["parent_of"] = Keys({e \in Edges(Groups, {current}) : e[1] \notin pending'})
          /\ tx'["groups"] = tx["groups"]
          /\ tx' = [b \in Bucket |-> tx'[b]]
      BY <2>1, <2>3, <2>4, <2>5 DEF TxInv, BucketOf, Bucket
    <2> QED
      BY <1>0, <2>1, <2>6, <2>7 DEF TxInv, Keys
  <1>3. CASE CommitGroup
    BY <1>3 DEF CommitGroup, Commit, TxInv, Empty
  <1>4. CASE NextGroup
    BY <1>4 DEF NextGroup, PutJSON, scratch, TxInv, Going
  <1>5. CASE GroupsPage \/ Begin \/ Visit \/ Expanded \/ Collect \/ Collected
    BY <1>5 DEF GroupsPage, Begin, Visit, Expanded, Collect, Collected, scratch, TxInv, Going
  <1>6. CASE OpenGraph
    BY <1>6 DEF OpenGraph, OpenDB, TxInv, Going
  <1>7. CASE CloseGraph
    BY <1>7 DEF CloseGraph, Close, TxInv, Empty
  <1>8. CASE Fail
    BY <1>8 DEF Fail, TxInv
  <1>9. CASE Over
    BY <1>9 DEF Over, vars, scratch, build, TxInv, Edges, api
  <1> QED
    BY <1>1, <1>2, <1>3, <1>4, <1>5, <1>6, <1>7, <1>8, <1>9 DEF Next, Step

\* What the lookup, and Membership, see of the graph: the groups added.
GraphIsAdded ==
    /\ Direct = {g \in Added : <<Entity, g>> \in member \ removed}
    /\ \A h \in Groups :
           Neighbors("parent_of", h) = {g \in Added : <<h, g>> \in member \ removed}
    /\ Metadata = Added

LEMMA GraphRead == IInv => GraphIsAdded
  <1> SUFFICES ASSUME IInv PROVE GraphIsAdded
    OBVIOUS
  <1>1. /\ Users \subseteq Members /\ Groups \subseteq Members /\ Members \subseteq Id
        /\ Added \subseteq Groups
    BY GroupGraphAssumption DEF IInv, ApiInv, Members, Users, Id, Added
  <1>2. ASSUME NEW S \in SUBSET Members, NEW b \in Bucket, NEW a \in S,
               disk[b] = Keys(Edges(S, Added))
        PROVE  Neighbors(b, a) = {g \in Added : <<a, g>> \in member \ removed}
    <2>1. Edges(S, Added) \in SUBSET (Id \X Id)
      BY <1>1, EdgesOfIds DEF IInv
    <2>2. Neighbors(b, a) = {g \in Id : <<a, g>> \in Edges(S, Added)}
      BY <1>1, <1>2, <2>1, ScanFindsNeighbors DEF Neighbors
    <2> QED
      BY <1>1, <1>2, <2>2 DEF Edges
  <1>3. Direct = {g \in Added : <<Entity, g>> \in member \ removed}
    BY <1>1, <1>2 DEF IInv, DiskInv, Users, Bucket, Direct
  <1>4. \A h \in Groups :
            Neighbors("parent_of", h) = {g \in Added : <<h, g>> \in member \ removed}
    BY <1>1, <1>2 DEF IInv, DiskInv, Bucket
  <1>5. Metadata = Added
    BY DEF IInv, DiskInv, PagesInv, Added, Metadata
  <1> QED
    BY <1>3, <1>4, <1>5 DEF GraphIsAdded

LEMMA LookupStep ==
    ASSUME IInv, Next
    PROVE  LookupInv'
  <1> USE DEF IInv, LookupInv, Going
  <1>0. GraphIsAdded /\ Added \subseteq Groups
    BY GraphRead DEF ApiInv, Added
  <1>1. CASE GroupsPage
    BY <1>1 DEF GroupsPage, lookup
  <1>2. CASE OpenGraph
    BY <1>2 DEF OpenGraph, lookup
  <1>3. CASE NextGroup
    BY <1>3 DEF NextGroup, lookup
  <1>4. CASE MembersPage
    BY <1>4 DEF MembersPage, lookup
  <1>5. CASE LinkMember
    BY <1>5 DEF LinkMember, lookup
  <1>6. CASE CommitGroup
    BY <1>6 DEF CommitGroup, lookup
  <1>7. CASE Begin
    <2>1. Neighbors("user_groups", Entity) \subseteq Groups
      BY <1>0 DEF GraphIsAdded, Direct
    <2>2. /\ pc = "next" /\ seen' = Neighbors("user_groups", Entity) /\ result' = result
          /\ \/ provider = "okta" /\ pc' = "collect" /\ left' = seen' /\ queue' = queue
             \/ provider # "okta" /\ pc' = "expand" /\ queue' = seen' /\ left' = left
      BY <1>7 DEF Begin
    <2>3. CASE provider = "okta"
      <3>1. seen' \ left' = {} /\ result' = {} /\ queue' = {}
        BY <2>2, <2>3
      <3> QED
        BY <2>1, <2>2, <2>3, <3>1
    <2>4. CASE provider # "okta"
      <3>1. left' = {} /\ result' = {} /\ provider' = "entraid"
        BY <1>7, <2>2, <2>4 DEF Begin, ApiInv, api
      <3> QED
        BY <2>1, <2>2, <2>4, <3>1
    <2> QED
      BY <2>3, <2>4
  <1>8. CASE Visit
    <2>1. PICK g \in queue : LET new == Neighbors("parent_of", g) \ seen IN
             seen' = seen \cup new /\ queue' = (queue \ {g}) \cup new
      BY <1>8 DEF Visit
    <2>2. Neighbors("parent_of", g) \subseteq Groups
      BY <1>0, <2>1 DEF GraphIsAdded
    <2>3. /\ pc = "expand" /\ pc' = "expand" /\ left' = left /\ result' = result
          /\ provider' = provider
      BY <1>8 DEF Visit, api
    <2>4. seen' \subseteq Groups /\ queue' \subseteq seen'
      BY <2>1, <2>2
    <2> QED
      BY <2>3, <2>4
  <1>9. CASE Expanded
    BY <1>9 DEF Expanded
  <1>10. CASE Collect
    <2>1. Added' = Added
      BY <1>10, AddedStep DEF Collect, CommitGroup
    <2>2. PICK g \in left :
             /\ left' = left \ {g}
             /\ result' = IF g \in Added THEN result \cup {g} ELSE result
      BY <1>0, <1>10 DEF Collect, GetJSON, GraphIsAdded, Metadata
    <2>3. /\ pc = "collect" /\ pc' = "collect" /\ seen' = seen /\ queue' = queue
      BY <1>10 DEF Collect
    <2> QED
      BY <2>1, <2>2, <2>3
  <1>11. CASE Collected
    BY <1>11 DEF Collected, lookup
  <1>12. CASE CloseGraph
    BY <1>12 DEF CloseGraph, lookup
  <1>13. CASE Fail
    <2>1. Added' = Added
      BY <1>13, AddedStep DEF Fail, CommitGroup
    <2>2. UNCHANGED <<pc, provider, seen, queue, left, result>>
      BY <1>13 DEF Fail, lookup, api
    <2> QED
      BY <2>1, <2>2
  <1>14. CASE Over
    BY <1>14 DEF Over, vars, lookup, build, api, Added
  <1> QED
    BY <1>1, <1>2, <1>3, <1>4, <1>5, <1>6, <1>7, <1>8, <1>9, <1>10, <1>11, <1>12, <1>13, <1>14
    DEF Next, Step

\* All of it is invariant.
LEMMA Invariant == Spec => []IInv
  <1>1. IInv /\ [Next]_vars => IInv'
    <2>1. CASE UNCHANGED vars
      BY <2>1 DEF vars, api, pages, build, lookup, scratch, IInv, ApiInv, PagesInv, DiskInv,
         TxInv, LookupInv, Added, Edges, Keys
    <2>2. ASSUME IInv, Next PROVE IInv'
      BY <2>2, ApiStep, PagesStep, DiskStep, TxStep, LookupStep DEF IInv
    <2> QED
      BY <2>1, <2>2
  <1> QED
    BY InitIInv, <1>1, PTL DEF Spec

-----------------------------------------------------------------------------
(* The refinement *)

\* A graph without the other entity is one that Membership starts with.
LEMMA RefinementInit == Init => M!Init
  <1> SUFFICES ASSUME Init PROVE M!Init
    OBVIOUS
  <1> DEFINE who == IF provider = "okta" THEN {Entity, Other} ELSE Members
  <1>1. listed \in SUBSET Groups /\ member \in SUBSET (who \X listed) /\ removed \in SUBSET member
    BY DEF Init, kSubset
  <1>2. IsFiniteSet(removed)
    <2>1. IsFiniteSet(Members)
      <3>1. Members = (Groups \cup {Entity}) \cup {Other}
        BY DEF Members
      <3> QED
        BY <3>1, GroupGraphAssumption, FS_AddElement
    <2>2. IsFiniteSet(Members \X Groups)
      BY <2>1, FS_Product, GroupGraphAssumption
    <2>3. removed \in SUBSET (Members \X Groups)
      BY <1>1 DEF Members
    <2> QED
      BY <2>2, <2>3, FS_Subset
  <1>3. Cardinality(Mine(removed)) <= MaxRemoved
    <2>1. Cardinality(removed) <= MaxRemoved
      BY DEF Init
    <2>2. Cardinality(Mine(removed)) <= Cardinality(removed) /\ IsFiniteSet(Mine(removed))
      BY <1>2, FS_Subset DEF Mine
    <2>3. /\ Cardinality(Mine(removed)) \in Nat
          /\ Cardinality(removed) \in Nat /\ MaxRemoved \in Nat
      BY <1>2, <2>2, FS_CardinalityType, GroupGraphAssumption
    <2> QED
      BY <2>1, <2>2, <2>3
  <1>4. Mine(member) \in SUBSET (M!Members \X listed)
    BY <1>1 DEF M!Members, Members, Mine
  <1>5. Mine(removed) \in SUBSET Mine(member)
    BY <1>1 DEF Mine
  <1>6. \A b \in Bucket : \A id : Neighbors(b, id) = {}
    BY DEF Init, Neighbors, Empty
  <1>7. Metadata = {} /\ Direct = {} /\ ParentOf = {}
    BY <1>6 DEF Init, Metadata, Direct, ParentOf, Empty, Bucket
  <1>8. Todo = listed /\ Phase = "build" /\ seen = {} /\ Queue = {} /\ Result = {}
    BY DEF Init, Todo, Phase, Queue, Result
  <1>9. Mine(removed) \in {r \in SUBSET Mine(member) : M!Cardinality(r) <= MaxRemoved}
    <2>1. \A S : M!Cardinality(S) = Cardinality(S)
      BY DEF M!Cardinality, Cardinality, M!IsFiniteSet, IsFiniteSet
    <2> QED
      BY <1>3, <1>5, <2>1
  <1>10. listed \in SUBSET Groups
    BY <1>1
  <1> QED
    BY <1>4, <1>7, <1>8, <1>9, <1>10 DEF M!Init

\* Every step is one of Membership, or none.
LEMMA RefinementStep ==
    ASSUME IInv, Next, GraphIsAdded, GraphIsAdded'
    PROVE  M!Next \/ UNCHANGED M!vars
  <1> USE DEF IInv, Going
  <1>0. /\ UNCHANGED <<provider, listed, member, removed>>
        /\ Mine(member)' = Mine(member) /\ Mine(removed)' = Mine(removed)
    BY ApiStep DEF api, Mine
  <1>1. ASSUME Added' = Added
        PROVE  Metadata' = Metadata /\ Direct' = Direct /\ ParentOf' = ParentOf
    <2>1. Metadata' = Metadata /\ Direct' = Direct
      BY <1>0, <1>1 DEF GraphIsAdded
    <2>2. \A h \in Groups : Neighbors("parent_of", h)' = Neighbors("parent_of", h)
      BY <1>0, <1>1 DEF GraphIsAdded
    <2> QED
      BY <2>1, <2>2 DEF ParentOf
  <1>2. ASSUME Added' = Added,
               UNCHANGED <<Todo, Phase, seen, Queue, Result>>
        PROVE  UNCHANGED M!vars
    BY <1>0, <1>1, <1>2 DEF M!vars, M!api, M!graph
  <1>3. CASE GroupsPage
    <2>1. Todo' = Todo
      BY <1>3, <1>0, PageKeepsAll DEF GroupsPage, Todo, PagesInv
    <2>2. UNCHANGED <<Phase, seen, Queue, Result>>
      BY <1>3, <1>0 DEF GroupsPage, Phase, Queue, Result, lookup
    <2> QED
      BY <1>2, <1>3, <2>1, <2>2, AddedStep DEF GroupsPage, CommitGroup
  <1>4. CASE OpenGraph \/ NextGroup \/ MembersPage \/ LinkMember
    <2>1. UNCHANGED <<Todo, Phase, seen, Queue, Result>>
      BY <1>4, <1>0 DEF OpenGraph, NextGroup, MembersPage, LinkMember, Todo, Phase, Queue,
         Result, build, lookup
    <2> QED
      BY <1>2, <1>4, <2>1, AddedStep DEF OpenGraph, NextGroup, MembersPage, LinkMember, CommitGroup
  <1>5. CASE CommitGroup
    <2> DEFINE g == current
    <2>1. /\ pc = "batch" /\ pc' = "next" /\ todo' = todo \ {g}
          /\ UNCHANGED <<seen, queue, left, result>>
      BY <1>5 DEF CommitGroup, lookup
    <2>2. g \in todo /\ g \in listed /\ g \in Groups
      BY <2>1 DEF PagesInv, ApiInv
    <2>3. /\ Phase = "build" /\ Phase' = "build"
          /\ Todo = todo /\ Todo' = todo \ {g}
          /\ UNCHANGED <<Queue, Result>>
      BY <1>0, <2>1 DEF Phase, Todo, Queue, Result
    <2>4. Added' = Added \cup {g}
      BY <1>0, <2>1, <2>2 DEF Added, PagesInv
    <2>5. \A m \in M!Members : m \in M!MembersOf(g) <=> <<m, g>> \in member \ removed
      <3>1. \A m \in M!Members : m # Other
        BY GroupGraphAssumption DEF M!Members
      <3> QED
        BY <3>1 DEF M!MembersOf, Mine, M!Members
    <2>6. Metadata' = Metadata \cup {g}
      BY <2>4 DEF GraphIsAdded
    <2>7. Direct' = IF Entity \in M!MembersOf(g) THEN Direct \cup {g} ELSE Direct
      BY <1>0, <2>4, <2>5 DEF GraphIsAdded, M!Members
    <2>8. ParentOf' = ParentOf \cup ((M!MembersOf(g) \ {Entity}) \X {g})
      <3>1. M!MembersOf(g) \ {Entity} = {h \in Groups : <<h, g>> \in member \ removed}
        BY <2>5, GroupGraphAssumption DEF M!Members, M!MembersOf
      <3>2. ParentOf = {e \in Groups \X Groups : e[2] \in Added /\ e \in member \ removed}
        BY DEF ParentOf, GraphIsAdded
      <3>3. ParentOf' = {e \in Groups \X Groups : e[2] \in Added' /\ e \in member \ removed}
        BY <1>0 DEF ParentOf, GraphIsAdded
      <3> QED
        BY <2>2, <2>4, <3>1, <3>2, <3>3
    <2>9. M!AddGroup(g)
      BY <1>0, <2>1, <2>2, <2>3, <2>6, <2>7, <2>8 DEF M!AddGroup, M!api
    <2> QED
      BY <2>2, <2>9 DEF M!Next, M!Step
  <1>6. CASE Begin
    <2>1. /\ Phase = "build" /\ Phase' = "expand" /\ Todo = {} /\ Todo' = Todo
          /\ Result = {} /\ Result' = {}
      BY <1>6 DEF Begin, Phase, Todo, Result, build
    <2>2. seen' = Direct /\ Queue' = Direct
      BY <1>0, <1>6 DEF Begin, Direct, Queue
    <2>3. Metadata' = Metadata /\ Direct' = Direct /\ ParentOf' = ParentOf
      BY <1>1, <1>6, AddedStep DEF Begin, CommitGroup
    <2>4. M!Begin
      BY <1>0, <2>1, <2>2, <2>3 DEF M!Begin, M!api, M!graph
    <2> QED
      BY <2>4 DEF M!Next, M!Step
  <1>7. \A h \in Groups : M!ParentGroups(h) = Neighbors("parent_of", h)
    <2>1. Added \subseteq Groups
      BY DEF Added, ApiInv
    <2> QED
      BY <2>1 DEF M!ParentGroups, ParentOf, GraphIsAdded
  <1>8. CASE Visit
    <2>1. PICK g \in queue :
             LET new == Neighbors("parent_of", g) \ seen IN
             seen' = seen \cup new /\ queue' = (queue \ {g}) \cup new
      BY <1>8 DEF Visit
    <2>2. pc = "expand" /\ pc' = "expand" /\ UNCHANGED <<todo, left, result>>
      BY <1>8 DEF Visit, build
    <2>3. provider = "entraid" /\ g \in Groups
      BY <2>2 DEF LookupInv
    <2>4. /\ Phase = "expand" /\ Phase' = "expand" /\ UNCHANGED <<Todo, Result>>
          /\ Queue = queue /\ Queue' = queue'
      BY <1>0, <2>2, <2>3 DEF Phase, Todo, Result, Queue
    <2>5. Metadata' = Metadata /\ Direct' = Direct /\ ParentOf' = ParentOf
      BY <1>1, <1>8, AddedStep DEF Visit, CommitGroup
    <2>6. M!Visit(g)
      BY <1>0, <1>7, <2>1, <2>3, <2>4, <2>5 DEF M!Visit, M!api, M!graph
    <2> QED
      BY <2>3, <2>6 DEF M!Next, M!Step
  <1>9. CASE Expanded
    <2>1. UNCHANGED <<Todo, Phase, seen, Queue, Result>>
      BY <1>0, <1>9 DEF Expanded, Todo, Phase, Queue, Result, build, LookupInv
    <2> QED
      BY <1>2, <1>9, <2>1, AddedStep DEF Expanded, CommitGroup
  <1>10. CASE Collect
    <2>1. PICK g \in left : left' = left \ {g}
      BY <1>10 DEF Collect
    <2>2. pc = "collect" /\ pc' = "collect" /\ UNCHANGED <<todo, seen, queue>>
      BY <1>10 DEF Collect, build
    <2>3. UNCHANGED <<Todo, Phase, Result>> /\ Phase = "expand" /\ g \in Groups
      BY <1>0, <2>1, <2>2 DEF Todo, Phase, Result, LookupInv
    <2>4. Added' = Added
      BY <1>10, AddedStep DEF Collect, CommitGroup
    <2>5. CASE provider = "entraid"
      BY <1>0, <1>2, <2>2, <2>3, <2>4, <2>5 DEF Queue
    <2>6. CASE provider = "okta"
      <3>1. Neighbors("parent_of", g) = {}
        BY <2>3, <2>6, GroupGraphAssumption DEF GraphIsAdded, ApiInv, Users
      <3>2. Queue = left /\ Queue' = left \ {g}
        BY <1>0, <2>1, <2>6 DEF Queue
      <3>3. M!Visit(g)
        BY <1>0, <1>1, <1>7, <2>1, <2>2, <2>3, <2>4, <3>1, <3>2 DEF M!Visit, M!api, M!graph
      <3> QED
        BY <2>3, <3>3 DEF M!Next, M!Step
    <2> QED
      BY <2>5, <2>6 DEF ApiInv
  <1>11. CASE Collected
    <2>1. /\ pc = "collect" /\ pc' = "done" /\ left = {}
          /\ UNCHANGED <<todo, seen, queue, left, result>>
      BY <1>11 DEF Collected, build, lookup
    <2>2. Phase = "expand" /\ Phase' = "done" /\ Todo' = Todo /\ Queue = {} /\ Queue' = Queue
      BY <1>0, <2>1 DEF Phase, Todo, Queue, LookupInv
    <2>3. Result' = seen \cap Metadata
      BY <2>1 DEF Result, LookupInv, GraphIsAdded
    <2>4. Metadata' = Metadata /\ Direct' = Direct /\ ParentOf' = ParentOf
      BY <1>1, <1>11, AddedStep DEF Collected, CommitGroup
    <2>5. M!Collect
      BY <1>0, <2>1, <2>2, <2>3, <2>4 DEF M!Collect, M!api, M!graph
    <2> QED
      BY <2>5 DEF M!Next, M!Step
  <1>12. CASE CloseGraph \/ Fail \/ Over
    <2>1. UNCHANGED <<Todo, Phase, seen, Queue, Result>>
      BY <1>0, <1>12 DEF CloseGraph, Fail, Over, vars, build, lookup, Todo, Phase, Queue, Result
    <2>2. ~CommitGroup
      BY <1>12 DEF CloseGraph, Fail, Over, vars, CommitGroup
    <2> QED
      BY <1>2, <2>1, <2>2, AddedStep
  <1> QED
    BY <1>3, <1>4, <1>5, <1>6, <1>8, <1>9, <1>10, <1>11, <1>12 DEF Next, Step

\* Pages, keys, batches and lookups implement the group graph of Membership.
THEOREM GroupGraphImplementsMembership == Spec => ImplementsMembership
  <1>1. IInv /\ IInv' /\ [Next]_vars => [M!Next]_(M!vars)
    <2>1. ASSUME IInv, IInv', Next PROVE [M!Next]_(M!vars)
      BY <2>1, GraphRead, RefinementStep, PTL
    <2>2. CASE UNCHANGED vars
      BY <2>2 DEF vars, api, pages, build, lookup, scratch, M!vars, M!api, M!graph, Mine, Metadata,
         Direct, ParentOf, Neighbors, Todo, Phase, Queue, Result
    <2> QED
      BY <2>1, <2>2
  <1> QED
    BY RefinementInit, Invariant, <1>1, PTL DEF Spec, ImplementsMembership, M!Spec

-----------------------------------------------------------------------------
(* What Membership computes, by its own steps: nothing here looks into the *)
(* detailed specification behind M's variables. The invariant of the loop  *)
(* bounds seen from both sides: it is contained in every set that is       *)
(* closed under membership, and the groups that left the queue have their  *)
(* parents in it. When the queue is empty, seen is itself such a set,      *)
(* hence the least one: no induction on the length of chains is needed.    *)

\* The graph holds what the API said of the groups added so far.
AbstractGraphInv ==
    /\ Metadata = listed \ Todo
    /\ Direct = {g \in listed \ Todo : <<Entity, g>> \in Mine(member) \ Mine(removed)}
    /\ \A m \in Groups, g \in Groups :
          <<m, g>> \in ParentOf <=> g \in listed \ Todo /\ <<m, g>> \in Mine(member) \ Mine(removed)
    /\ Phase # "build" => Todo = {}

\* What the loop knows.
SeenInv ==
    /\ Direct \subseteq seen
    /\ seen \subseteq listed
    /\ \A g \in seen \ Queue : M!ParentGroups(g) \subseteq seen
    /\ \A S \in SUBSET Groups : M!ClosedUpwards(S) => seen \subseteq S

\* The inductive invariant.
AbstractInv ==
    /\ M!TypeOK
    /\ AbstractGraphInv
    /\ Phase # "build" => SeenInv
    /\ Phase = "done" => Queue = {} /\ Result = seen

\* An empty graph reflects no group.
LEMMA InitAbstract == M!Init => AbstractInv
  BY DEF M!Init, AbstractInv, M!TypeOK, AbstractGraphInv

\* Types are preserved.
LEMMA AbstractTypeStep == M!TypeOK /\ [M!Next]_(M!vars) => M!TypeOK'
  <1> SUFFICES ASSUME M!TypeOK, [M!Next]_(M!vars) PROVE M!TypeOK'
    OBVIOUS
  <1> USE DEF M!TypeOK
  <1>1. ASSUME NEW g \in Groups, M!AddGroup(g) PROVE M!TypeOK'
    <2>1. M!MembersOf(g) \ {Entity} \subseteq Groups
      BY DEF M!MembersOf, M!Members
    <2>2. ParentOf' \in SUBSET (Groups \X Groups)
      BY <1>1, <2>1 DEF M!AddGroup
    <2> QED
      BY <1>1, <2>2 DEF M!AddGroup, M!api, M!Members
  <1>2. CASE M!Begin
    BY <1>2 DEF M!Begin, M!api, M!graph, M!Members
  <1>3. ASSUME NEW g \in Groups, M!Visit(g) PROVE M!TypeOK'
    BY <1>3 DEF M!Visit, M!ParentGroups, M!api, M!graph, M!Members
  <1>4. CASE M!Collect
    BY <1>4 DEF M!Collect, M!api, M!graph, M!Members
  <1>5. CASE UNCHANGED M!vars
    BY <1>5 DEF M!vars, M!api, M!graph, M!Members
  <1> QED
    BY <1>1, <1>2, <1>3, <1>4, <1>5 DEF M!Next, M!Step, M!Done

\* Adding a group adds its memberships, the rest of the run reads the graph.
LEMMA AbstractGraphStep ==
    ASSUME M!MembershipAssumption, M!TypeOK, AbstractGraphInv, [M!Next]_(M!vars)
    PROVE AbstractGraphInv'
  <1> USE DEF M!TypeOK, AbstractGraphInv
  <1>1. ASSUME NEW g \in Groups, M!AddGroup(g) PROVE AbstractGraphInv'
    <2>1. Metadata' = listed' \ Todo'
      BY <1>1 DEF M!AddGroup, M!api
    <2>2. Direct' = {h \in listed' \ Todo' : <<Entity, h>> \in Mine(member)' \ Mine(removed)'}
      BY <1>1 DEF M!AddGroup, M!api, M!MembersOf, M!Members
    <2>3. ASSUME NEW m \in Groups, NEW h \in Groups
          PROVE <<m, h>> \in ParentOf' <=>
                  h \in listed' \ Todo' /\ <<m, h>> \in Mine(member)' \ Mine(removed)'
      BY <1>1, <2>3 DEF M!MembershipAssumption, M!AddGroup, M!api, M!MembersOf, M!Members
    <2>4. Phase' = "build"
      BY <1>1 DEF M!AddGroup
    <2> QED
      BY <2>1, <2>2, <2>3, <2>4
  <1>2. CASE UNCHANGED <<M!api, M!graph, Todo>> /\ (Phase' = "build" => Phase = "build")
             /\ (Phase' # "build" => Todo = {})
    BY <1>2 DEF M!api, M!graph
  <1> QED
    BY <1>1, <1>2
    DEF M!Next, M!Step, M!Done, M!Begin, M!Visit, M!Collect, M!vars, M!graph

\* The loop keeps seen between the direct groups and every closed set.
LEMMA SeenStep == AbstractInv /\ [M!Next]_(M!vars) => (Phase' # "build" => SeenInv')
  <1> SUFFICES ASSUME AbstractInv, [M!Next]_(M!vars), Phase' # "build" PROVE SeenInv'
    OBVIOUS
  <1> USE DEF AbstractInv, M!TypeOK
  <1>1. CASE M!Begin
    <2>1. ASSUME NEW S \in SUBSET Groups, M!ClosedUpwards(S) PROVE Direct \subseteq S
      BY <2>1 DEF AbstractGraphInv, M!ClosedUpwards, M!Members
    <2> QED
      BY <1>1, <2>1 DEF M!Begin, SeenInv, AbstractGraphInv, M!ClosedUpwards, M!api, M!graph
  <1>2. ASSUME NEW g \in Groups, M!Visit(g) PROVE SeenInv'
    <2>1. SeenInv /\ g \in seen /\ Todo = {}
      BY <1>2 DEF M!Visit, AbstractGraphInv
    <2>2. seen' = seen \cup M!ParentGroups(g)
      BY <1>2 DEF M!Visit
    <2>3. Direct' \subseteq seen'
      BY <1>2, <2>1, <2>2 DEF M!Visit, SeenInv, M!graph
    <2>4. seen' \subseteq listed'
      BY <1>2, <2>1, <2>2 DEF M!Visit, SeenInv, AbstractGraphInv, M!ParentGroups, M!api
    <2>5. \A h \in seen' \ Queue' : M!ParentGroups(h)' \subseteq seen'
      BY <1>2, <2>1, <2>2 DEF M!Visit, SeenInv, M!ParentGroups, M!graph
    <2>6. ASSUME NEW S \in SUBSET Groups, M!ClosedUpwards(S) PROVE seen' \subseteq S
      <3>1. g \in S
        BY <2>1, <2>6 DEF SeenInv
      <3>2. M!ParentGroups(g) \subseteq S
        BY <2>6, <3>1 DEF M!ParentGroups, AbstractGraphInv, M!ClosedUpwards, M!Members
      <3> QED
        BY <2>1, <2>2, <2>6, <3>2 DEF SeenInv
    <2>7. \A S \in SUBSET Groups : M!ClosedUpwards(S)' => seen' \subseteq S
      BY <1>2, <2>6 DEF M!Visit, M!ClosedUpwards, M!api
    <2> QED
      BY <2>3, <2>4, <2>5, <2>7 DEF SeenInv
  <1>3. CASE UNCHANGED <<M!api, M!graph, seen, Queue>> /\ Phase # "build"
    BY <1>3 DEF SeenInv, M!ParentGroups, M!ClosedUpwards, M!api, M!graph
  <1> QED
    BY <1>1, <1>2, <1>3 DEF M!Next, M!Step, M!Done, M!AddGroup, M!Collect, M!vars

\* The whole invariant is preserved.
LEMMA AbstractStep ==
    ASSUME M!MembershipAssumption, AbstractInv, [M!Next]_(M!vars)
    PROVE AbstractInv'
  <1>1. M!TypeOK' /\ AbstractGraphInv' /\ (Phase' # "build" => SeenInv')
    BY AbstractTypeStep, AbstractGraphStep, SeenStep DEF AbstractInv
  <1>2. Phase' = "done" => Queue' = {} /\ Result' = seen'
    <2>1. CASE M!Collect
      BY <2>1 DEF M!Collect, AbstractInv, SeenInv, AbstractGraphInv, M!TypeOK
    <2>2. CASE UNCHANGED M!vars
      BY <2>2 DEF M!vars, AbstractInv
    <2> QED
      BY <2>1, <2>2 DEF M!Next, M!Step, M!Done, M!AddGroup, M!Begin, M!Visit
  <1> QED
    BY <1>1, <1>2 DEF AbstractInv

\* When the queue has run empty, seen is closed under membership.
LEMMA SeenIsClosed == AbstractInv /\ Phase = "done" => M!ClosedUpwards(seen)
  <1> SUFFICES ASSUME AbstractInv, Phase = "done", NEW g \in Groups, NEW m \in M!Members,
                      <<m, g>> \in Mine(member) \ Mine(removed), m = Entity \/ m \in seen
               PROVE g \in seen
    BY DEF M!ClosedUpwards
  <1>1. g \in listed /\ Todo = {} /\ SeenInv
    BY DEF AbstractInv, AbstractGraphInv, M!TypeOK
  <1>2. CASE m = Entity
    BY <1>1, <1>2 DEF AbstractInv, AbstractGraphInv, SeenInv
  <1>3. CASE m \in seen
    <2>1. m \in Groups /\ g \in M!ParentGroups(m)
      BY <1>1, <1>3 DEF AbstractInv, AbstractGraphInv, M!TypeOK, M!ParentGroups
    <2> QED
      BY <1>1, <1>3, <2>1 DEF AbstractInv, SeenInv
  <1> QED
    BY <1>2, <1>3

\* For every group graph, cyclic ones and ones with removed members included,
\* what Membership answers are exactly the direct and transitive groups.
THEOREM ExpansionIsTransitive ==
    ASSUME M!MembershipAssumption
    PROVE M!Spec => []M!ResultIsTransitive
  <1>1. AbstractInv => M!ResultIsTransitive
    <2> SUFFICES ASSUME AbstractInv, Phase = "done" PROVE Result = M!Transitive
      BY DEF M!ResultIsTransitive
    <2>1. Result = seen /\ seen \in SUBSET Groups
      BY DEF AbstractInv, M!TypeOK
    <2>2. seen \subseteq M!Transitive
      BY <2>1 DEF AbstractInv, SeenInv, M!Transitive
    <2>3. M!Transitive \subseteq seen
      BY <2>1, SeenIsClosed DEF M!Transitive
    <2> QED
      BY <2>1, <2>2, <2>3
  <1> QED
    BY InitAbstract, AbstractStep, <1>1, PTL DEF M!Spec

\* So a document of either provider lists exactly the groups its entity belongs
\* to: GroupGraph implements Membership, and Membership answers with these.
THEOREM DocumentsListAllGroups == Spec => []ResultIsTransitive
  <1>1. M!MembershipAssumption
    BY GroupGraphAssumption DEF M!MembershipAssumption
  <1>2. M!Spec => []M!ResultIsTransitive
    BY <1>1, ExpansionIsTransitive
  <1> QED
    BY <1>2, GroupGraphImplementsMembership, PTL DEF ImplementsMembership, ResultIsTransitive

-----------------------------------------------------------------------------
(* Types *)

\* A listing starts with groups.
LEMMA InitTypes == Init => GraphTypeOK
  <1> SUFFICES ASSUME Init PROVE GraphTypeOK
    OBVIOUS
  <1>1. current \in Groups
    BY GroupGraphAssumption DEF Init
  <1>2. /\ disk["groups"] = {} /\ disk["user_groups"] = {} /\ disk["parent_of"] = {}
        /\ file = "absent"
    BY DEF Init, Empty, Bucket
  <1> QED
    BY <1>1, <1>2 DEF Init, GraphTypeOK, Members

\* The edges in the file are between known ids.
DiskTypeOK ==
    /\ disk["groups"] \subseteq Groups
    /\ disk["user_groups"] \subseteq {edgeKey(m, g) : m \in {Entity, Other}, g \in Groups}
    /\ disk["parent_of"] \subseteq {edgeKey(m, g) : m \in Groups, g \in Groups}

\* A key in the file is one of a group that was added.
LEMMA DiskTypes == ApiInv /\ DiskInv /\ current \in Groups => DiskTypeOK
  <1> SUFFICES ASSUME ApiInv, DiskInv, current \in Groups PROVE DiskTypeOK
    OBVIOUS
  <1>1. Added \subseteq Groups
    BY DEF ApiInv, Added
  <1>2. ASSUME NEW S
        PROVE  Keys(Edges(S, Added)) \subseteq {edgeKey(m, g) : m \in S, g \in Groups}
    <2>1. Edges(S, Added) \subseteq S \X Groups
      BY <1>1 DEF ApiInv, Edges
    <2> QED
      BY <2>1 DEF Keys
  <1>3. disk["groups"] \subseteq Groups
    BY <1>1 DEF DiskInv
  <1>4. disk["user_groups"] \subseteq {edgeKey(m, g) : m \in {Entity, Other}, g \in Groups}
    BY <1>2 DEF DiskInv, Users
  <1>5. disk["parent_of"] \subseteq {edgeKey(m, g) : m \in Groups, g \in Groups}
    BY <1>2 DEF DiskInv
  <1> QED
    BY <1>3, <1>4, <1>5 DEF DiskTypeOK

\* What the page loops have in hand are members, and groups are taken from what
\* is listed.
LEMMA LoopTypes ==
    ASSUME IInv, IInv', GraphTypeOK, Next
    PROVE  /\ unread' \subseteq Members /\ all' \subseteq Members
           /\ todo' \subseteq listed' /\ current' \in Groups /\ pending' \subseteq Members
           /\ file' \in {"absent", "open", "removed"}
  <1> USE DEF IInv, GraphTypeOK, Going, api
  <1>0. listed \subseteq Groups /\ Groups \subseteq Members
    BY DEF ApiInv, Members
  <1>1. \A p \in PageOf(unread) : Page(p) => unread' \subseteq Members /\ all' \subseteq Members
    BY DEF PageOf, Page
  <1>2. CASE GroupsPage
    <2>1. unread' \subseteq Members /\ all' \subseteq Members
      BY <1>1, <1>2 DEF GroupsPage
    <2>2. unread' = {} => all' = listed
      BY <1>2, PageKeepsAll DEF GroupsPage, PagesInv
    <2> QED
      BY <1>2, <2>1, <2>2 DEF GroupsPage, scratch
  <1>3. CASE NextGroup
    <2>1. /\ current' \in todo /\ unread' \subseteq Members /\ all' = {}
          /\ UNCHANGED <<todo, pending, file>>
      BY <1>3 DEF NextGroup, PutJSON, scratch
    <2> QED
      BY <1>0, <1>3, <2>1 DEF NextGroup
  <1>4. CASE MembersPage
    <2>1. unread' \subseteq Members /\ all' \subseteq Members
      BY <1>1, <1>4 DEF MembersPage
    <2>2. UNCHANGED <<file, todo, current>> /\ pending' \in {pending, all'}
      BY <1>4 DEF MembersPage, TxPut, scratch
    <2> QED
      BY <1>4, <2>1, <2>2 DEF MembersPage
  <1>5. CASE LinkMember
    BY <1>5 DEF LinkMember, TxPut, pages
  <1>6. CASE CommitGroup
    BY <1>6 DEF CommitGroup, Commit, pages
  <1>7. CASE OpenGraph \/ CloseGraph \/ Fail
    BY <1>7 DEF OpenGraph, CloseGraph, Fail, OpenDB, Close, pages, build
  <1>8. CASE Begin \/ Visit \/ Expanded \/ Collect \/ Collected
    BY <1>8 DEF Begin, Visit, Expanded, Collect, Collected, scratch, pages, build
  <1>9. CASE Over
    BY <1>9 DEF Over, vars, scratch, pages, build
  <1> QED
    BY <1>2, <1>3, <1>4, <1>5, <1>6, <1>7, <1>8, <1>9 DEF Next, Step

\* What the lookup has left and has answered are groups it has seen.
LEMMA ResultTypes ==
    ASSUME IInv, IInv', GraphTypeOK, Next
    PROVE  left' \subseteq seen' /\ result' \subseteq seen'
  <1> USE DEF IInv, LookupInv, GraphTypeOK, Going
  <1>1. CASE Begin
    <2>1. pc = "next" /\ result' = result /\ (left' = seen' \/ left' = left)
      BY <1>1 DEF Begin
    <2> QED
      BY <2>1
  <1>2. CASE Visit
    BY <1>2 DEF Visit
  <1>3. CASE Expanded
    BY <1>3 DEF Expanded
  <1>4. CASE Collect
    BY <1>4 DEF Collect
  <1>5. CASE ~(Begin \/ Visit \/ Expanded \/ Collect)
    BY <1>5 DEF Next, Step, GroupsPage, OpenGraph, NextGroup, MembersPage, LinkMember, CommitGroup,
       Collected, CloseGraph, Fail, Over, vars, lookup
  <1> QED
    BY <1>1, <1>2, <1>3, <1>4, <1>5

\* GroupGraph keeps its types: an edge in the file is one between known ids, in
\* the bucket of its kind.
THEOREM GraphTypes == Spec => []GraphTypeOK
  <1>1. IInv /\ IInv' /\ GraphTypeOK /\ [Next]_vars => GraphTypeOK'
    <2> SUFFICES ASSUME IInv, IInv', GraphTypeOK, [Next]_vars PROVE GraphTypeOK'
      OBVIOUS
    <2>1. CASE UNCHANGED vars
      BY <2>1 DEF vars, scratch, api, pages, build, lookup, GraphTypeOK
    <2>2. CASE Next
      <3>1. current' \in Groups
        BY <2>2, LoopTypes
      <3>2. DiskTypeOK'
        <4>1. (ApiInv /\ DiskInv /\ current \in Groups)'
          BY <3>1 DEF IInv
        <4> QED
          BY <4>1, DiskTypes, PTL
      <3>3. pc' \in {"groups", "open", "next", "members", "batch", "expand", "collect", "done",
                     "closed"}
            /\ queue' \subseteq seen' /\ seen' \subseteq Groups
        BY DEF IInv, PagesInv, LookupInv
      <3> QED
        BY <2>2, <3>2, <3>3, LoopTypes, ResultTypes DEF GraphTypeOK, DiskTypeOK, Members
    <2> QED
      BY <2>1, <2>2
  <1> QED
    BY InitTypes, Invariant, <1>1, PTL DEF Spec
=============================================================================
