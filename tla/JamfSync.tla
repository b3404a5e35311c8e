------------------------------ MODULE JamfSync ------------------------------
(***************************************************************************)
(* The Jamf provider (provider/jamf/provider.go): FullSync and             *)
(* IncrementalSync are the same doSync, which pages through the whole      *)
(* inventory, publishes every device, and deletes the devices its id set   *)
(* remembers and no page contained.                                        *)
(*                                                                         *)
(* The inventory is paged by offset and changes between two pages. A token *)
(* that cannot be obtained or refreshed, a page that cannot be fetched and *)
(* a publisher that fails all end the sync with an error: they are Abort.  *)
(* The cursor keys are written and never read, so they are left out. The   *)
(* id set is PresenceSet, the store is StagedStore.                        *)
(*                                                                         *)
(* Bounds: N devices, numbered in the order the server lists them.         *)
(***************************************************************************)
EXTENDS Integers, FiniteSets

CONSTANTS
    N,          \* devices 1 .. N
    PageSize,   \* Config.PageSize
    NoUDID      \* devices the API lists without a UDID

Devices == 1 .. N

ASSUME JamfSyncAssumption ==
    /\ N \in Nat
    /\ PageSize \in Nat \ {0}
    /\ NoUDID \subseteq Devices

VARIABLES
    inventory,  \* the devices the server lists
    managed,    \* those of them, or of the absent ones, with isManaged = true
    down,       \* the devices that exist downstream of the publisher
    ids,        \* the durable id set
    pc,         \* "idle", "fetch", "publish", "deletions" or "saved"
    page, total,\* doSync's page and total
    last,       \* the page just fetched ends the loop
    batch,      \* devices of that page still to publish, as fetched: [d |-> isManaged]
    seen,       \* the id set's current ids
    gone,       \* deletions still to publish
    steady,     \* history: devices whose record did not change since the sync began
    shifted     \* history: devices listed after one that left during the sync

world == <<inventory, managed>>
progress == <<page, total, last, batch, seen, gone>>
history == <<steady, shifted>>
vars == <<world, down, ids, pc, progress, history>>

TypeOK ==
    /\ inventory \in SUBSET Devices
    /\ managed \in SUBSET Devices
    /\ down \in SUBSET Devices
    /\ ids \in SUBSET (Devices \ NoUDID)
    /\ pc \in {"idle", "fetch", "publish", "deletions", "saved"}
    /\ page \in Nat /\ total \in Nat
    /\ last \in BOOLEAN
    /\ batch \in SUBSET [device : Devices, isManaged : BOOLEAN]
    /\ seen \in SUBSET (Devices \ NoUDID)
    /\ gone \in SUBSET Devices
    /\ steady \in SUBSET Devices
    /\ shifted \in SUBSET Devices

NoSync ==
    /\ page = 0 /\ total = 0 /\ last = FALSE
    /\ batch = {} /\ seen = {} /\ gone = {}
    /\ steady = {} /\ shifted = {}

Init ==
    /\ inventory \in SUBSET Devices
    /\ managed \in SUBSET Devices
    /\ down = {}
    /\ ids = {}
    /\ pc = "idle"
    /\ NoSync

-----------------------------------------------------------------------------
(* The inventory (external) *)

Changed(d) ==
    /\ steady' = steady \ {d}
    /\ UNCHANGED <<down, ids, pc, progress>>

Enrol(d) ==
    /\ d \notin inventory
    /\ inventory' = inventory \cup {d}
    /\ UNCHANGED <<managed, shifted>>
    /\ Changed(d)

Retire(d) ==
    /\ d \in inventory
    /\ inventory' = inventory \ {d}
    /\ shifted' = IF pc = "idle" THEN {} ELSE shifted \cup {x \in Devices : x > d}
    /\ UNCHANGED managed
    /\ Changed(d)

SwitchManaged(d) ==
    /\ managed' = (managed \ {d}) \cup ({d} \ managed)
    /\ UNCHANGED <<inventory, shifted>>
    /\ Changed(d)

\* The devices listed before d.
Rank(d) == Cardinality({x \in inventory : x < d})

\* The server's answer to a page request, by offset.
PageOf(p) == {d \in inventory : Rank(d) \in p * PageSize .. (p + 1) * PageSize - 1}

-----------------------------------------------------------------------------
(* doSync *)

Start ==
    /\ pc = "idle"
    /\ pc' = "fetch"
    /\ page' = 0 /\ total' = 0 /\ last' = FALSE
    /\ batch' = {} /\ seen' = {} /\ gone' = {}
    /\ steady' = Devices /\ shifted' = {}
    /\ UNCHANGED <<world, down, ids>>

\* Mutant of IsLast: off by one.
IsLastOffByOne(results, n) == results = {} \/ n + 1 >= Cardinality(inventory)

\* The loop ends on an empty page, or when as many devices were listed as the
\* server says it has now.
IsLast(results, n) == results = {} \/ n >= Cardinality(inventory)

FetchPage ==
    LET results == PageOf(page)
        n == total + Cardinality(results)
    IN  /\ pc = "fetch"
        /\ pc' = "publish"
        /\ batch' = {[device |-> d, isManaged |-> d \in managed] : d \in results}
        /\ total' = n
        /\ last' = IsLast(results, n)
        /\ UNCHANGED <<world, down, ids, page, seen, gone, history>>

\* Mutant of Publish: devices without a UDID are not skipped.
PublishAnyway(r) ==
    /\ pc = "publish"
    /\ r \in batch
    /\ batch' = batch \ {r}
    /\ seen' = seen \cup {r.device}
    /\ down' = IF r.isManaged THEN down \cup {r.device} ELSE down \ {r.device}
    /\ UNCHANGED <<world, ids, pc, page, total, last, gone, history>>

\* deviceAction: an unmanaged device is published as deleted. A device without
\* a UDID is skipped, though it counted for the total.
Publish(r) ==
    /\ pc = "publish"
    /\ r \in batch
    /\ batch' = batch \ {r}
    /\ IF r.device \in NoUDID
       THEN UNCHANGED <<seen, down>>
       ELSE /\ seen' = seen \cup {r.device}
            /\ down' = IF r.isManaged THEN down \cup {r.device}
                                      ELSE down \ {r.device}
    /\ UNCHANGED <<world, ids, pc, page, total, last, gone, history>>

NextPage ==
    /\ pc = "publish"
    /\ batch = {}
    /\ ~last
    /\ pc' = "fetch"
    /\ page' = page + 1
    /\ UNCHANGED <<world, down, ids, total, last, batch, seen, gone, history>>

\* Mutant of Missing: the difference the other way round.
MissingSwapped == seen \ ids

\* Set.Missing
Missing == ids \ seen

PagesDone ==
    /\ pc = "publish"
    /\ batch = {}
    /\ last
    /\ pc' = "deletions"
    /\ gone' = Missing
    /\ UNCHANGED <<world, down, ids, page, total, last, batch, seen, history>>

\* Mutant of PublishDeletion: the loop does not advance.
PublishDeletionStuck(d) ==
    /\ pc = "deletions"
    /\ d \in gone
    /\ down' = down \ {d}
    /\ UNCHANGED <<world, ids, pc, progress, history>>

PublishDeletion(d) ==
    /\ pc = "deletions"
    /\ d \in gone
    /\ gone' = gone \ {d}
    /\ down' = down \ {d}
    /\ UNCHANGED <<world, ids, pc, page, total, last, batch, seen, history>>

\* Save: seen becomes the id set, in the view the commit will flush.
Save ==
    /\ pc = "deletions"
    /\ gone = {}
    /\ pc' = "saved"
    /\ UNCHANGED <<world, down, ids, progress, history>>

-----------------------------------------------------------------------------
(* The adapter (external) *)

End ==
    /\ pc' = "idle"
    /\ page' = 0 /\ total' = 0 /\ last' = FALSE
    /\ batch' = {} /\ seen' = {} /\ gone' = {}
    /\ steady' = {} /\ shifted' = {}

Commit ==
    /\ pc = "saved"
    /\ ids' = seen
    /\ End
    /\ UNCHANGED <<world, down>>

Abort ==
    /\ pc # "idle"
    /\ End
    /\ UNCHANGED <<world, down, ids>>

DoSync ==
    \/ FetchPage
    \/ \E r \in batch : Publish(r)
    \/ NextPage
    \/ PagesDone
    \/ \E d \in gone : PublishDeletion(d)
    \/ Save

Next ==
    \/ \E d \in Devices : Enrol(d) \/ Retire(d) \/ SwitchManaged(d)
    \/ Start
    \/ DoSync
    \/ Commit
    \/ Abort

Spec == Init /\ [][Next]_vars

\* doSync runs on one goroutine: once started it goes on.
FairSpec == Spec /\ WF_vars(DoSync) /\ WF_vars(Commit)

-----------------------------------------------------------------------------
(* Properties *)

\* "every sync emits all current devices" (jamf/doc.go:8-10): after a sync a
\* device whose record did not change meanwhile, and that the server lists, is
\* downstream if and only if it is managed. Excepted are devices that moved to
\* an earlier page when another one was removed: the pages may miss these.
EmitsAllCurrent ==
    pc = "saved" =>
        \A d \in (steady \cap inventory) \ (NoUDID \cup shifted) :
            d \in down <=> d \in managed

\* "Devices present in a previous sync but absent from the current API
\* response are ... emitted with ActionDeleted" (jamf/doc.go:15-17): a device
\* the last committed sync listed and that is not listed any more is not left
\* downstream, whatever was interrupted since.
DeletesAbsent ==
    pc = "saved" => \A d \in (steady \cap ids) \ inventory : d \notin down

\* A sync ends, although the server recounts the inventory for every page and
\* it may grow and shrink all the time.
SyncEnds == (pc = "fetch") ~> (pc = "idle")
=============================================================================
