# A TLA+ model of entcollect

entcollect (`elastic/entcollect`, Go) syncs identity data from Okta, Entra ID,
Active Directory and Jamf. An adapter (a Beat, or the OpenTelemetry Collector)
calls a provider's `FullSync` and `IncrementalSync` on its own schedule, passes
it a key-value store and a publisher, and commits the store when the published
documents were acknowledged. This directory holds TLA+ modules of that code,
TLC configurations that check them on small instances, and proofs that TLAPS
checks for every value of the constants.

The question behind all of it: **does downstream end up with what the identity
source has**, although sources change while they are read, syncs fail half way,
commits are torn and processes die? Downstream is wrong in three ways: it keeps
an entity that is gone (a ghost), it loses one that exists (a spurious
deletion), or it keeps an old state that no later sync will fetch again (an
entity behind a cursor).

## Inventory

| Component | State | Operations | What makes it correct |
|---|---|---|---|
| `Store`, `Buffer` (`store.go`, `buffer.go`) | base store, `pending`, `deleted` | Get, Set, Delete, Each, Commit, Discard | reads see own writes; nothing is durable before Commit; a Commit that stops half way can be retried |
| `idset.Set` (`idset/idset.go`) | meta key, shards; `prev`, `curr`, `dirty` | New, Load, Add, WasPresent, Missing, Save | Missing is exactly what was stored and not added, through changes of the shard count and writes of dirty shards only |
| AD provider (`provider/ad`) | one `whenChanged` cursor, id sets | full: search, publish, delete, save; incremental: what changed, and members of changed groups | nothing falls behind the cursor, full syncs delete what is gone and only that |
| Okta provider (`provider/okta`) | two cursors per kind, id sets; group store per sync | the same, page by page | the same; cursors of either kind of sync agree with what was published |
| Entra ID provider (`provider/entraid`) | a delta link per kind; token; group graph per sync | full: without links; incremental: with them, or without if expired; group expansion | no change is behind a stored link; groups are transitive |
| Jamf provider (`provider/jamf`) | id set; token | one sync: all pages, deletions, save | emits all current devices, deletes absent ones, ends |
| Requests (`doRequest` of Okta and Entra ID, `doWithRetry` of Jamf) | attempts, cached token | ask, retry, back off, renew the token | every request ends, with usable tokens only |
| Rate limiter (`provider/okta/ratelimiter.go`) | a limiter per endpoint | Wait, Update, timers | limits are respected, and every limiter reopens |
| Scratch database (`internal/scratch`) | buckets in a temporary file | PutJSON, GetJSON, Link, Neighbors, BatchWrite, Close | a batch is all or nothing |
| Adapter (external) | schedule | start a sync, commit, discard; may die | commits after acknowledgement |

How they interact: the adapter wraps its store in a Buffer; a provider loads its
cursors and id sets through it, reads the source request by request, calls the
publisher once per document, and saves id sets and cursors through the Buffer;
the adapter commits. Everything runs on one goroutine (`store.go:31-33`) except
the timers of Okta's rate limiter and the mutex of Entra's token. The
concurrency that matters is between a sync and the source it reads.

Hard behaviours: sources that change between two requests of one sync; limiters
replaced while timers run for the ones before; tokens that expire between their
check and the request; commits torn between keys; failures after half of the documents were published; delta
links that expire; shard counts that change over half-written stores; cyclic
group graphs; a coarse clock. `PROJECT.json` lists each as a hazard at its line.

## Modules

| Module | Models | State and actions |
|---|---|---|
| `StagedStore` | what a sync is promised of its store | durable keys, a view, a flush that copies the view key by key and may stop, and that reports success only with the whole view durable |
| `Buffer` | `buffer.go` without Each | the two maps; `CommitDelete`, `CommitSet` are single calls to the base store, `CommitFail` an error of one, `Crash` the end of the process |
| `BufferEach` | `Buffer.Each`; extends `Buffer` | the range over the live `pending` map (entries it must, and may, produce) and the base store; callbacks that write |
| `PresenceSet` | what a provider relies on in an id set | stored, known and seen ids |
| `Idset` | `idset.go` over a Buffer | keys on disk and in the view, `prev`, `curr`, `dirty`; `Load`, `Add`, `Save` are whole methods, the commit is per key |
| `ADSync` | `provider/ad`: users, devices, groups, of which one may have members, the kinds a configuration asks for | every page of an LDAP search (`ReadPage`; `ahead` is what its pages have yet to come to) and every published document is a step, in the order of `GetDetails` and `syncEntities`; a group without members is an entity of its own |
| `OktaSync` | `provider/okta`: users, devices | every page and every published document is a step; full syncs write `last_sync`, incremental ones `last_update` |
| `EntraSync` | `provider/entraid/provider.go` | a delta link is the set of entities a query with it would list |
| `Membership` | what a group graph promises (`buildGraph`, `expandTransitive`) | a group is added, with its members, in one step; then the breadth-first expansion queue |
| `Scratch` | `internal/scratch` | keys of each bucket; transactions; edges as keys `from\x00to`, found by their prefix |
| `GroupGraph` | the group graphs of Entra ID and of Okta, over `Scratch`; implements `Membership` | every page, every write, every visit and every lookup of a group is a step, and each may fail |
| `RateLimiter` | `okta/ratelimiter.go` | `Update` with all its headers; the timer in its three steps |
| `Requests` | the request loops of Okta, Entra ID and Jamf and their tokens, over `RateLimiter` | waits, exchanges, answers of all kinds and backoffs are steps; time passes between them |
| `JamfSync` | `provider/jamf` | every page and every published document is a step |
| `*_proof` | theorems of `Buffer` (with `BufferEach`), `Idset`, `ADSync`, `OktaSync`, `EntraSync`, `JamfSync`, `Requests`, `GroupGraph` (with `Membership`) | |
| `MC*` | instances for TLC | |

The provider modules do not contain the Buffer and the id set again: they use
what `StagedStore` and `PresenceSet` promise, and runs and theorems show that
`Buffer` and `Idset` implement these. A sync writes a view; `Flush...` copies a
key of it to the durable store in any order; `Abort` is any failure, of a
request, the publisher, the store or the process, and drops the view. How a
request comes to fail, and how the groups of a document are computed, are the
subjects of `Requests` and `GroupGraph`; to a sync they are an answer or an `Abort`.

Of an entity the provider modules keep only whether what was fetched or
published is its current state, and when it changed (a number of ticks). The
content of documents, request formats and logging are left out. Time is a clock
of a few ticks in `ADSync` and `OktaSync`, and countdowns in `Requests`.

History variables (`slipped`, `unreported`, `stayed`, `away`, `steady`,
`shifted`, `delivered`, ...) record what happened for the properties; no guard
of the code's actions reads them.

Definitions called `Mutant of X` are plausible bugs of `X`. They are not part of
the model; with one in the place of `X`, TLC violates the property that
`PROJECT.json` pairs it with, so no property holds by construction.

## Runs

| Run | Instance | Shows |
|---|---|---|
| `buffer` | 3 keys, 2 values | Buffer is a staged store; partial commits and retries keep the view; Each with a writing callback skips, completes and repeats as documented |
| `idset_layouts` | 3 ids, shard counts 1-3 | with whole commits an id set is an exact presence set through all changes of the count |
| `idset_repair` | 3 ids, counts 1-2, torn commits, lost shards | no remembered id is missed; one full Save repairs the store |
| `idset_torn_layout` | the same | **violated**: a torn commit over a change of the count makes Missing name an added id |
| `ad` | 2 users, or a user and a device that share a group, or a user and empty groups, or two groups; any pages, 2 ticks | only what slipped falls behind the cursor; full syncs keep what stayed and delete what is remembered |
| `okta` | 2 users or a device, pages of 1, 2 ticks | as `ad`; and downstream converges, because full syncs repeat |
| `okta_ghost` | the same, no failures | **violated**: what an incremental sync found can stay downstream for ever |
| `entra` | 2 users, a device | nothing is behind a durable link; downstream converges |
| `entra_removed` | a user, a device | **violated**: a removal can get lost with the link that was to report it |
| `jamf` | 3 devices, one without UDID, pages of 1 | all current devices are emitted, absent ones deleted, a sync ends |
| `requests` | 2 endpoints, every client, 3 attempts, resets of up to 3 ticks | named times are respected, tokens usable; a limiter reopens and a request ends |
| `graph` | 3 groups and 2 users of which ids begin with one another, up to 3 memberships, 1 removed; both providers | pages, batches and failures implement `Membership`: expansion is transitive, ends, and leaves no file |

Violated runs are findings: each quotes the comment the code disagrees with.

*Bounds.* Three keys give Commit a key that is deleted, one that is set and one
left alone, and Each a key behind, at and ahead of the callback. Three ids over up to
three shards collide under one count and part under another. Two ticks let
changes fall into the same tick as the cursor or after it. A user and a device
are needed for one kind to move the other's cursor; two users and pages of one
for a page to be read and passed while another is to come (Okta's kinds share
no key, so `Populations` has either two users or one device). AD's `Configs`
give a population each: two users for a search to have two pages with a change
between them that the cursor passes, a user and a device with the group they share,
a user and groups that fill and empty, and, beside that group, another one whose
page comes before or after it. All of them at once do not end in time. Nor do two
users in a group and three ticks, the least that lets the last search of a kind
pass a change that the first one missed (`slipped` below); the proof covers every
size. Three devices and
pages of one let a removal shift a device across a page border. Three
memberships are an entity in a group, and that group in a cycle with another one;
`graph` checks all listings and graphs of that size, and ids that begin with one
another to tell the separator from none. Resets reach beyond the longest wait
(`MaxReset > MaxWait`), so that a limiter may reopen before a deadline, with it
and after it; three attempts (each client has five) have a first,
a middle and a last one; a token outlives the grace by two ticks, so that it can
expire in any wait, pause or row of backoffs. `MaxTime`, `Populations`, `Configs`,
`MaxMembers`, `MaxRemoved`, the parameters of `Requests` and one write per
callback are the only bounds inside modules; interruptions, commits and changes
within a tick are not bounded.

*Fairness.* A Jamf sync and a group graph are loops on one goroutine: weak
fairness of their next step. In `Requests` the goroutine goes on, the timers of
limiters fire, time passes and servers answer: weak fairness of each; nobody has
to start a request or a sync. That servers answer is true of Jamf, whose client
has a timeout (`jamf/provider.go:33`); the default clients of Okta and Entra ID have
none, so there it is an assumption. `Converges` of Entra assumes weak fairness of
a running sync and that the adapter starts an incremental sync again and again;
that of Okta strong fairness of starting full syncs, as the adapter runs both
kinds and an idle moment may always be taken by the other one. Both are stated
under the condition that the source stops changing and syncs get as far as
their commit (`Fails`), which the code cannot guarantee; commits may go on failing.
The source and failures have no fairness.

*Not properties.* `OnlySlipsFallBehind` excepts what the code is known to miss
(`slipped`), until it is published as it is or, in AD, changes again unmissed:
in AD, entities changed behind the page that was to list them, while the search
goes on, while changed groups and their members are searched, or while another
kind is still to come, entities that left
a changed group, entities that are there or change around a group's change during a
sync, and a group whose last member is removed; in Okta, users changed behind
the page that listed them. `EmitsAllCurrent` excepts devices that moved to an
earlier page because another one was removed: the sync deletes them and the
next one discovers them again. `EachShowsView` excepts keys that a callback
has set during the same Each: a base-only key is then delivered with its old value.
`RespectsNamedTime` excepts a configured fixed limit, which overrides what the
server says, and speaks of one sync: the next one has a limiter of its own.
`SendsUsableToken` excepts the retries of a Jamf request, which go on with the
token its page began with, and of Okta's OAuth2 says nothing about a token that was
answered 401: the token source keeps it until it expires.

## Proofs

All by inductive invariants, for every value of the constants that the modules'
assumptions allow. Every invariant and every action property that a passing run
checks is a theorem, for `NoSpuriousDeletion` and `RecallExact` under the
condition their theorems name.

* `Buffer_proof`. `TypeOK /\ OneFatePerKey /\ FlushedBehind` is inductive as it
  stands; `CommitKeepsView`, `BaseMovesOnlyToView` and the refinement of
  `StagedStore` are step lemmas under it. `EndFlush` needs all of
  `FlushedBehind`: a Commit may report success only when the base store equals
  the view.
  For `BufferEach` the invariant follows the two ranges: pending entries the first
  must still produce were not given, and the others were, or are new
  (`PendingInv`); keys of the base store that are behind were given, written by a
  callback, or are deleted (`BaseInv`); each range is empty outside its stage
  (`RangeInv`), so at the end nothing is left over. A callback's write is a write
  of `Buffer`, and all else stutters (`EachKeepsTheBuffer`).
* `Idset_proof`. `SInv` relates `prev`, `curr` and `dirty` to `loaded` and
  `added`: which shards may differ from the store without being dirty. It is
  inductive whatever the store loses, and enough for what holds of damaged stores:
  no missed deletion, a Save that remembers and repairs (`DetectionSurvivesDamage`,
  `SaveSurvivesDamage`, `SaveRepairsLayout`). That added
  ids are never Missing needs a coherent store, where each id is in the shard
  its hash gives: this is an invariant if commits are whole or there is one
  shard count (`NoSpuriousDeletionIfStable`), and `idset_torn_layout` shows the
  assumption is needed; `RecallExactIfStable` has the same one, and
  `IdsetImplementsPresenceSet` assumes whole commits.
* `EntraSync_proof`. The three sets of links (durable, in the view, returned to
  the running sync) each must cover what downstream, or downstream together
  with the batch still to publish, has not got. Which one covers what depends
  on how far the sync is; the invariant says so per stage, for changes and for
  removals (`NothingFallsBehind`, `RemovalsAreListed`).
* `GroupGraph_proof`. The invariant has a part for each thing that could lose a
  membership: pages (`PagesInv`: read and unread make up the listing), the file
  (`DiskInv`: exactly the edges of the groups added), the transaction (`TxInv`:
  the edges linked so far, of one group), the lookup (`LookupInv`). `PrefixSeparates`
  shows that no key of one id has another id's prefix, as ids contain no separator;
  hence `ScanFindsNeighbors`, and under the invariant (`GraphRead`) what is read
  is the graph of the groups added. Each step then maps to one of
  `Membership` or a stutter. `ExpansionIsTransitive` is about that specification
  (`M!Spec`): while groups are queued, the seen set is a subset of every upward
  closed set, and only groups in the queue have unseen parents; with an empty
  queue it is the least such set. It carries over (`DocumentsListAllGroups`).
  `GraphTypes` needs the invariant: a page or a key of an unknown id would break it.
* `Requests_proof`. `LimiterInv` ties a limiter's rate, burst and readiness to
  the step its timer is at. `BlockedInv`: as long as an endpoint wants to be left
  alone somebody waits that long, Okta's limiter or Entra ID's pause; when a request
  is on its way its limiter is ready. `TokenInv`: between its check and its
  request a token has more left than the request has of the grace.
* `JamfSync_proof`. A device's rank, the number of listed devices before it, only
  falls, and falls below what was read only for a device that was shifted. So
  (`ListedInv`) a steady device was read or lies ahead; the loop ends when the
  pages reach the total the server last gave.
* `OktaSync_proof`. `SettledInv` follows an entity that did not slip through the
  stages of a sync: up to the last page read the batch holds it or the cursor asked
  for nothing of it (`PagesInv`), then it is published (`ListedInv`), and only then
  may a cursor pass it (`CursorInv`). The new cursor is the latest change on the
  pages, so a later change is above it. `StayedInv` and `AwayInv` do the
  same for what exists, or is gone, throughout a full sync.
* `ADSync_proof` is the same argument for one cursor that all kinds share. A change
  that did not slip is settled by the searches of its kind, page by page (`FoundInv`
  behind a page of the first one, `MembersInv` behind one of the last, `SearchedInv`
  after it): it is in hand, downstream, or, only if no page is to
  come, above whatever the cursor may become (`Changed`). A page shows only what
  is no later than the clock, and the cursor only what a page showed (`ClockInv`).
  Members are asked for through their group's stamp, which changes without theirs:
  once it did during a sync (`unsettled`), what did not slip must be downstream
  already (`UnsettledInv`). None of these follows from `OnlySlipsFallBehind`, which
  speaks of the durable cursor only. The proof corrected the model: with two users
  and three ticks a change between two searches of one kind is passed, which
  `slipped` had not counted.

Left to TLC: liveness and everything with fairness (`Converges`, `SyncEnds`,
`RequestEnds`, `EndsWithoutFile`), and the three violations. No module uses a
RECURSIVE operator.

## Assumptions about code that is not here

* Published documents are acknowledged before the adapter commits.
* Graph: a delta link covers all changes after the first page of the query that
  returned it, a removal is listed by links made before it, and a query without
  a link lists what exists.
* Okta: lists are ordered by id and a next link goes on behind the last one listed.
* Jamf: pages are cut by offset in a fixed order, with the current total.
* LDAP: a search goes through the entities once, in an order that may be another
  one each time; without paging all at once, else page by page. A page lists what
  matches when it is asked for, and only the last one may be empty. Of the pages
  with groups, only that with the group of the members it lists matters to a document.
* LDAP: a change of members stamps only the group. A group's
  stamp does not tell that its last member was removed to anyone who asks for
  members of changed groups.
* Listings of groups and of members end, and do not change while they are read.
* A request whose token was checked reaches the server within the grace period.
* Jamf: an error carries its status in the body, or as the answer's status.
* bbolt: a transaction is written whole or not at all; a file that is closed and
  removed cannot be read.

## Not modelled

* The validation of configurations; of AD's the kinds asked for are modelled, of
  Okta's the credentials and a fixed limit.
* Conversions: LDAP attributes, JSON, DNs, URLs, link headers.
* What enrichment adds to documents (factors, roles, MFA, sign-in, owners), and
  the requests for it; they go through the loops of `Requests`.
* OAuth2: signing of assertions, keys.
* How long a positive rate makes Okta's requests wait, only that it may be too
  long; a reset at the very instant the limiter is updated.
* The documents of AD members with several groups, of which an incremental sync
  knows only the changed ones (`ad/api.go:255`).
* A scratch file left behind by a process that dies: no later one looks for it.
* That Entra ID takes any status 400 of a delta request for an expired link: the model's
  query with a link may expire at any time.

## Plan

Done, in this order: `StagedStore`, `Buffer`, `BufferEach`, `PresenceSet`,
`Idset`, `JamfSync`, `ADSync`, `EntraSync`, `Membership`, `OktaSync`;
`RateLimiter`, `Requests`, `Scratch`, `GroupGraph`, empty groups in `ADSync`; the
proofs of `Buffer`, `Idset`, `EntraSync`, `Membership`, `GroupGraph`, `Requests`,
`JamfSync` and `OktaSync`; those of `BufferEach` and `ADSync`, and type correctness
of every component.

Next:

1. `ADSync` with two groups that have members, and the groups a document names.
2. `EntraSync` with the groups of its documents: what an incremental sync without
   changed entities leaves stale.
