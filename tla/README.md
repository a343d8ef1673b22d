# Arda in TLA+

Arda is one Next.js application (`portals/app`) with a Postgres database, a Redis
and a platform it reports to and takes orders from. These modules model the parts
of it where several requests, jobs and messages meet the same state: the life of a
workspace, the session of a user, the cached entitlement and the metering of usage,
the catalogue and those who write it, services and the gateway that serves them,
sources and their syncs, and what pages show and offer of all that. TLC checks them on
small instances; TLAPS proves what matters most of the webhook, the sessions, the cached
entitlement, the metering, the catalogue, the services, the access requests and the seed
for every instance.

Paths below are relative to `portals/app/app` unless they start with another directory.

## Inventory

| Component | State | Operations | What makes it correct |
|---|---|---|---|
| Provisioning webhook, `provisioning/` | `WorkspaceRef` (status, wipe mark), `WebhookDelivery` ledger, `ProvisionSeq` watermark, audit rows | one handler: ignore, deduplicate, check the sequence, apply in a transaction, evict, answer | repeats have no effect; order of arrival does not matter; anchor, ledger and watermark agree |
| Lifecycle sweep, `lifecycle/sweep.ts` | the same anchor, all rows of a workspace | list the due workspaces, clear each in a transaction | erases what is past its retention, nothing else, all of it, in the end |
| Session, `auth/` | Redis: `authreq:`, `rpsess:`, `rptok:`, `sid:`, `bclogout:` keys; two cookies | login, callback, resolve with refresh, logout, back-channel logout | one session per login, in its browser; a session ends when it should and can be found to end it |
| Entitlement resolver, `entitlement/platform-resolver.ts` | a map from workspace to envelope and expiry, per process | resolve, invalidate | an eviction is felt by the next resolve; an answer is never older than its time to live |
| Usage buffer and flush, `usage/lib/` | `UsageRaw` rows | record, flush, delete with the workspace | reported at least once under one key, marked only when settled, retried a bounded number of times |
| Metering gate, `(app)/quality/actions.ts` | none of its own | ask the resolver, run, record | a refusal by the platform reaches the gate |
| Storage gauge, `usage/lib/gauge.ts` | none; the platform keeps the last report | sum, report | the newest sum wins |
| Write API, `api/v1/`, `lib/api/` | datasets, lineage edges, access requests, audit rows with an idempotency key, rate-limit counters | idempotent creates | a retry is answered as its original; quota, uniqueness and acyclicity hold under concurrency |
| Governance actions, `(app)/approvals`, `(app)/service`, `(app)/lineage`, `(app)/apikeys` | access requests, services and their datasets, edges, keys | decide, cancel; create, edit, publish, unpublish, delete | a decision is final; nothing runs that the quality gate has not seen |
| Service gateway, `api/services/` | reads keys, services, the wipe mark | serve, meter | serves published services of live workspaces only |
| Sources, sync, scheduled refresh, `(app)/sources`, `jobs/refresh.ts` | data sources, datasets, quality results | connect, sync, refresh | the cap on datasets holds; every workspace is refreshed in its turn |
| First-entry seed, `lib/seed-fill.ts` | `WorkspaceRef.seedStatus` | take the lease, fill, release | seeded once; a failure can be retried |
| Lists of the API, `lib/reads`, `lib/api/pagination.ts` | none | page by page with a cursor | every row once, of the workspace only |
| Lineage view, `(app)/lineage/graph-core.ts`, `data.ts` | none | close, layer, cut, count the impact | layers and impact are those of the graph |
| Plans, roles and menus, `entitlement/`, `ui/nav-config.ts` | what the browser fetched | gate, badge, upgrade panel | the badge says what the gate will do |
| Pages with actions, `(app)/*` | what a page was rendered from | offer a control, run its action, render anew | what is offered is accepted |
| Audit, other pages and page data, Curator client, schema, deployment | - | - | inserts, queries and views: see "What is not modelled" |

**How they interact.** The webhook and the sweep write the same anchor, and the first
entry creates it; the layout reads its mark before it lets anybody in. The webhook (on a
subscription change) and the flush (on a refusal) evict the entitlement that the quality
gate reads. Gate, gateway and scheduled refresh record usage; the flush reports it; the
sweep deletes it. API creates and syncs fill the same datasets under one cap; syncs and
the job report their size to the gauge. Quality runs write the results that decide
whether a service may be published; keys, levels and masks decide what the gateway then
serves of it. Requests of one browser refresh the same session, which the IdP, another
tab or the expiry of its keys may end at the same time.

**What is hard.** Every `await` lets another request in, and most of the code reads,
awaits and then writes. Webhooks are repeated (eight attempts) and reordered. Answers
of the platform and of the IdP get lost after they have taken effect. The process
restarts between any two awaits; the cache dies with it, Redis and Postgres do not.
`PROJECT.json` lists each such hazard at its line with the properties about it; where a
property excepts the very race, a note says what the property then shows.

## Plan

Done, in this order: `Provisioning` (the wipe of a workspace is the one thing that
cannot be undone), `Session`, `UsageFlush`, `Entitlement`, `Metering` (which composes
the two before it), and the proofs about `Provisioning`; then the workspace's content:
`Catalog` with `LineageGraph`, over the abstract `KeyLedger`; `Publishing` and `Gateway`;
`Sources`; `Admission` and `Reads`; `FirstEntry` and `Approvals`; `Plans`, `Access` and
`Screens`; `Workspace`, which puts them under one roof; the proofs about `Catalog`,
`LineageGraph`, `Publishing`, `Approvals` and `FirstEntry`; those about `Session`, `Entitlement`,
`UsageFlush` and `Metering`; those about `Admission`, `Gateway`, `Reads` and `Sources`,
the caps included; those about `Access` and `Screens`; the types of all parts of a
workspace; and `UsageLedger`, which `UsageFlush` and `Metering` implement. Every safety
property that a passing run checks is proved.

Open:

1. Liveness of a scheduled refresh: that a source of a live workspace is synced again
   while its connector works, and is chosen although a tick takes only 50 workspaces.
2. A session as an abstract "live or ended" object. The write-back after a logout
   (`session_ttl`) makes an ended session live again, so `Session` implements such an
   object only for the sessions that no refresh is at work on when they end.

## The modules

A step of a model is what happens between two awaits: one database statement, one
transaction, one Redis command or `MULTI`, one answer from outside. A transaction is
one step: it applies wholly or not at all, and what it reads before it writes is read
under the locks of the rows it writes. History variables record what only the
properties need; no guard reads them but that of `origin` in `Session`, which also says
which random session ids have been drawn. Definitions named `...Never`, `...Kept` and the
like with the comment `mutant:` are variants of the definition that follows them, not
part of any specification; they stand for the mistakes each property has been tested
against.

### Provisioning

`ref` is the anchor (`status`, `wipedAt`), `rows` which kinds of rows a workspace has,
`ledger` and `lastSeq` the two tables of the webhook, `wipeAudits` the audit rows of
deprovisionings, `evicted` the subscription changes that the cache has heard of.
`handler[h]` is a request in flight: `Receive` (beta plans and known deliveries are
answered at once), `CheckSeq` (the watermark read), `Commit` or `Reject` (the
transaction, or its unique violation, which answers 500), `Respond` (eviction, then
2xx). `left[d]` counts the attempts the platform still makes of a delivery; an answer
that arrives ends them. `sweeping[s]` is what is left of the list of a sweep:
`SweepSelect` and one `SweepDelete` per workspace. `EnterWorkspace` is the first entry
to an unknown workspace, `WriteRow` any server action that creates a row: none of them
looks at the mark, only the layout does. `Tick` is a day; requests and sweeps are
short against it, so that none is under way when it passes.

`raced` remembers the workspaces hit by a check that was stale when it was used: a
commit whose watermark had moved since `CheckSeq`, or a `SweepDelete` whose mark had
changed since `SweepSelect`. Both can happen in the code. Properties that such a race
breaks except those workspaces, and so say exactly how far the guarantee goes:
without the race it holds, however else the steps interleave.

### Session

The five key families of `auth/lib/session-store.ts` are `authreq`, `rpsess`, `rptok`,
`index` and `seen`; `stateCookie` is the login-state cookie. A stored value carries its
refresh generation and whether it has an expiry (`ttl`): `SET ... KEEPTTL` on a missing
key makes one without. `callback` and `request` are requests in flight; a request that
resolves a session goes through `ReadIdentity`, `ReadTokens`, and near the expiry of
the access token `Refresh`, `PutIdentity`, `PutTokens`, or after a failure
`DestroyRead` and `DestroyDelete`, which are also the steps of a logout. A back-channel
logout is `BackChannelReceive` (record the `jti`), `BackChannelMembers` and
`BackChannelDelete`: the index is deleted by a command of its own even when it was read as
empty, and takes with it what was added meanwhile. Each command of a refresh may fail. The IdP is external: it honours the newest refresh token of a
live session once and may fail at any time. `Expire` takes the keys of a session when
its time is up; the index has the same lifetime as its youngest session, so
`ExpireIndex` does not come before any of its sessions has gone.

### UsageFlush, UsageLedger

`raw` are the rows, numbered in the order of their creation. `Select` reads a batch
(the attempts of each row included), then for each row of it `Post`, then `Mark` after
a final answer (and `Evict` after a 409) or `Count` after any other. An update that
throws goes from `Mark` to `Count` (the catch) and from `Count` out of the flush. The
platform settles a key once, as consumed or refused, and repeats itself afterwards
(`Consume`); any answer can be lost. `DeleteRows` is the sweep.

`UsageLedger` is what the buffer promises, without batches, attempts, answers and crashes:
a row is recorded, settled by the platform once, marked only after it was settled, and
erased. `RowsAreReportedOnce` is the refinement: the stage of a row is the `state` of
`raw`, and whatever else a flush does is a stutter. A row that was erased while its POST
was under way may still be settled, so `SettleRow` asks only that the row was recorded.

### Entitlement

`cache` holds an entry per workspace with what is left of its time (`ttl`); `resolver`
is a `_fetch` in flight. `Resolve` reads the cache and answers or asks the platform,
`PlatformAnswers`, then `Store`; `PlatformFails` serves the entry read at the
beginning, or the free plan. `Invalidate` is `invalidateCache`. A tick lets all
lifetimes run down, those of fetches in flight included, because the code reads the
clock before it awaits. The platform's envelope is a version that `Change` counts up;
expired entries stay in the cache, as in the code, where they are what a failing fetch
falls back on.

### Metering

`Metering` extends `UsageFlush` and instantiates `Entitlement` for the workspace. Its
envelope says whether the pool has quota: even versions do. A quality run is `BeginRun`
(resolve), then `AdmitRun` (which records its usage) or `EndRun`; `Report` and `Settle`
are the flush, whose `Evict` is the cache's `Invalidate`; `PoolMoves` exhausts or
refills the pool and changes the envelope with it. The run resolves subscription and
quota together; only the quota decides the gate, so one resolve stands for both.

### Catalog, KeyLedger, LineageGraph

`writer[w]` is a request that creates: a dataset, an edge or an access request over
`api/v1`, an edge by the server action, or the datasets of a sync. `Begin`, `Lookup`
(`findIdempotentReplay`), `Check` (quota, codes, endpoints, cycle; for a sync `PlanSync`),
`Create` (the transaction with the audit row that carries the key, or its unique
violation) and `Catch` are the awaits of `runIdempotentCreate`; `Sweep` is the hard delete. `ledger` is the
audit row of each key. Every commit marks as `moved` the writers whose checks it makes
stale: the histories `excess` and `raced` count the datasets and edges that were created
on such a check, and so the cap and the absence of cycles are stated exactly.
`KeyLedger` is what a client may rely on: a key makes one resource at most, and every
success under it names that resource. `KeyMakesOneRow` is the refinement.

`LineageGraph` holds the pure functions of `graph-core.ts` as recursive functions of the
number of passes, and the view of `data.ts` over them: the order of the nodes is a number
(`Place`), the cut at `NODE_CAP` counts the nodes before. `LineageIsSound` is the absence
of cycles (`LineageIsAcyclic`) and compares the view with definitions that do not follow
the code (`ViewIsRight`): a layer by its equation, the impact as the least closed set.

### Publishing, Gateway

In `Publishing`, `admin[a]` is a server action between its read and its commit. A publish
reads the service, then its links (`ReadLinks`), then the results of their rules
(`QualityGate`), then commits. A run of checks reads the enabled rules and writes its
results in one transaction; the latest result of a rule is the one with the highest
`runAt`, which is taken when a run begins, so that of two runs the one that began later
counts, whichever wrote first. `PublishInit` is what the seed leaves: services that run
without having been published, rules of an empty config that have results, and rules with
a config that were loaded beside the application. `gated` (the links the gate of a
running service saw) and `raced` (an edit and the publish overlapped) are histories of a
service; `standing` is one of a publish: the checks that have been failing on the
service's links ever since it was asked for.

In `Gateway`, a call goes through `FindKey`, `CheckWipe`, `ReadService`, `ReadPolicy`,
`FetchRows` and `RecordAccess`, each a statement of its own, while the settings move.
`seen` keeps what held at some time, or all the time, since the call began, so that
`AnswersObeyPolicy` does not ask for more than the order of the reads can give. The
service's own life is reduced to running, stopped and gone.

### Sources

`registrar[r]` is a registration between count and create, `sync[a]` an interactive sync
or the job: `Pull` (connector and plan), then `SyncCommits` or `SyncThrows`, for the job
also `Catch` or `CatchThrows`, then the gauge report in two steps, the sum and the stamp.
A commit may throw at any time, since the database may fail, and so may the catch; a
dataset of the write API may have the code that a sync is about to create. The history
`held` tells the marks that were owed to what the database held (a taken code, two of one
code) from those owed to a fault, to the connector or to an overlapping sync; `excuse`
remembers why the gauge may differ from the sum of the sizes. The platform keeps the report with the later stamp. A
scenario says which sources, objects and registrations there are.

### Admission, Reads

A request of `Admission` passes the chain of `lib/api/auth.ts` step by step; `INCR` and
`PEXPIRE` are two Redis commands, between which there can be a fault or a restart. The
counter of a window is named by the clock read before. In `Reads` a client walks one list
with the cursor of the last page while rows come, go and cease to match.

### Approvals, FirstEntry

`Approvals` has the pages of several members, which list requests as they were, and the
read and the write of each action. `FirstEntry` has the statements of `ensureSeeded`,
each of which can fail, or commit and lose its answer, and a crash that ends all entries at
once.

### Plans, Access, Screens

`Plans` holds the tables: capabilities by tier, menus, the feature of each screen, the
sections with a gate. `Access` navigates: a section's gate is evaluated on the server when
it is entered, the badges of the menu come from what the browser fetched at the load.
`Screens` has, for each page with actions, its controls with the rows and roles they are
shown for, and for each action the feature, role and rows it takes (`ActionOf`). A page
renders the state of one moment; others move plan, role or row; a click is checked again.
A subscription may be active and have none of the five tiers, since
`entitlement/platform-client.ts:95` reads the tier and the status apart: it passes the gate of the
shell, and of the sections those that have no gate of their own.

### Workspace

One instance of each of these modules over one workspace. They change no rows in common,
so a behaviour exercises one part (`part`) while the variables of the others are not in
use; a property of `Workspace` speaks of its part. `wiped` is the workspace's soft-delete
mark, which three of the parts ask. `MCWorkspace` adds the values of the constants.

## The runs

| Run | Instance | Shows |
|---|---|---|
| `provisioning` | one workspace, five deliveries (provision, deprovision with a repeat, provision again, subscription change, beta plan), two requests, one sweep, days 0 to 2 with a retention of 1, one restart | all invariants of `Provisioning`, the inductive invariant, what the sweep may erase, and under fairness that it gets there and that a subscription change evicts |
| `sweep_race` | the first three deliveries of it | violated: `EraseOnlyMarked` |
| `session` | two browsers, two logins, two callbacks, two requests, two session ids on one central session, one logout token, one refresh, one restart; with symmetry, which is sound because only invariants are checked | where sessions come from and how they can be found |
| `session_revocation` | one session, two requests, two refreshes, one restart | under fairness, a used session ends after its central session |
| `session_ttl` | one session | violated: `EverySessionExpires` |
| `usage_flush` | two rows, two flushes of one row at a time, two attempts, one restart or fault | that `UsageFlush` implements `UsageLedger`, and how often a row is posted; under fairness, that no row is stuck behind another |
| `flush_given_up` | one row, one flush | violated: `GivenUpIsMarked` |
| `entitlement` | one workspace, two resolves, a time to live of two ticks, two changes | evictions and ages; under fairness, that the cache corrects itself |
| `workspace` | one workspace; its parts as below | the properties of the parts, and that `Catalog` implements `KeyLedger` |
| `edit_race` | two administrators, two datasets, one service, one rule, two runs | violated: `ServesWhatWasGated` |
| `reads_scope` | two rows, of which one may be another workspace's | violated: `EveryQueryIsScoped` |
| `metering` | two rows, one flush, one attempt, one resolve, a time to live of one tick, two moves of the pool, one mishap | that the gate hears of a refusal |

**Why the bounds are enough.** Workspaces do not share anything in `Provisioning` and
`Entitlement` but the list of a sweep, so one shows the interleavings. Two requests
(flushes, resolves, callbacks) are what a race needs. Five deliveries in any order give
every relation of a newest event to the one before; the deprovisioning is repeated
because it writes the audit row that a repeat could double. A retention of one day out
of three days has days before, at and after the cutoff. One restart shows each step
interrupted. `MaxGen = 1` with two requests shows two refreshes of the same token.
`MaxAttempts = 2` with a batch of one shows a row that holds back another and then lets
go of it. In `metering`, a single move of the pool shows the refusal and the second the
refill after it.

In `workspace`: three writers of which two work at the same time, one key, three codes,
a quota of two, with four mixes of writers (creates against a sync; creates against
requests under the same key; edges over the API against requests, and edges by the
action on three datasets, where a cycle of three can close). Two administrators on two
datasets, of which one has a source, one service, one rule and two runs: an edit overlaps
a publish and changes what it links, a run overlaps both, and two runs end in the order
they did not begin in. Two
administrators set the access level over three ranks while masks, level or service move;
the combinations of moving settings are those that one answer depends on together. Two
sources of one name, one object each, two registrations, one interactive sync and the
job; and one source of two objects that make one code, with two gauge reports. Two
requests on a limit of one with a clock of two windows: an increment at the edge of a
window, a fault between the two commands, and an expiry during a request. Three rows on
pages of two, or of less than one. Two subscriptions and two role sets that differ in
everything the gates ask. Three plans at which the features of the pages begin. For gates and
pages an active subscription without a tier besides. Two
requests and two administrators, one of whom is the requester. Two entries with two
faults. A second workspace would share nothing with the first but the list of a refresh
tick.

**Fairness.** A request that has begun runs to its end unless the process restarts:
weak fairness of its steps, including the failure of a call outside (fetches to the
IdP have a timeout; those of the flush and of the resolver have none of their own and
are ended by the runtime). Sweep and flush are called again and again by the host's
scheduler. In `session_revocation` the browser that holds the cookie keeps asking
(strong fairness of `Visit`, because requests come and go) and access tokens age. In
`entitlement` time passes. Nothing is assumed of the platform, the IdP, webhooks,
logout tokens or users. The temporal runs stay fair although `Crash` can interrupt a
step, because restarts are bounded: a process that restarts for ever does nothing else.

`CHECK_DEADLOCK FALSE` is set in every run: each instance stops when its deliveries,
rows, logins, days, writers, reports or pages are used up.

## The findings

* `sweep_race`: the sweep erases a workspace that has been provisioned again after it
  was listed (`lifecycle/sweep.ts:30`).
* `session_ttl`: a refresh that is overtaken by the end of its session writes it back
  without expiry (`auth/lib/session-store.ts:131` and `137`). After a
  logout or a back-channel logout it is not in the index either. `NoExpiryOnlyIfTorn`
  shows that this is the only way for a session to lose its expiry.
* `flush_given_up`: a row that has used up its attempts is never marked
  (`usage/lib/flush.ts:65`).
* `edit_race`: a draft that is edited while it is published runs with links that the gate
  has not seen, among them datasets whose critical check fails
  (`(app)/service/actions.ts:121`: the edit checks the status and then writes without asking
  again). `RunningWasGated` shows that only such an overlap brings this about.
* `reads_scope`: a search of the dataset list is not scoped to the workspace
  (`lib/reads/catalog.ts:99`).

Not findings of a run, but in the models and named as exceptions in the properties: two
concurrent deliveries of a workspace can apply in the wrong order (`raced`), and a
fetch overtaken by an eviction caches the old envelope again (`late`). And of the
workspace's content:

* A dataset, a source or an edge created on a stale check can exceed its cap or close a
  cycle (`excess`, `overbooked`, `raced` of `Catalog`).
* A rule authored in the application has an empty config, and every check that is built
  from one ends in an error (`buildCheckSql`), which writes no result: until the rule has
  one it blocks nothing. The comment at `(app)/quality/actions.ts:31` to `33` speaks of
  defaults that connectors run with. Seeded rules have no config either, and keep the results
  that the seed gave them.
* Services that the seed made running have passed no gate; they link nothing.
* Access requests of a workspace survive its hard delete: they hang on no cascade, and
  `lifecycle/sweep.ts:35` does not list them.
* Two actions that both read a request as pending both decide it (`overtaken`).
* Two administrators can make two access policies; which of them a later change hits is
  the database's choice.
* A key whose service is deleted opens every service of its workspace, because the
  foreign key is set to null and null means all.
* A source that is unbound during a tick ends the tick; a code held by an orphan or
  by a dataset registered over the API, two ids that differ in case, overlapping syncs, or
  any failure of the database during its commit mark a healthy source as disconnected.
* The gauge is wrong until the next report after an API create, a lost report, an
  aborted tick, or a sum that was older than its stamp.
* A rate-limit counter stays for ever after a fault or a restart between its two commands.
* A page is left out or comes short when the row under its cursor is deleted or ceases to
  match; a limit between none and one fails.
* A seed that failed, whose process died, or whose lease was taken without its answer
  arriving is never taken up again, although
  `lib/seed-fill.ts:190` says that a later entry can retry.
* Three screens have a feature below that of their section, so that the menu shows no
  badge and the gate asks for an upgrade; two have a badge and no gate (`BadgeTellsGate`
  names them).
* With an active subscription of no tier the sections without a gate show their content,
  although the entries of their menus have badges, and none of their controls that needs a
  feature is accepted (the exception of `BadgeTellsGate` and the first case of `DeadEnd`).
* Controls that are always refused: the request form on the platform's assets, the sync
  of a source without connector or config, a run with no enabled rule; and on the publish
  form edit and delete after a publish of its own (`DeadEnd`, `unseen`).

## The proofs

`Provisioning_proofs` proves, for all sets of workspaces, deliveries, requests and
sweeps, every retention and every bound, the type invariant, the five invariants of
the `provisioning` run and the action property `EraseOnlyExpired`. The assumptions are
those of `Provisioning`: `EventsAssumption` (payloads are well formed) and
`BoundsAssumption` (the bounds are naturals, and workspaces can have business rows).

The invariants are not inductive alone. `IInv` adds four facts:

* `ApplyIsNewer`: a request about to commit has read a watermark below its event. If
  the watermark has not moved since, the event is newer than all that are recorded
  (`WatermarkIsNewest`) and its effect on the anchor is the newest one; if it has, the
  workspace is `raced`.
* `SweptWasDue`: an entry of a sweep's list was past its retention when it was read,
  and time only runs on. With an unchanged mark the erasure is therefore due now.
* `HardDeletedIsMarked`: a hard-deleted anchor keeps its mark, unless it was raced, so
  a deprovisioning that comes after a hard delete finds it marked already.
* `ProvisionedIsPresent`: a recorded provisioning means that there is an anchor for a
  later deprovisioning to mark.

The proof has one step per action and under it one per conjunct the action can disturb.
`Commit` and `SweepDelete` carry the weight; `Frame` and `BooksStep` deal with the
actions that leave anchor or books alone.

`Catalog_proofs` proves, for all writers, keys, codes and quotas, that the catalogue
implements `KeyLedger` (`KeyTheorem`, the property `KeyMakesOneRow`) and that a late
retry is answered as its original (`LateRetryTheorem`). It uses `CatalogAssumption`; of
its parts the one that counts is that no request is named like the two owners of rows
that no request makes, so that ids are fresh. The inductive invariant says:

* `LedgerIsMade`: the audit row of a key and the row made under it are the same fact.
  They are written in one transaction and no audit row is ever deleted.
* `RowsAreOfDone`: a row bears the name of a writer that is done. The id of a create that
  commits is therefore new, and a row that has gone does not come back.
* `SuccessIsMade`: a success that is told names a row made under its key.
* `LateIsLookedUp`: a retry that came late is at the lookup or done, and who is in the
  catch has met a key in use.

Every step then makes (a commit under a key), tells (a replay) or keeps what `KeyLedger`
sees; `CommitStep` carries the weight. Neither theorem needs the quota, the cycle test or
the plan of a sync to be right: whatever they answer, the key is safe.

`LineageTheorem` (the property `LineageIsSound`) needs the cycle test, and so what the
functions of `graph-core.ts` compute for every finite graph. These are lemmas about
`LineageGraph` alone:

* `DownstreamIsLeast`: the search returns the least set that holds the targets of its
  start and is closed under the edges. The rounds are enough because each adds a node or
  is the last.
* `CycleCheckIsRight`: an edge that the test lets pass closes no cycle, even among fewer
  edges than the test was asked about.
* `LayersAreLongest`: each node that no cycle leads to is one layer behind the last of its
  sources. The invariant of Kahn's passes is `Passed`: in-degrees count the edges from the
  nodes that have not been in the queue, and layers are longest paths over those that have.
  Who never comes into the queue has a source that does not either, and
  `StuckIsBehind` finds the cycle: of the nodes that lead there, one that leads to the
  most others leads to itself.
* `ViewIsSound`: a view that was not cut has all edges, so its impact is closed in the
  whole graph; one that was cut never shows too much.

`GraphInv` (`GraphInductive`) carries the test to the commit: an edge about to be created was tested on the
graph as it is, until another commit has `moved` it. That a recursive function exists at
all is `RecursionExists`, by induction over a set of naturals (`AllNaturals`): the
induction theorems of the library take operators and cannot be instantiated.

The other proofs about a workspace are about `WorkspaceSpec`. Where a part is at work,
a step of the workspace is one of that part (`PubFrame` and its like), so each
invariant is one of the part's own module.

`Governance_proofs` proves `RunningWasGated` for all administrators, datasets, services,
rules and codes, without an assumption. `RunsAsGated` is its first part; what it rests on is
`ReadIsTrue`: what an action has read of its row (that it does not run, which links it has)
is true until another commit on that row marks the action as `moved`; ids are not
given again while an action holds them. The second part is `StandingInv`: checks that
have been failing on the links of a service ever since its publish was asked for were failing
on them when the publish read the links, and still are, so the gate meets them
(`StandsBefore`). It also proves
`DecidedOnceUnlessRaced`. The invariant adds that pages and actions hold submitted
requests (`HeldIsSubmitted`), that only administrators decide (`ByAdmins`), that the
status follows the audit trail (`TrailTells`), and that an action about to write a
request that was never overtaken finds it undecided (`UndecidedUntilWritten`).

The same module proves `BadgeTellsGate` and `OfferedIsAccepted` for all plans and roles, from
`SubscriptionsAssumption` (a subscription has one of the five tiers or none, and what stands
for none is not a feature). Both have a part about tables and a part about moments. For
the first, every entry of the menus asks for what its section asks for, or for what every tier
or no tier has (`EntriesAgree`, `TierFeatures`), so that badge and gate agree when they are of
the same moment (`BadgeIsGate`); `BadgeInv` says that they are, until plan or roles move.
For the second, every control of every page is looked up against the checks of its action
(`OfferIsGood`, one case per page); `OfferInv` says that what a page shows is the plan, role
and row of now until something has moved, and that a running click was offered. That an
administrator's page stays one although its role is lost meanwhile needs that every
action of such a page asks for the role again.

`Intake_proofs` proves `SeedStatusIsTrue` for any number of entries, faults and crashes.
The invariant adds that the lease has one holder (`OneHolder`), that nothing is cloned
before the workspace is pending (`UnseededIsUntouched`), and what the holder's step
(`HolderTells`) and the status (`StatusTells`) say of the clone: there a clone without a
status of its own is traced to the fault that made it.

Of the sources it proves `SyncKeepsToItsRows` (`SyncsKeepToTheirRows`), `GaugeHeals` and,
with the catalogue, `CapsHold`, from `SourcesAssumption` (sources, syncs and objects are
finitely many, sizes and the cap are naturals, the job is no interactive sync):

* `RefreshInv`: a plan updates only rows of its own source (`PlanHolds`), since nobody takes
  a row from a source but by unbinding it, and creates nothing that its source has, until
  another sync of that source commits; a source keeps its name while a sync has it in
  hand, because ids are not given again (`NamesHold`). So whatever is in the way of a commit
  that was not overtaken came from elsewhere (`CatchHolds`), and it stays in the way
  (`HeldAreObstructed`), because rows go only with their workspace.
* `GaugeInv`: stamps are not given twice (`ReportsAreStamped`), and when nobody is to
  report any more and there is no excuse, the latest stamp carries the sum of the sizes,
  at the platform or on its way (`LatestTells`). The platform keeps the latest stamp
  whatever the order of arrival, so it ends with that sum. That the bound on reports
  is never what stops one is `StampsAreBounded`.
* `CapInv` and `SourceCapInv`: who has counted has room (`HasRoom`) until a row of another
  moves. For a sync this needs that its plan fits (`PlanFits`): what it creates ranks
  below the room left, and ranks are different. `CatalogInWorkspace` says that a behaviour
  of the workspace is one of the catalogue, which brings the theorems about `CatalogSpec`,
  those of `Catalog_proofs` included, to the workspace.

`Api_proofs` proves `RateLimitHolds` for all requests, limits, windows and grace periods
(`AdmissionAssumption`: they are naturals, and a window is not empty), and
`AnswersObeyPolicy` for all linked datasets, members and levels (`GatewayAssumption`:
levels are ranks, and the default is one of them). Of a counter, `CountsWhatPassed` says
that it has counted at least those it let through, until it has come to its end; this
needs that it does not expire before (`ExpiryIsAfterEnd`), which holds because a request
sets the expiry after it read the clock (`ClockWasRead`), and that only the request which
made it is about to set it (`ExpiryIsComing` says that there is one, or a fault or crash
was). Of a gateway call, `Obeys` says that each value it goes on with is covered by a
moment of the call; `Covers` is a preorder, and the history `seen` only grows in it
(`SeenStep`), so what a call has obeyed it obeys for ever, however the settings move.

It also proves `PagesAreComplete` for all rows, sort keys and limits (`ReadsAssumption`:
ids and sort keys are numbers, rows are finitely many). The order of a list is total
(`ListOrder`), so the rows of a set have ranks that fill the first so many places and
`FromCursor` lists every row that comes after the cursor, in order (`FromCursorLists`).
The invariant of a walk is `GotIsBefore` (what has been received comes before the cursor,
hence is not received again) and `SteadyIsAhead` (a row that has matched all the while
has been received or comes after the cursor); a page moves the cursor over exactly the
rows it delivers (`FollowedBy`, `PageOfRows`).

The invariant that a part's properties need is also most of its type; `Governance_proofs`,
`Intake_proofs` and `Api_proofs` prove the rest of it (`PublishTypes`, `ApprovalsTypes`, `AccessTypes`,
`ScreensTypes`, `FirstEntryTypes`, `SourcesTypes`, `AdmissionTypes`, `GatewayTypes`,
`ReadsTypes`; for the catalogue `CatalogTypes`, from its own invariants). What it takes
besides:

* `PubTyped`: the codes of services are unique, as the unique index has them, and what an
  action holds is of the type of what it will write (`HeldStep`).
* `GateTyped`: there are no more access policies than administrators. Each makes one only
  when it found none, so policies and administrators that are still about to make one
  (`Anew`) are together no more than all administrators.
* `PageTyped`: a page of one kind of rows never shows a row of another. Kinds share no row
  (`KindsAreApart`), and what an action or somebody else makes of a row is of its kind
  (`AfterIsSameKind`, `BecomesIsSameKind`).
* `ShellTyped`: a gate shows the content, a denial, the name of a tier, or that the feature
  is to come (`GateShows`); no feature of a gated section is left without one of them.

`WorkspaceTypes` puts them together, from `PartsAssumption` (the parts are the ten),
`PublishingAssumption` and the bounds in `GatewayAssumption` and `ReadsAssumption` (a page's
default size is at most its greatest). `WorkspaceCatalog` says that a key makes one row, a
late retry is replayed and lineage is sound with all other parts running beside the
catalogue.

Those proofs have as hypotheses that the constant for a row that is not there differs from
the rows (`GoneIsNoRequest`, `GoneIsNoStatus`, `GoneIsNoKey`, `GoneIsNoTime`,
`GoneIsNoSource`, `GoneIsNoDataset`, `GoneIsNoListed`, `GoneIsNoRow`).

`Session_proofs` proves the type invariant and the four invariants of the `session` run, for
all browsers, logins, callbacks, requests, session ids, central sessions and logout
tokens. It uses `SidOfAssumption` (a logout token names a central session),
`SessionBounds` (the bounds are naturals) and `NoneAssumption` (`None` stands for
nothing that a key can hold). The inductive invariant has two halves:

* `LoginInv`: a login changes hands and never has two owners. It is pending
  (`PendingStarted`), or one callback has it (`CallbackOwnsLogin`), or one session came
  from it (`OriginUsed`); and a cookie holds a login of its own browser (`CookieIsOwn`).
  One session per login and a session in its browser follow.
* `SessionInv`: all that have a session in hand agree on its central session
  (`SidAgrees`), so that a write-back brings it to the index it had been in; a session
  that is no longer stored was torn down or expired (`GoneIsTorn`), so that only such a one
  is written back without an expiry; and a back-channel logout that has read the index
  knows every session in it but those that were created meanwhile (`TeardownCovers`).

`Entitlement_proofs` proves `EvictionHolds` and `FreshIsRecent` for all workspaces,
resolves, versions and times to live, from `EntitlementBounds` (the time to live is
positive) and `NoneAssumption`. Neither is inductive: an answer comes from an entry or
a fetch, so the invariant says the same of those. `CacheIsAfter` and
`ResolverIsAfter` hold the entry and the fetch against the last eviction that each knows;
a fetch that was not overtaken knows the last one of all. `FloorIsPast` (the platform only
goes forward) makes what it answers later newer still. `AgesAddUp`: what an entry has
left to live and how long it has been out of date make no more than the time to live.

`Metering_proofs` proves what the `usage_flush` and `metering` runs check. Of the flush
(`FlushInv`), from `RowsAssumption` (rows are numbered, finitely many) and `FlushBounds`:
a flush has one entry of each row (`BatchOK`), two flushes have the same row only if the
second noted it as shared (`TwoHands`), a mark follows a settled key (`MarkSettled`), and
of a row that is its own a flush knows the true state and the true count until it
has written them (`EntryUnflushed`, `EntryCurrent`, `PostsCounted`). A flush works on
its oldest row; that there is one (`MinOfRows`) follows from the well-foundedness of the
naturals. For the composition (`MeteringInv`, with `MeteringBounds` and `MeteringNone`
for the cache) the module instantiates `Entitlement_proofs` for the one workspace and
cites its lemmas for the steps of the cache; what it adds is that even envelopes
are those with quota (`Parity`), that a refusal belongs to an odd envelope that has been
(`RefusalsPast`), that a refusal that was dealt with was followed by an eviction
(`RefusalEvicted`), and that what a run knew of at its beginning is no newer than the
eviction before it (`KnownBelow`). An answer from after that eviction with quota is then
newer than the refusal.

`LedgerTheorem` is the refinement of `UsageLedger`. Each step of a flush maps to one step
of the ledger or to none (`LedgerSimulates`, one lemma per action). `Post` settles a row
only if it was recorded, so a batch must hold recorded rows (`BatchIsRecorded`): batches
come from a query, only lose entries, and an erased row stays recorded. `Mark` marks only a
row that is not yet flushed or writes what is there already, and only after the platform
has settled its key (`MarkSettled` of `FlushInv`). `MeteringLedger` says the same of
the composition, whose gate adds nothing and whose refill is no step of the ledger.
`MeteringRunsCache` says that the composition implements `Entitlement`, so
`MeteringCache` has for it what is proved of the cache.

Each inductive invariant was model-checked before it was proved.

Only model-checked: all liveness (`CacheHeals`, `RowLeavesQueue`, `RevokedSessionEnds`,
`SubscriptionChangeEvicts`, `ExpiredIsErased`), which the prover has no rules for.

## What is not modelled

* Signature and token verification, the parsing and validation of bodies: conditions
  without state. They are the choice between a request that goes on and one that does not.
* The contents of claims, envelopes, manifests and metadata.
* The session cookie: any request may name any session that exists. The mock login of
  development environments.
* A `destroySession` that fails itself, so that a request ends in an error with the session
  as it was.
* In `Admission`, limits that are not whole numbers and an `INCR` that the Redis client sends
  twice. In `Sources`, faults of the refresh job outside the `try` of its loop, which end the
  tick as `CatchThrows` does.
* Several processes at once: the cache is per process, and `CacheHeals` is what holds
  for a process that no webhook reaches.
* The choice of 50 workspaces per refresh tick (`jobs/refresh.ts:43`), their wipe marks
  and their order; the sealing of connection configs; the SQL of a connector, which is a
  choice of outcome.
* Tables whose actions write one row in one transaction and that no modelled component
  reads: glossary, tags, standards, golden records. That their controls are offered and
  accepted as in `Screens` is all that is said of them.
* Read-only pages, dashboards and page data; themes and preferences; the assistant panel;
  the Curator client, which nothing calls yet.
* Schema, deployment scripts and workflows.
