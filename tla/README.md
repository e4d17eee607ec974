# TLA+ verification of the formation service

A *formation* is the checklist the Linux Foundation works through while it forms a
project. This service creates one checklist per forming project from a published
template, lets people work its items over HTTP, answers some items by itself from
what other services hold, moves the checklist's lifecycle with the project's stage,
takes project applications, and publishes all of it to an index and to access control.
Every replica runs everything: there is no leader, no queue and no message redelivery,
and Postgres is the only place where replicas meet. This directory models that service,
checks it with TLC and proves part of it with TLAPS.

Paths below are relative to the repository's root; `service/` is `internal/service/`,
`postgres/` is `internal/infrastructure/postgres/` and `gen/` holds the generated
transport.

## 1. Inventory

| Part | Code | State it keeps | Operations | What makes it hard | What makes it correct | Module |
|---|---|---|---|---|---|---|
| Checklist store | `postgres/*_repository.go`, `unit_of_work.go`, `schema.sql` | formations row (lifecycle, revision, completed_at, section snapshot, template pin, notification marks), item rows, activity entries | conditional updates, `FOR UPDATE`, `ON CONFLICT DO NOTHING`, schema script | READ COMMITTED: each statement sees a newer state than the one before | rows, activity, snapshot and lifecycle agree with each other | `ChecklistStore` |
| Item write routes | `service/item_mutator.go`, `item_status.go`, `item_assignment.go` | none between requests; the client holds an ETag | UpdateItem, AssignItem, SetItemStatus | stale ETags; a freeze between reading the lifecycle and writing the item | no lost update, nothing written on a closed checklist | `ItemWriter` |
| Reconciler sweep | `service/reconcile.go`, `nats/project_client.go` | what a pass has read so far | ReconcileOnce, ReconcileProject | many replicas, failing reads, crash between steps | every project ends with the checklist and lifecycle its stage calls for | `Reconciler` |
| Project event listener | `service/listener.go` | subscriptions and their buffers | Handle, Start/stop | events lost, late, out of order; drain at shutdown, over a connection that may close | an event is only an acceleration; never half attached | `Reconciler`, `Shutdown` |
| Lifecycler | `service/lifecycle.go` | none | SyncTo | read, then conditional write | lifecycle follows the stage | `Reconciler` |
| Platform checker | `service/platform_check.go` | planned candidates | ResolveFor: plan, ask, apply | slow calls to other services between the read and the write | forward only, never over a person | `Reconciler` |
| Expansion | `service/expansion.go`, `template_selector.go` | none | ExpandFor, ExpandWithTemplate | two creators | one checklist, whole | `ChecklistStore`, `Templates` |
| Upgrade and CLI | `service/template_upgrade.go`, `cmd/formation-cli` | formation and keys it read | expand, upgrade, seed, repair-applications | two unlocked reads, concurrent upgrades | adds only; snapshot covers items; feed literally true | `Operator`, `Templates`, `Applications` |
| Reading and offered actions | `service/checklist_reader.go`, `model/available_action.go` | none | GetFormation | the rules are kept in several places, the page is read in two statements | offered actions = accepted actions | `ChecklistPage` |
| Notifications | `reconcile.go` (dispatch*), `email/` | three one-shot marks | Active, Activating, reminder e-mails | every replica sends | at most once each, never forgotten | `Notifications` |
| Projection | `service/projection.go`, `nats/indexer_publisher.go` | documents in an index | Refresh, parent chain | slow walk, older or partial documents arriving last, after their pass is over | index converges, whole parentage never shrinks | `QueueRow` |
| Refresher | `service/refresher.go` | in-flight count, stopped flag, counters | AfterItemWrite, Stop | start racing stop | nothing runs after Stop returns | `Shutdown`, `QueueRow` |
| Applications | `service/application_*.go`, `postgres/application_repository.go`, `nats/access_publisher.go` | application rows, deletion markers | create, revise, withdraw, decide, delete, repair | publication after commit, removals racing publications | access and index converge on the row; deleted stays deleted | `Applications` |
| Templates | `service/template_admin.go`, `postgres/template_repository.go`, `cmd/formation-cli/seed.go` | template rows | create, update, publish, archive, seed | read-then-write guards | a version a checklist pins never changes | `Templates` |
| Process | `cmd/formation-api/main.go`, `server.go` | what is still running | start, signal, the order of the shutdown | four kinds of background work over one pool | nothing uses the pool after it closed; shutdown ends | `Shutdown` |
| HTTP design and generated transport | `cmd/formation-api/design`, `gen/` | none | 19 methods: decode, authorize, run, encode; the client's mirror image | the contract exists four times; error types, reasons and required fields must agree across them | what the service says is what the client understands | `RouteTables`, `Results`, `Transport` |
| Authentication | `internal/infrastructure/auth`, `service/service.go` | the issuer's keys | JWTAuth, key fetch | a rotated key, an unreachable issuer | an outage is never told as a bad token | `Transport` |
| Query and NATS clients, config, telemetry, mocks | `internal/infrastructure/query`, `nats`, `config/`, `pkg/` | cached token, connection | lookups | - | - | - |

**How they interact.** A request, a pass (sweep or event) and a command are
independent transactions on the same rows. A pass reads the set of known checklists,
asks the project service for the projects at a formation stage *plus* the known ones,
creates what is missing, moves the lifecycle (read, then update on the revision
read), and - on a sweep only - plans, asks other services about, and applies the
platform rows; then it publishes the checklist to the index and sends its notices. A
sweep begins with the repair of application publications. An item write is followed by
a background refresh of the same index documents. `GetByProjectForUpdate` has two
callers, `mutateItem` and `PlatformChecker.apply`: they hold the formations row while
they read the lifecycle and write items. Everything else relies on revisions.
`PROJECT.json` lists, per source line, the hazards this makes.

## 2. Plan

1. **Checklist core** (done): the store, people, passes, operators and their
   surroundings; the atomic contract the composition implements; types and the three
   properties of locks and revisions proved.
2. **What a person sees and may do** (`ChecklistPage`, done).
3. **Notifications** (done), **applications** (done), **templates** (done).
4. **Projection and its parent chain** (`QueueRow`, done), **refresher, listener and
   process shutdown** (`Shutdown`, done).
5. **The HTTP contract**, from the design to the client (`RouteTables`, `Results`,
   `Transport`, done).
6. **Proofs**: every safety invariant and action property of the checklist, the
   refinement `KeepsContract`, and those of `Applications`, `Templates`,
   `Notifications`, `QueueRow`, `Shutdown`, `Transport` and `ChecklistPage` (done;
   section 6).

No module that carries or feeds a theorem declares a RECURSIVE operator; none of the
modules written so far does.

## 3. Modules

| Module | Models | State |
|---|---|---|
| `ProjectFacts` | what the service reads and never owns: stage, undelivered events, resources of other services, newest published template; the pure stage functions of `model/stage.go` | `stage`, `inbox`, `resources`, `published`; bounds `moves`, `faults` |
| `ChecklistStore` | one project's rows and the repository statements | `lifecycle` ("absent" = no row), `revision`, `completedAt`, `sections`, `pin`, `item`, `log` (per-item activity), `feed` (checklist activity), `lock` |
| `ItemWriter` | the three item routes | `request`: idle, holding rows read, inside the locked transaction |
| `Reconciler` | a pass of a replica, from the sweep or an event | `pass`: the step and everything read so far |
| `Operator` | CLI expand and upgrade, the schema script | `command` |
| `Checklist` | the above together, with the properties | - |
| `ChecklistContract` | the same checklist with every operation atomic | `lifecycle`, `completedAt`, `rows`, `status`, `setBy`, `sections` |
| `MCChecklist` | instances for TLC | - |
| `ChecklistProofs` | theorems about `Checklist`: types, locks and revisions; then history, snapshot and contract | - |
| `ChecklistPageProofs`, `ApplicationsProofs`, `TemplatesProofs`, `NotificationsProofs`, `QueueRowProofs`, `ShutdownProofs`, `TransportProofs` | theorems about the module of that name | - |
| `ChecklistPage` | a person's page and the answers to requests made from it, over `ItemWriter` and `Operator` | `page`, `answer` |
| `Notifications` | the Active e-mail and the three one-shot notices of every replica's passes | the row's `lifecycle`, `revision`, `mark`; `gatesClear`, `date`, `today`; `sent`, `closings`, `pass` |
| `QueueRow` | the index documents of one project as every pass and refresh publishes them | the project tree (`parent`, `exists`, `outage`), `version` in Postgres, `row`, `items`, `flight`, `pass` |
| `Applications` | application rows and deletion markers, the messages after each commit, the repair lane | `row`, `marker`; the copies `granted`, `doc`; `flight`; `seen`, `job`, `sweep` |
| `Templates` | template administration, seeding, and the checklists that pin a version | `template`, `update`, `seed`, `selected`, `pinned`, `answer` |
| `Shutdown` | one process from start to exit | `main`, `signalled`, the listener's, server's and refresher's variables, `connection`, `sweep`, `pool` |
| `RouteTables` | the HTTP contract once per place that holds a copy of it | - (tables) |
| `Results` | what a success carries, from the template's row to the client's validators | - (tables) |
| `Transport` | one call through the transport and back, over the two | `revision`, `signing`, `reachable`, `held`, `call` |

**Correspondence.** One action is one point at which the code can observe or change
shared state: a statement outside a transaction or not covered by a lock is a step of
its own (`SyncRead` / `SyncWrite`, `UpgradeRead` / `UpgradeList`, `CheckSeed` /
`WriteSeed`), and so is a call to another service (`ListProjects`, `AskPlatform`,
`ClimbAnswered`); a committed set of writes is one step, because nobody sees it in
parts. A transaction which holds the formations row is two steps, taking the lock (with
the lifecycle read under it) and committing; the writes of others that need the row
(`UpdateLifecycle`, the snapshot update, the inserts whose foreign key locks it) are
disabled in between. Inside it `mutateItem`'s checks are guards of the accepting
actions, and any refusal or error is `AbortMutation`; `ChecklistPage` spells the
refusals out in their order. `PROJECT.json`'s `map` names the lines of each definition.

**Abstractions of the checklist.** One project: nothing in the code relates two. The
item columns kept are status, source and revision; notes, links, assignees, due dates
and sub-items are written by `EditItem`, `AssignItem` and `SetSubItems`, which move only
the last. Activity entries keep who, and the status either side. For the checklist,
template selection is "the newest published version" (`Templates` has the real order).
`RetiredChecks` are keys still marked platform that no lookup answers - the row
`schema.sql` hands back to people; the code finds it by key. `PlatformKeys` are the rows
some lookup answers; rows nobody answers behave like manual ones in a pass. `"none"` in
`LifecycleForStage` stands for Prospect and for an unknown stage, which both move
nothing. `MarkNotified` writes columns that nothing in `Checklist` reads, and does not
touch the revision.

**The page.** `GetFormation` reads the formation and then its items in two statements;
`ReadFormation` and `ReadItems` are those. `AvailableActions` is `AvailableActionsFor`'s
status part; `Refusal` is the first refusal that applies, in the code's order. The
transition table and the two lists of "needs a reason" are kept apart as in the code.

**Notifications.** A pass is `finishProject` from the lifecycle move on: the row read by
`SyncTo`, the conditional move, the Active e-mail of the pass that completed the
checklist, and otherwise the projection, the row, the items, the settings, and each
notice's mark and send. `Fails` is any error or crash before the notices; `NoticeFails`
a mark or a send that fails and is logged. What is modelled is the reconciler with its
e-mailer set: the deployed wiring leaves that call commented out
(`cmd/formation-api/service/providers.go:540-556`).

**The index row.** A pass reads the checklist, climbs the parentage one lookup at a
time and publishes the row, then the items. `parent` is any shape the project service
may hold: a path to a root, into a cycle, or through a deleted project. `posture` is
whether the pass created the checklist; a row whose climb was not answered is withheld
unless it is the first (`Withheld`). Publishing puts a message in `flight`; `Deliver`
brings any of them to the index, in no order and also after the pass that sent it is
over. `PublishUnconfirmed` is a flush that failed, or a process that ended before it
returned, although the message went out; `Lose` drops one. Messages that say the same are
one element of `flight`: replacing a document twice by the same leaves what once leaves,
and what arrives between the two is the same race with the second copy alone. `posture`
rides along in a message for the properties; it is not on the wire.

**Applications.** The answers of a questionnaire are known by the revision that wrote
them. A write is one step (row lock, If-Match, statement); the access message and the
index message follow as steps of their own, each accepted by NATS, failed, or failed
although it went out; `flight` holds what NATS has not delivered, in no order. The
repair lane pages the live rows and then the markers, reading each live row again.
Clients read the private projection, so what they base an If-Match on may be late.

**Templates.** `Update` is a read and merge, then a statement that asks for a draft;
`Upsert` a check, then an unconditional statement. Nothing in the code keeps the versions
that administrators draft (`Drafted`) apart from those a build of the CLI embeds
(`Seeded`), or one seed from another; in the instances one version is both, and there the
race of section 5 happens. `Settled` says what is left where it does: published content
which no seed that has already passed the check is about to overwrite. A pass selects, and
creates later.

**The process.** `main` steps through `StartServer` and `runServerWithContext`. A
request that commits is counted, then takes the refresher's mutex; the listener's
handlers run under a context of their own. `Working` is who holds a connection;
the pool's close waits for it. The NATS connection may close for good at any time
(`ConnectionCloses`): reconnects are unlimited (`nats/client.go:51`), but nats.go gives a
connection up by itself on a repeated authorization error. Buffered messages are then
gone, nothing can be subscribed, and a stop function returns at once, running handler or
not (`Drained`).

**The transport.** `RouteTables` has, for each of the 19 methods, four operators: what
the design declares, what the server's decoder requires, what its error encoder knows
and what the client sends and decodes. They are written out from the four places, not
derived from each other: agreement is what is checked. `Results` does the same for
success bodies: the fields a method fills, the fields the server copies, the fields the
client's validators require and the values they accept; a field that takes any value is
only present or absent. `Transport` runs one call: decode, authorize under the keys
held (a token is known by the key it is good under, as good under none - another's
signature, expired, another audience or issuer, no principal - or as no token at all, which
is refused before any key is asked for), refuse (each refusal the domain has, in its order against the revision), fail or
succeed, encode, lose and repeat, decode at the client. An error of a declared name but
the wrong type makes the encoder panic (`NoReply`); a body the client's validators
refuse is "unreadable".

**Failures.** `StopPass` is every error return and crash in a pass (Postgres rolls an
open transaction back); `BeginSweep`, `HandleEvent` and `Decide` also go on after a
failed read, as the code does; `AskPlatform` may lose lookups; an event stays in `inbox`
for ever (lost) or is handled after later ones; `AbortMutation` and `AbortCommand` can
happen at any time. `Crash` and `EndEarly` end a publication or a refresh between its
messages; `PublishUnconfirmed` ends one whose message went out; `Lose` drops a message;
`ConnectionCloses` ends the NATS connection; `Killed` ends the process without a shutdown;
`Restart` takes the held keys and the answer of the call in progress.

## 4. Runs

Each run finishes in under three minutes; bounds are CONSTANTS. In the
checklist's runs `MaxMoves` counts changes of stage and resources, `MaxFaults` failures,
and `MaxItemRevision` stops people writing one item further.

| Run | Instance | Shows |
|---|---|---|
| `writes` | 2 people, 2 replicas, 1 platform row, 1 move, 3 item revisions; stages Engaged, Active, Prospect | `TypeOK`; `TrailReplays`: each row's activity chains from not_started to its status, one entry per revision; `NoLostUpdate`: an accepted write replaces the status its author saw; `WritesOnlyWhileLive` |
| `upgrades` | 2 operators, 1 replica, 1 move, 3 template versions, each adding a row in a section of its own | `SectionsCovered`, `FeedExplainsRows`, `SnapshotOnlyGrows`; `KeepsContract`: every step is one of `ChecklistContract`'s or a stutter |
| `progress` | 1 replica, 1 person, 2 moves, 1 fault, fairness; stages Engaged, Active, Archived | `CompletionStamp`; `RulingStands`: the service moves a row once, forward, and never after a person set its status; `LifecycleSettles`, `ChecklistAppears`, `PlatformRowsSettle`, and `KeepsContract` with people writing |
| `page` | 1 person, 1 operator, 2 rows, the second from version 2 on, 1 move | `OfferedIsAccepted`: an offered action is refused only because something moved since; `AcceptedWasOffered`: nothing else is accepted from the page |
| `notices` | 2 replicas, 3 days, dates none or the second day, 1 stage move, 2 edits, 1 fault, fairness | `NoticeAtMostOnce`, `ActiveAtMostOncePerCompletion`; `OverdueIsNoticed`: a checklist that stays live past its date gets the notice marked, on the day, later, or when the date is set already past |
| `queue_row` | 3 ancestors, depth cap 2, 1 sweep, 1 refresh, 1 write, 2 messages in flight, 1 fault, fairness; any tree shape, an outage or none | `ShortOnlyWhenUnanswered`: a chain is short only for want of an answer; `WholeRowsStayWhole`: once the creating pass's row message has arrived or is lost, no message narrows a whole row, however late; `RowCatchesUp`, `ItemsCatchUp` |
| `applications` | 1 application, 1 client, 1 repairer, 2 revisions, 2 messages in flight, 2 faults, fairness | `TypeOK`, `CopiesWereCommitted`, `DecidedOnCurrentRow`, `SweepPaysWhatItOwes`; `CopiesSettle`: access and index end as the row says |
| `templates` | version 1 drafted and seeded, version 2 drafted, 2 contents, 2 administrators, 2 seeders, 2 seeds, 1 checklist | `SettledForGood`: published content that no seed checked earlier is about to overwrite stays, and no later seed becomes a threat; `PinIsEvidence`: a version no build embeds holds what a checklist expanded from it; `FirstPublicationDated` |
| `shutdown` | 2 item writes, 2 subjects, 2 buffered messages, a connection that may close, fairness | `RefreshesEndBeforePool`, `CountsBalance`, `CutOnlyPastTheBudget`, `NeverHalfAttached`; `ShutdownEnds` |
| `transport` | all 19 routes, one call sent at most twice, 3 revisions, a rotating key, tokens good under either key, under none, or no token | `HeardAsItself`, `RoutesKeepTheDesign`, `OutageIsNotARefusal`, `AppliedOnce` |
| `seed_race` | one version both drafted and seeded, 2 contents, 1 administrator, 1 seeder, 1 seed | *violated*: `PublishedIsImmutable`, see findings |
| `closing_sweep` | replica and operator | *violated*: `ClosingSweepAdvancesNothing`, see findings |

**Why the bounds are enough.** Each hazard of the checklist is a race of two actors over
one row of each kind, with at most one more change of the surroundings between: two
people need two revisions after the first to overwrite each other; a stale pass needs one
move to be stale and one more for its write to matter; a section race needs two upgrades
to different versions, each with a section of its own. `writes` holds the races between
replicas and people, where one move already closes the checklist under both; `progress`
holds what needs a history: two moves let the project close and re-open, or a resource
appear after the checklist. One fault covers every single
failure point; after it the state is one that the next pass meets anyway. The runs
without faults are those whose races need none. `NoLostUpdate`, `WritesOnlyWhileLive`
and `CompletionStamp` do not rest on these bounds: they are proved (section 6). Two replicas and one day on either side
of the announcement are what a doubled notice needs; two sweep-like writers (a sweep and
a refresh) with a chain one longer than the depth cap reach every outcome of the climb
and both publication orders; two messages in flight are the creator's prefix and the row
that should win over it. One application, one client and one repairer already race
a deletion against a late publication, which is what the markers are for; with one
application a page is never longer than one row, so the paging across several rows is
modelled (`PageAfter`, `IsLast`) and not exercised beyond a full page followed by an
empty one; `SweepPaysWhatItOwesHolds` covers it for any number of rows. Two
administrators and two seeders on one version are every race of a
check with a write; the pins need only one of each, since `SettledForGood` is stated
without them, and with one priority the newer of two published versions is selected. A lost answer needs one repetition, and a third party's write
between makes the third revision.

Every run checks for deadlock except `shutdown`, whose process ends. Symmetry permutes
people, replicas and operators, which no definition tells apart, and is not used where
liveness is checked.

**Fairness.** A replica keeps sweeping and a pass keeps stepping (weak fairness of
`BeginSweep \/ Proceed`, of `Begin` and `PassStep`, of `RepairStep` and `PublishStep`,
of `Moves`): `Run` ticks for as long as the process lives and each step has a timeout. A
request ends (weak fairness of `AbortMutation`: the server's timeouts and Postgres'
rollback). Postgres queues those waiting for a row lock, so a statement that needs the
formations row is not passed over for ever (strong fairness of `SyncWrite` and
`LockPlatform`). NATS delivers what it does not lose (weak fairness of `Deliver`; in
`queue_row` for each kind of document, leaving open which of its messages comes first).
An
unanswered lookup fails at its timeout, during an outage too (`ClimbUnanswered`). In
`shutdown` what is assumed is the next line of main, the timers, the end of work whose
context is cancelled or that has a deadline, and a pool that closes once nobody works;
work under a live context may hang for ever, and requests and events need not come.
Nothing is assumed of people, of event delivery, of operators or of the project; failures
are finitely many by their bound, as "after the failures stop". `transport` and `templates`
have no liveness and no fairness.

**Mutants.** Each checked property has one operator in the model (named after the
definition with a suffix, and marked as a mutant) that stands for a plausible bug in the
mapped code - no If-Match comparison, no second look at the lifecycle under the lock,
no comparison of the planned revision, rows attempted for rows inserted, a marker
without its revision, a client generated before a route required If-Match, a row stored
without its default - and that TLC finds by violating the property.

## 5. Findings

* **A lost lifecycle race runs the platform pass** (`closing_sweep`).
  `service/lifecycle.go:75` answers a revision mismatch with "nothing moved, no error";
  `finishProject` takes that as safe and goes on to the platform pass, on a checklist that
  still reads as live although its project closed. The comment at
  `service/reconcile.go:626` says that the protection "only holds if the lifecycle
  actually moved" and that the pass is skipped otherwise. An upgrade that records a section
  between the read and the write is enough.

* **A seed can rewrite a version that has just been published** (`seed_race`). `Upsert`
  checks the stored row (`postgres/template_repository.go:224`) and writes it in a later,
  unconditional statement. A seed that looked at a draft writes over it after an
  administrator published it, and over what a checklist pinned in between. The comment at
  `:214-216` says that "a published version's content is immutable" and that changing it "is
  refused"; `:258-262` accepts the race of two seeds because "seeding is an operator
  command, not a request path", but publishing is a request path.

What follows was met while modelling. The models do what the code does, and no run
asserts the other side.

* **Upgrades write closed checklists.** `UpgradeFor` (`service/template_upgrade.go:83`)
  never looks at the lifecycle and adds unstarted rows to completed and frozen checklists,
  while `docs/indexer-contract.md:47` says that a checklist that is not live refuses
  mutations and its unfinished items are history, and `schema.sql:244` restricts its own
  correction to live checklists for that reason. The contract therefore has a step of its
  own, `Grow`.
* **A page can mix two moments.** `service/checklist_reader.go:52` reads the formation and
  then the items in two statements, so an upgrade in between shows items whose section
  the page does not name, which the comment at `:181-183` does not expect.
  `OfferedIsAccepted` holds nevertheless.
* **A stale event may re-open a completed checklist** (its completion time cleared) until a
  sweep repairs it. The code accepts that; `LifecycleSettles` shows the repair.
* **A failed access message does not hold the index message back**
  (`service/application_intake.go:151`), against `docs/fga-contract.md:51-52`. `PublishAccess`
  goes on after the failure; `CopiesSettle` shows that repair reaches both.
* **Seeding revives an archived version** (`postgres/template_repository.go:231`), where
  `design.go:743-744` speaks of no state regression.
* **Publishing or archiving an unknown template answers Conflict**
  (`postgres/template_repository.go:181`), where `design.go:796` and `:824` declare NotFound.
* **A late notice.** `service/reconcile.go:851-856` re-checks the lifecycle before the
  notices; another replica may close the checklist after that check, and the notice goes out.
* **A forced close of the server does not wait for its handlers** (`server.go:124-130`), so a
  request may still be writing when the pool closes; refreshes may not
  (`RefreshesEndBeforePool`).
* **The creating pass's prefix may land last** (`docs/indexer-contract.md:149-159` says so):
  until its row message has arrived or is lost, a whole row may be narrowed, and it is
  until the next publication that resolves fully. `WholeRowsStayWhole` is about everything
  after that window; `RowCatchesUp` repairs what happened in it.
* **The refresher's logged counts need not add up.** `Counts` (`service/refresher.go:318`)
  loads five counters one after the other, so a line logged while refreshes run may be off
  by those that end in between. `CountsBalance` is about the counters themselves.
* **A listener that cannot drain cancels running handlers at once.**
  `nats/client.go:353` returns when `Drain` fails, as it does on a closed connection, and
  the wait at `:358` ends when the connection closes meanwhile. `stopAll` takes both for a
  drained subscription and cancels the context of a handler that is mid-transaction, with
  the budget unspent; `service/listener.go:69-70` says that the context is cancelled once
  the handlers "have all finished — or once the drain budget runs out, whichever comes
  first". The transaction rolls back and a sweep does the work again, so what is lost is the
  latency. `CutOnlyPastTheBudget` allows for it: never by the signal alone.
* **A refusal on three routes is undeclared.** An application that a decision pushes past
  its envelope's size is refused with `application_payload_too_large`
  (`service/application_mutator.go:162`) as BadRequest, which withdraw, accept and deny do
  not declare (`design.go:523-525`, `:569-571`, `:602-604`); the encoder answers 500.
  `service/application_intake.go:454-457` says that every domain refusal becomes the declared
  error "so Goa's encoder picks the right status". `HeardAsItself` and `RoutesKeepTheDesign`
  exempt exactly this refusal (`Undeclared`) and hold of every other.
* **A rotated key refuses genuine tokens for up to the five minutes the keys are cached**
  (`auth/jwt.go`). `OutageIsNotARefusal` is therefore about the key that was held.
* **A failed row update aborts the platform transaction** (`service/platform_check.go:317`), so
  rows it had counted as advanced are rolled back. Only a counter of the report shows it.

## 6. Proofs

Each proof module states its invariants as named parts, proves that they hold initially
and that every step preserves them, one lemma per step or kind of step, and ends in the
temporal theorems by PTL. All of it holds for any sets of actors, keys, versions and
requests, finite or not unless said, and any bounds, that satisfy the ASSUMEs of the
modules. Where a run of section 4 checks the property too, it did so first; `TemplatesTyped`
has no run of its own.

### The checklist: `ChecklistProofs`

| Theorem | Property |
|---|---|
| `TypeCorrect` | `TypeOK` |
| `CompletionStampHolds` | `CompletionStamp` |
| `WritesOnlyWhileLiveHolds` | `WritesOnlyWhileLive` |
| `NoLostUpdateHolds` | `NoLostUpdate` |

The inductive invariant has two halves. `Typed` adds to `TypeOK` two facts the types
depend on: a template that a pass or a command has chosen is a published version
(`TemplatesChosen`), and a pass about to move the lifecycle was given a stage that implies
one (`MovesToALifecycle`). `Protected` carries the argument:

* `ChecklistFirst` - no row, and no completion, before the checklist exists;
* `LockProtects` - whoever is inside a locked transaction holds the lock, and the
  lifecycle that was read there is still the lifecycle, since every statement that changes
  it waits for the lock. With the guard on that lifecycle this gives `WritesOnlyWhileLive`;
* `RevisionsIdentify` - for every reader, a row's revision never ran ahead of the store,
  and if it is unchanged then so is the status read. This is what makes an If-Match
  comparison mean anything; the schema script, which changes the source at the same
  revision, is why it speaks of the status only. It gives `NoLostUpdate`;
* `CompletionStamp` itself, which is inductive with `ChecklistFirst`.

### Its history and its contract: the second half of `ChecklistProofs`

| Theorem | Property |
|---|---|
| `TrailReplaysHolds`, `RulingStandsHolds` | `TrailReplays`, `RulingStands` |
| `SectionsCoveredHolds`, `FeedExplainsRowsHolds` | `SectionsCovered`, `FeedExplainsRows` |
| `SnapshotOnlyGrowsHolds` | `SnapshotOnlyGrows` |
| `KeepsContractHolds` | `KeepsContract` |

`StepHistory` says once what any step does to any row - keep it, insert it, hand it back, or
write it as a ruling, an edit or a settlement together with one activity entry - and the
invariants are preserved over those six cases instead of over every action.

* `Recorded` adds to `TrailReplays` and `RulingStands` that a row which does not exist has
  no trail, and that a row the service may still settle has only entries that moved no
  status (`OpenIsUnruled`). `RulingStands` is not inductive without it.
* `PlansIdentify` - what a pass planned to settle was an open platform row, and is that row
  still if its revision has not moved. The plan is made outside the lock, so this is the
  fact that makes `PlatformChecker.advance` safe. It needs that a check some lookup answers
  is not one the schema script withdraws.
* `Explained` - an absent checklist is blank; the snapshot a command read is the stored one
  while its revision is (`CommandsIdentify`); with them `SectionsCovered` and
  `FeedExplainsRows` are inductive.
* The refinement maps a row's `setBy` to whoever wrote the last entry that moved its status.
  `LastMoveExists` says that there is one where the mapping chooses one, `MovesMove` that a
  guarded lifecycle update which succeeds changes the lifecycle, as the contract's step
  requires. Initial states map to initial states, and each step to a step of
  `ChecklistContract` or a stutter.

### What a page offers: `ChecklistPageProofs`

| Theorem | Property |
|---|---|
| `OfferedIsAcceptedHolds` | `OfferedIsAccepted` |
| `AcceptedWasOfferedHolds` | `AcceptedWasOffered` |

`PagesIdentify` is `RevisionsIdentify` for pages, which are read without a lock and in two
statements: a page never runs ahead of the store, and a row still at the revision shown
has the status shown. `AskedFromPage` says that a request under way was made from the
page its client holds. Neither is inductive alone, because `PagesIdentify` needs that no
step takes a row back (`StoreStep`), creation included, which is `ChecklistFirst`. With the
If-Match comparison they reduce both properties to statements about the two copies
of the rules: `ControlsMatchReasons`, that `statusActions` reaches every status and asks
for a reason exactly where `statusesNeedingReason` does, and `NoSelfTransition`. Together
`OfferedMeans` and `AnswersMean` hold because `Refusal` compares the version before it
looks at the status, as `mutateItem` does: a page that is behind is told so, and
not that its transition is invalid.

### The other components

| Theorem | Property | Inductive invariant, and why it is needed |
|---|---|---|
| `ApplicationsTyped` | `TypeOK` | itself |
| `CopiesWereCommittedHolds` | `CopiesWereCommitted` | `OneLife` (live or deleted, never both: a copy of a deleted application is compared with its marker) and `CopiesCommitted`, which adds messages in flight and the publication each handler holds |
| `DecidedOnCurrentRowHolds` | `DecidedOnCurrentRow` | from the above: at the row's own revision a copy is the row |
| `SweepPaysWhatItOwesHolds` | `SweepPaysWhatItOwes` | `SweepsAccount`: what a sweep that has not failed still owes is on its page, past its page or in its hands, or was deleted meanwhile and is left to the removals. It rests on what a page is (`LastPageIsWhole`, `FullPageIsPrefix`) |
| `TemplatesTyped`, `FirstPublicationDatedHolds` | `TypeOK`, `FirstPublicationDated` | themselves, over the five things that happen to a template row (`RowStep`) |
| `SettledForGoodHolds` | `SettledForGood` | the two above: a published row has a date, which is what keeps it protected once it is archived. `ContentKept`: of all statements only a draft's update and a seed's write change sections, and the one is refused and the other brings the same; `SeedsAgree`: the check lets no seed take up anything else |
| `PinIsEvidenceHolds` | `PinIsEvidence` | `Evidence`: what is selected or pinned of a version no build embeds is settled; with `SeedsEmbedded` no seed threatens it, and it then follows from the row above |
| `NoticeAtMostOnceHolds` | `NoticeAtMostOnce` | `Noticed`: what was sent is marked, and of all passes at most one is about to send a given notice, which it marked itself |
| `ActiveOncePerCompletion` | `ActiveAtMostOncePerCompletion` | `Owed`: e-mails sent plus passes about to send one never exceed the completions; finitely many passes are |
| `ShortOnlyWhenUnansweredHolds` | `ShortOnlyWhenUnanswered` | `HonestPasses`: what a pass holds on its way up is an ascent, and next is its last project's parent |
| `WholeRowsStayWholeHolds` | `WholeRowsStayWhole` | `HonestFlight`: a row message not sent by the creating pass carries a whole chain, since what fell short for want of an answer was never sent. `WindowStaysClosed`: once the creating pass is over and its message gone, no pass takes up its posture again |
| `RefreshesEndBeforePoolHolds` | `RefreshesEndBeforePool` | `PoolWaits`: the refresher refuses from its drain on |
| `CutOnlyPastTheBudgetHolds`, `NeverHalfAttachedHolds` | of the same names | `DrainsFirst`: handlers are cancelled by a stopped listener, past its budget or with nothing left to drain or to drain over; `AttachesWhole` |
| `CountsBalanceHolds` | `CountsBalance` | `Balanced`: a request refreshes after it was answered and once, so the sets of those asking and running change by one |
| `AppliedOnceHolds` | `AppliedOnce` | `Spent`: a call that was applied names a revision the row has left |
| `OutageIsNotARefusalHolds` | `OutageIsNotARefusal` | `Answered`: nothing is said before the answer, and the name Unauthorized comes from a token that does not parse or from a judgement under a fetched key |
| `HeardAsItselfHolds`, `RoutesKeepTheDesignHolds` | of the same names | `Spoken`: what was said is a refusal the tables carry, or a result, its encoding is the reply and what is heard its decoding |

The last row rests on lemmas about the tables alone: `SendsWhatIsRequired` and `TablesAgree`
compare the four copies of the contract route by route, `ItemsSpeak`,
`ApplicationsSpeak`, `TemplatesSpeak` and `ReadersSpeak` follow every refusal of a method
through its mapping, and `BuiltIsReadable` every body to the client's validators.

### Only model-checked

* Liveness (`LifecycleSettles`, `ChecklistAppears`, `PlatformRowsSettle`, `CopiesSettle`,
  `OverdueIsNoticed`, `RowCatchesUp`, `ItemsCatchUp`, `ShutdownEnds`): the prover does not
  handle fairness and ENABLED.

## 7. Not modelled

* **The e-mail to a new assignee** (`service/item_assignment.go`), sent after the commit of
  its own request: it reads and leaves no state.
* **The query client and NATS requests**: the token cache and the request framing. Their
  failures are the failing lookups of the modules above; what becomes of a publication or a
  subscription is in `QueueRow`, `Applications` and `Shutdown`.
* **Configuration, telemetry and the in-memory test doubles**, which hold no state of the
  service.
* **Of the generated code**: the command-line clients under `gen/http/cli` and
  `client/cli.go`, path builders, muxers, and the conversions of optional fields. More than half
  of the implementation's lines are generated; what is modelled of them is what each
  route requires, refuses, encodes and decodes, and the required fields and enumerated values of
  its result.
* **Of the routes**: the contents of notes, links, dates and questionnaires, beyond the
  refusals they cause. The order in which the entries of the activity page are read, and its
  cursor, are left out.
* **Readiness and stalled rows** (`progress.go`): counts derived from rows just read, of which only
  "every gate done" has an effect (`gatesClear` in `Notifications`).
* **Two projects at once**: no statement relates two projects; the capacity of a sweep is not
  modelled.
