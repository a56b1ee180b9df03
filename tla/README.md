# OpenEngage in TLA+

A specification, model-checking and proof project for OpenEngage, a marketing
automation server on Cloudflare Workers: one Worker serves HTTP, a Cron trigger and
its queues, over one D1 (SQLite) database and one R2 bucket; a React client talks to
it over oRPC. Everything asynchronous goes through queues that deliver *at least
once*, every request and consumer may be killed between two `await`s, and the only
atomic unit is one SQL statement or one D1 `batch`. That is the level of the models:
**each `await` that reaches the database, the bucket, a queue or a provider is a
step boundary, and a batch is one step.** In the client a step is one handler, one
render or one answer that arrives.

Paths below are relative to the repository's `apps/server/src` unless they start
with `apps/` or `packages/`.

## 1. Inventory

| Component | State | Operations | Correct when | Module |
|---|---|---|---|---|
| **Job state machine** `packages/core/src/platform/jobs.ts` | the status of a background job | transition table, multi-hop UPDATEs (`COLLAPSED_HOPS`) | every write follows an edge, or a declared path of edges | `JobMachine` |
| **Automation engine** `runtime/dispatch.ts`, `automations/worker.ts`, `packages/database/src/automations/repository.ts` | `automation_jobs`, `automation_enrollments`, jobs queue | Cron claims due jobs, a consumer runs one node, parks, advances or closes | an enrollment is one token, never lost, never doubled, skips nothing, and reaches the end | `AutomationEngine` |
| **Editing, publishing, enrollment** `automations/router.ts`, `automations/enrollment.ts` | versions, triggers, enrollments | save, publish, pause, enroll by event, by hand, by inactivity | published versions are immutable and valid, contacts enter the live one, "once" means once | `AutomationPublishing` |
| **Graph validation** `packages/core/src/automations/automation.ts` | the sets and calls of its walk | `validateAutomation` | what it accepts runs to an end, and it refuses nothing that does | `AutomationGraph`, `GraphValidation` |
| **Automation editor** `apps/client/src/features/automations` | the reducer's definition, the render | connect, cut, add, delete, select | what it builds has one source and no cycle | `AutomationBuilder` |
| **Delivery** `messaging/*`, `channels/*` | `deliveries`, delivery queue, provider events | create, claim, check consent, send, retry, rescan, apply events | one send per delivery, none to a blocked contact, all settled | `Delivery` |
| **Consent** `consent/*`, `packages/core/src/consent` | suppressions, subscriptions | preference center, one-click unsubscribe, eligibility | no send against the contact's choice | `Delivery` |
| **Dead letters** `platform/dead-letter-service.ts` | `dead_letters` | file, replay | a letter returns to the queue it came from | with its queue |
| **Import and export** `contacts/import-export-service.ts`, `contacts/worker.ts` | one row per job, R2 parts, contacts | requests, a chain of queue messages, one part each | a job that shows completed has done every part; every job ends | `DataJobs` |
| **Scores, segments, companies** `contacts/*-service.ts`, `segments/*` | score and its events, memberships and their count, company links | add, merge, archive, replace members, count, attach | a score is the sum of its events, a count that of the members, one primary company | `ContactRecords` |
| **Contact list** `packages/database/src/contacts/repository.ts`, `apps/client/src/hooks/use-cursor-pagination.ts` | rows, cursors of a walk | page forth and back, sort, archive a selection | a walk meets every contact that matches once | `ContactsView` |
| **Filters** `packages/core/src/segments`, `apps/client/src/features/contacts`, `.../segments` | address bar, typed filters, saved rules | set, follow a link, save as a segment, evaluate | address, list, segment and condition node mean the same contacts | `SegmentFilters` |
| **Forms, pages, site messages** `web/router.ts`, `public/form-routes.ts`, `public/site-message-routes.ts` | submissions, versions, counters | a POST of five writes; save, publish, count | a submission is processed once under its key; counters are those of the rows | `Website` |
| **Visitor tracking** `public/templates.ts`, `public/tracking-routes.ts` | localStorage, tabs, visitor ids | record, ask for messages, show, dismiss | one browser is one visitor, a message counts once a tab | `SiteVisitor` |
| **Members, keys, MCP tokens, conversations** `auth/*`, `mcp/*`, `agents/*` | memberships, API keys, one-time tokens | resolve a role, prepare, consume, enroll, chat | a token enrolls at most once and for its owner; conversations stay private | `WorkspaceAccess` |
| **Assets** `web/asset-service.ts` | R2 object + row | upload, replace, delete, read | a row names an object with its content | `Assets` |
| **Deals and tasks** `deals/service.ts` | pipelines, stages, deals, tasks | patch, move, close, complete | a stage is one of the deal's pipeline, a time set as its status says | `Deals` |
| **Templates** `messaging/*`, `apps/client/src/features/emails` | draft, published copy, the form | edit, publish, archive, render | a mail goes out as it was published | `MailTemplates` |
| **Inbound replies** `messaging/inbound-worker.ts` | attachments, inbound rows, enrollment | a receipt of four awaits, repeated | a reply is recorded whole | `InboundMail` |
| **Daily maintenance** `platform/maintenance-worker.ts` | archives, daily metrics | archive, roll up, sweep scores, purge | nothing lost, nothing counted twice | `Maintenance` |
| **Reports** `reports/*`, `packages/database/src/reports` | none | two queries per report while rows are written | totals and breakdowns agree when nothing was written between them | `Reports` |
| **Provisioning** `packages/create-openengage` | files, databases, Workers, secrets | create, update, doctor, domain | a stopped command can be run again; stored credentials are of the newest key; nothing is lacking that was not deleted | `Provisioning` |
| **Browser client** `apps/client/src` | query cache, pages, sessions | read, write, refresh, sign in and out | what is shown is this user's, and not older than his own writes | `ClientCache`, `ClientPages` |

How they interact: a contact event (a form, a page, a reply, a request) inserts an
**enrollment** and its first **job**; **Cron** leases due jobs and sends one message
per lease; the jobs consumer runs the node, whose action may insert a **delivery**
and send its id to the delivery queue, or write **scores, segments** and fields; the
delivery consumer reads **consent**, renders the published **template**, calls the
provider and records the outcome; the provider's events arrive on a queue of their
own and write deliveries and suppressions; what a queue gives up on becomes a **dead
letter** an administrator may replay. Members edit and publish while all of this
runs, from a **client** that caches what it read; **imports** page through the
contacts everything else writes; the **daily** run archives and rolls up;
**reports** read it all without a snapshot.

What is hard, with the line where it bites, is the `hazards` list of `PROJECT.json`:
duplicate and late messages against conditional UPDATEs, crashes between the
database and a queue or the bucket, rows read before an `await` and used after it,
retries racing a rescan, requests overlapping requests, handlers of a render that is
no longer current, answers that arrive after a later write.

## 2. Modules

| Module | Extends / composes | Run | Proofs |
|---|---|---|---|
| `JobMachine` | the abstract contract of a job table | `engine_sequential` (refinement) | `MachineFollowed` |
| `AutomationEngine` | implements `JobMachine` | `engine_*` | `AutomationEngine_proofs` |
| `AutomationPublishing` | | `publishing_*` | `AutomationPublishing_proofs` |
| `Delivery` | | `delivery_*` | `Delivery_proofs` |
| `DataJobs`, `ContactRecords`, `ContactsView`, `SegmentFilters` | composed by `Contacts` | `contacts` | `Contacts_proofs` |
| `ClientCache` | its constants are the values of `ClientPages`; composed by `Contacts` | `contacts` | `ClientCache_proofs` |
| `Assets`, `Deals`, `WorkspaceAccess`, `Provisioning` | composed by `Workspace` | `workspace_requests` | `Requests_proofs` |
| `Website`, `SiteVisitor`, `MailTemplates`, `InboundMail`, `Maintenance` | composed by `Workspace` | `workspace_requests` | `Public_proofs` |
| `Reports` | composed by `Workspace` | `workspace_requests` | `Reports_proofs` |
| `AutomationGraph` | graphs and what makes one sound | | |
| `AutomationBuilder`, `GraphValidation` | on `AutomationGraph`; composed by `Workspace` | `workspace_requests` | `Requests_proofs` |
| `Contacts` | the conjunction of the components about contacts and the client | `contacts` | `Contacts_proofs` |
| `Workspace` | the conjunction of the components with tables of their own | `workspace_requests` | `Public_proofs` |
| `MC*` | small instances | | |

The operators named `<Definition>_<Bug>` beside a definition are plausible bugs of
it; each property is shown to fail when one of them takes the definition's place, so
that no property holds for want of anything to catch.

`MCContacts` and `MCRequests` put several components into one run. They share no
row, so a behaviour of the run exercises one group of them, named by the variable
`focus`; the formulas of the run are nevertheless about all of them. `Contacts` and
`Workspace` are the compositions the theorems are about: every component moves, in
any order, and the specification is the conjunction of theirs.

### AutomationEngine

*State.* A job is the row with idempotency key `enrollment:node:contact`, so jobs
are indexed by enrollment and node. A row keeps status, lease, `payload.waiting` and
whether `due_at` has passed. `tick[t]` and `worker[w]` are the local variables of a
Cron invocation and of a consumer: what they read and where they stand. `happened`
is "an event the decision waits for occurred since `entered_at`", `attribute` the
truth of the conditions, which an edit of the contact flips; `acted`, `waitOver` and
the like are history variables the properties read.

*Actions.* `SelectDueJobs`/`ClaimDueJobs`/`SendClaimed` are the three awaits of a
tick. `Deliver` is delivery with `findJobForProcessing`; `StartLeasedJob`,
`ExecuteNode`/`ExecuteWait`, `ParkJobUntil`, `CompleteJob*` and `Ack` follow
`processAutomationJob`. `FailRetryably` is a retryable error, `ConsumerDies` a
crash, `FailPermanently` a rejected action; `ReplayDeadLetter` the administrator.

*Properties.* `NothingSkipped`: an unfinished row of a running enrollment is one a
message, a letter, a consumer or Cron will take up (`NeverAbandoned`), what a
message or letter carries is the row's lease (`LeaseCarried`), a decision times out
only after its wait (`TimeoutAfterWait`), and no row succeeds whose action was not
taken (`ActedBeforeSuccess`). `OneToken`: an enrollment has at most one unfinished
job. `TokenNotLost`: an active enrollment has one. `FollowsJobMachine`: every write
of a status is a step of `JobMachine`.

*Abstractions.* The effect of an action is one step and recorded in `acted`. The
attempts counter and error text are left out. Queue and letters are sets: two
identical messages are one, and a duplicate delivery is an action of its own. A
consumer's release and the queue's redelivery are one step. A lease id is a fresh
uuid: a claim takes one nothing refers to any more, which keeps the set of ids
small. A tick is split by phase; the enrollment of inactive contacts and the
delivery rescan of the same invocation are in the other two modules.
`EngineAssumption` and `AcyclicAssumption` are what `validateAutomation` guarantees
of a published graph; `PublishedIsValid` says when that is so, and
`publishing_unvalidated` when not.

### AutomationPublishing

*State.* One automation: its versions (status and graph), draft, live version,
status and trigger rows; the requests in flight with what they have read. Graphs are
members of a small set that differ in what the code looks at: validity, mail nodes,
source node, event type, resource, re-entry.

*Actions.* `FindPublishableDraft`, `CheckTemplates`, `PublishDraft` are the awaits
of the publish procedure; `PublishDraft` is the batch, and the unique index on
`(automation, version)` makes it all or nothing. `RecordContactEvent`,
`ListActiveTriggersForEvent`, `EnrollFromTrigger` are those of an event;
`FindActivePublishedAutomation` and `EnrollFromTrigger` those of an enrollment by
hand; `ListInactiveEnrollmentCandidates` and `EnrollInactiveContact` the Cron scan.

*Bounds.* `MaxVersion` versions, `MaxCrashes` deaths, `ScanLimit` candidates (200 in
the code, 1 here, so that contacts compete for the place). `EditWhilePublishing` and
`ManualEnrollment` switch two environments off, because with them the properties of
`publishing_enroll` do not hold:

- a save between the read of a draft and its publication publishes a graph that was
  never validated (run `publishing_unvalidated`), with a trigger and a next draft
  taken from the graph that was read;
- an enrollment by hand does not look at the source's re-entry and is keyed by its
  request, so it enrolls a contact repeatedly into a "once" automation.

### AutomationGraph, GraphValidation, AutomationBuilder

`AutomationGraph` says what a sound graph is: one source, every edge between nodes
that exist, on a branch its node has, one edge per branch, no cycle.
`GraphValidation` is `validateAutomation`: its early checks, and its depth-first walk
on a stack of calls that have not returned. The code recurses and nothing interrupts
it; here each call and each return is a step (`WalkChild`, `WalkReturn`), so that
what holds *during* the walk can be said and its verdict proved. `ValidationSound`
compares the verdict, once the walk is done, with the definition. A draft grows by a
node or an edge at a time, may be checked at any point, and may be any list the API
stores, doubled ids included. `AutomationBuilder` is the editor's
reducer: `builder` is its state and `rendered` the one the handlers of the current
render closed over, so that a handler may overwrite what another has just done.
`ConnectionCreatesCycle` is stated by what its search finds: every closed set that
holds the target holds the source. Each preset a new automation starts from is an
initial state.

### Delivery

*State.* The deliveries row (status, `next_attempt_at` passed or not, which send
`provider_message_id` names), the queue, the consumers, the provider's events,
suppressions, archived contacts, topic choice; `sent`, the number of sends the
provider took, and `hindered`, the consumers that claimed a row of a contact who was
blocked then and has been ever since, are history variables.

*Actions.* `InsertQueuedDelivery` and `SendMessage` are `createEmailDelivery`; the
consumer is `Deliver`, `ClaimDelivery`, `CheckConsent`, `Send`/`SendRefused`,
`MarkDelivery`, and `CallFails`, `Requeue`, `FailDelivery`, `MarkProviderSuppressed`
for its catch block; `ScanDueDeliveries` is Cron; `LookUpEvent` and `ApplyEvent` are
the two awaits of a provider event.

*Abstractions.* Rendering, signing and the provider's HTTP call are one step. A
batch of messages is handled one message at a time. Webhook deliveries differ from
email in having no provider events and no suppression by the provider.

*What the model shows beyond its properties.* An event that arrives before the
consumer has stored the message id is acknowledged and forgotten, suppression
included; a D1 error after the send puts the row back to queued, so the message is
sent again; a consumer that dies after the claim leaves the row in `sending` for
good. The properties are stated under the conditions that exclude exactly these.

### DataJobs

*State.* One import and one export of a workspace: their rows (`importJob`,
`exportJob`), the parts in the bucket, the messages waiting, the consumers and the
contacts they write or page through. A contact is its place in the order of the ids;
`contacts` and `taken` are the table and the identifiers it holds.

*Actions.* The requests `startContactImport` and `startContactExport` await by
await; each consumer reads its row (which is no lock), applies a part, moves
progress and cursor by unconditional writes, sends the next message and
acknowledges. A message may be delivered twice, a consumer or request may die
between any two awaits, and what fails for good becomes a dead letter. Others create
contacts meanwhile.

*Abstractions.* Contacts created meanwhile get the largest id (uuidv7), and e-mail
addresses and external ids are one set `Identifiers`. The manifest object, CSV text
and per-row errors are left out. `MaxFaults` bounds crashes, redeliveries and
duplicates together. `processed` is a progress figure: parts applied twice are
counted twice in it, so no property reads it.

### ContactRecords, ContactsView, SegmentFilters

`ContactRecords` keeps what is stored twice: the score and its events, the stored
member count and the memberships, the primary flag among company links; members'
requests, automation steps, merges and the daily sweep write them. Counts are
compared once nothing that recounts is under way and no step without a recount has
been the last to write (`behind`, a history variable).

`ContactsView` is a member who walks the pages of the list while others write it.
The cursor is an id whose sort value is read again, in a query of its own, when the
next page is fetched. `WalkComplete` is about the contacts nobody touched since the
walk began, and those the walk met twice.

`SegmentFilters` asks of one filter what it means in four places: typed and in the
address bar (debounced, with links that arrive in between), in the list's SQL, in
the segment saved from it, and in a condition node. `NodeAgrees` states the
agreement with the exceptions the code has: `neq` on an empty value, letter case,
and relations.

### ClientCache, ClientPages

`ClientCache` is the query cache as `query-client.ts` sets it up: entries that are
absent, fetched, fresh or stale, read by the components on screen, refreshed by
operations - each a program of requests and of the queries it invalidates - and
cleared when a session begins or ends. An entry's data is the number of this
session's writes it shows. `ClientPages` gives the constants their values from every
page of `apps/client/src`: what each shows and loads, which operations its controls
begin, and each operation's program. `ReadOwnWrites`: what is shown with no read
under way is not older than the last write of an operation that has finished.
`BusyUntilShown`: a control that waits is busy until then. `OneOwner`: nobody sees
what was read in another's session.

*Abstractions.* One key per query; a list with another search is another query. What
other tabs do to the session is left out. Operations of an earlier session are
dropped when the cache is cleared. Figures of the dashboard and the reports only
age. A query without a loader is fetched when its component is mounted.
`ClientOverlooked` lists, per operation, the queries its write changes and its
refreshes leave out; the program's promise excludes exactly those.

*What the model shows beyond its properties* (the pairs of `ClientOverlooked` and
the conditions in the properties): moving or archiving a deal leaves `deals.get`
stale; the builder reopened within the stale time edits an old draft and saves it
over a newer one; creating a segment leaves the contact page's options; a partly
failed upload drops the failed files (`asset-forms.tsx:89`); when the second request
of creating a contact is refused, the contact that was created is not refreshed
(`contact-forms.tsx:48`); and `invalidateQueries` does not cancel a *first* load, so
that the busy state of a move (`deal-api.ts:86`) may then clear before the list
shows the new stage.

### Workspace: Assets, Deals, Website, SiteVisitor, WorkspaceAccess, Provisioning, Reports, MailTemplates, InboundMail, Maintenance

Each is a table or two with the requests that interleave on them, one action per
await. A request is a record in `...Req[r]` with the step it is at and what it has
read; `...RequestDies` takes it away between any two steps.

- `Assets`: an object's key is never used again; uploads may be torn; a reader holds
  a row and then opens the object.
- `Deals`: patches that write back every column they read, moves, seeds of the
  default pipeline that race, tasks. Two completions of one task may disagree on its
  time (`deals/service.ts:262`); the property asks for the columns to fit each
  other.
- `Website`: a form's POST in its five writes. Any insert error counts as a
  duplicate submission (`form-routes.ts:149`), so a retry is answered without its
  event: `SubmittedOnce` is about at most once, and about requests under one
  idempotency key. The page makes a key for each submit (`public/templates.ts:202`),
  so a visitor whose answer was lost and who sends the form again is counted, and
  enrolled, a second time.
- `SiteVisitor`: localStorage is shared by the tabs and the script's variables are
  not, so two tabs may each send a record without an id; `blind` counts those, and
  ids are bounded by it.
- `WorkspaceAccess`: roles are read first and used later; tokens are prepared,
  consumed and purged; `ConfirmedOnce` relates each enrollment attempt to the token
  as it was prepared.
- `Provisioning`: a command is a list of steps, each one program that runs; the
  first that fails ends it, and it may be stopped anywhere and run again. An
  administrator may delete any database, queue, bucket, secret or Worker at any
  time; `removed` remembers what was deleted and not made again. `doctor` looks at
  one queue only and lists the bucket and the secrets without looking at what is
  listed, so `LeftComplete` is about what the commands leave behind: what an
  installation lacks while `doctor` is content was deleted by hand (or is a secret,
  where an update was run on a create that had stopped).
- `Reports`: of each report two queries, in either order; a write between the two
  sets `torn`, and only untorn reports are promised to agree. One tag, one category
  of rows at a time. Opens and clicks are always 0 (nothing writes those events),
  failed deliveries that no provider accepted count as sends. `CountedOnce` bounds
  deliveries and bounces by sends, and won and lost deals by deals; completion and
  identification rates (`site-report.ts:36`: a visitor id may have views of two
  contacts) may exceed 100 %.
- `MailTemplates`: the draft row, its published copy, and the React form whose state
  outlives a dialog with the same key (`carried`).
- `InboundMail`: the receipt of one reply, handed over as often as the sender likes.
  A reply without a Message-ID that is handed over twice enrolls twice.
- `Maintenance`: the archive is written before its events are marked, so events may
  be in two objects and are never in none. The rollup looks at yesterday only: a day
  whose run dies before it, or reaches it after midnight, stays without a row.
  `MetricsAddUp` asks for the row of a day when the run of the day after came to its
  end within that day (`incomplete` remembers the others), and of every row that is
  there that it counts all events of the day that did not come late.

## 3. Runs

| Run | Instance | Shows |
|---|---|---|
| `engine_sequential` | source → decision → action, 1 enrollment, 2 ticks, 2 consumers, 2 lease ids, 1 retry; one lost claim, one failure, one rejection | `OneToken`, the refinement `FollowsJobMachine`, and `RunsToCompletion` for failures the retries absorb |
| `engine_concurrent` | source → condition → action or decision, 1 tick, 2 consumers, no retry; one failure, one duplicate, one replay | types, leases, token, and `NothingSkipped` |
| `engine_delay` | a graph with a delay, nothing fails | **violated**: a delay never ends |
| `engine_divergent` | one failure, one duplicate | **violated**: one message, two branches, two tokens |
| `publishing_concurrent` | 3 graphs, 3 versions, 2 publish requests, 1 enrolling request, saves at any time | versions are a history; the trigger names the live one |
| `publishing_enroll` | 3 graphs, 3 versions, 2 contacts, 2 events, limit 1, 1 crash | validity, trigger, source node, "once", and that the scan overlooks nobody |
| `publishing_unvalidated` | saves overlap one publish request | **violated**: an invalid graph is live |
| `delivery_once` | 1 email, 2 consumers, 1 retry; one each of creator crash, consumer crash, unacknowledged send, transient refusal, duplicate, replay | no send is repeated, one holder, settled stays settled, all settle |
| `delivery_events` | 1 email, 2 consumers, 1 retry; one event of five kinds, D1 error, crash, refusal | accepted rows name a send; a blocked contact is not sent to |
| `delivery_topic` | an email with a topic | **violated**: the topic is never looked at |
| `contacts` | eight groups, by `focus`: jobs, list, filters, segment form, scores, segments, companies, client | `JobsComplete`, `ListFaithful`, `RecordsAddUp`, `CacheFaithful`, types, and `JobsSettle` |
| `workspace_requests` | fifteen groups, by `focus`, one per table or reducer | `RowHasObject`, `GraphsSound`, `DealsConsistent`, `WebsiteSound`, `AccessSafe`, `ProvisioningSound`, `MailKept`, `HistoryAddsUp`, types |

*Why the bounds are enough.* The races are between two parties over one row, so two
consumers, ticks or requests and one row exhibit them; a third party or a second row
would repeat a step already enabled, because rows of different enrollments,
deliveries, deals or assets share nothing but the queue. Three versions let a
request be two publications behind. `Limit` (a budget per hazard) lets each kind of
failure strike once at any point, together with every other one of the run; the
retry limit is 0 or 1 so that running out of retries happens. The proofs of section
4 remove these bounds for the safety properties they cover.

The two composed runs have bounds of their own, named in the MC modules and `.cfg`s:

- `contacts`: an import of two parts of two rows (one row of each names the same
  address, one two identifiers, one none) and an export of two pages with two
  consumers each. Alone a job meets `MaxFaults = 2` faults and contacts created by
  others; together they meet none (`JobsMove`). The list has up to three contacts, a
  page of one, two times (`ViewMoves`: nobody else writes while contacts are
  selected; a walk that has ended starts again). `MaxFilters = 2` filters set at a
  time, one saved view. Two contacts, two companies, a static and a dynamic segment,
  two requests; contacts are archived beside at most one of them (`Archiving`). In
  the client one query is followed at a time; operations, pages and queries the
  cache cannot tell apart are explored as one (`Alike`), sessions begin and end and
  answers age only between operations, only the first account operates, and two
  operations overlap when each is one request and a refresh (`OneAtATime`;
  `CallSlots = 2`, `MaxWrites = 2`).
- `workspace_requests`: two requests, one row (two stages, two pipelines, two
  submission keys). The editor has up to four nodes and `MaxEdges = 3` edges, and
  draws or cuts a connection on a current render (`BuilderMoves`; the other handlers
  run on any). Drafts have up to three nodes and three edges; ids first occur in one
  order, and three edges are drawn only between nodes that exist, on branches they
  have (`DraftInOrder`). `MaxKeys = 1` key is created by members. Reports cover two
  days of two rows; only the contact and automation reports are torn
  (`ReportMoves`). The visitor has two tabs and sends `MaxRecords = 2` records. The
  archive takes two of three events a run, one per object. `MaxDatabase = 2`
  databases are ever created and `MaxRelease = 2` releases published. What is
  deleted by hand and not made again at a time is one resource, or the secrets that
  are put last, all of them with their Worker, and the second release waits until it
  is made again (`Losses`, `ProvisionMoves`): what is missed is missed one by one.

Deadlock is checked in the engine, publishing and delivery runs; the environment can
always act there, so what rules out a system that stops doing its work is the
liveness properties. `contacts` and `workspace_requests` switch it off, because
their behaviours do end: jobs come to rest and say so (`JobsSettle`), and bounded
histories run out.

*Fairness.* Engine: time passes, Cron fires every minute and an invocation that is
not killed runs on, the queue delivers, a consumer that is not killed runs on.
Delivery: the same, with the rescan as Cron's part and the creator that is not
killed sending its message. Publishing: Cron's scan alone. Import and export
(`JobFairness`): a request that was begun and each consumer that is not killed run
on, and the queue delivers. Requests of users, contacts' doings and all failures are
unfair: they may never happen. Fairness is weak throughout; delivery of messages is
fair as a whole, not per message, since the platform only promises that messages are
delivered while there are any. Three properties carry a premise on the behaviour
instead of a smaller model: `RunsToCompletion` (`Absorbed`: no lost claim, no
rejection, failures within the retries), `EventuallySettles` (no consumer dies) and
`JobsSettle` (the request did not die, no message was dead-lettered);
`InactiveEnrolled` premises that archiving and restoring stop in the end.

## 4. Proofs

The theorems hold for every value of the constants: any graph, any number of
enrollments, deliveries, versions, consumers, contacts, requests, parts and pages,
and any hazard budget unless the theorem names one. They rest on the `ASSUME`s of
the modules, every one of which is evaluated by a run, and on nothing else. Each is
proved in three steps: the invariant holds initially, every step keeps it, it
implies the property. Where a theorem needs a hypothesis, it is because the code
breaks the property without it, and the text says how.

**`AutomationEngine_proofs`** (`TypeCorrect`, `LeasesConsistent`, `FinalStatesStay`,
`TokensNotLost`, `NothingEverSkipped`, `MachineFollowed`, `AlwaysOneToken`). The
argument classifies what any step may do to one row of `automation_jobs` (insert,
become due, claim, start, hand back, park, finish) and to one enrollment, and then
looks at each kind once. Two of the properties are not inductive: a row that is
inserted must belong to an enrollment that exists, and a consumer at work must hold
an existing row. `Born` says so and is proved first; `FinalStatesStay` needs
`LeaseConsistency` besides, because a succeeded row is safe from a late consumer
only as it carries no lease to match.

- `NothingEverSkipped` assumes that no invocation of Cron dies between leasing rows
  and sending their messages (`Limit["tick"] = 0`): in the code such rows are leased
  by nobody for ever. Its invariant adds what consumers know of the row they run
  (`WorkersKnow`: whether it waits, for which event, and that its action was taken
  before it is completed), that every unfinished row is carried by a message, a
  letter, a consumer or is claimable (`RowsCarried`), and that the source's row is
  written by the enrollment (`SourceRows`).
- `MachineFollowed` and `AlwaysOneToken` assume `DeliveredOnce`: no duplicate
  delivery and no replay. `engine_divergent` shows two tokens without it, and a late
  completion then also takes a row from leased to succeeded, a path the machine does
  not have, because it matches on the lease alone (`repository.ts:674`). With it a
  lease is held by one carrier (`Exclusive`), whoever works on a row finds it as he
  left it (`HoldsRow`), and an enrollment's unfinished row is the one at its cursor,
  with none written closer to the end (`Token`). That a follow-up row was not there
  before needs a graph without a cycle: `AcyclicAssumption` gives each node a rank
  that every edge lowers. It is what publishing validates; a graph published through
  the race of `publishing_unvalidated` is outside these theorems.
- `MachineFollowed` is the refinement: each step of the engine is a step of
  `JobMachine` on the mapped status, or leaves it alone.

**`AutomationPublishing_proofs`**. `History` is the invariant of publishing:
`OneDraft`, one trigger that is computed from a validated graph, and `ReadsStand`: a
publish request never holds a version newer than the draft, and nothing that enrolls
holds a version newer than the live one, however long ago it read it.
`PublishEffect` is the heart: of the publish requests that overlap, the unique index
on (automation, version) lets only the one that read the current draft write. From
`History` follow `TypeCorrect`, `OneDraftAlways`, `TriggerAlwaysPublished`,
`EnrolledAlwaysPublished`, `PublishedIsImmutable` and `NeverRollsBack`. Four more
theorems assume that no save overlaps a publish request (`EditWhilePublishing =
FALSE`) - without it the code publishes what nobody validated, which the run
`publishing_unvalidated` shows: `PublishedAlwaysValid`, `TriggerAlwaysMatches`,
`EnrolledAlwaysAtSource` and, when nobody enrolls by hand either,
`OnceEnrollsAlwaysOnce`. Their invariant `Faithful` adds that what is held matches
the version it is held for, and that enrollments differ in contact or source event.

**`Delivery_proofs`**. `TypeCorrect`, `SuppressionAlwaysStops` and
`AcceptedAlwaysHasId` assume nothing of the hazards. The second strengthens the
property by "and the contact is still blocked" (`HinderedStops`), since only that
makes the check fail; the third by the ids that consumers and the event under way
carry (`IdsNameSends`). `AlwaysOneHolder` and `SettledAlwaysStays` assume that the
provider reports on nothing: a bounce sets a row to `failed`, whatever it was, and
`failed` may be claimed. The invariant `Held` says that a row in hand is in no
status a claim accepts. `NoSendEverRepeated` also assumes that no D1 call of a
consumer throws - `markDeliveryAccepted` throwing after a send sends again - and
counts (`Counted`): a row that may still be sent has been sent at most as often as
sends went unacknowledged; the step needs `Held`, as a second holder could send too.

**`Contacts_proofs`**. `ContactsTypeCorrect` is the type invariant of the whole
composition. `RecordTypeCorrect`, `RecordsAlwaysAddUp`: `RecordInv` adds to the
property what a request under way will write - a replacement of members touches
dynamic segments only (`ReplacesDynamic`), and a segment whose count does not fit is
one a request is still about to count or a step without a recount changed
(`CountDue`). `JobTypeCorrect`, `CompletedJobsAreComplete`: `ImportInv` says that
the parts before the one a message, a consumer or the row's progress names have all
been applied, by identifier; `ExportInv` that below the part and cursor of the row,
and below those of each consumer, the bucket holds every id in order (`PartsGood`),
although a late consumer may move the row's cursor back or overwrite a part. Sums
over parts are counted by induction over the naturals in the form the provers take:
if a number violates the claim there is a least one (`LeastNatural`), and its
predecessor refutes it. `ListAlwaysFaithful` is about the list and its filters. Its
`ViewInv` says that cursors and the walk's history name rows there are (`Placed`)
and that, of the contacts nobody touched, the walk has shown exactly those up to the
place it goes on from (`KeepsPace`): a page may be fetched from an anchor that has
moved, but then the walk goes on from where the anchor is now. `FilterInv` says that
with no timer or link under way what is typed is what the address bar holds
(`FiltersSettle`), that a saved view names no segment and that a condition's
operator is one its form offers; that list, segment and condition node then mean the
same is a case split over the filters. It needs that absence is no value, set or
search (`FiltersAssumption`).

**`ClientCache_proofs`**. `ClientTypeCorrect` and `AlwaysOneOwner` hold of any
pages; `CacheAlwaysFaithful` of any whose operations refresh what they write or list
it as overlooked (`EveryWriteRefreshed`, a condition on the constants alone, which
the run `contacts` evaluates for `ClientPages`). `ClientSound` says of each entry
that a read under way which started before the last write will be cancelled or
repeated (`EntrySound`), and of each operation that what it has written and not
refreshed is still in its program (`CallSound`).

**`Reports_proofs`** (`ReportsAlwaysAddUp`). `ReportInv` says that a row with the
date of an outcome has that outcome (`Dated`), that until a report is torn each of
its queries was answered from the rows as they stand (`UpToDate`), and that totals
count no row twice, torn or not (`Counted`). Then every figure is the size of a set
of rows: a breakdown splits the set the total counts, and a fold over the parts of a
split is the size of the whole. That last step is an induction over finite sets,
again by a least counterexample.

**`Requests_proofs`**. `AssetTypeCorrect`, `RowsKeepTheirObject`: the object of a
row, and the one an upload is about to point it at, is whole and nobody else's to
delete (`RowBacked`, `OwnKeyPrivate`); the key a replacement will delete is not the
row's (`OldKeyKnown`). `DealTypeCorrect`, `DealsAlwaysConsistent`: what a request
has read and merged is well-formed and its stage one of the pipeline's, whatever was
rewritten since (`RequestsReady`). `AccessTypeCorrect`, `AccessAlwaysSafe`: a token
consumed is not to be found again (`TokenUnspent`), an attempt comes from a request
that holds it (`EnrollmentOwned`, `AttemptedOnce`). `ProvisionTypeCorrect`,
`ProvisioningAlwaysSound`: `CommandSound` says what each command has achieved by the
step it is at, for all four commands and however often they are stopped; the
property about repeated creates also needs what earlier commands left behind
(`HistoryKept`), and what a command has made and nobody deleted since is there
(`Provided`, `Made`).

- `BuiltGraphAlwaysSound`: `BuilderInv` says that the definition in the reducer and
  the one on the screen are both sound. `ConnectSound` carries the weight: if the
  new edge closed a cycle, the nodes reachable from its target would be a closed set
  without the source, which is what the editor's search would have found. Adding
  needs that a new node has no edges, deleting that reconnecting the neighbours adds
  no way that was not there.
- `ValidationAlwaysSound`: the invariant of the depth-first walk. `visiting` is the
  stack (`VisitingIsStack`), the stack is a path of the draft (`StackIsPath`), what
  was reached is reachable from the source (`ReachedSound`), every edge out of a node
  the walk has left was followed (`Followed`), what was left has no cycle as long as
  none was reported (`NoCycleYet`), and a cycle that was reported is one
  (`CyclesReal`): an edge into a node on the stack closes it (`StackCloses`). When
  the walk ends the stack is empty, so the reached nodes are closed under edges;
  `ValidationSound` follows for each kind of issue, in both directions.

**`Public_proofs`** is about `WorkspaceSpec`. `WebTypeCorrect`,
`VisitorTypeCorrect`, `WebsiteAlwaysSound`: a submission's event is in the hands of
the one request that inserted its row (`SubmitsOnce`), a version number read by a
request that will be the next one is (`EditsNext`), impressions are counted before
the timeline shows them (`ViewsUnderWay`), ids asked for and not yet issued belong
to records sent blind (`IdsAsked`, `IdsIssued`), a message is counted by the tab
that set its mark (`ShownCounted`). `MailTypeCorrect`, `MailAlwaysKept`: a copy that
mails are rendered from was put together by a publication (`CopyReleased`), a form
that is closed is as its next opening will find it (`ClosedFormBlank`), and each
step of a receipt knows what it has stored (`ReceiptSound`).
`MaintenanceAlwaysSound`: the events a run is about to mark are in an object
(`DailyRows`) and the days that have a row are over (`DaysOver`); that an archive
stays within the limit uses that the smallest numbers of a finite set exist and can
be counted, again by a least counterexample (`MostNumber`). The three theorems
`HistoryAlwaysAddsUp`, `GraphsAlwaysSound` and `TypesAlwaysOK` state the composed
properties of the run of the whole specification, from the invariants of this
module, `Requests_proofs` and `Reports_proofs`.

**Not proved.** Liveness and everything under fairness (`RunsToCompletion`,
`InactiveEnrolled`, `EventuallySettles`, `JobsSettle`) is out of the prover's reach
and stays with the runs. So does what the four runs that expect a violation show.
Every other property of a run is stated by a theorem; those of the engine, publishing
and delivery that need a hypothesis name it above.

## 5. Plan

Every module of section 2, its runs and the theorems of section 4 are done. What
could still be added, in the order of what it would say about the system:

1. Automation engine and delivery in one composition, so that an action's effect is
   the row it inserts rather than a mark in `acted`.
2. The lost lease (`runtime/dispatch.ts:48`), if the code comes to recover it: then
   `NothingSkipped` without the bound on ticks that die.
3. Topics in `Delivery` as a property instead of a violation, if the consumer comes
   to look at them.

## 6. Not modelled

Scheduling rules (`computeDueAt`) are calendar arithmetic in a time zone over the
platform's date library; the engine takes any due date. Tags, notes, custom fields,
topics, webhook endpoints, message variables, projects and the renaming and
archiving of most things are one statement per request behind a role check; of these
only what other state depends on is modelled. (The key of an archived message
variable stays taken: `UNIQUE` does not look at `archived_at`.) The audit log is
appended after the response and read by nothing. Sessions, passwords and cookies are
the Better Auth library; the role a request acts with is modelled. Message
rendering, landing pages, the oRPC schemas, layout and charts of the client, the
generated SDK and the agents' proxy keep no state that concurrent steps share. The
dashboard compares ISO dates with `datetime('now')` as text
(`packages/database/src/reports/repository.ts:558`), which only the order of
characters decides. `PROJECT.json` lists every component with its reason.
