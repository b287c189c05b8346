# Verification of the ADB web platform

TLA+ models of the background work of the platform's backend and of the staff
console that edits its records, checked with TLC; their safety is also proved with
TLAPS, for every value of the constants.

The platform is a Django backend (`src/backend`) with a PostgreSQL database, a
Redis cache and broker, Celery workers and a Beat scheduler, and several Next.js
sites over its API. Requests run in autocommit mode unless a view opens a
transaction (there is no `ATOMIC_REQUESTS`), and Celery acknowledges a task
*before* running it (`adbsoftwaresolutions/settings.py:298-303` keeps its defaults). A worker that dies
therefore loses its task, and each component has its own way of living with
that: a Beat schedule that publishes the work again, a row status, or nothing.
That is what the backend's models are about: what the rows say when requests,
workers, schedules and failures interleave.

The staff console (`src/sites/adb-software-solutions/src/app/(admin)`) is most of
the platform's own code. It is React without a state library: each screen holds
its own copy of what it loaded, fills its forms from it by hand, sends whole
records back, and is refreshed under the user by live events, polls and the
answers of requests that may be older than what the user is doing. The server has
no version in these requests, so it stores what it is sent. The console's models
are about that: what a request carries and what a screen shows, whatever order
loads, answers, events and the user's actions come in.

`PROJECT.json` is the index: components, runs, mutants, the source lines each
definition stands for, hazards, findings and theorems.

## 1. Inventory

### Components with a model

| Component | State | Operations | Interacts through |
|---|---|---|---|
| Outbound ticket mail (`apps/ticketing`, `apps/crm/tasks.py`) | `TicketMessage.delivery_status`, `Ticket.first_response_at`, Redis lock per message, tasks in the broker | write a reply or a lead's first mail, publish, deliver, retry | staff requests, Celery, Redis, Microsoft Graph |
| Monitoring (`apps/monitoring`) | `MonitorCheck` row (enabled, status, counters, thresholds, `next_run_at`), active incident, Redis lock per check | dispatch due checks, run, record, pause, resume, edit, acknowledge | Beat, Celery, staff requests, the resource's lifecycle |
| Ticket attachment quarantine (`apps/ticketing`) | `TicketAttachment.scan_status`, Redis lock per file, the deployment's scanning switch | quarantine, publish, scan, retry, download gate | mailbox synchronisation, Celery, ClamAV |
| Knowledge Base attachments (`apps/knowledge_base`) | row, stored file, `scan_status` | upload, claim, scan, delete, download gate | staff requests, Beat, Celery, ClamAV, storage |
| Knowledge Base documents | row, version history, archive flag, attachments | create, edit, archive, restore, upload to | staff requests |
| Mailbox synchronisation (`apps/ticketing`) | `Mailbox.delta_link`, `last_error`, messages, files, Redis lock per mailbox | dispatch, page through the delta, ingest, quarantine, checkpoint | Beat, Celery, Graph, quarantine, ticket workflow |
| Time tracking (`apps/clients`, `admin/time-tracking`, the timer controls of tasks and tickets) | the user's one `RunningTimer` row, `TimeEntry` rows, the item time is recorded on, the copy each tab shows | start, stop (or refuse to), cancel, manual entry, read, live refresh; the item changes its owner or leaves its project | several tabs of one user, the live stream, edits of the item |
| Resource forms (`admin/infrastructure/resources`) | the resource, the workspace's loads, the form's state, requests in flight | open, load, type, save, cancel; create in the register | live events, the register and the workspace around them |
| Nested records (cards of a resource, vendor drawer) | rows on the server, rows shown, one form per card, requests | add, edit, type, save, cancel, remove, reload | the resource's workspace, live events |
| Content pages (`admin/content`) | items on the server, the page's list, create and edit form, image editor | load once, create, edit, delete, change an image | the server's answers alone |
| Work forms (credentials, documents, leads, checks, tasks, projects, clients, contacts, vendors, mailboxes, queue targets, staff access) | the record, options, the draft, a dependent choice, saves | load, retry, write, change scope, save, switch on or off, leave | their options, each other's saves |
| Lists and dashboards (twenty screens) | filters, page, requests in flight, rows shown, drawer | filter, search, page, follow, refresh, act | live events, polls |
| GitHub deliveries (`apps/github_integration`) | `Delivery` rows, `Item` projection, cache key per delivery | store a webhook, publish, recover, fetch, save, mark | GitHub, Beat, Celery |

### Components without a model

| Component | Correct when | Why not (yet) |
|---|---|---|
| GitHub visibility and full synchronisation | nothing of a suspended or removed installation is shown; a removal is not undone by a synchronisation that was already running | planned |
| Ticket workflow, routing, SLA | a customer's answer always leaves the ticket open; SLA clocks agree with the status | planned |
| CRM leads and retention | a lead is converted once; nothing is deleted that has recent activity; a decision is not overwritten by the nightly refresh | planned |
| Analytics synchronisation | a property shows only reports of the account it is linked to; jobs end | planned |
| OAuth server | codes are used once; a revoked grant has no live token | planned |
| Rate limits, recovery codes, sessions | limits count every attempt; a recovery code lets in one sign-in | planned |
| Recurring tasks | a recurring task stays one chain | planned |
| Staff notifications, metadata refresh | a dismissal is kept; an answer is stored only for the source it came from | planned |
| Live events, Celery statistics on the server | | best-effort; the screens that show them are in `Screens` |
| Access control, credentials | | pure query filters; cryptography |
| Public, sign-in and analytics sites | | rendering over the API |

### What is hard

* **Check, then act.** A worker reads the row, takes a lock and reads the row
  again; an HTTP view reads the row and saves all its columns later.
* **Locks with a time to live.** A Redis lock outlives a dead worker until it
  expires, and can expire under a slow one.
* **Lost and duplicated tasks.** `.delay` fails while the broker is down, a crash
  takes an acknowledged task away, redelivery and Beat publish a task twice.
* **Answers that are lost.** Graph accepts a mail and the response never arrives.
* **Order.** Webhooks, delta pages and check results arrive late or out of order.
* **Schedules as recovery.** What is eventually done depends on which rows a Beat
  task selects.
* **A field is six lists.** What a form keeps, fills from the record, shows and sends is
  written by hand in as many places of it, and what the server stores and answers in two
  more; a field that is missing from one of them is blanked by the next save, or never
  saved, in some order of opening and retrying.
* **Whole rows written back.** An image request and an edit of the same item each read a
  row, work on, and save every column of it.
* **Answers that outlive their question.** A save, a removal or a page of rows is
  answered when the user has moved to another row, filter or form.
* **Screens that change under the user.** Live events and permission hints reload
  or re-render a screen while something is being written in it.

`PROJECT.json` lists the hazards of the modelled components at their lines with the
properties that cover them, and the heaviest of the others. The others, for the
backend modules of the plan:

* `authentication/ratelimit.py:105`: two requests read and write one list of timestamps,
  and an attempt is not counted;
* `authentication/twofactor/recovery.py:124`: two sign-ins read a recovery code as unused;
* `crm/services.py:28`: a lead converted meanwhile is reassigned; `crm/retention.py:160`:
  the refresh saves CANCELLED over a decision; `:180`: two clean-ups each write back
  the files they could not delete;
* `ticketing/services/ingestion.py:316`: a customer's mail reopens a ticket from a row read
  without a lock, while staff or a completed reply changes its status;
* `analytics/synchronization.py:88`: the last step of a job does not look at the link
  again, and a property re-linked after the last report counts as synced; `:75`: a job whose property was re-linked returns without an
  outcome; `:24`: the loser of the unique index may find the winner's job finished;
* `tasks/services.py:92`: complete, reopen and complete of a recurring task;
* `core/notifications.py:100`: an alert is compared with an unlocked read;
* `infrastructure/metadata_refresh.py:280`: the resource changes while the remote
  service answers.

And in the console: a failed refresh of the workspace or the register unmounts an
open form (`InfrastructureResourceWorkspace.tsx`, `InfrastructureResourcesWorkspace.tsx`);
a form that could not load its options shows its spinner for ever
(`WebDomainInfrastructureForm.tsx`, `TaskForm.tsx:291`); a create form is cleared
together with what was typed while its POST was out (`blog/page.tsx`, the workspace's
manual time entry); an item created while the content page loads vanishes from its list
(`blog/page.tsx:147`); a credential form drops links to resources that its options omit
(`CredentialForm.tsx:187`); saving one queue's targets reloads the drafts of all
(`ServiceLevelsWorkspace.tsx:167`); the `state` filter of GitHub survives a change of
tab (`GitHubWorkspace.tsx:123`). No property is
claimed where the code does not try to prevent them.

## 2. Modules

| Module | Models | State in the code |
|---|---|---|
| `OutboundMail` | abstract: what a delivery promises | |
| `TicketDelivery` | `ticketing/tasks.py` 197-280, 343-357; `services/replies.py`, `outbound.py`, `graph_outbound.py`; `crm/tasks.py` | `status` = `delivery_status`, `response` = `first_response_at`, `queue` = tasks by retry number, `lock` = the Redis key, `pc`/`job`/`tries` = each worker's stack |
| `MonitorCheck`, `MCMonitorCheck` | `monitoring/tasks.py`, `services.py`, `ninja/views.py` 348-512 | `check` = the row, `incident` = the active incident, `draft` = the row an edit or resume request holds |
| `QuarantineGate` | abstract: one verdict, and a true one | |
| `AttachmentScan` | `ticketing/tasks.py` 99-194, 302-320, 360-375; `services/attachments.py` | `status` = `scan_status`, `policy` = the scanning setting |
| `KnowledgeAttachment` | `knowledge_base/attachment_security.py`, `tasks.py` | `row`, `file`, `status`, `request` = the web request between its two steps |
| `KnowledgeDocument` | `knowledge_base/services.py`, upload part of `attachment_security.py` | `document`, `versions`, `row_lock` = `SELECT ... FOR UPDATE` |
| `MailboxSync` | `ticketing/tasks.py` 56-87, 283-299, 323-339; `services/graph.py` 425-470; `services/ingestion.py` 83-180 | `inbox` = Graph's change log, `delta_link` = a position in it, `done`/`page` = where a round is |
| `GithubDelivery` | `github_integration/webhooks.py`, `tasks.py`, `services.save_item` | `received` = `Delivery` rows, `item` = version of the projected row, `key` = the cache key |
| `TimeTracking` | `clients/services/time_tracking.py`, `ninja/time_views.py`, `TimeEntry.clean`, `TimeTrackingWorkspace.tsx`, `TaskTimerControl.tsx`, `TicketTimerControl.tsx` | `tmTimer` = the `RunningTimer` row, `tmLocked` = `SELECT ... FOR UPDATE` of a stop, `tmEntries` = the `TimeEntry` rows, `tmItem` = owner and project of the item now, `tmOptions` = the same as the workspace loaded it, `tmShown`/`tmReads`/`tmCall` = what each screen shows, reads and asks |
| `StoredRecords`, `MCStoredRecords` | composes `AttachmentScan`, `KnowledgeAttachment`, `KnowledgeDocument`, `TimeTracking` | |
| `ResourceForms` | the five families of resource forms field by field: state, controls, payload | operators only |
| `ResourceRecords`, `RowRecords`, `ContentRecords`, `WorkRecords` | the server's side of the four kinds of forms: what the update (and create) of each type of resource, row, content item and record stores, and what its reads answer | operators only |
| `ResourceEditing`, `ResourceCreation` | the workspace's edit form; the register's create form with ownership and references | `edForm` = the form's state, `edPuts` = PUTs in flight, `edRec` = the record; `crReference` = a reference by its owner |
| `NestedRecords` | thirteen kinds of rows under a resource, and the vendor drawer | `nrStore` = rows, `nrHeld` = the rows saved were given what was typed, `nrShown` = the card's list, `nrForm` = its form, `nrCalls`/`nrReads` = requests |
| `ContentEditing` | four content pages, seven kinds of items, the image editor, and the requests on the server | `coStore` = the server, `coShown` = the page's list, `coEdit` = the edit form, `coCalls` = requests: sent, with the row read, saved |
| `WorkForms` | the forms of the staff's daily records | `fmRec` = the record, `fmForm` = the draft, `child`/`scope` = a choice and what it depends on |
| `BeatSchedule` | composes `GithubDelivery` with `MonitorCheck`: what Beat starts again and again | `check_tasks`, `check_pc`, ... = `MonitorCheck`'s variables |
| `StaffConsole` | composes the five above, one page open at a time | `csPage` = the page |
| `Screens` | twenty lists and dashboards | `scVal`, `scSub`, `scPage` = filter, dependent choice, page; `scCalls` = reads, `scShown` = what the rows answer |
| `*_proofs` | theorems | |

One action is one step the scheduler can interleave: a transaction, a lock
operation, a remote call, or a read that is used later. A transaction on a locked
row is one action; where the code reads without a lock, or works on between two
commits, the model has two actions. In `KnowledgeDocument` the edit is three steps
although it is one transaction, because archive and upload requests do interleave
with it. In all modules Redis' "release only your own lock" is the test on the owner in `ReleasedBy`
or `Release`; GitHub's cache key has no owner and is deleted whoever holds it, and
that is how `GithubDelivery` has it.

History variables (`copies`, `excuses`, `expiries`, `crashes`, `streak`,
`overwrites`, `found`, `overwritten`, ...) never influence the code's own
decisions; they bound failures, let `FirstResponseIsReal` and the ledgers be
stated, and say when a property's premise is gone.

**How the console is followed.** A form has up to thirty fields, but its handlers
treat them alike except for the lists they are in. So a behaviour follows *one*
field of *one* form (or row kind, or screen), chosen in the initial state among all
of them: the field's value is "kept" (as the server has it), "typed" (what the user
wrote) or "blank" (the form's default), and the lists of each form (what it keeps,
restores, shows and sends, what the server stores and answers) are sets of names read
off each place of the code.
TLC checks every field of every form. The one interaction between two fields that
forms do have, a choice that depends on another, is modelled beside it
(`crReference`/`crOwner`, `child`/`scope`, `scSub`/`scVal`).

**Compositions.** `StoredRecords`, `BeatSchedule` and `StaffConsole` put components side by side that
share no state: a behaviour follows one of them and the others wait. Interleaving
them would add states and no behaviour of any property, each of which is about one.

### What is abstracted

* **Monitoring:** `next_run_at` is "none", "due" or "later". Counters saturate at
  `MaxThreshold`, since the code only compares them with thresholds. The probe is a
  nondeterministic outcome.
* **ClamAV** tells the truth when it answers, and may be down or unconfigured.
* **Graph's delta** is a log. A page is any non-empty stretch, and the round ends
  with the page that reaches the log's end. `@removed` entries are left out: the
  code skips them.
* **Message content**, file names, addresses, subjects and templates are model values
  or absent.
* **GitHub:** `updated_at` is a version number. Whether Celery retries after a
  `GitHubError` is left open, because the retry count is bounded.
* **Time:** elapsed time and descriptions are left out; a timer is its number, what it
  is recorded on, its project, its owner and whether it is billable, and so is an entry.
  The item it is recorded on changes its owner and its project at any moment, also while
  a timer runs on it or a tab holds options read before.
* **Console:** values, labels, permissions other than "has them", layout and
  validation messages. A form's native validation is the guard `named`. A live event
  or a poll is a reload that may come at any time. `null` and missing options are one value.
* **Tickets:** what a message does to its ticket (threading, status) belongs to the
  planned `TicketWorkflow`.

## 3. What is checked

| Run | Instance | What it shows |
|---|---|---|
| `ticket_delivery` | one reply, one lead mail, 2 workers, 1 retry, each failure once (4.8 M states) | `OneWorkerPerMessage`: the lock excludes. `EveryCopyAccounted`: the customer's copies beyond the first are exactly those whose acceptance nobody learned of. `SentIsFinal`: "sent" is final. `RecordIsTrue`: it is true, and the SLA is stopped only by a reply that went out |
| `ticket_delivery_refines` | one reply, 2 workers, 2 retries, 2 duplicates, no live expiry | implements `OutboundMail`; `Settles`: queued mail ends sent or failed unless its task was lost |
| `monitor_check` | 2 workers, one staff request at a time plus immediate ones, thresholds up to 2 (1.7 M states) | `StatusIsTrue` (paused iff disabled, and status and incident agree), `IncidentsEarned`, `ResultsRepairStatus`, `ObservedOncePerPeriod` |
| `monitor_check_pause` | 1 worker, no failures | **violated**, finding 1 |
| `stored_records` | malware, 2 workers, 1 retry, 2 outages, a crash, an expiry, scanning on or off at first and switched once; a Knowledge Base attachment with 3 workers, 3 tasks, 2 crashes; a document with 2 edits, an upload, 4 versions; a timer in the workspace and one control, 2 requests and perhaps a timer left running before, on a task that leaves its project and becomes internal, and comes back, at any moment; fair (0.5 M states) | `QuarantineHolds`, `KeepsTheGate`, `KbRowIsSound` (one scanner without any lock, a file for every row), `KbKeepsTheGate`: malware is not served and verdicts are final and true. `HistoryIsSound`, `HistoryIsKept`: versions are numbered once, complete and immutable, archived ones closed. `TimeIsSound`: a timer is recorded once or cancelled, and a stop whose entry is refused settles nothing; neither the timer, nor the entry of a stop, nor one made by hand bills internal time; a refused control learns why. `ScansEnd`, `WorkspaceCatchesUp`: scans and screens get there |
| `knowledge_document_archive` | an edit, an upload | **violated**, finding 2 |
| `mailbox_sync` | 2 messages (one with files), 2 changes, 2 workers, a failed round, a crash, an expiry, a mailbox switched off, fair (1.5 M states) | `CheckpointCovers`: nothing before the saved link is missing; `LinkNeverGoesBack`; `MailGetsIn` |
| `beat_schedule` | 2 deliveries in any order, no row yet, 2 workers, recovery of 1 delivery at a time; or a check with 2 workers, a staff request, threshold 1; each failure once, fair (0.4 M states) | `ProcessedIsMirrored`, `StoredOnce`, `DeliveriesProcessed`. `DueChecksRun`: a due check is observed even if its lock's holder died |
| `github_delivery_first` | 2 deliveries, 2 workers, no failures | **violated**, finding 3 |
| `staff_console` | every field of every form; per page 2 clients, 3 rows or 3 items, 2 requests, 1 reload or hint (3.4 M states) | `UntouchedSentBack`: what the user did not write goes back as read, from the same record; the two losses `KnownLoss` names are all that is excepted. `RecordsNotBlanked`: a form that needs its record never saves without it. `ReferencesStayWithOwner`: nothing chosen for one owner is sent for another. `PageShowsServer`: a list patched by answers equals the server's, and an accepted edit is in its item (`EditReachesItem`). `DraftsSurvive`: reloads and late answers leave the draft, and what a save was told is done has reached the record in every field (`SaveReachesRecord`, `SavedRowHolds`, `WrittenReachesRecord`, `DraftBecomesItem`) |
| `resource_editing_schedule` | every field of every resource form, 1 load, 1 hint, 1 save | **violated**, finding 4 |
| `screens` | twenty screens, every filter, 2 values, 2 pages, 2 user actions, fair (1.4 M states) | `ScreenIsConsistent`: page, dependent choice and guarded rows belong to the present filters. `ScreenCatchesUp`: a polled screen ends showing what its filters ask for |

Each property of a passing run has a mutant: a variant of the code (a lock ignored,
a re-read dropped, a status saved from a stale row, a checkpoint written a step
early) with which TLC finds the property violated. The mutants stand beside the
actions they change.

**Bounds.** The components are per message, per check, per file, per mailbox or per
item, and share nothing across these. So one object with two workers (the holder
and the late or duplicated one) shows every interference the code has; a third
worker appears where there is no lock. Two changes or deliveries are the smallest
number that can be out of order. A failure of each kind once, combined freely, covers
a failure and the recovery from it; where a failure must be able to hit the recovery
as well (outages of the scanner, Knowledge Base crashes) it may happen twice.
For the timer two requests are enough because one may already run: a stop and a
cancel of it race, as do two starts when none runs.
Recovery of one delivery at a time makes the batch limit bite with two deliveries.
The theorems of section 5 drop these bounds for every safety property; for liveness
the argument above is all there is.
In the console two requests of a kind are enough for one to be answered after the
other, three rows or items for an add, an edit and a removal to be of different ones,
two clients for a choice to be of the wrong one, two values and two pages for a filter
to be changed and changed back. A third request would be sent from a state that two
already reach.

**What a merged property is.** A run's property is often the conjunction of named
parts (`UntouchedSentBack` of one per page, `TimeIsSound` of three). The parts keep
their comments where they are defined, and the mutant breaks one of them.

**Deadlock** is not reported: when its bounds are used up and no work is left, a
system of this kind rightly stops.

**Symmetry** is used in `monitor_check` only, over the workers: it has no liveness property.

## 4. Fairness

* *Beat* publishes again and again: weak fairness of `Dispatch`, `Publish`,
  `Backfill` and `Recover`. These tasks run every 30 or 60 seconds for ever.
* *Workers* go on with what they began: weak fairness of each worker's steps.
  Failures (crashes, errors, expiries under a live holder) are never required, and
  where outcomes compete the fair one is named, so that a file whose scan succeeds is not
  required to fail. In `MailboxSync` and `MonitorCheck` errors are part of the
  worker's step; they are bounded, so a round fails finitely often.
* *Locks* expire: weak fairness of the expiry of a dead holder's lock, because
  every lock in the code has a timeout.
* *GitHub tasks* need strong fairness of the start of a delivery's task: the broker is
  a queue, so a task is not overtaken for ever by tasks of other deliveries.
* *Screens* poll while they are visible, and requests are answered or fail: weak
  fairness of the poll and of the answers; a poll repeated for ever is not lost for ever
  (strong fairness of its answer). The user is never required to do anything.
* *Outbound mail* has no schedule: only the request that stored a message and the
  workers are fair. Nothing publishes a lost task again, and `Settles` says so.

## 5. What is proved

Every safety property of the passing runs is a theorem for all values of the
constants (all messages, workers, tabs, rows, items, clients, values of a filter,
moves, retries and failure bounds), and so are the two refinements of `QuarantineGate`
and the one of `OutboundMail`. The assumptions are the named `ASSUME`s: bounds are
natural numbers, lock owners are distinct from `Nobody` and `Dead`, "no item", "no
reference" and "new row" are none of the items, clients and rows, a ticket has at most
one opening message, a timer left running is the first and bills no internal time. Two theorems assume more:

* `DeliveryImplementsMail` assumes `MaxExpiries = 0`: a lock that expires under its
  holder lets two workers send at once, which `OutboundMail` does not allow;
* `StaleNeverWins` assumes `InitialItem > 0`: without a row there is nothing to lock
  (finding 3).

Other properties that need the lock hold *until* one expires under its holder, and
their statements say so (`expiries = 0`).

| Proof | Inductive invariant, beyond types |
|---|---|
| `TicketDelivery_proofs` | `HolderOwnsLock`: a worker in the locked section owns the lock. `RefreshStillTrue`: what the second read found (not sent) stays true. Neither property is inductive alone: exclusion needs ownership, and the ledger of copies needs that a worker that calls Graph is alone and its message is not sent. The refinement needs both, the ledger, "a task has a row" and "no lock has expired"; each action maps to a write, an acceptance, a loss, a record or a stutter |
| `MonitorCheck_proofs` | `DraftsConsistent`: whatever row a request holds was consistent when read, so writing it back keeps "paused iff disabled". `CountersAreReal`: counters equal the length of the latest run of results. `StillDue`: between refresh and record nobody else reschedules |
| `StoredRecords_proofs`, ticket files | `HolderOwnsLock`, `RefreshStillTrue`, `FoundIsRecorded`. `MalwareStaysHeld` needs none of them: it also holds when locks expire |
| ... attachments | `ScanningIsMarked`: a scanning worker's row says "scanning", which is why the claim excludes without a lock. `RequestInv`: upload writes the file first, deletion removes it last |
| ... documents | `LockSecures`: until commit, the row an edit read is the row, not archived, and the number it computed is free |
| ... together | `RecordsFollowEach`: a behaviour of the composition is one of each component, so `RecordsTyped`, `RecordsAreSound` and `RecordsAreKept` say of `RecordsSpec` what was proved of the parts |
| `TimeTracking_proofs` | `CheckedUnbilled`: not only the timer and the entries but a start that has passed its check bills no internal time, so it may be stored though the item has moved since. `StopHoldsRow`: between its lock and its commit a stop's timer is the row, so a racing cancel cannot settle it too. `OneReadEach`, `ReadsAreFresh`, `OldWhileAsking`: a control that is not asking has at most one read out, and that read is younger than its last request |
| `MailboxSync_proofs` | `PositionsComplete`: not only the saved link but every position read or reached by any worker has nothing missing before it. That is why the link may go back, with two workers, and still nothing is lost. `LastPageIsAhead`, with the lock, gives `LinkNeverGoesBack` |
| `GithubDelivery_proofs` | `FetchedIsFresh`: the snapshot is fetched after the delivery was stored, so it is at least as new; `Mirrored`, until a late creation overwrites a newer row |
| `StaffConsole_proofs`, resource forms | `FormHoldsWhatItRead`: a form that holds its record and was not written in shows what it read. `LoadsInOrder`: which loads of a form can still come, by its family; without it a late load could fill a form another one has made ready. `ReferenceFollowsOwner`: what a create form holds, its owner may use |
| ... cards | `FormOfOneRow`: the value in a form was read from the row the form is open on. `OneSaveAtATime`: in the cards whose answers leave the form alone, one call or the load it waits for holds back the next save, so no answer closes a later draft. `ListsOfFieldsAgree`, `RowsTakeWhatIsSent`: the lists of the thirteen kinds and those of the server's views fit, so a save reaches its row |
| ... content pages | `OnlyTheAnswerIsMissing`: the list differs from the server by the one save whose answer is under way, and a deletion that overtakes it takes the item from both. `SavesAreHeld`, `SentIsStoredAndAnswered`: what a request sends its item keeps and the answer carries. `EditHoldsItsItem` for the image editor |
| ... work forms | `DraftHoldsRecord`, `RecordBeforeOptions` (a form that must have its record is not complete without it), `ChoiceInScope`; for drafts `SettingsWaitForTheirSave`: what clears a settings form is its own save. `WrittenIsSent`: what the user wrote is in the request, whatever was loaded since |
| ... together | `ConsoleFollowsEach`, as for the records. The lists of fields are the code's, complete: the proofs are for every type, kind and field |
| `Screens_proofs` | `ReadsFollowMoves`: each read is paid for by a move of the user, in advance (a pending delay, action, drawer, search box or page of the logs is a debt). It bounds the numbers of the reads, which no type invariant does by itself, and is the theorem `ReadsAreAskedFor`: no effect starts another for ever. `FiltersReset`: every filter of every screen with pages is in one of the two lists that reset them. `LatestAsksTheQuery`, `RowsWhenQuiet`: the latest read of a guarded screen asks for the present query, and rows are that query's as soon as no read is the latest, even if older ones are still out |

Temporal steps go through `PTL`; everything else is first-order. **Only
model-checked** are the liveness properties (`Settles`, `DueChecksRun`,
`ScansEnd`, `WorkspaceCatchesUp`, `ScreenCatchesUp`, `MailGetsIn`,
`DeliveriesProcessed`): the prover does not reason about fairness and `ENABLED`.
The four findings of section 6 are counterexamples of TLC; what finding 3 says of rows
that exist is proved (`StaleNeverWins`).

## 6. Findings

1. **An edit undoes a pause** (`monitoring/ninja/views.py:460`, run
   `monitor_check_pause`). `update_monitor_check` reads the row without a lock and
   saves every column. When a pause commits in between, the edit writes `enabled` and
   the old status back. `docs/MONITORING_ARCHITECTURE.md:51` has "active check ->
   paused -> resumed/pending".
2. **An archived document receives an attachment**
   (`knowledge_base/attachment_security.py:72`, run `knowledge_document_archive`). The
   upload tests `archived_at` on a row read without a lock.
   `docs/KNOWLEDGE_BASE_ARCHITECTURE.md:73` says archived documents "cannot receive new
   attachments".
3. **A stale snapshot overwrites a newer one when the row is new**
   (`github_integration/services.py:86`, run `github_delivery_first`).
   `select_for_update` locks nothing when there is no row, and `update_or_create`
   then updates the row that another worker created from a newer snapshot. For a
   row that exists the comparison is safe, and proved to be.
4. **Editing a scheduled job blanks its schedule**
   (`OperationalInfrastructureForm.tsx:271`, run `resource_editing_schedule`). The form
   fills its schedule from `values.schedule` alone, which only a backup plan's record
   has; a scheduled job's record answers `schedule_expression`
   (`infrastructure/operational_edit.py:155`). The payload sends `schedule_expression`
   from the empty state (`OperationalInfrastructureForm.tsx:477`), and the model accepts
   a blank one. `docs/SPECIALIST_TECHNICAL_OPERATIONS_ARCHITECTURE.md:153` has the job
   record its "schedule expression", and `:191-192` has `operational_edit_values()`
   supply "native edit values".

### Known limits

These are behaviours of the code the properties make room for:

* A lost Graph answer, or a commit that fails after the mail went out, is retried and
  the customer receives the mail twice, although `docs/TICKETING_ARCHITECTURE.md:556-557`
  says retries do not duplicate sends. `EveryCopyAccounted` counts exactly these copies.
* A reply whose task is lost stays "queued" or "sending" for ever: no schedule looks
  for it (`abandoned` in `Settles`).
* A worker whose scan lock has expired records its failure over its successor's
  infected verdict (`ticketing/tasks.py:168`); with scanning switched off afterwards
  the file would be served. Hence `expiries = 0` in `InfectedNeverServed`.
* `StatusIsTrue` and the ledger of incidents excuse an edit that wrote back old columns.
* In the console: the schedule of a scheduled job is blanked (finding 4), and an instant
  of a storage, backup or job form goes back shifted by the browser's offset
  (`OperationalInfrastructureForm.tsx:131` parses as local what `:136` cut from UTC);
  `KnownLoss` excepts these two from `SentBackAsRead`, and nothing else. A content item's
  `published_at` goes through local time cut to the minute (its seconds are lost); forms that a failed load leaves
  with their defaults can save them (data, web, operational, catalogue, lead, check,
  project, client, contact), so `RecordsNotBlanked` names the forms that cannot; the
  compute and web forms reload over a draft whenever the workspace renders again, so
  `DraftKept` is about the others; a brand that a content page did not load is dropped
  on save; web and operational forms keep a reference that the chosen owner may not use,
  which the server rejects when it is another client's (`ClientsStayApart`).
* An image of a content item is stored by a request that read the item, converted the
  image and then saves every column of the row (`website/ninja/media_views.py:74`, `:94`;
  removal at `:104-117`): an edit saved in between is taken back, and an item deleted in
  between comes back. `PageShowsServer` and `DraftBecomesItem` except items that this, or
  a lost answer, has happened to (`coLost`).
* The open task of the Celery screen keeps its last answer once it is no longer among the
  page's tasks (`CeleryWorkspace.tsx:151`, `|| previous`), so its detail can stay stale for
  as long as the drawer is open; `ScreenCatchesUp` leaves it out.
* Unguarded lists may show the rows of the previous filter until the next poll;
  `RowsAnswerTheScreen` is about the guarded ones.
* Stop and cancel do not say which timer they mean: a stale tab settles the timer that
  runs now.
* A timer whose item changed its project or its owner since it was started can only be
  cancelled: `full_clean()` of its entry raises (`clients/services/time_tracking.py:216`),
  the view catches another exception (`ninja/time_views.py:434`), and the transaction
  rolls back (`StopRejected`). So does, for want of digits, one that ran for 1000 hours;
  durations are not modelled.
* An attachment left "scanning" by a dead worker is not selected by either backfill,
  and the Knowledge Base's does not select failed scans (`knowledge_base/tasks.py:22`).
* Recovery of GitHub deliveries takes the first 100 unprocessed rows
  (`github_integration/tasks.py:104`): 100 deliveries that fail for ever would starve the
  rest. `DeliveriesProcessed` holds because outages end.

## 7. Plan

The core (outbound mail, monitoring, quarantine, documents, mailboxes, GitHub
deliveries), time tracking and the staff console are done. What is left, in the order
of its weight for the system:

1. `GithubVisibility` and `GithubSync`: suspend, remove, reconnect and synchronise an
   installation while deliveries run; "nothing of an invisible repository is shown",
   "a removal is not undone". Abstract: the set of visible repositories.
2. `OAuthGrant`: codes, rotation, reuse and revocation; "a revoked grant has no token
   that introspection accepts". Abstract: a grant that is live, then dead. Provable.
3. `AnalyticsSync`: one property, two jobs, a re-link and the failing of stale jobs;
   "a snapshot belongs to the account it is shown for", "a job ends".
4. `TicketWorkflow`: status of a ticket under mail, replies and staff edits; composed
   with `TicketDelivery` (first response) and `MailboxSync` (ingestion).
5. `LeadLifecycle`: conversion and assignment, retention review and clean-up.
6. `RateLimit`, `RecoveryCode`, `TaskRecurrence`, `MetadataRefresh`:
   small modules of one race each.
7. Compositions: Knowledge Base documents with their attachments; the mailbox
   synchronisation with the scan of the files it quarantines; two console users over
   one record (last writer wins).

Theorems to add with them: the type invariants, `GithubVisibility`'s and
`OAuthGrant`'s safety, and the refinements of their abstractions.

### Not modelled

Besides the components of section 1 without a model: the detail pages of tickets,
tasks, task lists, projects and clients, the rest of the settings screens around the
forms that are modelled, and the dashboard. They are single requests without a draft, a list of their own or a
reload that could cross them, or repeat a pattern that is modelled. Cryptography,
rendering, query filters and content of messages are outside of what a model checker
could say something about.

Left out of modules that are there, each because the properties do not see it:

* `AttachmentScan`: the backfill's batch of 200 rows (`ticketing/tasks.py:114`); the
  module has one file.
* `MonitorCheck`: an edit that `full_clean` refuses; it changes nothing.
* `TimeTracking`: the deletion of items, timers and entries (Django admin only).
* `Screens`: messages that are local to a row or a drawer; and reads that one refresh
  sends together are one read, as are the ledger's two, whose order no row depends on.
* `WorkForms`: `change_summary` of a document is kept with a version, so only when the
  content changed; the user may view credentials (from others a check hides its
  own, and keeps it when they save). Likewise the user of
  `RowRecords` may see the resources that a row refers to: the server hides others.
* `ContentEditing`: the busy state of the image editor itself, two image editors of one
  item at a time, another user's edits, and which of a FAQ's rules refused it.

## 8. Running

    tlc -workers 2 -config MailboxSync.cfg MailboxSync.tla
    tlapm MailboxSync_proofs.tla      # and the seven other *_proofs

The four runs that expect a violation print the counterexample of their finding. All
other runs finish without errors, the longest in about four minutes.
