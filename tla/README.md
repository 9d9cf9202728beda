# Schedule_agent: verification project

Schedule_agent is a WhatsApp booking assistant for barbershops. A FastAPI process
receives webhook hits from the WhatsApp provider (Kapso), lets an intake service decide
what the customer wants, books half-hour appointments in PostgreSQL, and sends replies
from a background queue; admins edit calendars and settings over the same API. Several
server processes may share one database and one optional Redis.

This directory holds TLA+ models of the parts where interleavings, failures and row data
decide whether the program is right, TLC instances of them, and proofs that TLAPS checks.
Paths below are relative to `src/`; `S1` stands for `apps/api/src/routes`.

## 1. Inventory

| component | code | state | operations | modelled by |
|---|---|---|---|---|
| Appointment lifecycle | `packages/application/scheduling/booking_service.py`, `manage_service.py`, `packages/infrastructure/repositories/appointments.py`, `S1/appointments.py` | `appointments` table with `uq_appointment_slot` | book, cancel, reschedule, PATCH status | `Appointments`, `BookingCalendar` |
| Booking rules, availability, calendar rows | `packages/domain/scheduling/*.py`, `S1/availability.py`, `schedules.py`, `absences.py`, `extra_hours.py` | weekly ranges, extra hours, absences, closed dates | create, update and delete of each row; offer; plan | `BarberDay` |
| Webhook and chat intake | `S1/webhooks.py`, `packages/application/intake`, `packages/infrastructure/repositories/messaging.py` | dedup keys, conversation lock, session, incoming and outgoing rows | one webhook hit, statement by statement | `Conversation` |
| Reply delivery and queue | `S1/webhooks.py` (second half), `packages/infrastructure/queue`, `packages/infrastructure/transport` | pending reply and schedule keys, thread pool, outgoing status | hand over, flush, send with retries, stamp, shut down | `ReplyDelivery` |
| Redis client | `packages/infrastructure/redis` | keys with TTL | SET NX, GET, DEL, compare-and-delete | inside `Conversation` and `ReplyDelivery` |
| Tenant settings | `S1/ops_settings.py`, `draft_publish.py`, `bot_config.py`, `data_settings.py`, `feature_flags.py`, `identity_settings.py`, `superadmin.py`, `templates.py` | one JSON document per tenant with its drafts; the audit log | read-modify-write of sections by fourteen routes; save, publish and discard of drafts | `TenantSettings` |
| Provider configurations | `packages/application/providers`, `packages/infrastructure/repositories/providers.py`, `S1/provider_configs.py`, `tenant_sheets.py` | rows, at most one active per kind | create, update, activate, delete | `ProviderConfigs` |
| Authentication, users, links, tenants | `packages/application/auth`, `packages/application/superadmin`, `apps/api/src/deps.py`, `S1/tenant_users.py`, `barber_link.py`, `tenant_auth.py`, `superadmin.py` | tenants, users, bearer tokens | look-up of a bearer, login, logout, create, change of role and link, status | `Accounts` |
| Catalog, imports, onboarding | `S1/import_sheets.py`, `templates.py`, `services.py`, `barbers.py`, `schedules.py`, `packages/application/scheduling/*import_service.py` | services, barbers, weekly schedules | preview, apply, template, single-row routes | `CatalogImport` |
| Operating mode and Sheets | `packages/application/tenant/mode_service.py`, `packages/application/providers/sheets_*.py` | external sheet; a reader and a writer that live for one request | write-back, look-up of the active configuration | write-back in `Appointments` |
| Classifier, prompts, schemas, views, UI, input filters, migrations | see `PROJECT.json` | none of their own | | abstracted or left out |

How they interact. A webhook hit takes the conversation lock, runs the intake service and
commits session, messages and possibly an appointment in *one* transaction; it then hands
the outgoing row to the queue of its process. The intake service and the admin API book
through the same `book_slot`, which reads the calendar rows of `BarberDay` through
`plan_booking` and writes the rows of `Appointments`. Customers pick from the starts that
`compute_available_slots` offers. Every tenant route starts with the bearer look-up of
`Accounts`, in the transaction of the handler that follows. The settings document is read
by the webhook (whether the bot is on), by the intake service (bot texts, flags) and by
`book_slot` and `reschedule` (closed dates, handed to the planner); the active provider
configuration decides where a booking is written back and through which account replies
are sent; the catalog is what the calendar rows and the offered services come from. All shared state is
in PostgreSQL (READ COMMITTED) and Redis; only the queue is in process memory.

What is hard, and what makes each part correct:

* **Appointments.** Requests plan from committed rows and meet only at a unique index and
  at row locks; HAIRCUT_AND_BEARD is two rows with no foreign key between them, found
  again by position and a tag in the name; the ORM writes only changed columns. Correct:
  no half hour is held twice, the two halves move and are cancelled together, a cancelled
  booking stays cancelled, every request ends, and it all looks like atomic operations on a
  calendar.
* **Availability.** Two functions scan the same rows in different ways. Correct: they
  agree, whatever rows the API let in.
* **Conversation.** Provider retries, two processes, a lock in two backends with a TTL,
  a release that does not check its owner, Redis outages, crashes at any statement.
  Correct: one reply per message, bookings announced if and only if made, nothing
  forgotten.
* **Delivery.** Send retries, replays, keys that expire, flushes overtaken by new
  replies. Correct: the outgoing log agrees with the provider, no duplicates, no reply
  left behind.
* **Settings.** The whole document is read, changed in memory, read again and written
  back, and the audit entry is a second transaction. Correct: what is acknowledged is
  stored, a commit overwrites beyond what it was asked only what others committed
  meanwhile, a refused request leaves nothing, a draft stays private until it is
  published, each change is followed by its audit entry.
* **Provider configurations.** Two flushes per switch, a partial unique index, sessions
  that send only what differs from what they loaded. Correct: never two active rows, a
  switch takes effect, and every request ends although the rows are locked in different
  orders.
* **Accounts.** Columns of one user are written by several routes from rows read earlier;
  every request touches the token it came with. Correct: no link out of the tenant, no
  revoked token that works again, no barber role without a barber, answers that tell
  what is stored.
* **Imports.** Two requests apart, over names that need not be unique. Correct: what was
  previewed is what is stored, and nothing else changes; a template only adds.

`PROJECT.json` lists the 40 main hazards with their lines and the properties that watch
them.

## 2. Modules

### `BookingCalendar`: what the booking API promises

A set of live bookings; `Book`, `Cancel` and `Move` each take one step and never let two
bookings hold the same half hour of a barber. It has no code of its own: it is the
abstract specification that `Appointments` implements under the substitution
`calendar <- ActiveBookings` (one booking per primary row that is not cancelled).

### `Appointments`: the table and its requests

One worker is one request with a database session. Each action is one *flushed
statement* together with the Python between it and the next:

| actions | code |
|---|---|
| `BookPlan`, `InsertPrimary`, `InsertContinuation`, `SyncToSheets` | `book_slot`, `_persist_plan`, `_sync_to_sheets` |
| `CancelRead`, `CancelRow`, `CancelFind`, `CancelPartner` | `ManageService.cancel` |
| `RescheduleRead`, `MoveRow`, `MoveFind`, `MovePartner` | `ManageService.reschedule` |
| `PatchRead`, `PatchRow` | the status route |
| `Commit`, `Fail`, `Crash`, `DeadlockAbort` | end of the session in the route, exceptions, process death, PostgreSQL's deadlock detector |

`db` is the committed table, `dirty[w]` the uncommitted rows of a transaction, and
`View(w)` what its SELECTs see. `Flush` is the one place where rows are written: it waits
(`BlockedBy`) while another transaction has written the same row or the same index key,
raises (`KeyTaken`) when the key belongs to a visible row, *including cancelled ones*, as
the constraint does, and writes otherwise. The locals in `call[w]` are what the Python
objects loaded, so stale reads are stale in the model too. Columns keep the code's
redundancy: `appointment_date` and `start_time` are separate, and `Moved` writes only what
differs from the loaded values, as the ORM does.

### `BarberDay`: the rows of one day and the two functions that read them

Every request that edits weekly ranges, extra hours, absences or closed dates is an
action; `AvailableSlots` and `PlanBooking` are operators over the rows, translated from
`compute_available_slots` and `plan_booking`. The API does not check the order of a
range, so inverted, overlapping and adjacent rows are ordinary states here.

### `Conversation`: a webhook hit up to its commit

One worker is a server process serving one hit: `Receive`, then dedup (Redis SET NX, or a
row), the lock (Redis, then the table), the intake service one statement at a time
(find or create the session, reset a stale one, record the incoming message, advance,
or replay for a duplicate), commit, release. `deploy` fixes, per behaviour, whether Redis
is configured and whether timestamps come back offset-aware. `Crash`, `RedisError`,
`ExpireKey`, `ExpireLock` and `AgeSession` happen at any moment. What a message means is
a choice among three outcomes (`plain`, `noted`, `booked`).

### `ReplyDelivery`: from the commit to the customer's phone

Hits hand a committed reply to the queue of their process, directly or, with burst
coalescing, through a pending key and a schedule key in Redis; threads run deliveries and
flushes with the transport's retries and stamp the row. Crashes, shutdowns, failed calls
and expiring keys are the faults. `_process_burst_window` has no caller and is left out.

### `TenantSettings`: one document, fourteen routes

`row` is the committed document: which sections are present, who set each group of keys
(a value is named by the request that asked for it, so "what became of r's change" is
visible in the state), and a draft per section. A request has four steps.

| actions | code |
|---|---|
| `UpdateOperations`, `UpdateCalendarOverrides`, `UpdateTenantOperations`, `UpdateConfig`, `UpdateTenantConfig`, `UpdateDataSettings`, `UpdateFeatures`, ... | the PUT routes up to `upsert_settings`: load, copy, fill in what is missing (`Ensured`), set (`Put`) |
| `UpdateIdentitySettings` | the same in `identity_settings.py`, which keeps the loaded instance and writes no audit entry |
| `SaveDraft`, `PublishDraft`, `DiscardDraft` | `draft_publish.py` |
| `ApplyTemplate` | the settings part of the onboarding template |
| `Upsert` | `upsert_settings`: the second read of the row, then the assignment |
| `Store`, `Conflict` | first commit; a request whose two reads both found no row meets the primary key if another inserted one since |
| `WriteAudit`, `Crash` | second commit; process death |

`Holds` and `Dirty` are where the module is closest to the code. SQLAlchemy's identity map
is weak. The helpers of most routes keep the row in a local and return a copy of its
document, so the instance is gone when `upsert_settings` gets the row: it SELECTs again,
may find another document than the helper did (or a row where there was none), and sends
an UPDATE of the whole document whenever the assigned one differs. `identity_settings.py:66`
and `templates.py:344` keep the instance in a local of the route. There the second read
returns the same instance, whose sections the assigned document shares and has changed in
place, so the comparison sees only a change in the *set* of sections.

### `ProviderConfigs`: one active row per kind

One action per SQL statement of a request. `held`, `was` and `now` are the session's
identity map: a row that was loaded once keeps its values, and a flush sends an UPDATE
only for what differs from them, by primary key. `Rivals` and `WaitsFor` are the partial
unique index and the row locks. `SelectActive`, `SelectSiblings` and `ActivateTarget` are
the two flushes of a switch; `Listed` and `Reselect` are the sheets routes, which load all
rows, take the first and load it again.

### `Accounts`: tenants, users, tokens

A request is the bearer look-up (`VerifyBearer`, `UseToken`), the handler up to its flush
(`CreateTenantUser`, `UpdateTenantUser`, `UpdateBarberLink`, `UpdateMe`, `Login`, `Logout`,
the superadmin's routes) and the statements (`Insert`, `InsertSettings`, `UpdateRow`,
`Commit`, `WriteAudit`). The look-up keeps no user row alive, so a handler's own SELECT
returns the current one; what it holds from there to its flush is `loaded`. `Merged` is the
UPDATE of the changed columns only.

### `CatalogImport`: the catalog and those who add to it

`catalog` is the table of services, barbers and schedules of one weekday. `Preview*`
classify the rows of a sheet against it (`Lookups` leaves open which of several rows with
one name a dictionary ends up with); `Apply*` validate again, insert the creates as they
are and match the updates again; `ApplyAgain` is a client that posts its lists twice.
`ApplyTemplate`, `TemplateBarbers` and `TemplateSchedules` are the three flushes of the
onboarding template. `Flush` waits (`MustWait`), fails (`FlushFails`: a row is gone, or
`uq_barber_schedule_slot`) or writes. The lists of an import and of the template are sets
of positions in the sheet or in the template, and a flush gives its new rows ids by an
injection into the unused ones (`Places`): the database draws them at random, so one
choice stands for all.

### Composition

`Conversation` ends where `ReplyDelivery` starts: its `outs` are the other's `rows`. They
share no other state, so they are checked one by one. `Appointments` takes the outcome of
`BarberDay`'s rows as the constant `Open` and restates `plan_booking` over it
(`Plannable`): the calendar rows do not change during its behaviours, because nothing in
the code relates a booking to a later edit of them. The settings, provider, account and catalog
modules share no row with each other: the onboarding template is one transaction over the
catalog and the settings, of which each module has its part, and the two parts read
nothing of each other.

## 3. Runs

| run | what it asks | instance |
|---|---|---|
| `appointments_serial` | One request at a time: do the halves stay side by side (`HalvesAdjacent`), does a cancel take both (`CancelTakesBoth`), does the date column follow the start (`DateAgreesWithStart`), is every request one step of the calendar (`ImplementsCalendar`)? Yes, except for a reschedule addressed to a continuation row, which tears the pair and is left out (`MoveContinuation = FALSE`). | 1 worker, 3 rows, 2 days of 3 slots, ticking clock; bookings, cancels, reschedules of primaries, PATCHes of any row from any status to any other |
| `appointments_book_cancel` | Bookings and cancellations interleaved at every statement, with crashes, deadlocks and the sheet write-back: still atomic (`ImplementsCalendar`), the halves live together (`HalvesInSync`), and every request ends (`EveryRequestEnds`). Yes. | 2 workers, 3 rows, day 1 of 2 slots |
| `appointments_concurrent` | With reschedules too (of continuation rows as well), what survives every interleaving: `UniqueSlot`, `PairsBornWhole`, `CancelledIsFinal`. | 2 workers, 3 rows, day 1 of 3 slots |
| `barber_day` | Whatever rows are written, offered and accepted starts agree (`SingleSlotAgree`, `PairAgree`). Yes, outside the last half hour of the day. | 5 slots, at most 2 rows per table |
| `conversation` | One reply per logged message (`AnsweredOnce`), booked if and only if told (`BookedAsTold`), a hit alone in the conversation forgets nothing (`NothingForgotten`). Yes. | 2 processes, 2 messages, 3 hits, 1 crash, 1 outage, all deployments |
| `lock_not_exclusive` | *Violated.* The conversation lock excludes. | no fault at all |
| `reply_delivery` | `SentWasAccepted`, `SentOncePerHit`, `OneFlush`, `RepliesSettle`. Yes. | 2 processes, 3 hits, 2 threads, 2 retries, 1 fault |
| `tenant_settings` | A commit overwrites, beyond what it was asked, only what others committed since its first read (`PreservesOthers`), what a helper's route acknowledged is stored (`SavedIsStored`), drafts stay private (`DraftStaysPrivate`), refused requests leave nothing (`RefusedLeavesNothing`), a change gets its audit entry (`ChangesAudited`). Yes. | 2 requests of any route, no row or 10 documents |
| `settings_not_stored` | *Violated*, by the PUT of the identity mode. What a PUT answered with 200 is in the committed document. | the same |
| `provider_configs` | Never two active rows (`OneActive`), a switch that nobody overtook takes effect (`SwitchTakesEffect`), every request ends (`RequestsEnd`). Yes. | 2 requests of any route, at most 2 rows at the start and 3 in all |
| `accounts` | Links stay in the tenant (`LinkInTenant`), revoked tokens stay revoked (`RevokedStays`), barber roles keep a barber (`BarberRoleLinked`), answers tell what is stored (`AnsweredAsStored`). Yes, with the exceptions the properties name. | 2 requests, 2 users, 3 tokens, 3 tenants, 2 barbers |
| `catalog_import` | An import does what its preview told and nothing else (`ImportSettles`), a template adds what is missing by code, by barber's name and by weekday (`TemplateOnlyAdds`), no two schedules of a barber start together (in `TypeOK`). Yes. | 2 requests, 5 sheets, 7 catalogs, 5 rows |

### Why the bounds are enough

* Two workers are the smallest number that interleaves. A third adds cycles of three
  waits, but every wait is on one transaction and the deadlock rule names no number. The
  uniqueness of slots, where more workers might matter, is proved for any number.
* Three ids hold a pair and a rival, or a booking, its cancelled predecessor and a rival:
  the shortest histories of every hazard listed. Days of two to four slots let a pair fit,
  overlap by one half, move by one slot onto itself and run over midnight; a second day
  lets the date change. Where a run opens only the day after the clock's
  (`FutureOpen`), the rule about past starts is left to the serial run. Its PATCHes range
  over pending, cancelled and completed (`KindsOfStatus`); no statement treats confirmed
  or no_show unlike pending.
* Five slots and two rows per table give `BarberDay` adjacent, overlapping and inverted
  ranges and absences with an open end; the two agreement properties are proved for every
  grid, every row and every service.
* Three hits are a message, its retry and another message, in any order and overlapping.
  One fault of any kind is placed anywhere. `LockAttempts = 2` (3 in the
  code) has a first and a last attempt; `SendRetries = 2` is the code's value. In `reply_delivery` two
  threads are what lets two tasks overtake each other; a third would need a fourth hit.
* In the four modules of the admin side a request runs at most once, and two of them are
  the smallest number that overlap; each checks its hazards between one request and *any*
  other route. One field of each settings group, one barber per shop and a third
  tenant that does not exist yet are enough for every guard to go either way. The sheets
  of `catalog_import` are one row, two, one thing twice, faulty rows and rows of two
  barbers; the catalogs have nothing, one row, two barbers, and two rows of one name.
* `SYMMETRY` is used only in runs without liveness, over sets whose members the module
  treats alike (`Ids`, `Workers`, `Procs`), which no initial state or expression
  distinguishes.

`CHECK_DEADLOCK FALSE` stands where the bounds on hits, rows or the clock let the system
run out of things to do.

### Fairness

`EveryRequestEnds`, `RequestsEnd` and `ChangesAudited` need it. `FairSpec` has strong fairness on `Step(w)`: a worker is
a thread that the operating system runs, and a statement that waits for a lock stands in
PostgreSQL's lock queue, so one that becomes possible again and again is executed.
`DeadlockAbort` is weakly fair: the detector runs after `deadlock_timeout` as long as the
cycle stands. New requests, crashes and the clock are not fair. In
`ProviderConfigs` and `TenantSettings` weak fairness of a request's own statements is
enough: a handler runs on to its end unless its process dies, and with two requests a
statement that waits stays enabled once the other has ended. No new request has to come.
`RepliesSettle` avoids fairness by speaking of states with nothing in progress.

## 4. Proofs

`Appointments_proofs`, `BarberDay_proofs`, `Conversation_proofs`, `ReplyDelivery_proofs`,
`TenantSettings_proofs`, `ProviderConfigs_proofs`, `Accounts_proofs` and
`CatalogImport_proofs` are checked by TLAPS for every value of the constants that
satisfies the modules' named assumptions: the shapes of the constants, and
`NoneAssumption`, `ProvidersAssumption` and their like, which say that the markers for "no
value" are none of the values.

### Appointments

* **`TypeCorrect`** (`Spec => []TypeOK`). `TypeOK` alone is not inductive: a transaction
  that stands at an insert or at an update must know rows that exist and a key in range.
  `TypeInv` adds what each value of `pc` says of `call` (a pair fits before midnight, the
  target is a start of the grid).
* **`UniqueSlotAlways`** (`Spec => []UniqueSlot`). That the committed rows have distinct
  keys does not follow from itself: a commit publishes a whole transaction at once. The
  inductive invariant `SlotInv` adds `WritesApart`: two transactions never have
  uncommitted writes of one row, nor of one key. Lemma `FlushKeepsSlots` shows that a
  flush which is neither blocked nor refused keeps both; `DropKeepsSlots` does so for rollback and crash; lemma
  `Effects` reduces each action to "flushes a row", "drops its writes", "commits its
  writes" or "touches neither", so the case analysis over the actions is done once.
* **`BornWhole`** and **`CancelledStays`** (`Spec => []PairsBornWhole`,
  `Spec => CancelledIsFinal`). Both speak of a commit, so the invariant `HistInv` says what
  a transaction holds before it: an uncommitted row is one of the request's own two, keeps
  the marks of the committed row it changes (`Same`), and is not live where that row is
  cancelled unless by a PATCH of it (`Past`); a booking that is ready to commit has written
  its continuation (`StageFits`); the ids still to be inserted are nobody else's
  (`Reserved`, from `Fresh`). `WritesApart` of `UniqueSlotAlways` is what keeps `Past` true
  while others commit: the row an UPDATE was computed from cannot change under it.
* **`HalvesStayAdjacent`**, **`CancelsTakeBoth`**, **`DatesAgree`** and
  **`CalendarImplemented`** (`HalvesAdjacent`, `CancelTakesBoth`, `DateAgreesWithStart`,
  `ImplementsCalendar`). They have a hypothesis, `Orderly`: the requests are bookings,
  cancels and PATCHes in any interleaving, or all four, one request after the other, when no
  reschedule is addressed to a continuation. `CancelsTakeBoth` asks in addition
  (`CancelSeesAll`) that no PATCH overlaps a cancel: one that revives a half between the
  cancel's look-up and its commit leaves that half live. Without `Orderly` the properties
  are false of the code (section 5). The inductive invariant `HalvesInv` is `Whole(db)`, the
  shape of a committed table (the two rows of a pair are a primary and the continuation in
  the slot after it, whatever their statuses, and a continuation has a primary), and
  `Working`, per worker, which part of its change a transaction has made when it stands at
  each statement (a move that is ready to commit sees the table with each half shifted to
  its new start). `OtherHalfIsNext` says that the row which a look-up by barber, date and
  the next start finds is the other half, which is where the unique slots (`SlotInv`) are
  needed. A commit leads from one whole table to another, and is a `Book`, a `Cancel`, a
  `Move` or a stutter of `BookingCalendar` (`BookMaps`, `CancelMaps`, `MoveMaps`,
  `PatchMaps`: a PATCH out of cancelled is a `Book` that fits). Every other step leaves
  `ActiveBookings` as it is (`OnlyCommits`).
* **`HalvesStayInSync`** (`Spec => []HalvesInSync`), when the requests are bookings and
  cancels, in any interleaving. `SyncInv` adds to the shape that a committed continuation
  is cancelled exactly when its primary is; `SyncKept` shows that a commit keeps it, as a
  booking writes both rows live and a cancel both cancelled.
* **`NeverDoubleBooked`**: `Spec => []NoOverlap` of the table's own live bookings, the second
  half hours of the pairs included, under `Orderly`. It puts `CalendarImplemented` together
  with lemma `CalendarNeverOverlaps` about the abstract calendar. Interleaved reschedules
  are outside it; what holds of them is `UniqueSlotAlways`, `BornWhole` and
  `CancelledStays`.

### BarberDay

* **`OffersAgree`** and **`PairOffersAgree`** (`Spec => []SingleSlotAgree`,
  `Spec => []PairAgree`). `TypeOK` is inductive; the agreement of the two scans is a
  consequence of it in every state, by the shape of half-hour slots inside ranges.

### Conversation

* **`IntakeTypes`** (`Spec => []TypeOK`), with what a transaction still holds at each
  statement: once the intake service has returned or raised it holds no write.
* **`AnsweredOnceAlways`** and **`BookedAsToldAlways`** (`Spec => []AnsweredOnce`,
  `Spec => []BookedAsTold`). Message, reply and appointment become visible in one commit,
  so the invariant (`OneInsert`) says that a transaction holds an uncommitted message
  exactly while it stands at `advance`, that this message is not committed yet, and that no
  two hold the same one: the unique index on the message id makes the second insert wait,
  and lose.
* **`NothingForgottenAlways`** (`Spec => NothingForgotten`). The context that a hit writes
  back was loaded several statements earlier; the invariant `AloneInv` says that while a hit
  has been alone in the intake, no other worker is in it, and the committed context is
  within what it loaded, unless it is about to reset the session (`Undisturbed`).

### ReplyDelivery

* **`DeliveryTypes`** (`Spec => []TypeOK`). The counters are bounded by `Counted`: jobs and
  hits in progress together are at most the hits, replies asked for and about to be asked
  for likewise; `QueuesFit` bounds the queues.
* **`SentWasAcceptedAlways`** (`Spec => []SentWasAccepted`). Inductive with `Accepted`: a
  task that holds the result "sent" has a confirmation of the provider behind it.
* **`OneFlushAlways`** (`Spec => []OneFlush`). Inductive with `Scheduled`: without faults
  every flush task is the one which the schedule key in Redis names.
* **`SentOncePerHitAlways`** (`Spec => []SentOncePerHit`), by a credit argument: `Budget`
  sets, for each reply, what was confirmed and what may still be (hits that hand it over,
  tasks that carry it, pending entries, flushes no key names) against what was asked for
  and the faults, and no step raises the sum by more than it raises those.
* **`RepliesSettleAlways`** (`Spec => []RepliesSettle`). Inductive with `Settling`: without
  coalescing and faults a row in "processing" has a `Cleaner`: a hit about to queue its
  delivery, or a delivery that has yet to read the row or has read it so.

### TenantSettings, ProviderConfigs, Accounts

* **`TypesAlways`**, **`NothingLeft`** and **`DraftsPrivate`** (`TenantSettings`:
  `Spec => []TypeOK`, `[]RefusedLeavesNothing`, `[]DraftStaysPrivate`). The committed
  document alone says too little, as the next one is being made in some request's memory.
  `Inv` adds the documents of the requests in progress: they are `Sound` (a draft names
  only fields of its section), none but a request's own names it before its commit
  (`Unseen`), and a draft's value is live in one only if it was published or if that
  request is about to publish it (`Private`). Lemmas `UpdateDerived`, `TemplateDerived`,
  `SaveDerived`, `PublishDerived` and `DiscardDerived` give each route's document one
  shape, `Derived`; `BeginKeeps` then treats the fourteen routes at once.
* **`OthersPreserved`** (`TenantSettings`: `Spec => PreservesOthers`). A commit stores a
  document made some statements earlier; `Loyal` says that the document of a request in
  progress differs from the one it first read only in what it was asked to change (`Keeps`).
  What it overwrites beyond that is what others committed since, whichever document its
  second read found.
* **`SavedAlways`** (`TenantSettings`: `Spec => SavedIsStored`). `Pending` says that what a
  request of a helper's route was asked stands in the document it will assign (`Asks`), and
  that neither of its reads found it in the table: so the assigned document differs from the
  second read, and the ORM sends the UPDATE.
* **`OneActiveAlways`** (`ProviderConfigs`: `Spec => []OneActive`). Inductive with `Apart`:
  two requests never have the same row written, and never both an active row that is not
  committed. A statement that succeeds has waited for the row's lock and, if it activates,
  for every rival entry of the partial index (`SetsKeeps`); a commit shows the others what
  they can only see beside their own writes (`CommitKeeps`). What a session loads or
  intends (`held`, `was`, `now`) plays no part: `Quiet` covers those steps.
* **`TypesOfConfigs`** and **`SwitchesTakeEffect`** (`ProviderConfigs`: `Spec => []TypeOK`,
  `Spec => SwitchTakesEffect`). A flush sends an UPDATE only for what differs from the row
  as loaded, so "the target is on" has to be carried from the load to the commit.
  `Switches` says that at the last flush the target is meant to be on, and either was found
  on or has its UPDATE still in the list; `Believes`, that what a request which none
  overtook takes for active is active in its own view. `OneActiveAlways` makes it the
  only one. `OpFits` says which request may stand where.
* **`TypesHold`** and **`RevocationHolds`** (`Accounts`: `Spec => []TypeOK`,
  `Spec => RevokedStays`). That a revocation stays does not follow from the types: a
  request that read the token before the logout writes the row after it. The inductive
  invariant `Inv` says what a session may hold at each stage (`Fits`): a row it wrote is of
  the kind of its key, its token's user exists, and if the token is revoked by now, the row
  to be committed is revoked too. `Apart` says that two requests never have the same row
  written. `MergedToken` is the heart: an UPDATE of the changed columns alone keeps a
  revocation made in between; the wait for the row lock, in `Apart`, closes the other gap.
* **`LinksInTenant`**, **`BarberRoleStaysLinked`** and **`AnswersAreStored`** (`Accounts`:
  `Spec => LinkInTenant`, `Spec => BarberRoleLinked`, `Spec => AnsweredAsStored`). All three
  compare a commit with what the request read at its start. `Followed` ties a session's
  written row to that reading: it is of the row's tenant, its role and link are those the
  route computed, and as long as none overtook the request the row it read is the committed
  one.

### CatalogImport

* **`TypesOfCatalog`** (`Spec => []TypeOK`). A request writes rows that nobody else sees
  before its commit, so `Sound` of the committed catalog does not follow from itself. The
  inductive invariant `Inv` adds, per request, `Fits` (what it holds at each stage,
  `Staged`; what its rows, inserts, changes and looked-up barbers stand on, `Grounded`; that
  a template's barber is there or about to be inserted, `KnowsBarbers`) and `Free` (what it sees
  has no two rows of one slot), and between any two requests `Apart`: they never write one
  row nor one slot. `FlushApart` is where the waits of `MustWait` are needed, and
  `CommitOthers` where `Apart` is: a commit changes what every other request sees.
* **`TemplateAddsOnly`** (`Spec => TemplateOnlyAdds`). `TemplateInv` says what a template
  has reached at each of its stages: it has written new rows only (`OnlyAdds`), and, as
  long as none overtook it, each kind it is through with is complete (`Covered`,
  `Scheduled`) and nothing it added has a twin (`NoTwins`). `Extends` describes a flush of
  inserts; `AdditionsFresh` and `AssignedFresh` show that what the template picks is not
  there yet and is picked once, which is what `Missing` must get right for the template's
  repeated code.
* **`ImportsSettle`** (`Spec => ImportSettles`). The invariant `ImportInv` remembers where the
  lists come from: a previewed request holds the classification of *this* catalog by some
  look-up (`Told`), at its flush also the changes computed by a second one (`Resent`), and
  at its commit `Settled` already holds of what it sees. Preview and apply may find
  different barbers under one name; lemma `Faultless` says that this changes no verdict,
  `NoMatchUnclaimed` that a row without a match claims nothing unless its name is
  ambiguous, and `OneClaims` that rows of a sheet that names nothing twice never claim one
  row. `FlushApplies` describes what the flush does to the catalog (`Applied`), and
  `AppliedSettles` derives the promise from that.

`Moves` lists what a step can do to one request, so that the case analyses of the last two
go over one list (`EachMoves`).

### Only model-checked

* `EveryRequestEnds`, `RequestsEnd` and `ChangesAudited`: liveness under fairness, which is
  out of the prover's reach.

Every invariant and every other action property of the passing runs is proved. Two
choices in the models keep induction over data out of the proofs: `ProviderConfigs` takes
an ordered list as any member of `InOrder` and not as the result of a sort, and the lists
of `CatalogImport` are sets of positions and not filtered sequences.

## 5. Findings

Two runs end in a behaviour of the code that contradicts its documentation.

1. `lock_not_exclusive`. A hit that the Redis lock refuses falls through to the table
   lock, which its rival does not hold.
2. `settings_not_stored`. `update_identity_settings` (`S1/identity_settings.py:66`) keeps
   the row it loaded in a local, `dict(settings.config)` copies one level, and the booking
   section is changed in place. `upsert_settings` gets the same instance, the ORM finds the
   assigned document equal to the loaded one and sends no UPDATE when the section was there
   already; the answer tells of the new mode all the same. `tests/api/test_identity_settings.py:122`
   knows the mechanism ("identity-map weak-ref + shared-inner-dict bug") and resets the row
   around it. The settings part of the onboarding template (`S1/templates.py:344`) behaves
   the same; the other routes load the row in a helper and do store their change
   (`SavedIsStored`).

Further behaviours of the code that the models contain and that a reader of the
properties should know; each is why a property is worded as it is.

* The planner ignores cancelled rows and the unique constraint counts them: a slot that
  was booked and cancelled can never be booked again, although `manage_service.py:106`
  says cancelling leaves it free (`KeyTaken`, `Plannable`).
* `cancel` looks for the other half where it loaded the booking; after a concurrent
  reschedule it finds nothing and one half stays live, and two cancels that name different
  halves lock them in opposite order. `CancelTakesBoth` is checked with one request at a
  time for the first reason; the second ends in `DeadlockAbort` (`EveryRequestEnds`).
* The status route changes the row it names and no other. A PATCH of the primary of a pair
  to cancelled, with no other request about, leaves the second half live (and back again):
  that the halves are live *together* is stated for bookings and cancels only
  (`HalvesInSync`), that they are side by side for PATCHes too (`HalvesAdjacent`).
* A reschedule addressed to a continuation moves that row as if it were a booking of its
  own and tears the pair, with no other request about (`MoveContinuation`). So does a
  reschedule that overlaps another or a cancel.
* `compute_available_slots` checks absences at the start slot only (`PairAgree`).
* `expires_at` is a `timestamptz` column compared with a naive clock: on PostgreSQL the
  second hit of a customer without Redis raises (`Raise`).
* A reply queued while a flush is sending is deleted by that flush (`FlushDelete`).
* A switch of provider configurations that loads its target while it is active, and is
  overtaken by a request that deactivates it, sends nothing for it: the kind ends with no
  active row. Hence "unless another committed in between" in `SwitchTakesEffect`.
* `create_tenant_user` for an e-mail that another tenant registered returns that tenant's
  user, and the route changes its role and its barber. `LinkInTenant` names it.
* PUT barber-link may leave a user of role barber without a barber (`BarberRoleLinked`).
* The lists of an import are not checked against what was created since the preview: a
  second apply creates services and barbers again; a second service with the code `OTHER`
  of a template is skipped; one invalid row that the response model cannot show makes the
  whole preview fail.
* `update_identity_settings` writes no audit entry; the import of an export
  (`S1/export_import.py`) raises before it commits anything.

## 6. What the models leave out

* **Appointments.** Starts off the half-hour grid. A moving UPDATE takes its row lock
  before it waits for the key; in the model it takes both together, so the wait that a
  third writer of that row would see begins later. No property of both halves is stated of
  a reschedule addressed to a continuation, of reschedules that overlap another request, nor
  of statuses once a PATCH names one half (section 5); a cancel that overlaps a PATCH of the
  other half is outside `CancelTakesBoth`. On PostgreSQL, cancelling an appointment of the current
  day compares an aware with a naive time and raises; `AwareTimestamps` selects that
  behaviour or SQLite's. SQLite locks the whole database, which is coarser than the row waits
  here. Two concurrent reschedules of one appointment can leave a date and a start on
  different days, and a process that dies between the sheet append and its commit leaves
  a row in the sheet for a booking that does not exist: both are in the model's
  behaviours and listed under the hazards, and no property is stated of them.
* **BarberDay.** Several barbers and dates: the rows of each are independent.
* **Conversation.** The states of the conversation (menus, slots offered), the text
  filters, the signature check and bot-enabled check before the hit. A Redis outage is a
  bounded number of failed commands.
* **ReplyDelivery.** What is in a reply. The admin pages that list failed rows.
* **TenantSettings.** The values inside a section: keys that a route sets together are one
  field. `get_bot_enabled` and `is_barber_active` have no caller in the program.
* **ProviderConfigs.** Credentials, settings and labels are one flag (changed or not); one
  kind of one tenant, as no statement names two. The audit entries of the sheets routes.
* **Accounts.** Passwords and their hashes, the superadmins' own accounts, expiry of tokens
  other than by logout.
* **CatalogImport.** The text of a sheet (it is the rows that parsing yields), more than one
  weekday, and deadlocks between two flushes of several rows.
* **Not modelled at all**: classifier and prompts (a choice among outcomes), schemas,
  read-only views (agenda of a barber, overview, audit log), the admin interface,
  migrations and seeds: no state a property could be about.

## 7. Plan

Done: `BookingCalendar`, `Appointments`, `BarberDay`, `Conversation`, `ReplyDelivery`,
`TenantSettings`, `ProviderConfigs`, `Accounts`, `CatalogImport`.

Left to model, in order:

1. The superadmins' own accounts. The operating mode's reader and writer, when a switch of
   configurations is committed between two uses of them in one request.
2. Compositions: `Appointments` with the rows of `BarberDay` in place of `Open`;
   `Conversation` with `ReplyDelivery` through the shared outgoing rows.

Left to prove: the liveness properties, should the prover come to support them, and a form
of the pair properties of `Appointments` that tells, beyond `Orderly`, what a reschedule
that races a cancel can still not break.
