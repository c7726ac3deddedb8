# Pass Culture API: specifications and proofs

TLA+ models of the Pass Culture back end (`src/src/pcapi`, Python, Flask, SQLAlchemy,
PostgreSQL, Redis), the TLC runs that check them on small instances, and TLAPS proofs for
every size of the system. Paths below are relative to `src/src/pcapi`.

Young people receive a deposit and book places on stocks of offers; offerers create the
stocks, validate (use) the bookings at the desk and are paid for them; the back office
reviews offers and repairs bookings; providers fill stocks; a search index follows. All of
that happens in web workers and jobs that share nothing but the database and Redis, so what
matters is what concurrent transactions do to each other, and what is left when one stops
half way.

## 1. Inventory

| Component | State | Operations | Hard behaviour | What makes it correct | Where |
|---|---|---|---|---|---|
| Bookings (`core/bookings`) | table `booking` (cancelled, used, confirmation date, code), triggers `check_stock`, `check_booking` | book, cancel (beneficiary, offerer, fraud, suspension), use, unuse, uncancel, re-date | every operation is load, check, lock, write, commit, with the copies loaded before the lock | not overbooked, counters exact, what is paid is left alone | `Bookings`, `BoxOffice` |
| Stocks (`core/offers`) | table `stock` (quantity, `dnBookedQuantity`, soft deletion), activation codes | upsert stocks, delete stock, reject offer | a commit, then the bookings one stock at a time | withdrawn stocks are emptied, a code is given once | `Bookings`, `BoxOffice` |
| Offers (`core/offers`, `admin/custom_views/offer_view.py`) | table `offer` (validation, active) | create, publish, score, review, switch, update, purge | no row of an offer is ever locked | only approved offers are visible, decisions stand, drafts go | `Offers` |
| Transactions (`repository`, `models/db.py`) | row locks, sessions | lock, flush, commit, rollback, lock timeout | deadlocks, timeouts | every request ends | in each module |
| Booking jobs (`scripts/booking`, `scripts/update_booking_used.py`) | batches of ids and stocks read up front | expire, auto-use, recompute counters | snapshots without lock, batches | everything old is finished in the end | `BookingJobs` |
| Payments (`scripts/payment`, `core/payments`, `domain/payments.py`, `domain/reimbursement.py`) | tables `payment`, `payment_status`, messages | generate, send, retry, ban, mark as sent | commit per venue, statuses at the end, a batch run twice | a booking is paid once, at the right rate, and its payment is settled | `Payments`, `Reimbursement` |
| Beneficiaries (`core/users`, `scripts/beneficiary`, `use_cases`, `domain/beneficiary_pre_subscription`) | tables `user`, `deposit`, `token`, `beneficiary_import`, two Redis counters | validate phone, Jouve, DMS import, profile, activate | read-then-write with and without the lock, two unique keys, repeated results | one deposit, every step done, nobody forgotten, counters bounded | `Beneficiaries` |
| Indexing (`algolia`, `scripts/algolia_indexing`, `connectors/redis.py`) | three Redis lists of identifiers, a hashmap, the index | queue, pop, index, retry, expire | crash after pop, overlapping jobs, chunk bounds, a window of two nights | nothing stale is forgotten | `Indexing` |
| Providers (`core/providers`, `local_providers/provider_api`) | `venue_provider.lastSyncDate`, stocks | synchronise by page, post, connect | quantities from counts read earlier | no change missed, no more offered than there is | `Providers` |
| Allocine (`local_providers`) | stocks of showings, `fieldsUpdated`, the price rule | synchronise by chunk, edit, delete | objects of a session written back later, chunks | editions and deletions stand, everything announced is on sale | `Allocine` |
| Offerers, venues, other forms (`core/offerers`, `admin`) | status columns | forms | single transactions | thresholds | not modelled |
| Connectors, e-mails, push, storage | none | calls to other services after the commit | failures are caught | none that concerns shared state | not modelled (I/O) |
| Workers, clock, Cloud Tasks | none of their own | start the jobs | overlap of jobs | see the jobs | not modelled |
| Routes, serialisation | none | parse, authenticate, format | loads before the checks | see the operations | the loads of routes are in the modules |
| Schema, fixtures, migrations, one-off scripts | - | - | - | - | not modelled (generated or run once) |

The components interact through the database: a route loads rows into its session, calls a
core function, which may lock a row (`SELECT ... FOR UPDATE`), writes and commits; PostgreSQL
runs the triggers at each flush. Jobs started by the clock do the same on many rows at once.
Providers write the stocks that bookings count on; payments make bookings final; the
rejection of an offer cancels bookings; everything that changes an offer tells the search index
through Redis lists after the commit.

## 2. Modules

| Module | Content |
|---|---|
| `Bookings` | requests on stocks and bookings, the triggers, locks, time |
| `BookingsProofs`, `BookingsPromises` | theorems about `Bookings` and `BookingJobs`, and that `Bookings` implements `BoxOffice` |
| `BoxOffice` | the abstract promise of the stocks, implemented by `Bookings` |
| `BookingJobs` (extends `Bookings`) | expiry in batches, the recount, the nightly automatic use |
| `Reimbursement` | pure: the rate at which a booking is paid |
| `Payments` (extends `Reimbursement`) | batches, statuses, messages, bans |
| `Beneficiaries` | phone validation, applications, activation |
| `Indexing` | Redis lists, jobs, Algolia |
| `Providers` | synchronised and posted stocks beside bookings |
| `Offers` | drafts, verdicts, reviews, switches, purge |
| `Allocine` | `LocalProvider` on showings beside partners and bookings |
| `OffersProofs`, `PaymentsProofs`, `IndexingProofs`, `BeneficiariesProofs`, `ProvidersProofs`, `AllocineProofs` | theorems about these modules (and `Reimbursement`) |
| `MC...` | the values TLC gives the constants, and symmetries |

## 3. The models and the code

Conventions. A step of a model is what happens between two moments at which another
process can interfere: a load, a wait for a lock, a flush, a commit. `job` (`run`, `sync`)
says what a process is doing and what it has loaded. Variables that no code has are
history: they name the objects that a known race or failure has touched, so that a property can
exempt exactly these (each is listed below, with what it exempts). Formatting, logging,
e-mails and amounts that no property tells apart are left out.

### `Bookings`

**State.** `booking` and `stock` are the committed rows; `payment[b]` says whether the payment
batch has found booking `b` (`found`) and committed a row of `payment` for it (`paid`); `lock[s]` the transaction that holds `FOR UPDATE` on stock `s`; `job[p]` what
request `p` is doing: its step and what it has loaded (`row`), reserved (`booking`), found
(`targets`), or has still to do (`queue`).

| Action | Code |
|---|---|
| `BookLock`, `BookCheck`, `BookFlush`, `BookCommit` | `book_offer`: lock, the checks of `validation.py` in their order and the activation code, the flush with both triggers, the commit |
| `CancelRequest`, `CancelLock`, `CancelWrite` | the callers' checks on the loaded copy; `_cancel_booking`: lock and refresh, then counter, flag, commit |
| `DeleteStock`, `RejectOffer`, `PurgeLock`, `PurgeWrite` | `delete_stock`, the REJECTED branch of the back office and `_cancel_bookings_from_stock`, one stock at a time |
| `UseLoad`, `UseWrite` | the checks (`has_payment` is one) and the commit of `mark_as_used` (no lock, no refresh) |
| `UncancelLoad`, `UncancelFlush`, `UncancelCommit` | `mark_as_used(uncancel=True)`: the query of the lock autoflushes the row first, then counter, check, commit |
| `UnuseLoad`, `UnuseWrite` | the checks and the commit of `mark_as_unused` |
| `EditLoad`, `EditWrite`, `EditRedate`, `EditUnuse`, `EditCommit` | `_edit_stock` with its check against the loaded counter, the save of `upsert_stocks`, then `update_confirmation_dates` and `_invalidate_bookings`, check and commit booking after booking |
| `FindPayable`, `PaymentsCreated`, `PaymentsLost` | `generate_new_payments` for one venue: the query of the eligible bookings, then, without looking at them again, the commit of their payments, unless it is killed |
| `OfferChanges`, `ConfirmationDatePasses`, `EventProgresses` | what the activation of offers and the clock change under the requests |
| `LockTimeout`, `Crash`, `Deadlock` | `DATABASE_LOCK_TIMEOUT`, a killed worker, PostgreSQL's deadlock detector: the transaction is rolled back |

**PostgreSQL** is modelled from how the code uses it (READ COMMITTED): a statement sees
committed rows and its own; an UPDATE writes the columns that SQLAlchemy found changed
(`Written`); a flushed row is locked until the end (`Writable`); a trigger sees the rows as
they are at the flush (`FitsIn`, `Affordable`). `GiveUp` is the rollback.

**Abstractions.** Dates are reduced to what the checks ask: `confirmed` for "confirmationDate
has passed", `phase` for "before, after, 48 hours after beginningDatetime". `OfferOf`, `Duo`,
`Events` and `CodesOf` are constants, because no modelled operation changes them. The caps of
`conf.py` are `Cap` and `DomainOf`; deposits do not expire; the reason of a cancellation, the
custom reimbursement rule and what providers forbid to edit are left out. The batch may find any
booking that is used, not cancelled and not paid: nothing is assumed of its cutoff date, and requests
may hold, unuse or cancel what it has found. `has_payment` is asked where the code asks it, before the
write; in `UncancelCommit` alone the question and the commit are one step, because a payment that
falls between them leaves the same rows as one that follows the commit: the row of the booking is locked meanwhile. `check_booking` on a
cancellation or a use tests nothing that those can break, and is evaluated where it can
refuse: at the flush of a booking and of an uncancellation. Bounds: `BookingIds` (rows of
the table), `Requests` (at one time), both constants; nothing else is cut off.

**`BoxOffice`** is what the whole promises: places of a stock are sold, taken back and sold
again in single steps, never beyond the capacity, never to newcomers on a deleted stock, and the
counter moves with them. `ImplementsBoxOffice` (end of `Bookings`) maps capacity to
`quantity`, the places sold to those of the committed bookings that are not cancelled, the counter to
`dnBookedQuantity`; every step of every request is then one step of the box office or none. It
holds with one administrator at a time.

### `BookingJobs`

The clock's jobs, beside any workload of `Bookings` (`RequestStep` is `Next` of `Bookings`).
`expiry` is what `cancel_expired_bookings` is doing: the batch of identifiers its query
returned, the stocks of the first batch, and the counts that the `WITH` part of
`recompute_dnBookedQuantity` has read. `StartExpiry`, `ExpireBatch`, `FetchNextBatch`,
`Recount`, `WriteCounts` are its statements in order; `ExpiryFails` is an exception caught in
`handle_expired_bookings`. The UPDATE of a batch is one step, which waits for the rows that a
request has flushed. `nightly` is the list `update_booking_used_after_stock_occurrence` has
loaded; its bookings are saved one by one (`HandleBooking`), or fail (`SkipBooking`).
`GetsOld` stands for the 30 days of a booking, which pass at midnight, while the job runs at
five. Identifiers are integers here, for `ORDER BY`, `LIMIT` and `id <= max_id`.
`recompute_dnBookedQuantity` is two steps because PostgreSQL evaluates the `WITH` query on the
snapshot of the statement and does not repeat it when the UPDATE has waited for a row.

### `Reimbursement` and `Payments`

`Reimbursement` has the regular rules of `domain/reimbursement.py` and the choice among those
that are relevant; the euro caps are constants. In `Payments`, `payment` is the table by
increasing identifier, with the latest row of `payment_status` as `status` and its `transactionLabel`
as `label`; `run` is the command an operator is running. A label is a fortnight: that of the moment at which
the payment is made, kept when it is retried in a later batch. `CreatePayments` gives each new payment the last
label or the next, so a fortnight may end within a venue, and payments of two labels share a range of identifiers.

| Action | Code |
|---|---|
| `StartBatch`, `LoadVenue`, `CreatePayments`, `VenuesDone` | `get_venues_to_reimburse`, then the loop of `generate_new_payments` with one commit per venue |
| `MarkPending`, `MarkUnpayable` | its two `bulk_create_payment_statuses` |
| `RetryWithBank`, `IncludeRetries` | `set_not_processable_payments_with_bank_information_to_retry`, `include_error_and_retry_payments_in_batch` |
| `RunAgain` | `generate_and_send_payments` called with the date of an earlier batch |
| `MakeFile`, `LinkMessage`, `MailSent`, `MailFailed`, `SetFinalStatus` | `send_transactions`: the file and its validation, the message, the mail, the final status, each evaluating the query of payments again |
| `BanPayments`, `StartMarking`, `MarkAsSent` | `do_ban_payments`, `mark_payments_as_sent`: of the payments of one transaction label, those that have been under review, by ranges of identifiers between the first and the last of the label |
| `Use`, `Unuse`, `BankInformationAccepted` | the desk and the bank information, at any time |
| `Kill` | the command is killed between two commits |

Assumed: an operator runs the commands one at a time; status dates are strictly ordered; the
missing settings, the reports and their e-mails change no state. `Dates`, `Messages`, `MaxKills` bound
the exploration. Not claimed: a batch killed between the mail and the status sends the
same payments again; a ban in a message that was banned before puts the earlier banned payments
back to be retried; a payment killed before its first status is never sent
(`PaymentsSettle` is about those that have one, and says that again and again a moment comes
at which all of them are sent or banned; `EveryPaymentHasAStatus`, section 4).

### `Beneficiaries`

`user` has the columns the steps look at; `lock` the process that holds an uncommitted UPDATE or
`FOR UPDATE` of a user; `job` requests, workers of Jouve's notifications, and `Batch`, the
import of DMS.

| Action | Code |
|---|---|
| `ChangePhone`, `ChangeFlush`, `ChangeCommit`, `SendCheck`, `SaveCode`, `CountSms` | `change_user_phone_number`, `send_phone_validation_code`, the SMS counter |
| `ValidatePhone`, `CountAttempt`, `UseToken`, `SaveValidation` | `validate_phone_number` and its counter of attempts |
| `JouveResult`, `JouveSave` | `CreateBeneficiaryFromApplication.execute` and `BeneficiarySQLRepository.save` |
| `StartBatch`, `NextApplication`, `DmsSave`, `DmsImport`, `EndBatch`, `DecideDuplicate` | `remote_import.run` and the back office's decision on duplicates |
| `SubmitProfile`, `CompleteIdCheck`, `CreateAccount`, `ValidateEmail` | the account routes |
| `CheckSteps`, `LockUser`, `Activate`, `Credit` | `steps_to_become_beneficiary`, `check_and_activate_beneficiary`, `activate_beneficiary`, `create_deposit` |
| `Deadlock`, `Expire` | PostgreSQL's detector; the times to live of tokens and Redis keys |

`Activate` is where it is decided that there is one deposit: `activate_beneficiary` sets
`isBeneficiary`, and the query by which `create_deposit` counts deposits autoflushes that UPDATE,
so the row is locked before the count although phone validation and the import never ask for
`FOR UPDATE`. What a fraud check or an application says is free.

The unique key of the imports, `(applicationId, sourceId, source)`, does not bind Jouve, whose `sourceId` is
NULL: an application that comes back is rejected or saved once more, in a row of its own, whatever became of it before, and one that
was rejected may be registered later. `import[a]` keeps `CREATED` once there is such a row (`Rejected`), which is what
`get_beneficiary_import_for_beneficiary` looks for. `JouveSave` fails only on the unique keys of `user`.

Not claimed, because the code does not do it: a worker killed between the commit of a validated phone and the
activation leaves the account for nobody to activate; `has_completed_id_check` after the last step
does not activate; two accounts may validate one phone number, or belong to one person, at
once; a number changed during a validation is validated without its own code.

### `Indexing`

`offer_ids`, `venue_ids`, `in_error` are the Redis lists, `indexed` the hashmap of what
was added, `index` Algolia (a document is the address of its venue). Requests commit a change and then
push (`ChangeOffer`, `ChangeVenue`, `Push`); `PopOfferIds` / `EndOfferIds`, `GetVenueIds` /
`NextVenue` / `DeleteVenueIds`, `GetOfferIdsInError` / `DeleteOfferIdsInError` and
`GetExpiredOffers` / `EndExpired` are the four jobs around the steps they share:
`ReadOffers`, `AddObjects`, `ExecutePipeline`, `DeleteObjects`, `DeleteIndexedOffers`.
`AddingFails`, `DeletingFails`, `Crash` and the failing branches of `Push` and `ReadOffers` are the
exceptions. `LrangeTo` and `Ltrim` have Redis's bounds.

`nights[o]` is for how many nights more `get_expired_offers` returns offer `o`: `Window`, two, once its last booking
limit has passed, one less with each night, on which the job runs (`GetExpiredOffers`), or does not run (`MissNight`). `check_offer_exists` may
answer no for a failure of Redis. What fails on the last night is in the index for ever.

History: `accident` has the offers in the hands of a killed or failing job (`Abandoned`), trimmed unread, or missed on
their last night, which are lost indeed: the properties exempt them, so they say what else is not lost, and do not cover
these losses. `raced` has those that two jobs had at once. `MaxChanges` and `MaxFaults` (missed nights count) bound the exploration. Not
modelled: what operators run by hand to repair all that, the reindexing of everything and
`process_expired_offers --all` (`scripts/algolia_indexing/commands.py:53`).

### `Providers`

`FetchPage`, `ReadStocks`, `CommitStocks`, `ReindexOffers`, `EndSync` are `synchronize_venue_provider`
page after page, with `synchronize_stocks` in between; `Dequeue` starts the latter for what a
partner posted (`UpdateStocks`). `stock` has the offer and the stock of a reference, which one
commit creates; `raw` is what the provider said. `Book` and `Cancel` are the bookings of
`Bookings`, in one step each: what they do to a stock is what `BoxOffice` says. Left out: prices, the fields of offers, the validation of a
built offer (its failure is a `KeyError` at `core/providers/api.py:235` that aborts the venue every
day). History: `skipped` (seen but not taken: unknown products, what follows a page with
nothing valid, a failed worker), `raced` (two processes at once), `crossed` (booked between the
count and the commit), `base` (what was cancelled at the count). `MaxDate`, `MaxChanges`,
`MaxPosts`, `MaxBookings`, `MaxFaults` bound the exploration.

### `Offers`

`offer` has the two columns that decide whether an offer is visible. `UpsertStocks`, `SaveStocks`, `ReadDraft`,
`DecideOnCriteria` are `upsert_stocks`: the commit of the stocks, then the verdict.
`SelectOffers` / `UpdateActiveStatus` and `LoadOffer` / `UpdateOffer` are the switch and the
update; `LoadPending` / `Review` the list of pending offers; `OpenPage`, `SubmitPage`,
`CommitEdit`, `AfterEdit` the page of the back office, whose form holds the validation of the moment it was
opened. `Flushed` writes the columns that differ from those loaded, as SQLAlchemy does.
The score is any of `Verdicts`. History: `disputed` (two requests decided at once), `switched` (a
decision crossed a switch), `cut` (a request killed after a commit). `MaxEdits` and `MaxKills`
bound the exploration.

### `Allocine`

`LocalProvider.updateObjects` is a transaction per chunk. `LoadShowing` loads an existing
stock into the session, `FlushUpdate` flushes it (with the trigger) at the next query, and keeps
its row locked until `SaveChunk`: `InsertChunk` commits and expires the objects; a chunk with
nothing to insert is `UpdateChunk`, which writes every column of the loaded objects
back. The price rule is read for the first stock that needs it after each commit, which has expired it (`RuleFor`).
`LogError` is `log_provider_event`, which commits; `programme` has the showings of the movies that can be read, since the others are
dropped. `EditLoad` / `EditSave` / `EditRefused` are
`upsert_stocks` on such a stock; `Delete`, `Book`, `Cancel`, `ModifyPriceRule`, `Announce` the rest of the
world. Simplified: one cinema; the product and the offer of a showing are merged with
its stock; `bookingLimitDatetime` is treated like the two fields of the model; quantities are
limited; thumbs, events and `lastSyncDate` are not modelled; the order of Allocine's answer is free.
History: `saved` (what the partner last gave each field), `crossed` (the stocks that changed between their load and
their flush: the only ones that `UpdateChunk` may overwrite). Bounds: `MaxEdits`, `MaxFaults`, `Popular` (the
showings that are booked, edited or deleted), `MayEdit` (editions begin once the job of the
connection has ended), `MayChange` (a stock changes once between a load and its flush).

## 4. Runs

Each cfg gives values to the constants; the `MC` modules hold the functions among them and
the symmetries. `Bookings` is run with several workloads (`Endpoints`), so that each question has an
instance TLC exhausts in minutes. Users (with equal credit), bookings and codes are
interchangeable: `BookingSymmetry` is used in the safety runs of `Bookings`, `RequestSymmetry` in
`beneficiaries`, and none where there is liveness or where identifiers are ordered.

| Run | Instance | Question | Result |
|---|---|---|---|
| `desk` | 2 users, 1 stock of 1 or 2 places or unlimited, duo, 3 bookings, 2 requests (one administrator), kills and timeouts at each step | `JobsOK`, `NoOverbooking`, `CountersExact`, `NewBookingsAreLegal`, `ImplementsBoxOffice` under booking, cancelling, using, uncancelling and editing | holds |
| `withdraw` | 1 offer with 2 unlimited stocks, one of them with 2 activation codes and a cap of its own, rejected or deleted; 2 bookings | `WithdrawnStocksEmpty`, `ImplementsBoxOffice`, and `CodesGivenOnce` with cancelled and uncancelled bookings (codes are not activated automatically: a booking that is used at once is never cancelled) | holds |
| `event` | an event that is booked, used, unused, postponed, deleted, rejected and uncancelled, beside the payment batch; 2 bookings, 2 requests, both administrators, liveness | `PaidIsFinal`, `RequestsEnd` | holds |
| `unpaid` | 1 booking used and unused beside the payment batch | `PaidStaysUsed` | violated: see below |
| `jobs` | 2 stocks, a thing that expires and an event; 2 bookings in batches of one, 1 administrator, kills, timeouts, liveness | `PaidOutlastsJobs`, `OldBookingsExpire`, `EndedEventsAreUsed` | holds |
| `payments` | 2 bookings of a venue that reach the second cap, one of them returned and used again; 3 batch dates, 2 labels, 2 messages, 1 kill, ranges of two identifiers, an IBAN that is missing at first, then malformed or valid, liveness | `TypeOK`, `PaidOnce`, `ReviewedWereMailed`, `RatesFollowTurnover`, `PaymentsSettle` | holds |
| `beneficiaries` | somebody who is a beneficiary applies again from a second account, by DMS and by Jouve; 2 requests, 2 numbers, 1 attempt | `TypeOK`, `CreditedOnce`, `BeneficiariesDidEveryStep`, `LimitsHold`, `NobodyIsForgotten` | holds |
| `indexing` | 2 offers of 2 venues, chunks of 1 and 2, a cron job and a command at once, 2 changes, 2 faults, liveness | `StaleOffersAreTracked`, `IndexedOffersAreKnown`, `IndexCatchesUp` | holds |
| `providers` | 2 books by pages of 1, the daily job, the job of the connection and 2 workers, 1 booking, 1 fault, liveness | `NoChangeIsMissed`, `LastPostWins`, `OfferedIsAvailable`, `SoldOutIsIndexed`, `StocksFollow` | holds |
| `offers` | 2 offers, 2 partners, 2 administrators, 3 operations, 1 kill, liveness | `OnlyApprovedAreActive`, `RejectedKeepNoBooking`, `DecisionsStand`, `DraftsGo` | holds |
| `allocine` | 2 showings by chunks of 2, the clock and the job of the connection, 2 editions, 1 fault, liveness | `TypeOK`, `CountersExact`, `LastEditStands`, `DeletionsStand`, `AnnouncedAreSold` | holds |
| `edited` | 1 showing, 2 editions | `EveryEditStands` | violated: see below |

**Why the bounds are enough.** Two requests are enough for every race the code has between two
transactions; the proofs cover any number for the properties they state. Three bookings let a
stock of two places be full with one more refused, and stocks of one place meet the duo
boundary. In `event`, two administrators are what a deadlock takes; one booking is not cancelled by itself there, only with its
stock: each time both uncancelled it again its counter would gain a place, without end. Two payments of one venue fall in one batch
or in two, in different turnover brackets, under one label or two within one range of identifiers; with `BatchSize = 1`, where a
label takes two ranges, the properties of `payments` hold as well. A chunk or a page of one, with two
objects, has a first, a last and a following one; the error list of `indexing` is read and trimmed with
different chunks, as in the code. Three operations on two offers are the
most that a race of two decisions with a switch needs.

**Deadlock check.** It is on in `desk` and `withdraw`, where some request can always
arrive or proceed. Elsewhere the workload comes to its end: all bookings exist, the
event is over, every change, edition or fault of the bound has been made, all applications are treated.

**Fairness.** `FairSpec` of `Bookings` asks strong fairness of each request's own step: a lock of
PostgreSQL is granted in the order it was asked for, so a request whose step is possible again
and again takes it. Weak fairness of `Deadlock` is the detector, which runs whenever a cycle
lasts longer than `deadlock_timeout`. Nothing is asked of arrivals, payments, time or crashes.
`FairJobsSpec` adds that the clock starts each job (APScheduler, every day) and that a job that
runs takes its next step. In `Payments`, the operator starts a batch every fortnight,
marks what the bank has paid under every label, old ones too (a payment that is retried keeps its own, as
`repository/payment_queries.py:140` notes), and runs the documented commands again after a failure (strong, for a running command disables the
others), the mail of a payment does not fail for ever, and a venue gets a valid IBAN in the
end. In `Indexing`, `Providers`, `Offers` and `Allocine` the clock starts each job again and
again (weak: nothing disables it but the job itself; a missed night is a fault, and these are bounded) and a request or a job that is
not killed goes on; nothing is asked of partners, reviewers, or of an interrupted job.

**Findings.** Run `unpaid`: `mark_as_unused` asks `has_payment` when it checks the booking (`core/bookings/validation.py:185`) and
saves `isUsed = False` in a later statement, on a row that nobody locks; `generate_new_payments` queries the
used bookings (`scripts/payment/batch_steps.py:85`) and commits their payments later without looking again. When the commit falls between the check and
the save, the booking is paid and unused, against `src/tests/core/bookings/test_api.py:618`. The same holds of `_invalidate_bookings`, of
`mark_as_used` (a booking used by a stale request) and of a cancellation or a purge that has chosen its bookings before they were used.
`PaidIsFinal` is what is left, and it holds: once a booking is paid, used and in the hands of no request that chose it
before (`Settled`), no operation can begin to change it, ever.

Run `edited`: `_edit_stock` (`core/offers/api.py:324`) replaces `fieldsUpdated` by the
fields of the last save, where `update_offer` (line 219) keeps the union. A price edited
before the quantity is overwritten by the next synchronisation, against
`src/tests/local_providers/allocine_stocks_test.py:1609`. When it is an edited quantity that is forgotten
and the showing has more bookings than the cinema's default, the trigger refuses the chunk and
every later synchronisation of the cinema (`Stuck`, the exemption of `AnnouncedAreSold`).

**Properties that do not hold.** They are defined in the modules, no run has them, and TLC
exhibits a violation when one is given as an INVARIANT or PROPERTY of the instance named here.
- `UsedIsNotCancelled` (`desk`): a booking used while its cancellation waits for the lock is cancelled although used;
  `core/bookings/api.py:140` looks at `isCancelled` only after the refresh. The UPDATE of an expiry batch does not look at
  `isUsed` again either.
- `OneBookingPerOffer` and `WalletNotNegative` (`withdraw`, with bookings alone): two stocks booked at once by one user give two bookings of an
  offer, or overdraw the deposit: the lock is on the stock, and each trigger sees its own booking only.
- `CountersExact` with two administrators: both uncancel a booking from the copies they loaded, and the counter counts it twice
  (`core/bookings/api.py:265`).
- `EveryPaymentHasAStatus` (`payments`): a batch killed between the commits of its payments and that of their statuses
  (`scripts/payment/batch_steps.py:105`) leaves payments without a status, which no later batch includes, sends or makes again.
- `PlacesComeBack` (`jobs`): the stocks to recount are those of the first batch
  (`scripts/booking/handle_expired_bookings.py:57`), and the recount takes no lock.
- `ParallelJobsAreFine` (`MCIndexing`, `ByOfferSpec`): two by-offer jobs at once may write an older document last, though the comment at
  `scripts/algolia_indexing/indexing.py:32` says it is fine.

**What the exemptions leave out.** A property that exempts the objects in a history variable does not cover the hazard that puts them there:
`disputed`, `switched` and `cut` in `Offers` (decisions that cross one another or a switch, kills between two commits), `raced` in `Providers`
(posts overtaken by one another), `accident` in `Indexing`, `crossed` and `Stuck` in `Allocine`. These things happen; each such hazard says so in
its note.

`WithdrawnStocksEmpty` is checked without crashes and without `mark_as_unused`: a booking that
was used when its stock was withdrawn survives, and the offerer may unuse it afterwards; a
worker killed between the commit of `isSoftDeleted` and the cancellations leaves bookings on a
deleted stock, and nothing in the repository resumes them.

## 5. Proofs

All proofs are checked by `tlapm` with SMT, Zenon and LS4. They hold for any number of users,
stocks, offers, requests, jobs and bookings, with crashes, faults and timeouts wherever the
models have them. Each assumes its module's `...Assumption` only, and TLC evaluates it in every run:
sets of what the database holds are finite where they are counted, bounds and amounts are natural
numbers, the caps of turnover increase, `None` and `Absent` are no value of the columns they stand for, and
processes of different kinds are different. Four conjuncts say something of the program: a code is uploaded
for one stock (`ActivationCode.stockId`); there are at least as many messages as bookings (a
message is a new row, and `Payments` reuses those that no payment has any more); the identifiers
of books are positive (pages start after 0); and an account that is a beneficiary at the start became so by
one application.

Each module has one inductive invariant, named `IInv` where it serves all the theorems. Its parts
are of three kinds: types; what a process that is half way through relies on, step by step; and the property
with what it needs between two commits. A property of the tables alone is never inductive here, because every
operation writes in the end what it decided in the beginning.

`BookingsProofs`: **`TypeCorrect`**, `Spec => [](TypeOK /\ JobsOK)`. What each request relies on holds
at each of its steps: the lock it holds is its own, the row it will insert does not exist and no
other request has reserved it, the booking it will cancel is still not cancelled. One case
per action; `Undisturbed` and its variants say once what another request's step leaves alone.
`JobOK` has two parts, because the jobs of the clock break the second: `CancelsActive` (what is to
be cancelled is still active) and `JobHolds`, the rest. Each lemma assumes `JobHolds` of all, and proves that it is kept and that
`CancelsActive` is kept by those who had it (`JobsKept`).

Still in `BookingsProofs`: **`NeverOverbooked`**, `Spec => []NoOverbooking`. The invariant is
`Capacity == TypeOK /\ JobsHold /\ NoOverbooking /\ RoomHeld`. `RoomHeld` is needed because the
trigger counts at the flush and the row appears at the commit: between the two, the lock
keeps other bookings, editions and uncancellations waiting, and the places are still there.
Proved with lemmas on the cardinality of `Places` (`SellingEffect`, `Effects`).
**`CountersCorrect`**, `ASSUME \A p, q \in Admins : p = q PROVE Spec => []CountersExact`: the
counter moves exactly when the places do (`CounterMovesWithPlaces`). The hypothesis that the
back office has one request at a time is necessary: `desk` with two administrators violates `CountersExact`.

`BookingsPromises` has the rest of what `Bookings` promises.
- **`BookingsAreLegal`** (`NewBookingsAreLegal`) and **`NoCodeIsGivenTwice`** (`CodesGivenOnce`): `Held` says
  that what was checked under the lock of the stock is true until the commit, since whatever could
  break it waits for the same lock. That a code is not given by another stock's request
  is why codes belong to one stock.
- **`PaymentsAreFinal`** (`PaidIsFinal`): `Settled(b)`, that is paid, used, not cancelled and in no request's hands, is kept by every
  step. No request gets hold of such a booking, because each check that would choose it asks for a payment or for a booking that is not
  used (`SettledArrival`), and none writes what it does not hold (`SettledStep`). Nothing is assumed of
  the moment at which payments are committed.
- **`RefinesBoxOffice`** (`ImplementsBoxOffice`): the initial state is an office that has sold nothing, and each action is a
  sale, a return, an edition or nothing that it can see; one request of the back office at a time, for the
  reason above.
- **`WithdrawalsEmptyStocks`** (`WithdrawnStocksEmpty`), under `Undisturbable`: nobody is killed or timed out, nothing is
  uncancelled by two at once, marked as unused or moved to another date. Each of these leaves a booking on a withdrawn stock
  (sections 3 and 4). `Orderly`: a booking granted on a withdrawn stock finds that stock still in the queue of a withdrawal, whose
  targets are read once it has the lock.

The last section of `BookingsPromises` is about `JobsSpec`: the requests beside the expiry, the recount and the nightly use,
which take no lock of a stock, fail, and are killed between any two statements.
- **`JobsTypeCorrect`**: `TypeOK`, `JobsHold` and `JobsTypeOK`; **`JobsNeverOverbook`** (`NoOverbooking`);
  **`JobsRespectPayments`** (`PaidOutlastsJobs`); **`JobsKeepBookingsLegal`** (`NewBookingsAreLegal`); **`JobsReuseNoCode`** (`CodesGivenOnce`).
- The invariant is `JobsSafe == Capacity /\ Promised /\ JobsTypeOK`, what the requests need.
- `PaidOutlastsJobs` says of `Kept`, that is `Settled` and in no batch of the expiry, what `PaidIsFinal` says of `Settled`. The UPDATE of a batch
  does not look at `isUsed` again, so a booking fetched unused, then used and paid, is cancelled; one that is used before the query is never fetched.
- A job only marks rows as cancelled or used (`Marked`), which frees places and breaks nothing that a request relies on but `CancelsActive`;
  the recount writes nothing but the counter. A request's step is a case of the lemmas for `Spec`.
- What does not carry over. `CancelsActive`: a batch may cancel what a purge has in its targets; `CountersExact`: the
  recount writes a snapshot that others have outdated, and later batches are not recounted (section 4);
  hence `ImplementsBoxOffice`, whose counter moves with the places; and `WithdrawnStocksEmpty`, whose proof needs
  that a purge ends without a deadlock, where a purge whose target was cancelled by a batch may
  meet its uncancellation. These are theorems of `Spec` only.

`OffersProofs`: **`RefusedAreInactive`** (`OnlyApprovedAreActive`), **`RejectedAreCancelled`** (`RejectedKeepNoBooking`) and
**`OnlyEditsChangeDecisions`** (the action property `DecisionsStand`). As no row is locked, the invariant says
what is still true of a row that a request has loaded, unless another had the offer at the same time: the
validation is as seen or as written (`Decided`), what is switched is still approved (`Switched`), and what is being
decided was not active if it was refused (`Inactive`). `Alone` ties the history variables to who holds what.

`PaymentsProofs`: **`TypeCorrect`**, **`NobodyIsPaidTwice`** (`PaidOnce`), **`ReviewedPaymentsWereMailed`** (`ReviewedWereMailed`). The
command keeps what it has read from one commit to the next: the bookings it is about to pay for have no payment and are there once
(`ToPayOnce`), and `send_transactions`, which evaluates its query of payments at each step, finds each time the payments of its file, then
of its message, then of its mail (`FileOK`); a payment without an IBAN has never been in a file (`NoIbanNoMessage`).
**`RatesAreAnnounced`**: among the overlapping
regular rules, the least favourable relevant one pays, for any turnover and any increasing caps, the rate
that their descriptions announce.
**`RatesAreThoseOfTheTurnover`** (`RatesFollowTurnover`): what the command goes through when it loads a venue, in the order of a
query, is what the venue has been paid for and what it is about to be, but for free bookings. `Settled` says that a venue to come has no
payment for a booking used since the batch began; `Announced`, that the rates of the list about to be created follow one
another; and both speak of the states where nobody has returned a booking while it was paid for (`NoneReturned`), which never becomes
true again. Two turnovers are compared without an induction on sets: the sum is the cardinality of a set of units
(`SumIsUnits`, from the least size of a set for which it would not be), to which a free booking adds none. The theorem assumes
`CustomRulesPay`: a custom rule of amount zero, which no constraint of `CustomReimbursementRule` forbids, makes
`find_all_booking_reimbursements` count in the turnover a booking that `filter_out_bookings_without_cost` then drops, and TLC refutes the property with it.

`IndexingProofs`: **`StaleAreTracked`** (`StaleOffersAreTracked`) and **`IndexedAreKnown`** (`IndexedOffersAreKnown`). For an
offer that no failure or race has touched (`Spared`), `Watched` says that one job at most has it, and `Followed` that when nobody is to take
it again, the document in the index is right, or the job that has it is as far as its step says (`Progress`). `VenuesRead`
and `ErrorsRead` say that what a job has read of a list and not trimmed is still at its head, because the others push at the end;
with lemmas on `Append`, `SubSeq` and `SetToSeq` for any chunk. `NightPasses` and `ExpiredKept` say that a night takes an offer out of `expired` only when
it was its last, which is then in the job's hands or in `accident`.

`BeneficiariesProofs`: **`TypeCorrect`**, **`NobodyIsCreditedTwice`** (`CreditedOnce`), **`BeneficiariesQualify`**
(`BeneficiariesDidEveryStep`), **`LimitsAlmostHold`** (`LimitsHold`), **`LastStepActivates`** (`NobodyIsForgotten`).
`Grounded` says that whoever is about to credit an account has its row locked and there is no deposit; `Counted` adds to a counter of
Redis the requests that have read it and not incremented it yet (their number is the margin in `LimitsHold`);
`Followed` says that an account with every step done has been activated or is about to be looked at by a process that took one
of the steps.

`ProvidersProofs`: **`ChangesAreMet`** (`NoChangeIsMissed`), **`LastPostReached`** (`LastPostWins`), **`NeverMoreThanAvailable`**
(`OfferedIsAvailable`), **`SoldOutIsShown`** (`SoldOutIsIndexed`). `Synced` says of a book whose stock is behind that it changed after the
date that is kept, and that any synchronisation that will move that date beyond the change has the book on a page to come, or in hand
with its last quantity; `Posted` follows the last post through the queue. `ReadOK` is what remains true of the
counts once beneficiaries go on: the bookings counted are there or cancelled since, which `BookedOK` turns into the quantity.
That `api.get_stocks` pages are followed to the end rests on the greatest element of a finite page (`HasMax`).

`AllocineProofs`: **`TypeCorrect`**, **`CountersStayExact`** (`CountersExact`), **`LastEditIsKept`** (`LastEditStands`) and
**`DeletionsAreKept`** (the action property `DeletionsStand`). `RowsOK` says of each row that a synchronisation has flushed, and of
each object that `update_chunk` may write back, that it differs from the row in the table by the fields that the partner
has not edited only, unless the stock is in `crossed`; `Apart` that no two processes have locked the same row. `FormOK` says
that the copy a form is compared with still has the edited fields of the stock. No assumption is made on the trigger or on the
bounds `MayChange` and `MayEdit`, except that a locked row is not changed by others.

**Model-checked only.** Liveness under fairness, like `ENABLED`, is out of the prover's reach: `RequestsEnd`,
`EndedEventsAreUsed`, `OldBookingsExpire`, `PaymentsSettle`, `IndexCatchesUp`, `StocksFollow`, `DraftsGo`, `AnnouncedAreSold`.
`RoomHeld`, `JobsHold` and `JobsTypeOK`, which no run lists, are parts of the invariants above.

## 6. Not modelled

- Routes, serialisation, authentication, admin forms: they parse and format around the operations; their loads and
  checks are in the actions.
- Offerers, venues, favourites, mediations, criteria, e-mail changes, password resets, suspensions: each is one
  transaction on rows nobody else writes, except that a suspension cancels the bookings it has listed
  (`core/users/api.py:334`) and one made at the same moment survives it.
- Scoring of offers, parsing of applications and of catalogues, documents of the index, CSV and XML files: data that no
  property tells apart.
- E-mails, push notifications, storage and HTTP connectors: input and output whose failures are caught and logged.
- Migrations, fixtures, sandboxes, scripts that were run once.

## 7. How to run

    tlc -workers 2 -config Bookings_desk.cfg MCBookings
    tlc -workers 2 -config BookingJobs_jobs.cfg MCBookingJobs
    tlc -workers 2 -config Payments.cfg MCPayments
    tlapm BookingsProofs.tla
    tlapm BookingsPromises.tla
    tlapm OffersProofs.tla
    tlapm PaymentsProofs.tla
    tlapm IndexingProofs.tla
    tlapm BeneficiariesProofs.tla
    tlapm ProvidersProofs.tla
    tlapm AllocineProofs.tla
