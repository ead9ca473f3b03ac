# Verification of the Zapiack console backend

TLA+ models of the parts of this backend in which the order of things matters:
two people approving money, retried writes, sessions written back by several
requests, reviews that follow another system's rows, a campaign worker beside
the routes that steer it, rollup jobs that replace each other's rows, events
that arrive twice, days that must be finalised through outages, changes of the
product read on a lagging replica, exports handed out after retries, lists
that change while they are paged, and watchers that run side by side. TLC
checks every model on small instances; TLAPS proves the safety of all twelve
for every instance: each invariant and each action property that a run checks is
also a theorem.

Paths below are relative to `src/src/` unless they begin with `docs/` or
`prisma/`, which are in `src/`.

## 1. The system

The backend serves the staff console of a messaging product. It has a database
of its own (admin), reads the product's database through a replica, writes to
the product's primary where staff act on it, keeps sessions in Redis, runs its
jobs with BullMQ, and asks api-core to move money and to decide what api-core
keeps. Several instances of the API and of the workers may run at once.

| Component | State it keeps | Operations | Talks to | What makes it correct |
|---|---|---|---|---|
| Credit desk (`modules/credits`) | `credit_adjustments` | request, approve, reject, apply, retry | api-core, audit, inbox | money moves once; a large sum needs two people; a line in the audit log comes first |
| Idempotency interceptor (`common/idempotency`) | `idempotency_records` | claim, replay, complete, release | every write route | one running owner per key; a replay is the original's answer |
| Session store (`common/auth/session.service.ts`) | Redis blobs and an index per member of staff | create, get, touch, update, revoke, revokeAllForStaff | guard, auth, staff | an outdated session is worthless |
| Session guard (`common/auth/session.guard.ts`, `common/cache/ttl-cache.ts`) | staff cache per process | canActivate | session store, staff table | epoch, status and second factor are respected under races |
| Sign-in (`modules/auth`) and staff (`modules/staff`) | `staff`, `staff_invites`, `impersonation_sessions` | login, verifyTotp, logout, changePassword, views, acceptInvite; update, upsertRole, invites | session store, audit | as above; one super admin remains |
| Sender-ID queue (`modules/sender-ids`) | `sender_id_reviews`, checklist | ensureReview, syncFromProduct, assign, updateChecklist, decide, sweepSlaBreaches | product replica and primary | an approval rests on a checklist of its own filing; the review ends where the product is |
| Campaigns (`modules/notifications`) | `campaigns`, `campaign_recipients` | create, approve, schedule, sendNow, retry, cancel; worker run | queue, mailer, SMS, in-app | large campaigns wait; nobody is sent twice but through a fault, or recorded in vain; status is true |
| Usage rollups and reconciliation (`modules/rollups`, `modules/jobs/rollups.processor.ts`, `modules/finance/reconciliation.service.ts`) | `usage_rollups`, `destination_rollups`, cash, requests, finance, `reconciliation_runs` | rollCurrentDay, finaliseDay, history loads, runForDay | product replica | the rows of a day become what the source says; a check says the truth |
| Scheduler, catch-up, maintenance (`modules/jobs`) | job ids, `usage.finalise` and history markers | ticks, catch-up and history load at start, expireExports | queues | no day is lost |
| Events (`modules/events`) | `ingested_events` | ingest, sweep, handle | queue, inbox, reviews | each event is handled in the end, and says so only when it was, or was taken for a draft |
| Customer actions, catalogue, templates, availability, markets (`modules/customers`, `plans`, `templates`, `availability`, `markets`) | the product's rows; Redis entries api-core fills | set status and key, archive, products, prices, plans, template decisions, payments, settings | replica, primary, api-core, product cache, audit | only a late fill stays cached; no rate escapes the audit log; a payment has at most one line in it |
| Exports and documents (`modules/finance/exports.service.ts`, `modules/jobs/exports.processor.ts`, `modules/sender-ids/documents.service.ts`) | `export_jobs`, files in S3 | create, run, expire, download; resolve, file, streamZip | queue, S3, audit | audited and stored before it is handed over; a promised export ends, unless no run could write how |
| Risk scan and provider health (`modules/risk`, `modules/services`) | `risk_flags`, `provider_health_samples` | scan with five rules, sample, flags by staff | rollups, inbox | what lasts is told, not over and over |
| Lists (every service; `common/http/pagination.ts`) | a cursor in the browser | next page | any table | a row that stays is shown once |
| Live streams, read-only pages, configuration, tools | none, or a position in a log | queries, relays | product | - |

The components meet in a few places only: routes call services in process;
services write rows that jobs read later; a worker reads rows that routes
change meanwhile; and every request passes the guard and, for most writes, the
interceptor. The modules below are therefore one per component, each with the
neighbours it meets modelled as far as they can disturb it (api-core's ledger
and cache, the replica that lags, the queue that drops a job whose id is on
file, tries a throwing job again and hands out a stalled one twice).

The hard behaviours are: handlers that read, await and then write what they
read (`approve`, `touch`, `decide`, `cancel`, `upsertPricing`, `raise`); calls
that time out and arrive later; writes that fail after another write has been
done; processes that stop between two writes; jobs that overlap, are cut short
and run again, or end in another order than they were queued. The list with
lines is under `hazards` in `PROJECT.json`.

## 2. Modules

| Module | Models | Run |
|---|---|---|
| `TwoPersonLedger` | what the credit desk promises: raised once, signed off, moved at most once | (implemented by the next) |
| `CreditAdjustments` | `credits.service.ts`, `adjustBalance`, `audit.record` | `credits` |
| `KeyLease` | what an Idempotency-Key promises: one holder, filed before it is told, replayed as filed | (implemented by the next) |
| `Idempotency` | `idempotency.interceptor.ts` | `idempotency` |
| `Sessions` | session store, guard, staff cache, sign-in, logout, views, epoch bumps | `sessions` |
| `SenderIdReviews` | review queue: decide, checklist, sync, ensureReview | `sender_ids` |
| `Campaigns` | routes, queue and worker of one campaign | `campaigns` |
| `Rollups` | the five tables of one day, and its reconciliation | `rollups` |
| `EventIntake` | ingest, the events queue and worker, the sweep | `event_intake` |
| `Finalisation` | nightly ticks, catch-up, history load, the jobs and their markers | `finalisation` |
| `ProductWrites` | thirteen kinds of change of the product, through the primary or api-core | `product_writes` |
| `FileAccess` | exports from request to expiry, and every way to a file | `file_access` |
| `Lists` | fourteen lists and their cursors | `lists` |
| `Alerts` | five risk rules, provider samples, the SLA sweep, flags by staff | `alerts` |

`CreditAdjustments`, `Idempotency`, `Sessions`, `SenderIdReviews`, `Campaigns`,
`EventIntake`, `ProductWrites` and `FileAccess` have a module of theorems beside
them, named `..._proofs`. Four of these also hold the theorems about a second component:
`SenderIdReviews_proofs` those about `Alerts`, `FileAccess_proofs` about `Lists`,
`EventIntake_proofs` about `Rollups`, `Idempotency_proofs` about `Finalisation`.
They extend both modules, so these four components begin the names that every
module has with a word of their own (`WatchInit`, `WatchNext`, `WatchSpec`;
`Walk...`; `Roll...`; `Night...`).

`MC*` modules give the symmetry sets and say what the instance is for; the
`.cfg` files give the constants. Operators named like one action with a
qualifier (`ApproveUnchecked`, `CompleteFireAndForget`) are the plausible
mistakes the properties are tested with; no specification uses them.

### State and code

- `CreditAdjustments`: `adjustments` is the table, `req` a running handler (its
  next await), `ledger` api-core's postings, `late` the calls the client gave up
  on, `audit` the lines that say who let money move. One action per stretch of a
  handler between two awaits. A write that fails, a refusal, a time-out and a
  process that stops are actions. `apply` reads the row again, but only fields
  that never change after creation, so that read is part of the call.
- `Idempotency`: `record` is the table by (key, staff, route), `call` one HTTP
  request, `effects` the calls whose handler returned. A crash may happen before
  or after the database has carried out the write under way.
- `Sessions`: `store` and `index` are Redis, `cache` the staff row per process
  with its shared load, `req` a request on its way through guard and handler,
  `openViews` the rows of views with no end. `verified` and what a request knows
  on arrival are history. Clocks are replaced by choice: keys expire, entries
  lapse, views end at any time.
- `SenderIdReviews`: `app` is the product's row, `replica` what the console
  reads, `review` its own row, `decide` the calls, `job` the workers' syncs. The
  Promise.all of two reads is two steps in either order. Three histories relate
  the review to filings: `ticked`, the items checked since the last one; `noted`,
  whether that one found no review waiting; and `latest` of a decision, that the
  customer has filed nothing since it began. No step of the console resets them.
- `Campaigns`: `campaign`, `recipients` are the rows, `job` the queue by job id,
  `worker` a run, `call` a route. An audience is any set of accounts at each
  look. `sent` counts what really went out; `overlooked` is history, the accounts
  whose notification the in-app delivery looked for on the replica and missed.
- `Rollups`: the tables have no rows in common, so a behaviour is about one of
  them. `source` is the product, `daily`, `dest` and `kept` the rows with their
  stamps, `checked` the day's reconciliation, `run` a job. A figure is a number;
  the SQL that makes it is not modelled.
- `EventIntake`: `row` is `ingested_events`, `delivery` an ingest call between its
  two writes, `job` the queue by job id with tries and stalls, `worker` a run at
  its next await. `recorded`, `reviews` and `alerts` are what the handlers did. The
  handler of a filing reads the application on the replica: it may find it filed,
  missing (and throw), or a draft still (and return null); `overlooked` is
  history, the events whose application a run took for a draft.
- `Finalisation`: days are numbers; `boot` is what a start has still to queue,
  `tick` tonight's tick, `job` the queue by job id, `marker` and `historyMark`
  the watermarks, `finalised` the days whose rows were built after they ended,
  `trouble` those whose job or whose queueing failed for good. `left` is
  history: the days that a start finds unqueued and no longer looks back to.
- `ProductWrites`: `db` and `replica` are the product's fields that some rule
  looks at, `call` a staff action at its next await with what it read and what
  it will write, `cache` and `fill` api-core's Redis entries and the fill under
  way, `paid` and `late` api-core's book of payment references, `audit` one line
  per call. All thirteen operations share the shape read, write, clear, record,
  and differ in what `Data` and the rules let them write.
- `FileAccess`: `export` is the row, `job` the queue, `worker` a run, `stored`
  S3, `fetch` a request for a file on any route, `lines` the audit lines of
  requests and fetches. Each of the worker's three writes to the row may throw,
  before or after it reached the database: RUNNING stands outside the try, so
  the queue hears of it; READY inside, so the run becomes a failed one; FAILED in
  the catch, so its own error is thrown on. `unsaid` is history: exports with a
  run, since the last READY or FAILED written, that ended without writing either.
- `Lists`: one walk of one list; `table` and `key` the rows and the date they are
  sorted by, `cursor` what the browser sends next. One page is one query.
- `Alerts`: a behaviour is about one watcher, because rules and jobs touch no
  rows of each other. `world` is what it watches, `flags`, `latest` and
  `notices` what is on record, `run` a job or one rule of a scan.

## 3. What the runs show

- `credits` (352,458 states): two adjustments, one at and one above the threshold
  of 1, two requests at a time, two keys, two members of staff. Racing approvers, a rejection
  beside an approval, retries and late calls move money once
  (`MovesAtMostOnce`), with a second person (`LargeNeedsSecondPerson`), after
  the audit line (`MovesAreAudited`); APPLIED is true (`AppliedHasMoved`); an
  unraced rejection is final (`RejectionIsFinal`); and the whole implements
  `TwoPersonLedger` (`KeepsPromise`).
- `idempotency` (128,174 states): four calls, two keys, two payloads. One owner
  per key (`OneOwner`), an answered call has its record complete
  (`AnsweredOnceAndRecorded`), only the owner frees its key
  (`OnlyItsOwnerFreesAKey`), and the whole implements `KeyLease` (`KeepsLease`):
  a key is let to one call at a time, its result is filed before anybody is told
  it, others with the same payload are told what is filed, and a key is given
  back only by a holder who was told nothing. That a replay is the original's
  answer (`ReplayIsTheOriginal`) follows and is proved by itself.
- `sessions` (420,244 states): one session, four requests, one process, one
  epoch bump. A request with an outdated session is not served by a process
  without an earlier copy of the row, the second factor comes first and is not
  lost to a write-back.
- `sender_ids` (1,123,506 states): one decision, two sync workers, two filings,
  a replica that lags, writes of the decision that fail. A waiting application is
  approved on a checklist worked through since it was filed
  (`ApprovalsRestOnThisFiling`), with three exceptions, each of them the code's:
  a filing made while the decision is under way, which the replica may not show;
  a filing made while the review still waits, which the sync does not tell from
  the one before; and a decision that takes up a review which does not wait. The
  first two are findings. The review catches up in the end (`ReviewCatchesUp`).
- `campaigns` (885,202 states): two accounts, threshold 1, one route at a time
  beside one worker, one retry, one fault. Every second message has a fault to
  answer for it, and a second notification also a look at the replica that
  missed the first (`OnceUnlessInDoubt`); `WorkersFinish` is the liveness of the
  worker's loop. See the comments of the other properties.
- `rollups` (1,283,541 states): two buckets, three runs, three changes of
  the source, for each of the five tables. A run on its own replaces the day and
  heals what earlier ones left; a sweep never takes what its own run has
  written; a check that ran beside nothing says the truth.
- `event_intake` (209,516 states): one event of any type, two deliveries, two
  workers, one sweep job at a time, two tries per job, two faults. PROCESSED is
  said of handled events only, or of a filing whose application some run took
  for a draft (`ProcessedMeansHandled`; that case is a finding), attempts count
  every effect, and no stored event is forgotten (`NothingForgotten`).
- `finalisation` (616,858 states): the first start on day 3 of 6, two jobs at a
  time, any number of nights without the process, one fault. No day falls
  between catch-up, history and ticks (`NoDayLost`), and each is finalised in
  the end (`EveryDayFinalised`), unless its job threw for good or a start no
  longer looked back to it.
- `product_writes` (3,110,502 states): two actions of any of the thirteen kinds,
  one payment reference, three rates, one fault, a replica that lags and a cache
  that fills at any time. Only a fill that read before the change leaves a stale
  entry; every rate that was replaced is on record; a payment has at most one
  audit line (none when its first answer was lost, a finding); an edit of a
  consistent plan leaves it consistent.
- `file_access` (508,661 states): one export with three tries and two stalls,
  two workers, writes of the worker that throw, one fetch on any route. Nothing
  is handed over unaudited or unstored (`HandedOverInOrder`). A promised export
  ends, and does not stay READY past its time (`PromisedExportsEnd`), unless the queue has given it up
  after a run that could not write how it ended: a database out of reach for all
  tries leaves the row QUEUED or RUNNING, and so do two stalls. Nothing in the
  code takes such a row up again, and nothing in its docs says that it would.
- `lists` (3,881,386 states): four rows on two dates, one row a page, for each
  of the fourteen lists. A row that stays through the walk is shown, and shown
  once unless it moved.
- `alerts` (102,484 states): each of seven watchers, one subject, two runs, one
  fault, one flag by staff. Two runs add at most one alert each
  (`SeldomTwice`), and what lasts is told (`WhatLastsIsTold`).

### Sentences of the code and its docs that do not hold

`findings` in `PROJECT.json` lists them, each with its quotation. Ten are kept
as definitions beside the properties that do hold; naming one as INVARIANT
(or PROPERTY, for the two actions) in the module's `.cfg` shows the counterexample:

- `EffectOnce` (`Idempotency`): the handler has taken effect, recording the
  answer fails, the key is released, a retry runs the handler again.
- `RevokedEndsAtOnce` and `ViewIsReadOnly` (`Sessions`): `touch` is a plain SET
  of the blob read on arrival; a request in flight during a logout brings the
  session back, and one during the start of a view removes it.
- `ResubmissionsAreReal` (`SenderIdReviews`): a sync that looked too early takes
  a decision for a resubmission and resets the review.
- `NoStaleDecision` (`SenderIdReviews`): `decide` looks at the replica and then
  writes the primary, so it may decide over a filing it has not seen.
- `EveryFilingIsChecked` (`SenderIdReviews`): an application filed again while
  its review still waits is no drift for the sync, and keeps its ticks.
- `LargeSendsAreApproved` (`Campaigns`): the audience is counted at create and
  resolved again at send.
- `SpikeAlertSentOnce` (`EventIntake`, with two payment events and a spike of
  two): a count compared with == is met twice, or stepped over.
- `NeverDoublesUp` (`Campaigns`): notifications were created, the recipients not
  yet marked when the run broke off; the retry looks on a replica that does not
  show them and creates them again.
- `SubmittedMeansReview` (`EventIntake`): the replica still shows the draft, no
  review is created, and the event is PROCESSED.

`EveryPromisedExportEnds` (`FileAccess`) is kept beside `PromisedExportsEnd` in
the same way; it is violated too, but no sentence of the code promises it.

The other findings came from reading while modelling; each says which property
was stated around it.

### Bounds and why they are enough

Two actors of each kind meet every race the code has (two approvers, a winner
and its losers, a reader and a writer, two syncs, two runs of one job, two
deliveries); a third request or run is there where a race needs a follower to
show (Sessions, Idempotency, Rollups). Amounts, audiences, figures, rates and
rule thresholds matter only on one side or the other of a comparison, so two or
three values do. Where all instances of a thing behave alike and never meet -
events, exports, requests for a file, subjects of a watcher - there is one; where the code's own
limit is larger (five event workers, fifty rows a page), the small one is
reached in every behaviour that needs it.

Bounds are named in the modules: `Requests`, `Calls`, `Deliveries`, `Fetches`,
`Runs`, `MaxEpoch`, `MaxFilings`, `Retries`, `JobTries`, `MaxFigure`,
`MaxChanges`, `Horizon`, `MaxFaults`, `MaxSends`, `MaxNotices`, `MaxManual`.
Three things are more than sizes. `OnceUnlessInDoubt` holds for one worker; with
two, overlapping retries send twice without any fault (a finding).
`Finalisation` lets any number of nights pass while the process is down. A start
looks back `MAX_CATCH_UP_DAYS` from the marker, by design, and two days only
while there is no marker, because it takes that to be its first
(`catch-up.ts`:26-29). That need not be so: the history may be marked as loaded
before any finalise job has finished, and then a start after three nights down
leaves days that nothing queues any more (a finding). Both kinds of day go into
`left` at the start that finds them, and are the exception the properties name;
the run's `MAX_CATCH_UP_DAYS` of two and its three nights reach both.
`EventIntake`'s `SweepLimit` is the code's limit made small: events past it are
left alone.

Deadlock is checked for `credits`, `sender_ids`, `lists` and `alerts`, where
something can always happen next. The other runs say `CHECK_DEADLOCK FALSE`:
their calls, requests, runs, days or faults can all be used up, and then the
instance stops as it should.

### Fairness

- `SenderIdReviews`: the replica follows (weak); the ten-minute tick starts a
  sync again and again (strong, for each worker, on its two reads taken together,
  since the rest of the same job keeps switching them off), and a started
  job goes on (weak). Nothing is assumed of customers or reviewers.
- `Campaigns`: a worker that has a job takes its next step (weak), which is how
  a running Node process behaves. Nothing is assumed of routes or of the
  queue's pick-up; a worker may stop at a fault.
- `EventIntake`: the sweep's tick finds an event that has not finished (weak, per
  event), the queue hands out a waiting job (strong, since workers are busy with
  others in between), and a worker goes on (weak). Nothing is assumed of the
  services that deliver: an ingest call may stop between its two writes.
- `Finalisation`: a process starts again and finishes its start, the nightly tick
  comes before the next night is over, and the queue works off its jobs (all
  weak). A start, an add and a job may still fail at a fault.
- `FileAccess`: a worker that can work does, and the queue takes note of how it
  ended (weak), and the nightly expiry runs (weak). Each write may still throw.
  Nothing is assumed of staff.
- `Alerts`: some worker begins a run again and again, as the scheduler's ticks
  make it, and a run goes on (weak both).
- The other modules state safety only.

## 4. What is proved

Each proof module gives the inductive invariant `IInv` with the reason for each
part, one lemma per action or group of actions, and theorems that combine them:
`Invariance` (`Spec => []IInv`), `TypeCorrect` where types are proved, and one
theorem per checked property. All rest on the assumption named in the module
that declares the constants and on nothing else, the two about one campaign
worker excepted; all hold for any number of actors, rows and faults. The second
component of a proof module has an invariant of its own name (`WatchInv`,
`WalkInv`, `RollInv`, `NightInv`), the theorem that it is one
(`WatchInvariance`, ...), and again one theorem per property.

### The credit desk

`CreditAdjustments_proofs`, from `CreditAssumption` (nobody is not a member of
staff, approvers are staff, amounts are positive, keys and rows have their nulls
outside). The checked properties are not inductive alone: that money moves once
rests on *keys being of one row each* (`KeysOK`), on *every call, running or
late, carrying its row's key and amount* (`RequestsOK`, `LateOK`), and on *the
ledger holding one posting per key* (`LedgerOK`, `MovesAtMostOnce`). The
two-person rule rests on a request at `call` or beyond having its row's approval
behind it (`RequestOK`, `Licensed`), also when a reject has changed the status
since: approver and requester stay in the row. `BlankOK` keeps rows not yet
created empty, `AppliedOK` that a row is APPLIED only with its posting.
Theorems: `TypeCorrect`, `AtMostOnce`, `SecondPerson`, `Audited`,
`AppliedMoved`, `RejectionFinal` (an action property from the same invariant)
and `Implements` (initial states map to initial states, every step to a step of
`TwoPersonLedger` or a stutter).

### The idempotency interceptor

`Idempotency_proofs`, from `IdempotencyAssumption` (the null value is not a
call, payload or key). That one call owns a key is not inductive alone: it has
to be said of every call what it may rely on at its stage (`CallOK`: an owner's
record carries its id and payload and is open until its answer is on file; an
answer handed out is the owner's, kept in `effects`) and of every completed
record whose answer it holds (`RecordOK`). `Frame` names what a step may touch -
its own slot, and of the table only a key that is free or its own - and
`OthersOK` shows once that every other call keeps what it relies on; each
action's lemma then deals with its own call only. Theorems: `TypeCorrect`,
`SingleOwner`, `ReplaysAreOriginals`, `AnsweredOnce`, the action property
`FreedByItsOwner`, and `Implements`. The refinement needs one thing more: who
holds a key has asked for it and is past the insert (`OwnerOK`), or a call that
rereads could be replayed its own result. `StepWrites` reduces every step of a
request to one of three writes or none; an insert is a `Let`
(`InsertLets`), a completion a `File`, with the answer or without it when the
connection is lost (`CompletionFiles`), a delete a `GiveBack`
(`DeleteGivesBack`), a returning handler an `Act` (`HandlerActs`), and a record
found complete a `Replay` (`AnswerReplays`).

### Sessions

`Sessions_proofs`. The second factor: a session is marked only after its code
was checked, and every writer of a checked session has read it marked or marks
it, so that no copy on its way to Redis is older than the proof (`SessionOK`,
`PassedOK`). Outdated sessions: once an outdated request has arrived, whatever
its process knows of the staff row - cached, read and not yet returned, or the
row itself - is newer than the request's session (`OutdatedOK`), and the verdict
on any of them is to refuse; the shared load is the case that needs the
invariant. Theorems: `TypeCorrect`, `OutdatedRefusedAlways`,
`SecondFactorAlways`, and the action property `SecondFactorKept`.

### The sender-ID queue

`SenderIdReviews_proofs`. What a decision reads is the items, and what they are
worth is that in a review that waits an item is blank unless it was checked
since the last filing, provided that filing found no review waiting
(`TickedOK`): what brings such a review back to wait blanks the items in the
same write. A worker about to create a review has read a filed application
(`CreateOK`). Theorems: `TypeCorrect`, `ApprovalsRest` (of
`ApprovalsRestOnThisFiling`, whose exceptions are those of section 3).

### Campaigns

`Campaigns_proofs`, from `CampaignsAssumption`. `IInv` adds three facts to the
types: a campaign that does not exist yet has no jobs, calls or messages
(`Untouched`); while a campaign that needs approval waits for it, *no worker is
at work* and nothing was sent (`Waits` - without the first half the worker past
its check would break the second); and whoever is about to be marked as
reached, or is passed over as a duplicate, has been sent a message (`Reached`).
`WorkerStep` states what all worker steps have in common and each step is an
instance of it. Theorems: `TypeCorrect`, `ReachedIsTrue`, `LargeWaits`, and the
action property `CancelFinal`, for any number of workers and jobs.

`OncePerFault` and `StatusTruthful` have the hypothesis `OneWorker`: the
campaigns queue runs one job at a time in each instance, and with a second
instance both are false (a finding). They rest on `Alone` and `Missed`, which
`InvarianceAlone` shows to be kept together with `IInv`: whoever the worker holds in its batch or
is dealing with *is still PENDING in the table* (`Held` - retry resets FAILED rows
only, so no route takes anybody away from it); every account that may be sent to
again has *a fault for each message so far* (`Answered`); and a verdict once
counted is true until a run writes SENDING again (`Truthful`). `Missed` is about
the in-app route: a batch goes out as a whole, and whoever is about to be sent a
second notification was missed by the look that came before (`Looked`).

### Watchers

`SenderIdReviews_proofs`, second half, from `AlertsAssumption` (it includes
that the runs which may be side by side are finitely many). That a subject's
flags stay within the number of runs is not inductive; what is counted in
`FewWrite` is the flags on record *and the runs that have looked, found nothing
and are about to write*. A run only comes to be one of those while nothing is on
record, when they cannot exceed the runs there are; its write trades a writer for
a flag. The same holds of SLA notices. `VerdictOK` says what a run has taken up.
Theorems: `WatchInvariance`, `NoticedOnce`.

### The event intake

`EventIntake_proofs`. PROCESSED is true because every run about to write it has
handled its event (`AboutToRecord`), or has taken its application for a draft,
also when another run has overtaken it. A
sign-in is never on record more often than its event counts attempts because
the runs that have claimed it and not handled it yet count along with the rows
(`CountOK`): a claim adds one on both sides, the handler trades a run for a row,
and a failing run only takes away. The counting is by `Cardinality`, with the
lemmas of `FiniteSetTheorems`. Theorems: `TypeCorrect`, `ProcessedHandled`,
`AttemptsCover`.

### Rollups and reconciliation

`EventIntake_proofs`, second half, from `RollupsAssumption`. Every run takes
an instant, and all claims are about instants: a run that no other overlapped
carries *the latest instant there is* (`UsageFits`, with the row each stage has
written so far), so its sweep takes exactly what is older than what it wrote; a
run before its sweep of the destinations finds each of its rows *under its own
instant or a later one*, unless somebody with a later instant has swept and
left it nothing (`SweepFits` - the case in which the property allows no row to
go); what was read is the source's figure as long as the source has not changed
(`ReadFits`), and so is what a check read (`CheckFits`). `settled` is only said
when no run is under way. Theorems: `RollInvariance`, `SettledRight`, and the
action properties `AloneReplaces`, `DestinationsKept`, `ChecksTrue`.

### Nights

`Idempotency_proofs`, second half, from `FinalisationAssumption`. An ended
day is *seen* (finalised, in trouble, left, or queued), *awaited* by the history
load, or *tonight's*. The argument is that days are queued oldest first:
whenever a finalise job of some day is on file, every older day is seen or
awaited (`OldestFirst`), and so is every day behind the marker (`MarkerFits`) -
which is why a marker that a later day's job sets, or one that an older day's job
sets back, hides nothing from the next start. `EndedFit` says for each stage of a
start what it still owes and to whom it leaves the rest; `JobsTold` that a job's
state is true and its day over. Theorems: `NightInvariance`, `NoNightLost`.

### Exports and documents

`FileAccess_proofs`. A row has a key only once a worker has stored the file, and
nothing takes the file away (`KeysAreStored`, `WorkersStored`), whichever of the
worker's writes throw and whoever has lost its job meanwhile; the audit line is
the fetch's own (`FetchOK`: open only with its line). `JobOK` types the queue: a
job that waits or runs has a try left. Theorems: `TypeCorrect`, `InOrder`.

### Lists

`FileAccess_proofs`, second half, from `ListsAssumption`. Half-way through a
walk, a row that stayed and was not shown lies *ahead of the cursor* in the order
of the list, and one that stayed, did not move and was shown does not
(`HalfWay`); the order is lexicographic, date first and id second, in the
direction of the list, and the two lists that count rows have another kind of
cursor (`CursorOK`). Rows that come and go do not touch this; a page does,
because its last row is the greatest of what it shows and everything it leaves
is greater. Theorems: `WalkInvariance`, `ShownOnce`.

### Changes of the product

`ProductWrites_proofs`. Everything rests on what each of the thirteen operations
may write (`WritesOK`, from a lemma per operation): only those that clear a
cache entry write its field, only `upsertPricing` a rate. Rates: until the first
change everybody reads the one rate there is, and from then on every rate, the
current one included, is in a line, in the call about to write one, or was cut
short (`RatesOK`) - which is why a price history taken from a lagging replica
loses nothing. Payments: who is about to write a payment's line found it unpaid,
and no two such calls share a reference (`PaymentsOK`); a call writes its line
last (`BlankOK`). Plans: what an edit is about to write, laid over a row that
satisfies the rules and that it has read, satisfies them (`EditsOK`, from the
check of each edit against what it read). Theorems: `CacheFollowsRows`,
`RatesAreRecorded`, `PaymentsAudited`, and the action property `EditsKeepRules`.

### Only model-checked

The six liveness properties (`ReviewCatchesUp`, `WorkersFinish`,
`NothingForgotten`, `EveryDayFinalised`, `PromisedExportsEnd`,
`WhatLastsIsTold`): under fairness they are out of the prover's reach.

## 5. What is not modelled, and why

`PROJECT.json` lists every component. Of the modelled ones:

- Credits: an adjustment whose process stopped between APPROVED and the call
  stays APPROVED; neither approve nor retry takes it up. The model has this
  behaviour; the code promises nothing about it.
- Idempotency: a record whose process stopped stays in flight for ever, and its
  retries are refused. The same holds of it.
- Sign-in and staff: the failure counter, the enrolment of the second factor,
  invites and several members of staff. The count of super admins and the write
  that follows it are not one transaction, and enrolment and reset can overtake
  each other: two findings say what can happen; no property of either holds as
  the code states it. Which permissions a role holds is configuration, and its
  top-up at start only adds. A process that stops while a view begins leaves a
  view with no row. endImpersonation closes the views of all sessions of the
  member.
- Sender IDs: what a checklist item says and the notes on it; the cache entries
  that decide drops, whose race is that of the account status in
  `ProductWrites`.
- Campaigns: `schedule` may find its own job id on file and enqueue nothing, so
  that a campaign stays SCHEDULED; a job whose attempts are used up leaves it
  SENDING; so eventual sending is no property of this code. Rendering, masking
  and who may call a route are left out.
- Rollups: the SQL that adds figures up; clock skew between process and
  database. Hourly and request rows are never swept: rows whose source has gone
  stay, and `SettledIsRight` is about the rest.
- Finalisation: a day whose job has thrown for good (`trouble`), that a start
  which threw had not queued yet (also `trouble`), or that is older than a start
  looks back (`left`) may stay as it is; the backfill command is a tool an
  operator runs by hand. Partition upkeep is SQL.
- Events: the signature of a delivery. Alerts and notices beyond their count.
- Product writes: provider costs, margin targets, notes and revealPii write one
  row each. `upsertPricing` and `upsertPlan` are modelled as changes of a row
  there is: the branch of each that creates the row (no earlier rate or plan) is
  left out. What api-core does inside a command is its own.
- Exports: the rows and cells of a file, the parsing of document links.
- Lists: which rows a filter takes; finance, geo and overview pages are single
  queries.
- Alerts: the live push to browsers (`NotificationsGateway`, SSE) keeps nothing;
  what it misses the page reads again. Marking an alert as read is one write.
- Network guards, cookies, permissions tables, configuration, diagnostics and
  tools: no state, or state of one request.

## 6. Plan

1. The staff table: invites, the last super admin, the failure counter and
   enrolment, composed with `Sessions`, so that an edit's check, its write and
   the sessions it ends are one behaviour.
2. An abstract specification of `Campaigns` with one worker, as `TwoPersonLedger`
   and `KeyLease` are for theirs: an outbox that sends each message at most once.
3. `Campaigns` with two workers, once retries are serialised in the code.
