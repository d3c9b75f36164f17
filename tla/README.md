# Sitespace API: TLA+ verification project

The repository is the backend of a construction-site management system: FastAPI
handlers, SQLAlchemy models on PostgreSQL (READ COMMITTED, sessions with
`autoflush=False`), a polling upload worker and a cron-driven nightly job.  This
directory holds TLA+ models of the parts whose correctness depends on the order in
which several processes touch the same rows, TLC configurations that check them
on small instances, and TLAPS proofs for every instance.

All models share one convention: **a step is one committed transaction**, or one
unlocked read whose result a later transaction uses.  A read and a write are one
step only where the code holds a row lock (or issues one conditional UPDATE) over
both.  Definitions called "Faulty variant" are the code with a plausible bug; they
are used by no specification, only to show that a property notices the bug.

## 1. Inventory

| Component | State | Operations | What is hard about it | Module |
|---|---|---|---|---|
| Programme upload pipeline (`worker/upload_worker.py`, `services/process_programme.py`, `api/v1/programmes.py`) | `programme_uploads`, `programme_upload_jobs`, `programme_activities`, blobs; per worker: claim, attempt copy, heartbeat flag | accept, delete, requeue, promote, claim, heartbeat, reset, process, settle | several processes, unlocked reads, crashes, heartbeats, retries, two rows with statuses that must agree | `UploadQueue` implements `DurableQueue` |
| Import of a programme (`services/process_programme.py`, `services/ai_service.py`) | rows of the file, column mapping, activities, requirements, companies, profiles; permits, quota | detect columns, build activities, classify in batches, merge answers, suggest companies, resolve profiles | concurrent calls, timeouts, a quota that ends them all, partial answers | `ProgrammeImport`, `AiService` |
| Slot booking (`crud/slot_booking.py`, `api/v1/slot_booking.py`) | `slot_bookings` (asset, date, window, status) | create, bulk create, confirm (auto-deny of competitors), deny, cancel, update, bulk reschedule, duplicate, delete | conflict checks with and without row locks; the status machine; capacity of pending requests | `SlotBooking` |
| Activity requirements and booking groups (`api/v1/programmes.py`, `crud/slot_booking.py`, `services/correction_service.py`) | `activity_asset_mappings`, `activity_booking_groups` | add, deactivate, correct; book, duplicate, move, close | counts no lock protects | `Requirements` |
| Assets and maintenance (`crud/asset.py`) | `assets.status`, maintenance window, type | create, update, transfer, sync, clear, delete | a stored status derived from dates; side effects on bookings; five checks that must agree | `Assets`, `Readiness` |
| Nightly tick (`worker/nightly_tick.py`) | `scheduled_job_runs`, a session advisory lock | due check, lock, ledger insert or restart, run, record, learn | cron overlap, crash between statements, stale `running` rows, retry on the next tick | `NightlyTick` |
| Lookahead (`services/lookahead_engine.py`) | snapshots, alerts | compute, store, refresh, raise and cancel alerts, act on them | calculations beside bookings; freshness by stamps; caps on alerts | `Lookahead`, `Planning` |
| Work profiles (`services/work_profile_service.py`, `services/correction_service.py`) | context profiles, knowledge shared by projects, activity profiles | materialise, promote, seed, correct, merge, record actual hours, invalidate | minutes of AI calls between read and write; evidence that must not be counted twice | `WorkProfiles`, `Planning` |
| Item identity, classification, requirements (`services/identity_service.py`, `classification_service.py`, `item_requirements_service.py`) | items, aliases, classifications, requirement sets | resolve or create, alias, merge, override, replace requirements | unique indexes, savepoints, deadlocks, merge chains | `ItemIdentity` |
| Projects, members, users (`crud/site_project.py`, `crud/subcontractor.py`, their endpoints) | projects, association tables without a key, roles, non-working days | create, replace lists, add, remove, change roles, activate, delete for good | counts and commits apart; rows inserted twice | `Memberships` |
| Authentication (`core/security.py`, `api/v1/auth.py`) | per-process token blacklist, accounts | login, refresh with rotation, logout, reset, verification | several web processes, one dictionary each; expiry and clean-up | `Tokens` |
| Readiness (`services/metadata_confidence_service.py`, `crud/asset_type.py`) | types of assets, trades of subcontractors, types of a project | confirm, infer, rename, transfer; completeness | an inference from a row that another call has confirmed | `Readiness` |
| AI prompts, calendar of the state, health counter, feature learning's statistics, files, site plans, middleware, e-mail | counters, blobs | compute, I/O | see *Not modelled* | |

How they interact: an accepted upload leaves a job row; the worker claims it and runs
the pipeline, which detects the columns of the file, classifies its activities with the
AI, resolves items, materialises work profiles and refreshes the lookahead of the
project.  The nightly tick recomputes every project's lookahead and then runs feature
learning.  Bookings refer to assets and, through booking groups, to the requirements of
activities; maintenance windows close or deny bookings.  All of it is shared state in the
database: there are no messages between processes.

## 2. Plan

Done: every module of the table, model-checked, and proofs about `UploadQueue`, `SlotBooking`,
`NightlyTick`, `Assets`, `WorkProfiles`, `ItemIdentity`, `Lookahead`, `Planning`, `Requirements`,
`Memberships`, `Tokens`, `Readiness` and `ProgrammeImport` (sections 3-14).  `MCPlanning` and `MCOffice` put modules that share no
table into one run with a variable `part` that says which of them moves; the theorems of these
modules are about each module's own specification.

Left: a booking's window set by two calls column by column; an abstract calendar that the
approvals of `SlotBooking` implement.

## 3. The upload pipeline

### Modules

* `UploadQueue` is the system: HTTP handlers (`Serve`), time (`Time`), the claim loop
  (`Poll`) and the run of a claim (`Run`).
* `DurableQueue` is what it promises its producers, seen as jobs only.
* `MCUploadQueue` gives the constants values.
* `UploadQueueProofs` proves what holds for any number of workers, and then what holds
  for one; its last part is about the import (section 11).

State: `upload` is a `programme_uploads` row, with the number of complete sets of
activities it owns; `job` its `programme_upload_jobs` row, with `available_at` and
`heartbeat_at` reduced to *due* and *expired*; `worker` a worker process (program
counter, claimed upload, copy of `attempt_count`, `heartbeat_failed`); `seen` the jobs
a worker has read and not written back, each with the attempt the decision will be about and
the status its upload was found in; `request` the phase of the HTTP request that
creates or deletes an upload, and whether its blob is stored.

| Actions | Code |
|---|---|
| `StoreBlob`, `LockProject`, `RejectUnderLock`, `InsertUpload`, `InsertFails`, `RequestDies` | `upload_programme` |
| `BeginDelete`, `DeleteRows`, `DeleteFails` | `delete_programme_upload` |
| `ReadExpired`, `ReadUpload`, `WriteExpired`, `WriteBackFails` | `_requeue_expired_claims` |
| `ReadDue`, `WriteDue`, `ClaimJob`, `ClaimForgotten`, `NothingToClaim` | `_poll_once` up to the claim |
| `Heartbeat`, `HeartbeatFails` | `_heartbeat_loop` |
| `ResetPartialState`, `ResetFails` | `_reset_partial_state` |
| `EnterPipeline`, `RefuseConflict`, `ParseFails`, `InsertActivities`, `CommitUpload`, `UploadDisappeared`, `PipelineRaises` | `process_programme`, `_run` |
| `CheckOutcome`, `CheckOutcomeFails`, `MarkCompleted`, `SettleFails` | `_poll_once` after the pipeline, `_mark_job_completed` |
| `ReadClaim`, `ReadUpload`, `WriteFailure`, `WriteBackFails` | `_handle_job_failure` |

The sweep and the failure handler read a job, read its upload in a query of its own, and write
both by primary key at a commit, all without a lock: each of the three is a step, and the commit
(`GiveUp`, the same for both) looks at neither row again.  The pipeline's reads of the upload
row are taken together with the write they lead to, also with several workers: that adds no
behaviour for one worker, whose upload nobody else writes but a deletion.

The advisory lock of `_acquire_project_processing_guard` is not in the model because
its result does not influence the code: the function proceeds whether or not the lock
was obtained.

### Runs

| Run | Instance | Shows |
|---|---|---|
| `UploadOneWorker` | 1 worker, 2 uploads of a project, 3 attempts, crashes, late and stalled heartbeats, a failing database; 600 000 states | a completed job has a readable upload (`CompletedNotFailed`), no activity is imported twice (`NeverDirty`), no blob is orphaned while web processes live (`NoOrphanBlobs`), no upload in `processing` is without a live job unless its own failure could not be recorded (`ProcessingHasJob`), settled is final (`SettledIsFinal`), and the queue refines `DurableQueue` (`QueueSpec`) |
| `UploadLiveness` | 2 workers, 1 upload, 2 attempts, crashes, late and stalled heartbeats, dying requests; 135 000 states | every queued job settles (`EveryJobSettles`); a job is completed only by the worker that holds its claim, in the attempt it was claimed for, and dead-lettered by nobody while it has attempts left (`OnlyOwnerSettles`) |

Bounds: two uploads of one project are what the overlap check, the processing guard
and the claim order distinguish; three attempts give a first, a middle and a last one.
`MaxClaims` stops a job from being claimed for ever where the attempts are not bounded
by the code; it is more than `MaxAttempts`, so a claim too many is reachable.  Model values
are exchanged by symmetry only in the run without liveness.  `NoOrphanBlobs` excludes the
fault "web": a web process that dies between storing a file and inserting its row leaves
the blob, and nothing looks for it.

Fairness: time passes (`WF` of `Time`); a worker process polls and works as long as it
lives and is restarted when it dies (`WF` of `WorkerStep`); the sweep for expired claims
is disabled while the worker is busy but forced every `claim_ttl // poll` polls by
`_polls_since_requeue` (`SF` of `ReadExpired`).  Nothing is assumed of clients, and
`EveryJobSettles` is checked with a database that works: with failing database calls a
job can be retried without its outcome ever being recorded.

### Why one worker

What a worker reads without a lock and writes by primary key may be overtaken when a second
worker process runs.  The promotion of due retries (`_poll_once`, 129-142) can reopen a job
that the other worker has meanwhile claimed, completed or dead-lettered.  The failure handler
(344-398) and the sweep can do it too: a worker that stalls between its reads and its commit
puts a job back that was claimed again, takes over a completed one, or sets an upload it found
`failed` to `processing` just before the other worker's commit, which found it `failed` as
well, makes the job dead, so that nobody works on an upload in `processing`.
`CompletedNotFailed`, `NeverDirty`, `ProcessingHasJob`, `SettledIsFinal` and the bound on
attempts are all violated with two workers.  The deployment the repository describes has one
worker service, so these properties are checked, and proved, for one.  What holds for any
number is `OnlyOwnerSettles`, the life of the blobs (`NoBlobIsOrphaned`) and what
`WorkersConsistent` says of reads that may be old; `UploadLiveness` checks with two that jobs
settle all the same.

### Behaviours worth knowing

* Between `_commit_failed` (1440) and `_handle_job_failure` a retryable upload is
  `failed`, so a second upload of the project is accepted and the two may then be in
  `processing` together, which `upload_worker.py:388` sets out to prevent.
* `recover_stale_processing_uploads`, which `README.md:185` describes as a sweep, is called
  by a unit test only; a failure that `_mark_failed_upload` swallows leaves an upload in
  `processing` with a completed job, which blocks the project: the exception in
  `ProcessingHasJob`.
* A crash between the commit at `process_programme.py:632` and `_mark_job_completed` makes the
  retry's `_reset_partial_state` (262-296) wipe a programme that was readable meanwhile.
* With a failing database a deletion may remove the blob and not the row.

Also: the 409 that `upload_programme` raises
under the lock (431) is caught by the handler's own `except Exception` (502) and answered
as 500; a `delete_programme_upload` whose commit fails leaves a row without its blob.

### Proofs

`UploadQueueProofs` proves, for every set of uploads and workers, every `MaxAttempts`
and every set of faults:

* `TypeCorrect`: `Spec => []TypeOK`;
* `OwnersSettle`, and `NoBlobIsOrphaned` if "web" is not among the faults, from `WorkersInv`:
  what a worker works on or has read is inserted and has begun its first attempt, and which
  combinations of row, job, request and blob there are.  The heart of it is that attempts only
  grow: a read however old counts no more of them than the job has by now (`Overtaken`), so a
  commit that buries a job on the strength of an old read buries one that is used up.  Nothing
  about the status of a job that was read survives a second worker, and `WorkersInv` claims
  nothing.

What a single worker process adds is proved from `SoleWorker` (at most one worker process) and rests on
`OneWorkerInv`, because none of its properties is inductive alone: that attempts are
bounded depends on the copy of `attempt_count` the worker keeps (`ClaimIsCurrent`), on
what the sweep and the failure handler read still being true when they write (`ReadsAreCurrent`) and on a waiting
job having an attempt left (`RowIsConsistent`).  The invariant is proved action by
action (`InitInv`, `ServeInv`, `TimeInv`, `PollInv`, `RunInv`); `AttemptsAreBounded`,
`StatusesAgree`, `ImportsAreSingle` and `ProcessingIsWorkedOn` follow from it.  `StepMoves` classifies what one
step can do to one job, and gives `SettledStaysSettled` and `ImplementsDurableQueue`,
the refinement.  The constants' assumption is `QueueAssumption`; `MaxClaims` is
arbitrary.

Only model-checked: `EveryJobSettles` (liveness).  Only proved: the bound on attempts and
`WaitingNotFailed`, which need no run beside their proofs.

### Abstractions

File contents, parsing, classification and AI calls are the choice between
`InsertActivities`, `ParseFails`, `CommitUpload` (either readable status) and
`PipelineRaises`.  Version numbers, which are allocated under the project lock, are left
out.  A restarted process has a new `worker_id` but no thread of the old one survives,
so the model gives both one name.  The lookahead refresh after the commit touches no
upload or job row.

## 4. Slot bookings

### Modules

* `SlotBooking` is the bookings table (`book`) and the calls in flight (`req`).
* `MCSlotBooking` gives the constants values.
* `SlotBookingProofs` proves facts about the overlap tests and the types, what the checks of
  one call at a time guarantee, and that approvals never book a place twice.

A *place* is an asset on a day, a *slot* an interval of hours.  A row of `book` has the
status, the place and the interval; people, texts, booking groups and audit rows are left
out because no decision about a booking's status or window reads them.  A call in flight
is a database session: the rows it is about (`at`), every row as the session loaded it
(`loaded`) and as it stands in memory (`target`), the row locks it still needs (`want`)
and has (`held`).  A flush writes the columns that differ between `loaded` and `target`
(`Written`), which is how SQLAlchemy loses or keeps the updates of others.

| Actions | Code |
|---|---|
| `ReceiveCreate`, `InsertRows`, `RefuseBulk`, `Commit` | POST `/`, `/bulk`, `/{id}/duplicate`: `create_booking`, `create_bulk_bookings`, `_auto_deny_competing_pending_bookings` |
| `Update`, `Commit` | PUT `/{id}`: `update_booking` |
| `SetStatus`, `LockSlot`, `RefuseApproval`, `Approve`, `ChangeStatus` | PATCH `/{id}/status`: `update_booking_status` |
| `Delete`, `Commit` | DELETE `/{id}`: `delete_booking` |
| `Reschedule`, `Select`, `SyncCommits`, `Validate`, `RefuseBatch`, `Apply`, `Commit` | POST `/bulk-reschedule`: `validate_bulk_reschedule`, `apply_bulk_reschedule` |
| `LockRow`, `BreakDeadlock` (external) | PostgreSQL's row locks and deadlock detector |
| `Fail` | `except: db.rollback()` |

### Runs

| Run | Instance | Shows |
|---|---|---|
| `BookingSerial` | 1 call at a time, 3 bookings, 3 chained slots, capacity 1, batches of 2, all calls and statuses, failures, maintenance | every double booking comes from a status change the code does not check (`ChecksPreventDoubleBooking`); the capacity is exceeded only by reopening a request with PATCH (`ChecksKeepCapacity`); only PUT changes a completed or cancelled booking (`OnlyUpdatesReopen`) |
| `BookingApprovals` | 2 concurrent calls, 3 bookings, 2 places, 2 overlapping slots, capacity 2, batches of 2 | with requests and approvals the row locks exclude double bookings (`NoDoubleBooking`); a request denied by somebody else's call lost to a confirmed booking (`DenialsHaveAWinner`); every call ends (`CallsEnd`) |
| `BookingRace` | violation | the finding below |

Bounds: three bookings are the approved one, a competitor, and one that overlaps only
the competitor; three chained slots make overlap non-transitive; a capacity of 1 is the
smallest at which a request can be refused, 2 lets two requests compete for a slot; two
calls are enough for every race and for the deadlock of two approvals.  Two places let
a bulk request find, at its second check, that a slot was given away since its first
(`RefuseBulk`).  Cancellations run beside the other calls only in the proof.  Ids are finite
and never reused, so a run ends when they are used up: `CHECK_DEADLOCK FALSE`.

Fairness: a handler that has its locks runs on (`WF` of `Step`); a lock that is free
again and again is granted (`SF` of `LockRow`, PostgreSQL queues the waiting
transactions); the deadlock detector runs (`WF` of `BreakDeadlock`).  Nothing is assumed
of callers.

### Finding

*Race* (`BookingRace`): the lock on the slot's rows does not cover a row inserted
afterwards, so an approval and a manager's creation both succeed.

Also: a bulk reschedule that swaps a confirmed and a pending booking denies the pending one,
because with `autoflush` off the auto-denial (`slot_booking.py:1434`) reads the table as it
was before the batch moved.  Two PUTs of one booking, one moving its start and the other
its end, are each validated against the row as it was; the model's calls set the whole
window, so it does not show what both leave.

### Proofs

`SlotBookingProofs` proves, for every value of the constants, that the SQL overlap filter
and the comparison that bulk rescheduling makes between its targets agree
(`OverlapTestsAgree`, on windows that end after they start) and `TypeCorrect`.

With one call at a time (`SoleCall`) and finitely many bookings it proves the properties of
`BookingSerial`: `DoubleBookingsAreUnchecked`, `FinishedBookingsStay` and `CapacityIsKept`, for
every capacity, batch and set of calls.  Their invariant `SerialInv` says of each place of a
handler what its checks have established and its next step relies on (`Writing`, `Inserting`,
`Moving`, `Deciding`).

Beside that it proves `ApprovalsNeverDoubleBook` for every set of bookings, places,
slots and calls and every combination of failures, from `RequestsAndDecisions`: bookings
are requested by subcontractors, decided upon while pending, and cancelled; nobody books
outright, edits or reschedules.  The restriction is needed: `BookingRace` refutes the
property with managers who create, and `ChecksPreventDoubleBooking` names the status
changes that break it with one call at a time.  `NoDoubleBooking` is not inductive.
`ApprovalInv` adds what a session has locked: that it writes only rows it inserts or has
locked (`SessionIsSound`), that after `LockSlot` every active booking of the slot is or
will be locked (`SlotIsGuarded`), and that of two approvals of overlapping bookings one
has the other's row among those it locks (`ApprovalsMeet`), which, locks being exclusive,
keeps them from both passing.  `QuietStep` disposes of the steps that make nothing
active; `ApproveInv` is the argument proper.  `DeniedForAWinner` follows from the same
invariant and the same assumption.

Only model-checked: `CallsEnd` (liveness).

### Abstractions

Access control, the existence of people and projects, planning readiness, working hours,
the calendar and an asset's maintenance window only refuse calls; they are left out, so
the model accepts more calls than the code does.  `update_booking` reads, checks and
changes the row in memory between two plain reads of the same table; the model does it in
one step and writes it in another (`Commit`).  A bulk creation's rows are for different
places, whose competing requests are disjoint; they are read in one step and locked in
the order of their ids, where the code goes place by place.  A duplicate is a creation
for the same hours on another day, that is at another place.  `sync_maintenance_status`
is modelled where its commit matters, inside the validation of a bulk reschedule.

## 5. The nightly tick

### Modules

* `NightlyTick` is the ledger `scheduled_job_runs` (`lookahead`, `learning`: a status per
  date, "none" where there is no row, which the unique constraint makes a function), the
  advisory lock (`lock`), the processes (`tick`) and the local clock.
* `MCNightlyTick` gives the constants values.
* `NightlyTickProofs` proves what holds for every number of processes, days and faults; its
  second part is about the plans that are calculated (section 10).

| Actions | Code |
|---|---|
| `Evening`, `Midnight`, `Start` | `_local_now`, `_is_due`; the date is read once |
| `TryLock`, `Unlock` | `pg_try_advisory_lock`, the `finally` clause |
| `Check` | the query for the row and the branches on its status |
| `Reopen`, `InsertRun`, `MarkStale`, `ResetRun` | the commits before the run |
| `RunLookahead`, `RecordSuccess`, `RecordPartial`, `RecordException` | `nightly_lookahead_job` and the commits after it |
| `LearningCheck`, `LearnAgain`, `LearnFirst`, `RunLearning`, `RecordLearned`, `RecordNotLearned` | `_run_feature_learning_tick` |
| `Crash`, `DatabaseFails`, `LoseLock` | a killed process; a failing statement and the `except` clause it reaches; the pool replaces the connection that took the lock |

`contested` is a history variable: the dates on which a process lost its lock.

### Runs

| Run | Instance | Shows |
|---|---|---|
| `NightlyTick` | 2 processes, 2 days, 3 faults of any kind; 148 000 states | two processes compute together only on a contested date (`RunsExclusive`), a success is undone only on a contested date or by an error in feature learning's bookkeeping (`SuccessIsFinal`), and while its date lasts no row stays running (`RunsAreSettled`) or failed (`FailuresAreRetried`) |

Bounds: two processes overlap, as two ticks do; two days let a run that is still going meet
the next day's; three faults are a crash, a failure of the recovery and a lost lock.

Fairness: cron starts a process again and again (`WF` of `Start`), and a process goes on
(`WF` of `Proceed`).  Cron stops being of use at midnight, so the liveness properties end
with their date.  The process `t` that starts again and again gets the lock because its
holder ends.

### Behaviours worth knowing

*Lost lock*: the lock belongs to a pooled connection, which
`pool_recycle=300` replaces when it is checked out at an age of five minutes or more; a
lookahead that takes longer loses the lock, and the next tick starts a second one beside
it.  The comment at `nightly_tick.py:175-176` takes the row of the first for that of a
crashed process.

`SuccessIsFinal` names a smaller divergence: the first query and the restart of feature
learning are outside its `try`, so their errors do propagate, against its docstring, and
turn the recorded success into a failure.  The next tick repeats the lookahead.

### Proofs

`LedgerInv` is inductive with `TypeOK`.  On a date that is not contested a process past
the lock holds it, until it is about to end (`HoldsLock`), and what it saw of its row is
still true (`RowFits`); the second needs the first, for only a holder of the lock writes.
`WorkKeepsInv` is that argument for any step within a run, `MoveKeepsInv`,
`RecordKeepsInv` and `LearningKeepsInv` cast it for the three kinds of step, and
`ErrorKeepsInv` for a failing statement.  `RunsAreExclusive` and `SuccessesAreFinal`
follow.  `StaleRunsHadCrashed` is the comment's claim, proved from the assumption that
"recycle" is not among the faults: the lost connection is the only way it fails.

Only model-checked: the two liveness properties.

### Abstractions

The jobs are their outcomes: `lookahead_engine` and `feature_learning_service` use sessions
of their own.  A statement that fails leaves the lock with the process until it ends; that
the connection died with it is `LoseLock`.  The unique constraint's refusal of a second
lookahead row cannot happen, because the process that inserts has held the lock since
it looked and its connection is not replaced before its first commit; feature learning's
can, and is modelled.  Error texts and times are left out.

## 6. Assets (`Assets`, `MCAssets`; run `Assets`)

State: the row of one asset, its bookings, the date, and the sessions of the calls.  A call
loads the asset (`Load`), may commit the status brought up to date (`CommitSync`), refuses
or decides (`Refuse`, `Edit`, `Reserve`), and writes the columns that changed.
`ListAssets` is the bulk form of `sync_maintenance_status`, four UPDATEs in a row
(`Activate`, `Expire`, `Clean`, `Unstick`); `Patch` is a decision on a booking;
`Tick` is midnight.

`ClearedDaysStayClear`: the days a PUT closed stay free of requests and confirmed bookings,
but for bookings written by calls that overlapped it.  `ChecksAgree`: row-wise and bulk
synchronisation agree, and what the list of free assets offers is what the four other checks
accept.  Bounds: one manager and one booker beside the list and midnight, one booking, three
days: a window can lie before, on and after today.  Both properties talk about one asset.

Behaviours: a list that clears an expired window between the load and the commit of a PUT
with the same first day leaves a window of one bound; a synchronisation that loaded the asset
before it was retired can bring it back, although line 68 says that retired assets are
never modified; a PUT that changes only the dates of an available asset denies nothing.

Proofs (`AssetsProofs`), for every number of sessions, bookings and days: `ChecksAlwaysAgree`
without further assumption, and `ClearedDaysAreKept` if no status change brings a closed booking
back (`NobodyReopens`): PATCH looks at no asset, so a denied booking that is confirmed on a closed
day refutes it, and the run leaves such changes out as well.  Both follow from `AssetsConsistent`.  Its invariant says what every session knows: a window only
shrinks between a load and a commit (`Synchronising`), a booking's call has seen each window that
was there when it looked (`Booking`), and a PUT has cleared what it will close (`Editing`).

## 7. Work profiles (`WorkProfiles`, `MCWorkProfiles`; run `WorkProfiles`)

State: `item_context_profiles` by item, type and context (`cache`), `item_knowledge_base`
(`kb`), and of each upload its phase, the rows its session holds (`mem`) and its activities.
A materialization reads (`Start`), awaits the AI, and writes in one transaction (`Finish`),
with the stale rows it kept.  Corrections, merges, actual hours and promotions of context
signals happen in between.  The activities of a context are written together (`Grouped`), the
first with the answer of the AI, the others with a preflight of their own.  The number of calls
that may wait for the AI at once is not modelled: all contexts of an upload are one batch.

`EvidenceIsReal`: the rows never hold more observations than were made, where an activity's
actual hours count as one, also those `record_actual_hours` leaves out of a manual row.
`ManualHoursStay`: a manual row changes only by a correction or a merge.
`KnowledgeFollowsEvidence`: what the shared knowledge claims is taken back when the rows it
came from go.  The latter two except uploads whose rows went stale while they waited, and
the last a correction that leaves its rows behind.  Bounds: three uploads of two items (one
with three activities in two contexts), one of the project at a time, one correction, one merge and one recording of actual
hours; thresholds of two and three samples, so that every maturity is reached.

Behaviours: a correction that confirms the hours of an activity served by the reduced base
context invalidates the base row after the rebuild, and knowledge is left without rows; an
upload that read rows before a merge or a correction writes its columns back; one in flight
at a merge creates a row of the merged item; `record_actual_hours` has no caller.

Proofs (`WorkProfilesProofs`), for any projects, items, types, contexts, programmes and thresholds,
and any number of calls: all three properties (`EvidenceNeverExceedsHistory`, `ClaimsFollowEvidence`,
`ManualHoursAreKept`), from `ProfilesConsistent`.  `EvidenceIsReal` bounds a sum over the rows, which
no step keeps by itself: an observation written from a stale row adds one to what was *read*, and
`record_actual_hours` sets a count from a list of activities.  The invariant `Inv` therefore divides
the history among the rows: every row has a share of the observations (`Holds`) that is at least its
samples and at least the activities with actual hours that refer to it, and the shares add up to no
more than `evidence`.  Besides, a session's copy of a row never counts more than the row it came from
(`Backed`), one upload of a project runs at a time (`RunsAlone`), an activity has one profile, and
redirects end (`NoCircle`), because a merge moves the share of a row with it.  `Finish` is a recursion
over the activities; `Steps` of `FoldTheorems` says that it has a solution, and `TxnOK` and `Agrees`
are what every prefix of it keeps: the same shares, and, for a session that is not stale, that a
manual row is as it was and the knowledge claims nothing new without rows.

## 8. Items (`ItemIdentity`, `MCItemIdentity`; run `ItemIdentity`)

State, beside the sessions of `Office`: redirects (`into`), aliases, active classifications, requirement sets, and the
sessions with the locks they hold and wait for.  A step is a statement that reads what others
write, waits or commits; an INSERT that clashes with an uncommitted one waits for it; a circle
of waits ends with a cancelled statement (`Cancel`).  A merge locks the classifications of the
source and of the target in two queries (`LockRows`), between which another may lock some.

`RedirectsEnd`: merges never form a circle.  `SameNameSameItem`: activities of one name
denote one item, whoever created it first.  `ClassifiedStaysClassified`: a classified item
stays so under the item it is merged into, unless the merge lost a deadlock to an override.
Bounds: three sessions with any three calls (two merges and an override, say), four items
and names, two orders of creation that can deadlock.

Behaviours: an override and a merge of one item may deadlock; a merge that loses swallows the
error and goes on without the classifications; an override that read its item before a merge
writes to the merged item; two overrides in different scopes leave two active rows; where both
items have a row in one scope, the flush of a merge may meet the unique index of active rows, is
swallowed as a lost deadlock is, and the target keeps its own row (`SharedScope`); a merge
does not touch requirement sets; `resolve_item_classification` has no caller.

Proofs (`OfficeProofs`), for every number of sessions, items and names: all three
properties (`RedirectsAlwaysEnd`, `OneItemPerName`, `ClassificationsStay`).  `ItemInv` needs what the
locks exclude (`LocksExclude`), what a call knows at each of its places (`CallOK`), and that the
redirects have no circle, stated as: every set of items that is not empty has one whose redirect
leads out of it (`NoCircle`); a merge keeps that because it holds both ends.

## 9. Lookahead (`Lookahead`, `MCLookahead`; run `Lookahead`)

State: bookings with their stamps, the active programme and its mappings, the snapshot of
each day, the alerts, and the sessions.  A calculation reads (`Compute`), writes the row of its
day, which it holds until it ends (`WriteSnapshot`), brings the alerts in line and commits
(`Commit`) or fails (`Abandon`).  Bookings are committed before their refresh begins.

`marks` and `last` are history variables: whether a snapshot was overtaken by a booking while it
was made, whether a calculation of another day committed meanwhile, and which was written last.

`FreshHoursAreBooked`: a snapshot pages take for fresh shows the hours booked, unless a
refresh is on its way or failed, or the snapshot was overtaken.  `AlertsAreWarranted`:
active alerts are warranted by the snapshot written last and keep the caps.  Bounds: one week,
two asset types and subcontractors, two versions of the programme, two days, three calls on
two sessions.

Behaviours: a calculation that read the bookings before one was committed can overwrite a newer
snapshot and stamp it later; the calculations of two days are not serialised and can exceed
the caps or meet the unique index; corrections of mappings change the demand without a
refresh; a new version flags every row, so alerts pause until the next calculation; an alert
acted upon can be cancelled by a calculation that read it pending.

Proofs (`LookaheadProofs`), for every number of sessions and days, every programme and policy:
`FreshPagesShowBookings` and `AlertsStayWarranted`, from `LookaheadConsistent`.  Of the freshness the
invariant says that what a calculation read is what is booked until it is overtaken (`Reads`), that
the snapshot of a later day is as recent (`Later`; without it, the commit of an earlier day could
end a failure it did not repair), and that the snapshot of the last day is right, overtaken, or
followed by a refresh of that day or a later one (`LatestHolds`).  Of the alerts it says that a day
has one writer, a key one active alert, and a calculation that is alone has read every active alert
(`Knows`).  The caps are a property of the fold `Surviving`: `TheMostSevereSurvive` proves that it
keeps the most severe candidates and no more than allowed.  It goes by induction over the subsets of
the candidates (`FiniteSetInduction`), each of which has a least severe alert (`OneIsLeast`), because
`Before` is a total order.

## 10. Arithmetic (`Planning`, part of `MCPlanning`; run `Planning`)

An activity's hours are laid by a plan (`ResolveDistribution`: a stored profile, or a default shape by type
and context, resampled to the working days), apportioned in half hours under the cap of a day
(`Allocate`, `Give`), and shown by week beside bookings, which may cross midnight, and the
capacity of assets, which may be in maintenance (`Show`).

`HoursPlaced`: all units are laid, or as many as the caps take.  `SharesFollowWeights`: larger
shares never get less, equal ones differ by a unit at most, and without a cap nobody is a unit
from its share.  `DashboardShowsAll`: no hour is lost between days, weeks and types, and no
shortage is shown as covered.  Inputs: the activities of `MCActivities` (spans of two to twelve
days, weekends in between, every shape, profiles of three resolutions, caps of 8 and 9.8
hours) with three sets of bookings and two pools of assets.  A booking of an asset whose type is
unsettled covers nothing (`Covering`).

Behaviours: the residual of normalising weights goes to the last day, so of equal days the
last gets the odd unit first, against the docstring at `work_profile_service.py:748`; a cap of
9.8 h becomes 10 h of units; hours beyond cap times days are cut.

Weights are millionths, rounded in two steps of a thousandth, of two the even one, and the bell curve of the long
shapes is a table of thousandths (`Bell`), because the code's is an exponential.

Proofs (second part of `NightlyTickProofs`), for every activity, profile, cap, set of bookings and
assets and choice of weeks: all three properties, from `PlanningConsistent`. The invariant
`PlanningInv` says of the weights that they are a whole but for their roundings (`Whole`: not less
than a million together, and over it by half a millionth a day at most; the last weight is what is
left, but not below zero). `NormalizedIsWhole` shows it of every normalised list, whether stored,
resampled or a default, and `ResolvedFits` of what `Resolved` chooses among them. Of the hours
laid out it says that they are `Fair` and never more than there are. The floors fit (`FloorsFit`),
because what the weights are over a whole comes to less than a unit. A unit given keeps the days
in the order of their shares (`GiveKeepsFair`), because the day that `Neediest` chooses among
equals is the first, and keeps every day within a unit of its share (`GiveKeepsNear`), because as
long as units are left some day is owed one (`SomeDayIsOwed`). For the dashboard, `TotalByClass`
of `FoldTheorems` says that what is summed cell by cell is summed once: hours by week and type,
and bookings by the parts that midnight cuts them into (`SegmentsOf`).

`PlanningAssumption` bounds what the roundings may add up to: an activity has at most a thousand
working days, and its half hours times its days are fewer than two million. With more, the weights
could be a unit over a whole, and the floors more than the hours. A default profile at 24 hours a
day reaches the bound after 235 working days.

## 11. Import and AI (`ProgrammeImport`, `AiService`, part of `MCPlanning`; run `Planning`)

State: permits, the calls in flight, the quota flag, and the phases of one upload: detection
of columns (or the cache, or the fallback), activities, batches of classification with their
merge, suggestion of companies, and the profiles of contexts in groups: of a group all contexts
are asked about first and then resolved (`AskProfile`, `ResolveProfiles`).

An answer speaks of activities of its own batch: their ids are random keys of which the provider
has seen no others, and the code, which files an answer under whatever id it names, drops one
that names none of the upload's.  A call that waits for a permit is not cancelled: nothing in
the repository cancels one.

`BestAnswersWin`: what is kept of an activity and type is the best answer, with the hours of
any.  `QuotaStops`: after the quota is gone no call is made, also by those that waited.
`ImportEnds`: an upload ends whatever the provider does.  Fairness: the steps of the
import, each a coroutine that is resumed, a timeout or an answer (`WF` of the import's part).
Bounds: one permit for two calls at a time, batches of two tasks, two files (one a PDF).

Tasks are a function from the ids of the activities to their texts, and what is known of a
task a set of claims `[type, score, hours]`.  A batch is given by the rank of its tasks'
ids, and the merge of one answer by a recursive function over the answer's items.

`UploadQueueProofs` proves `BestAnswersWin` and `QuotaStops` for every file, every number of
permits, batches and tasks, every table of keywords and phrases, and whatever the provider
answers.  The first goes in three steps.  `Best(had, S)` says what is to be known after the
claims `S`; `BetterKeeps` and `JoinedKeeps` show that a phrase and an item of an answer
keep it, and `DeterministicBest` and `JoinedBest` carry that over the whole lists (`StepsExist` of
`FoldTheorems` gives the recursive function its values).  `OneReply` shows that a text is asked
about in one batch, under one id, so that there is one answer about it at most: the order
in which batches end cannot matter.  `ImportInv` then adds that the answers that were used are
still the ones there are when the classification is written.  Its assumption is
`AiAssumption`: batches are not empty, a claim's score is a number, and the phrases' rules
know no hours.

Behaviours: the rows of the sample have no duration column, and in the fallback no ids, while
later rows have them, so one file gives different durations; a fallback is cached like a
detection; "1" percent reads as 100; tokens of failed batches are not counted.

## 12. Requirements (`Requirements`, part of `MCOffice`; run `Office`)

`Office` is what the modules of this run share: a session reads, and commits later.
Requirements are added, deactivated after a count, corrected; bookings look for their group
and insert it or refresh it, are duplicated, moved or given to another company, closed and
reopened.

`OrphansAreExplained`: a requirement that was dropped has no active booking, but for one that was
reopened or duplicated, or requested while it was dropped.  Behaviours: a correction to a type
that is active already meets the index and answers 500; the second of two bookings that create
one group fails; a correction and a deactivation that overlap leave a corrected inactive row.

Proofs (`OfficeProofs`): `NoSilentOrphans`, for any number of sessions, requirements and bookings.
`RequirementsInv` adds what a call holds on to: a group is there while a booking of it is, and a
deactivation found no active booking when it counted.

## 13. Members and tokens (`Memberships`, `Tokens`, parts of `MCOffice`; run `Office`)

State of `Memberships`: the project and the rows of its two association tables, which have no
key, the roles of users, who is active and which companies were deleted, one non-working day, and
of the bookings the company and whether they are pending, confirmed or closed.

| Actions | Code |
|---|---|
| `Create`, `Join`, `Archive`, `ReadLists`, `Replace` | `create_project`, `update_project`, `delete_project` |
| `CheckNew`, `Add`, `CheckManager`, `CheckCompany`, `Remove` | the assignments and removals |
| `SetRole`, `SetActive` | roles; deactivation and activation |
| `CheckMembers`, `Book` | `create_booking` as far as it names a company |
| `ReadWork`, `Edit` | PUT, PATCH and DELETE of a booking: what was read is not read again, and a commit writes the columns the call changed (`Edited`) |
| `CheckBulk`, `Reschedule` | `bulk_reschedule_bookings`, which locks the booking it gives to another company |
| `CountWork`, `Gather`, `Delete` | `permanently_delete_subcontractor`: the count of confirmed bookings, the flush's reads of what refers to the company, the commit |
| `ReadDay`, `WriteDay`, `DeleteDay` | the non-working day |

`ManagersStay`: a project keeps a manager unless an administrator changes a role, a list names
none, or a removal was checked before the managers changed.  `WorkKeepsCompany`: confirmed work
changes its company only by an edit or a reschedule, to a company that was not deleted, and loses
it only to a deletion that was overtaken: after it counted, the booking was confirmed or came to
the company, or after it gathered, the booking was given to another.  A PUT that read the booking
before either never brings the old company back, because it writes only what it changed (the
faulty variant writes the whole row).

Behaviours: two concurrent additions insert two rows, and a later removal, which meets two
where it expects one, fails; PATCH replaces lists without validating them; a deletion takes the
name off the bookings it gathered by their keys, also off one that belongs to another company by
then; a pending booking that a deletion left without a name can be confirmed.  Bounds: two
companies, a manager and an account without managing rights (`tv`), all assigned at first
(`MCRows`), an administrator who is not, one booking that is at first not made, confirmed without
a company, or pending for one (`MCWork0`), and five lists of members (`MCLists`).  Edits may put any status on a booking: which ones the code allows is
`SlotBooking`'s part, and no property of this module depends on it.

`RevocationsHold`: a process never accepts again a token it revoked, up to the last moments of
the token's last second.  Two processes, each with its blacklist and restarts, and a clock of
half seconds, because the signature library compares whole seconds.  Behaviours: a blacklist is
not shared and not kept over restarts; two concurrent refreshes with one token both succeed;
a subcontractor's refresh fails, because `auth.py:88` passes a keyword the function has not;
tokens issued before a change of password stay valid.

Proofs (`OfficeProofs`), for any number of sessions, people, processes and moments:
`ProjectsKeepManagers` and `ConfirmedWorkStays` from `MembershipsInv` (what a removal or a deletion
counted, that the bookings as a deletion counted them hold no confirmed one of its company, and
that a booking it gathered is still there; `DeletionsAreOvertaken` concludes that one it strips of its name
while confirmed has changed since), `RevokedTokensStayRevoked` from `TokensInv` (a revoked
token is on the list, or was forgotten when it could no longer be accepted).

## 14. Readiness (`Readiness`, part of `MCOffice`; run `Office`)

Types of assets and trades of subcontractors, confirmed or read off names; a name is the set of
types (or trades) it points at.  A call loads a row (`BeginAsset`, `BeginFirm`, `BeginTypeEdit`)
and writes at its commit the columns that differ.  `ConfirmationsStay`: a confirmation goes only
with a call that says what is to hold instead, or that had loaded the row before.
`ReadyMeansPlannable`: a project is "ready" exactly when nothing is missing, also with rows of
which two calls wrote halves, and "blocked" when something missing is in use.

Behaviours: two calls can leave a trade with the status "suggested", or an asset "confirmed"
without a type; naming "general" or "other"
takes a confirmation back; a transfer carries a type that is local to a project into another; an
asset keeps a type that was deactivated and counts as ready, while the lookahead ignores it.

Proofs (`OfficeProofs`), for any number of sessions, types, assets and firms: `ConfirmationsAreKept`
and `ReadyProjectsAreReady`, from `ReadinessInv`, whose point is the combinations of columns that
two commits of halves can leave.

Bounds of `Office`: three calls on two sessions in one of the parts: two calls race, and a third
comes before or after them.  One asset, one subcontractor, two global types, two slugs with two
codes each.

## 15. Runs at a glance

| Run | Properties |
|---|---|
| `UploadOneWorker` | `CompletedNotFailed`, `NeverDirty`, `NoOrphanBlobs`, `ProcessingHasJob`, `SettledIsFinal`, `QueueSpec` |
| `UploadLiveness` | `OnlyOwnerSettles`, `EveryJobSettles` |
| `BookingSerial` | `ChecksPreventDoubleBooking`, `ChecksKeepCapacity`, `OnlyUpdatesReopen` |
| `BookingApprovals` | `NoDoubleBooking`, `DenialsHaveAWinner`, `CallsEnd` |
| `BookingRace` (violation) | `ApprovalsAreRaceSafe` |
| `NightlyTick` | `RunsExclusive`, `SuccessIsFinal`, `RunsAreSettled`, `FailuresAreRetried` |
| `Assets` | `ClearedDaysStayClear`, `ChecksAgree` |
| `WorkProfiles` | `EvidenceIsReal`, `KnowledgeFollowsEvidence`, `ManualHoursStay` |
| `ItemIdentity` | `RedirectsEnd`, `SameNameSameItem`, `ClassifiedStaysClassified` |
| `Lookahead` | `FreshHoursAreBooked`, `AlertsAreWarranted` |
| `Planning` | `HoursPlaced`, `SharesFollowWeights`, `DashboardShowsAll`, `BestAnswersWin`, `QuotaStops`, `ImportEnds` |
| `Office` | `OrphansAreExplained`, `ManagersStay`, `WorkKeepsCompany`, `RevocationsHold`, `ConfirmationsStay`, `ReadyMeansPlannable` |

`CHECK_DEADLOCK FALSE` stands in the runs whose calls are bounded, which may stop with nothing left
to do.

Proofs exist for sections 3-14; every safety and action property of the passing runs is
stated by a theorem.  `FoldTheorems` holds what they share: induction over numbers and over the subsets of a
finite set, the last element of a finite set under a total order, the existence of folds and of
recursions over numbers, the sums of `Sums` (`Total`, used by `Lookahead`, `WorkProfiles` and `Planning`), and
redirects without a circle (`ItemIdentity` and `WorkProfiles`).  The
induction theorems of the library take an operator as their parameter; these take a set, which
every prover can instantiate.

Model-checked only: the liveness properties `EveryJobSettles`, `CallsEnd`, `RunsAreSettled`,
`FailuresAreRetried` and `ImportEnds`.  Liveness under fairness is out of the prover's reach.

## 16. Not modelled

* The health row (`system_health_service.py`): a counter of clean uploads in one row, shown and
  not used to decide; two workers can lose one of two updates of it.
* The calendar of a state (`project_calendar_service.py`): a computation over the dates of a library,
  and rostered days off that depend on the range that is asked for.
* Feature learning's statistics, and the readers of `item_learning_service.py`.
* Prompts and the repair of JSON in `ai_service.py`, the parsing of spreadsheets and PDFs,
  summaries by week and type.
* Audit rows and notifications, files, site plans, middleware, e-mail, and functions without a
  caller (`cancel_expired_bookings`, `update_asset_status`, `_upsert_snapshot`).
* Reports and lists: they change nothing but an asset's status, and that is modelled.
