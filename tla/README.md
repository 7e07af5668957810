# Funnelier in TLA+

Funnelier is a multi-tenant CRM and marketing service: a FastAPI application, a
Celery worker, PostgreSQL, Redis, and a Camunda 7 engine that runs four process
models whose service tasks are executed by workers inside the API processes.
This directory holds TLA+ modules of the parts of it where several actors work on
one piece of state, the TLC configurations that check them, and TLAPS proofs of
what they establish for any number of actors.

All paths below are relative to `src/` of the repository unless they name a file of
this directory. `PROJECT.json` holds the exact lines each definition stands for.

## 1. Inventory

| Component | State it keeps | Operations | Talks to | Hard behaviour | What makes it correct |
|---|---|---|---|---|---|
| External-task worker, `infrastructure/camunda/workers/base.py`, `client.py` | the batch in hand; in the engine: tasks, locks, retries | fetch and lock, run the handler, complete, fail, throw | engine; every handler | one worker id for all replicas, locks that expire under a batch, lost answers, crashes | no task ends without its handler; no attempt is lost; nothing is forgotten |
| Registration and approval, `modules/auth`, `workers/user_approval.py`, `user_approval.bpmn` | the user's row; the process and its review tasks | register, create, approve, reject, activate, deactivate; five handlers; a reminder | engine, inside an open transaction | transaction and process commit apart; review tasks multiply | only administrators approve; who is barred stays out; row and process agree |
| SMS and its delivery, `modules/communications`, `connectors/sms`, `tasks.py` | rows of `sms_logs` | send, bulk send, webhook, check-status, poll | Kavenegar | stale writes, reports out of order, lost webhooks, deadlocks | rows tell what the gateway said; every outcome is recorded |
| Funnel journey, `funnel_journey_service.py`, `workers/funnel_stage_update.py`, `funnel_journey.bpmn` | the contact's stage, the process's position | start a journey, report an event, patch the stage, edit the contact, stage worker, stale timer; start, message and delete through `/processes` | engine, inside an open transaction | two copies of one fact, errors swallowed, two journeys for one contact, routes that move one copy alone | row and journey agree unless something is said to disturb them |
| ERP sync, `erp_sync_service.py`, `erp_routes.py`, `tasks.py` | `last_sync_at` of a source, imported invoices, payments, contacts | scheduled, manual and quick runs | ERP, database | the window moves on after a failure; overlapping runs; unique and non-unique keys | nothing in the window is skipped unnoticed; payments have invoices |
| Invoices and payments, `modules/sales` | status, total and payments of an invoice | create, update, issue, cancel, pay | database | none: every request that changes one raises | see section 5 |
| Celery and the import API, `celery_app.py`, `tasks.py`, `modules/etl`, `middleware/import_throttle.py` | the queue, results, the import count in Redis | upload, folder import, log import, bulk send, redelivery | Redis, database, gateway | late acknowledgement, check-then-increment, one transaction for a file | accepted work is not lost; results are true; the count passes the limit by a bounded number |
| Campaign lifecycle, `modules/campaigns`, `workers/campaign_*.py`, `campaign_lifecycle.bpmn` | campaign status and counters, recipients | start, pause, resume, cancel; prepare, send, track, measure, compensate | engine, gateway | requests race each other | a cancelled campaign stays cancelled |
| ETL scheduler, `infrastructure/etl/scheduler.py` | job status, next run | add, pause, resume, run now, loop | pipelines | overlapping runs | used by nothing |
| Redis middleware, `api/middleware` | counters, cached answers | rate limit, cache, usage | Redis | stale entries | limits hold |
| WebSocket hub, `api/websocket.py` | connection lists | connect, disconnect, broadcast | Redis pub/sub | awaits inside a loop over a shared list | best effort |
| Billing, alerts, CRM rows, notifications, audit, exports, connectors, deployment, front end | single rows, files | CRUD, reports, I/O | database | little | see section 5 |

How they interact. A request is one database transaction, opened by
`get_db_session` and committed *after* the handler returns; what a handler tells
Camunda or the SMS gateway in between takes effect at once and stays. Workers open
transactions of their own. The engine hands a service task to whichever replica
fetches it; all of them do so under one `worker_id`. The database runs at READ
COMMITTED, so a row read earlier in a transaction may have changed when it is written.

## 2. Modules

| Module | Models | Refinement and use |
|---|---|---|
| `TaskOutcome` | what the worker promises to a process model | abstract specification |
| `ExternalTask` | the polling loop, its reports, the engine's locks and retries | implements `TaskOutcome` (`KeepsPromise`) |
| `ExternalTaskProofs` | proofs about `ExternalTask` | |
| `UserApproval` | registration and approval: requests, row, process, handlers | its service tasks move under the guards of `TaskOutcome` |
| `UserApprovalProofs` | proofs about `UserApproval` | |
| `SmsDelivery` | a message's row and the four writers of it | |
| `SmsDeliveryProofs` | proofs about `SmsDelivery` | |
| `FunnelJourney` | a contact's stage in the row and in the process | its service tasks implement `TaskOutcome` (`JourneyUsesPromise`) |
| `FunnelJourneyProofs` | proofs about `FunnelJourney` | |
| `ErpSync` | overlapping runs of the ERP synchronisation | |
| `ErpSyncProofs` | proofs about `ErpSync` | |
| `BackgroundTasks` | import throttle, queue, workers, imports and bulk sends | |
| `BackgroundTasksProofs` | proofs about `BackgroundTasks` | |
| `WaitCircles` | who waits for itself through others: PostgreSQL's deadlock detector | used by `SmsDelivery`, `ErpSync`, `BackgroundTasks` |
| `WaitCirclesProofs` | lemmas on circles and on the measures of progress | cited by their proofs |
| `MC...` | instances for TLC | |

### ExternalTask and TaskOutcome

`status`, `lock` and `retries` are the engine's: a task is `none`, `open`,
`completed` or `error`; its lock is free, held, or kept as the timeout between
retries; `Unset` retries are Python's `None`. `phase`, `topic`, `batch` and
`current` are a replica's: where it is in `run()` and `_poll_topic`, the topic it
polls next, the fetched tasks it has not begun, and the one it works on. A fetched
task carries the retries *of the fetch*, because that is what `task.retries` is when
the failure is reported. `returned` and `raised` are histories.

One action stands for each await of the loop and its outcomes: `Poll` and `PollFails`,
`Begin`, `HandlerReturns` and `HandlerRaises`, `Complete` with its 404
(`CompleteNotFound`) and its errors (`CompleteFails`: both go on to report a BPMN
error, as the `except CamundaError` clause does), `Throw`, `Fail`, `ReportLost`, `Crash`. The engine
accepts a report as long as the task exists: the worker id always matches.
`CompleteFails` and `PollFails` may or may not have been applied by the engine.

`TaskOutcome` hides replicas, locks and retries. It says that a task ends only after
a handler returned, that an ended task stays ended, and that it may become an
incident and come back. It says nothing about running a handler once, because
the worker does not promise that.

### UserApproval

One account: `user` is the committed row. A request moves through `pc`: it checks
the committed row (`Begin`), writes it (`Write`, which takes the row lock), calls
Camunda (`StartProcess`, `ListTasks`, `CompleteTask`) and commits (`Commit`) or is
aborted (`Abort`). The process is `outcome` and `effect` of `TaskOutcome`, one set of
service tasks per token, plus `review`, the tokens that wait for an administrator. A
reminder adds a token, because `timer_reminder` does not cancel the review. `decided`
and `applied` are histories; `barred` says that the last thing done was a rejection or deactivation.

`handle_notify_user_rejected` builds a `NotificationModel` from arguments the model
does not have, catches the exception, rolls back and returns: `Handle` leaves the row
alone for it. That is what the code does, and a finding below.

### SmsDelivery

`gate` is what has become of a message at the gateway and `posts` the webhook calls
it has yet to make. `row` is the committed status. `sending` follows `send_sms`,
whose row is seen by others only when the request commits. A worker is a webhook
request, a check-status request or the poll. It holds the reports it has yet to
apply (`todo`), the change it is about to make (`want`), and what its transaction has
written (`writes`, which are its row locks). `Load` marks a row as it was read;
`Merge` is `session.merge`, which reads the row *again* and writes the columns that
differ, so that a report which changed nothing still writes the old status over a
newer one; `Flush` waits for the row lock; `Commit` makes it all visible. The poll has
no second read. `DeadlockEnds` is PostgreSQL's deadlock detector: it ends a worker that waits
for itself through any number of others (`OnCircle`). Which worker it ends is the database's choice; that a
webhook is never among those it can choose (`WebhookIsNoVictim`) is the code's doing, since a webhook takes one row.

Timestamps, costs and reasons are left out, so updates that write nothing but them
take no lock in the model.

### FunnelJourney

One contact. `row` is `current_stage` and `rowLock` the request whose open transaction
has updated it. A journey `p` is the set of its service tasks `<<p, k>>`, one for each
stage, with the `outcome` and `effect` of `TaskOutcome`: a journey is at the last stage
whose task exists, and waits for the next event when that task is completed. `value` is the process
variable `current_stage` as each task came with it: the stage itself, another one that a
caller's variables have put in its place, or `Unset`. An event
request is `Update` (the row, which takes the lock), `Correlate` (the message to the
engine) and `Commit`. The engine delivers a message only if exactly one journey waits for
it (`Hearing`); the service catches every error, time-outs included, answers
`correlated: true` all the same and commits. `Handle` is
`handle_update_funnel_stage`, which writes the `value` of its task, waiting
for the lock, and writes nothing without one (`Written`).

Starts do not look for a journey that is there (`start_batch_journeys` neither). The process routes
start a journey with the caller's variables (`StartByHand`), send one a message past the row (`Message`, which
with the id of the process reaches one of two twins) and delete it (`Delete`); none touches the row. The leads
API writes the row without the journey: `Patch` reads the row and asks for any name as its stage, `Edit` is every other
update of a contact, which carries the loaded stage along and whose `Merge` reads the row again;
`Write` writes the stage if it differs from what was read last.
`disturbed` remembers that the row was last written by something other than
the current task of a journey, with its own stage, or the event that led to it.

### ErpSync

A job is one run: the beat's task over all due sources, a request's over one, or a quick
sync, each *one session with one commit at its end*. `at[r]` is the ERP's version
of an invoice or payment, the tick at which it last changed, and `db[r]` the sequence
of committed rows with that `external_id`, which has no unique constraint. A job carries its `plan`
(versions it will write), `fresh` (those it will insert), the phone numbers it has
inserted or has yet to (`contacts`, `inserts`), and its starting time. The session
does not flush by itself but at the end of each kind: a lookup sees committed rows and, when the
payments are read, the invoices of its own run (`Visible`), but not two new customers of one
batch with the same number (`Twins`). `last_sync_at` is `window`: the
scheduled task sets it to the time it began, a manual run to the time it ends, a quick
sync never; a failed connection moves it as a success does. `Ambiguous` is
`scalar_one_or_none`, which raises for a row that is stored twice. Contacts do have a unique index: inserting
a number waits for the transaction that holds it (`HeldByOthers`), fails if it was committed, and can
deadlock in a circle of any length (`Deadlocked`); the failure dooms the whole run (`Doomed`, `CommitFails`), as does a row the database refuses (`FlushFails`).
`unfit` are the rows that cannot be stored as the ERP has them now: an invoice without a phone number, which is skipped, or
a row with values that raise, which is counted as failed (`Storable`). `missed` is the ledger
of what a committed run has left behind: an unreachable source, a fetch that failed, a row beyond the 500 of a batch, one that
was unfit, a payment without its invoice, a row stored twice, a row before the time a request asked for, a change during a run that
keeps the time of its end, or a newer version a slower run has overwritten. Jobs that update
one row may commit in either order, as they would under its row lock. Line items are left out.

### BackgroundTasks

`slots` is the count under `import_semaphore`, `passed` the requests between the check
and the increment. Nothing decrements it: `release_import_semaphore` is called nowhere, so slots come back
only when the key expires, and the routes that only list or report take one too (`Look`). Without Redis, or when it fails, the
request goes on uncounted (`FailOpen`). `queue` counts copies of a
task, since it is acknowledged when it ends: a lost worker gives its copy back
(`Crash`), and the broker's visibility timeout makes a second one while the first still runs
(`TimesOut`). `FirstStep` is where a kind of task begins: a lead file looks up and inserts
number by number in one transaction that the unique index, or a circle of workers waiting for each
other's numbers, can doom (`Doomed`); a batch is one
such transaction after the other and succeeds whatever has become of them; a log import
appends; a bulk send sends first and writes afterwards. An upload that runs its
import itself is a task that is never given back (`inline`). `Ack` stores a failure as well
as a success: nothing is retried.

Celery knows success and failure only, but a success is not all one. `out` tells three outcomes apart: `clean`, an
import without an error; `partial`, one whose answer counts errors or is `{"error": ...}` in place of an
import; and `failure`, an exception. `Openings` are the early returns and the exceptions at the
start of a task, `PassedOver` those of a batch's file, `SkipRow` the rows without a usable number or that raise outside the
database, `Ends` what a failed statement makes of the task. `ResultIsTrue` promises rows for `clean` alone.

## 3. Runs

| Run | Instance and bounds | Shows |
|---|---|---|
| `external_task` | 2 replicas, 2 tasks of the second of 2 topics, 2 retries, batch limit 2, 2 faults; 189,553 states | types; tasks end only on a returned handler; no attempt is lost; before a fault nothing is done twice, tried too often or thrown; `TaskOutcome` is implemented; every task is settled |
| `user_approval` | 2 concurrent requests, 2 tokens, 1 fault; about 711,000 states | who may be approved and log in; row and process stay together; a review is decided once; approvals are final |
| `user_approval_live` | 2 requests, 1 token, 1 fault; about 95,000 states | requests end; an approval given to the process reaches the row |
| `approve_completes_task` | as `user_approval` | **violated**, see findings |
| `rejection_deactivates` | as `user_approval` | **violated**, see findings |
| `sms_delivery` | 2 messages, one of another tenant, 1 session, the poller, no faults; 2,687,457 states | rows tell the truth; accepted messages are tracked; no webhook is the victim of a deadlock; the poll takes nothing back |
| `sms_delivery_live` | 1 message, 1 session, the poller, 2 faults; 17,024 states | outcomes are recorded whatever is lost or dies; all work ends |
| `delivered_means_reached` | 1 message, no faults | **violated**, see findings |
| `erp_sync` | 1 source, 1 invoice with 1 payment, 3 customers, 2 phone numbers, 2 jobs, 2 ticks, 3 runs or faults; 1,815,172 states | what overlapping runs lose and store twice; no payment without invoice; a duplicate stays |
| `funnel_journey` | 2 journeys, 3 stages, 2 requests, 2 faults; 411,689 states | when row and journey agree; no event moves twin journeys |
| `funnel_journey_live` | 1 journey, 3 stages, 2 requests, 2 faults; 76,604 states | every stage a journey reaches gets to the row |
| `background_tasks` | 2 tasks, 2 workers, 2 numbers, 2 requests at a limit of 1, 1 fault; 1,176,846 states | results are true; the throttle's count passes its limit by a bounded number; nothing accepted is lost; no deadlock |

Why the bounds are enough. Two replicas and one task already give every overlap of a
late report with a newer fetch; the second task shares a batch and its lock time, and
the topic before theirs shows that a pass reaches later topics. Two faults allow a lock to
be outrun and its late report to be lost or the holder to crash. The batch limit is not
reached with two tasks; the proofs cover every value. With three tasks and a limit of
two the same invariants held for one fault. Two requests are the smallest
race for a row, and the second token is the first that comes from a reminder. The proofs
cover any number of requests and tokens. In `SmsDelivery` the two workers are any
two writers of a row except two webhooks or two checks; a poll and a check of two rows
can lock each other out. In `erp_sync` two jobs are the least that overlap, two customers
of three share a number and the third has the other, so that a run can be doomed by itself, by a
committed row and by a deadlock; the batch size is not exceeded by one row of a kind, and a
slower run that takes a newer version back needs three ticks and four runs: neither is
reached by this instance, and both are covered by the theorem. Two journeys are the twins of a second start; three stages have
one in the middle. `MaxRequests` bounds events, patches, edits and the starts and messages by hand together:
two of them are a race, or a message and an event after it. One fault in `background_tasks` makes a second copy of a task that runs
beside the first. Faults bound crashes, lost calls and answers, repeated
calls and outrun locks; everything else is unbounded but for the finite sets.

`sms_delivery` and its companions do not check deadlock: when every message is refused,
or has ended unrecorded, there is nothing left to do. Nor do `erp_sync` and the funnel runs: their
bounds on runs and requests end the behaviour. All others check it. That
transactions which wait for each other do not wait for good is PostgreSQL's doing and no property of this code: the
models end one of a circle (`OnCircle`), as its detector does, and what is checked is what
becomes of the code around the victim. `sms_delivery` has no faults; that rows tell the
truth under faults as well is the theorem `RowsTellTheTruth`.

Each property of a passing run has a mutant: an operator marked *Faulty* above the
definition it would replace (a dropped guard, a wrong default, a lost reset). With it the
run must fail.

### Fairness

- `ExternalTask`: weak fairness of what a live runner does next (`run()` loops while
  its process lives; a crashed process is restarted by its supervisor; handlers end) and of
  lock expiry and retry timeouts (durations in `config.py`). Faults are not fair.
- `UserApproval`: strong fairness of a request's own steps, since PostgreSQL grants a row lock in
  the order it was asked for and a request that keeps waiting gets it; strong fairness of
  the workers together, which is what `EventuallySettled` establishes for each task. `Begin`,
  reminders and faults are not fair.
- `SmsDelivery`: weak fairness of `Poll` (the beat starts it every ten minutes) and strong
  fairness of a worker's steps, for the same reason. Neither webhooks nor checks need arrive.
- `FunnelJourney`: strong fairness of a request's own steps, again for the row lock, and of the
  workers together, from `EventuallySettled`. Requests, starts, the process routes and faults are not fair.
- `ErpSync` and `BackgroundTasks` state no liveness: a failed run or task is
  not tried again by anything but the next request or beat, so that nothing need come of it.

### Findings

1. `approve_user` says it completes the Camunda task. When `notify_admins` has not run yet
   there is no such task, the approval is committed, and the process stays open (no fault needed).
2. `handle_notify_user_rejected` says it deactivates the user. It rolls that back. The reject
   request does deactivate; if that request is aborted after completing the review, nothing does.
3. `KAVENEGAR_STATUS_MAP` maps status 11 to delivered. The older connector and its test
   treat 11 as undelivered, a failure.

## 4. Proofs

`tlapm` checks every theorem below for all values of the constants, from these assumptions:
`SettingsAssumption`, `TopicsAssumption` (at least one topic, each task has one),
`BoundsAssumption`, `RequestAssumption` ("nobody" is not a request), `LimitsAssumption`,
`PartiesAssumption` (the poller is not a session), `FiniteAssumption` (finitely many messages and
sessions; requests, workers and numbers), `StagesAssumption`, `JourneyAssumption` (finitely many
journeys), `NobodyAssumption`, `NamesAssumption` (no name of a stage is another one, or none), `RowAssumption` (the ERP's rows have sources, invoices and numbers; there are
finitely many of each, and of jobs), `LimitAssumption` and the `BoundAssumption`s of
the bounds. TLC evaluates them on every run.

| Theorem | Property | |
|---|---|---|
| `TypeCorrect` | `TypeOK` | worker and engine |
| `ResultsAreReal` | `SettledMeansReturned` | |
| `IncidentsAreExhausted` | `IncidentMeansExhausted` | |
| `OnceUntilAFault` | `OnceWithoutFaults` | before a fault: one replica, one result, at most `MaxRetries` tries, no error |
| `Implements` | `KeepsPromise` | every step of the worker is one of `TaskOutcome`, or stutters |
| `ApprovalTypes` | `TypeOK` | accounts and process |
| `ApprovalsAreByAdmins` | `ApprovedByAdmin` | |
| `BarredUsersStayOut` | `BarredStaysOut` | |
| `ReviewsAreDecidedOnce` | `DecidedOnce` | |
| `ActivationsReachTheRow` | | no commit or abort takes back an approval that a handler has made |
| `ProcessFollowsTheWorker` | | every step of the process is one of `TaskOutcome`, or abandons it with its registration |
| `ProcessesAreKnown` | `ProcessIsKnown` | |
| `ApprovalsAreFinal` | `ApprovalIsFinal` | action property |
| `SmsTypes` | `TypeOK` | messages and their rows |
| `RowsTellTheTruth` | `RowTellsTruth` | |
| `AcceptedAreTracked` | `AcceptedIsTracked` | |
| `PollsOnlyAdvance` | `PollOnlyAdvances` | action property |
| `WebhooksAreNoVictims` | `WebhookIsNoVictim` | for any number of sessions and messages |
| `WorkOnlyAdvances` | | steps of a worker go down in an order, nobody else's take it back, and the order is well founded |
| `JourneyTypes` | `TypeOK` | journeys and the contact's row |
| `RowAndJourneyInStep` | `InStep` | |
| `TwinsAreStuck` | `TwinJourneysAreStuck` | action property |
| `JourneyUsesPromise` | | every step of a journey's service task is one of `TaskOutcome`, or stutters |
| `SyncTypes` | `TypeOK` | runs of the ERP sync |
| `WindowsAreCovered` | `BehindWindowIsStored` | |
| `PaymentsHaveInvoices` | `PaymentHasInvoice` | |
| `CopiesAreBounded` | `CopiesBounded` | |
| `DuplicatesAreFrozen` | `DuplicateIsFrozen` | action property |
| `RunsOnlyAdvance` | | the same of a run |
| `TaskTypes` | `TypeOK` | throttle, queue and workers |
| `ThrottleOvershootIsBounded` | `OvershootBounded` | of the requests counted since the key expired |
| `TasksAreNotLost` | `NotLost` | |
| `ResultsAreTrue` | `ResultIsTrue` | |
| `WorkersOnlyAdvance` | | the same of a Celery worker |

**ExternalTask.** None of the properties is inductive, because a report changes the engine
according to what a runner has in its hand. `IInv` says what is in hand is covered by the past:
a runner that reports a result has seen a handler return (`HandReturned`); what it has in hand was
created (`HandCreated`); and every attempt missing from a retry count, the engine's or
a fetched one, was used by a handler that raised, the one being reported included
(`RetriesEarned`, `HandEarned`, `FailureEarned`). The last three are what makes late
failures harmless: they may raise the count again but cannot lower it beyond the attempts made.
`CleanInv` is a second invariant that holds before the first fault: hands are apart
(`Apart`), where the loop is says what is in hand (`Placed`), what is in hand is locked (`Locked`),
and a handler that has returned is about to be reported (`Once`). `CountInv` adds that the retries
in hand are the engine's, so that every attempt that raised is counted once, as soon as it is
reported: a task is tried at most `MaxRetries` times. The bound is the code's own
(`max_retries` in `base.py`), and a report that outlives its lock is enough to pass it. The refinement uses `IInv`
at each step, with `outcomeBar` and `effectBar` as the mapping.

**UserApproval.** The checks are made on the committed row long before the commit. The invariant
says that they still hold then: the row lock belongs to the request that wrote
(`OneWriter`), the place of a request fits what it asks for (`KindsFit`), a registration
that will commit finds no row and the others find one (`RowFits`), an activation task means the
process was told to approve (`ActivationDecided`), and who is barred is inactive
(`BarredInactive`), which is why a late approval lets nobody in: it does not touch `is_active`.

`TokensFit` says where each token of the process is: not yet at its review, at it, or past its
gateway, and only the step that takes it out of `review` sends it on. `DecidedOnce` needs both that
and the row lock: a request lists the reviews after it has written, so no other request can complete
the one it found, and a reminder only adds one. Without the lock's wait (the mutant `WriteNoWait`) two
requests complete the same review. `ActivationsLand` is stronger than the end of a process: the row may be
changed by any request between the handler and the end, and none writes `is_approved` back.
`ProcessFollowsTheWorker` together with `Implements` says that the worker keeps to what requests and
handlers are modelled with. The step that is not one of `TaskOutcome` is the aborted registration
(`Abandoned`): the process it has started stays in the engine without a row, and the model lets go of it.

**SmsDelivery.** A report is written long after it was made. The invariant follows it on its
way: whatever a webhook call or a worker has to tell (`ReportsAgree`), and whatever a worker
is about to write or has written (`ChangesAgree`), agrees with the gateway, and goes on agreeing
because the gateway never leaves a final status (`AgreesStays`). A worker writes only to rows
on record, and the poll only final statuses (`ChangesFit`, from `KindsFit` and `RowsEnded`): this
is what makes a late poll harmless, and why only a session's write can take a final status
back. `CleanInv` adds, for `AcceptedIsTracked`, that a refused message is unknown to the
gateway until the first fault.

**FunnelJourney.** `InStep` has many ways to go wrong and few that count, because `disturbed` is cleared
only by a writer that agrees with the journey. `RowFits` is `InStep` made inductive: the row is right from the
return of the handler on, and stays so until something disturbs it. A message that moves the journey makes its
conclusion speak of a task whose handler has not returned (`EffectsFit`); a handler that runs late is seen to be late, since a
journey has completed every stage before the one it is at (`InOrder`); a commit disturbs unless a
journey it has moved is still there; and while a request holds the row no handler writes (`RequestsFit`). Twins are stuck because `Hearing` is empty
for an event two journeys wait for, and only a message by the id of one of them, or its deletion, changes that.
`JourneyUsesPromise` together with `Implements` says that the worker keeps to what the journey is modelled with.

**ErpSync.** `BehindWindowIsStored` speaks of committed windows, but what becomes of a row is
decided when a run reads it. The invariant follows each run from there: a run that will move a
window has accounted for the rows it has passed, being about to store them or having put them on its
own ledger (`PassedFits`), and need not account for those before the window it started from, because
they are accounted for already (`AheadFits`); `ClocksFit` says nothing lies ahead of the clock,
so that a change during a scheduled run is after the window it will set. The proof
needs `TakenBack`, and an attempt without it failed: a slow run may overwrite a
newer version that is already behind the window. `CopiesFit` bounds the copies of a row by the
runs that have yet to insert one, and `PlanFits` ties payments to invoices, committed or inserted by the
same run. `JobStepKeeps` is the lemma that a step of a run disturbs no other run.

**BackgroundTasks.** `Counted` adds up starts: a worker that is about to send or commit has been counted as
started but not yet as done, so neither crash nor redelivery can make more effects than starts, and
starts and queued copies together are at most one more than the faults. `HoldsOne` places a worker by the kind
of its task, `LeadsFit` follows the numbers of a file that is `clean` so far through its transaction to the result.
`OvershootBounded` is inductive by itself: each check that passes saw a count below the limit.

**Waiting.** Three modules have transactions that wait for each other in an order nobody has chosen: rows of a
poll and a check, numbers of a sync's customers, numbers of two imported files. Each has a theorem of progress
(`WorkOnlyAdvances`, `RunsOnlyAdvance`, `WorkersOnlyAdvance`): a step of a member brings it closer to its end
(`Closer`), nobody else's step takes it back, and it cannot come closer for ever, for the order is well founded on the
states that finitely many rows, sources or numbers allow (`SmallestSet`). It is what an argument that all work ends
under fairness needs; that conclusion is temporal and TLC's (`WorkEnds`).
Which transactions can be deadlock victims is the code's order of locks: `WebhooksAreNoVictims` holds because a webhook has
written nothing when it waits (`WebhooksFit`), so that nobody waits for it and it is on no circle (`CircleNeighbours`).

`ErpSync` had ended only circles of two jobs, which is as many as its instance has. A proof for any number of jobs failed on
a circle of three, which PostgreSQL does find: the model was corrected.

Model-checked only: `EventuallySettled`, `ApprovalLands`, `RequestsEnd`, `DeliveryRecorded`,
`WorkEnds` and `StageLands`: liveness under fairness is beyond the prover. Every invariant and action
property of the passing runs has a theorem.

## 5. Not modelled

The engine, the gateway, the ERP, the database and Redis are external and modelled by what the
code's calls make of them. Passwords, tokens, roles, prices, reports, file formats and the front end are
data or pure I/O. What else is left out, and why:

- Campaign lifecycle. No route uses `CampaignWorkflowService`, so the process is never started;
  started by hand it ends at its first task, whose worker reads columns the contact does not
  have, and `sms_compensation` imports a name that is not there. A model of it would describe a program that
  cannot run. What runs is the check-then-update of start, pause, resume and cancel on one row,
  with nothing that acts on the status.
- Invoices and payments through the API. No request changes an invoice: `InvoiceRepository.add` and `update` end in a refresh and
  an entity made of the row, which reads `line_items` and `payments`, lazy relationships that raise in an async
  session, and the transaction is rolled back. `record_payment` raises before that, at `PaymentStatus.CONFIRMED`
  (`modules/sales/api/routes.py:402`), which `core/domain/enums.py:86-92` does not define. The ERP sync, which does write
  invoices and payments, is in `ErpSync`. It stores `partially_paid`, where the enumeration has `partial_paid`, and `confirmed`
  for a payment: a request that makes an entity of such a row raises. A model of the API would describe what cannot run.
- The ETL schedulers and pipelines. Nothing starts them; the import API and the beat have taken
  their place and are modelled.
- The escalation process of the ERP sync. Its retry calls `check_connection`, which no connector has, so it
  can only fail.
- Rate limit, response cache, usage. The limit is one atomic increment of a fixed window (its docstring says
  sliding); a cached answer ends by age and no write depends on one; usage is a count read in one request.
- The WebSocket hub: best effort, on one event loop; no state depends on who has heard what.
- Tenants, billing, alerts, analytics, segmentation, teams, notifications, audit, search, export:
  single rows written in the request's transaction, or computed from others. The writes of the leads
  API that meet another component are in `FunnelJourney`.
- In `UserApproval` there is one account, so the uniqueness of user names between accounts (and the
  missing one of e-mails) is not in it, nor are the `/processes` routes, by which an administrator
  can delete a process under its users (for the funnel journeys they are in `FunnelJourney`).
- In `SmsDelivery`: templates, call logs and statistics. In `FunnelJourney`: the stale timers, which only write notifications, the deletion of the contact, the
  journeys of tenants' own funnels, and the mode without Camunda. In `ErpSync`: line items, the sync log and the
  requests that edit a source. In `BackgroundTasks`: the hourly limit, progress reports, contacts deleted by hand, and the tasks
  that recompute rows of their own.
