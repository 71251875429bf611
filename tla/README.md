# Govyzer, specified

Govyzer is a CRM for property brokers: leads, listings and portals, off-plan stock with holds
and reservations, deals and commissions, a sales screen, workflows, and a job queue under all of
it. This directory holds TLA+ specifications of its core, the TLC runs that check them on small
instances, and proofs for every instance. Paths below are relative to the repository; `api/` is
`src/apps/api/src/`.

The system is an Express application on MySQL (through knex) that runs as short serverless
functions. Three things make it hard to test:

- requests, cron batches and jobs run at the same time and meet only in the database. Some
  functions take row locks for their whole transaction, others read, decide and write later;
- background work is a table. A batch of it can die anywhere, and there is no process that knows
  it did;
- the same event or job can be processed twice, late or out of order, and the code has to make
  that harmless by looking at the rows again.

## 1. Inventory

### Components, their state and operations

| Component | State it keeps | Operations |
| --- | --- | --- |
| **Off-plan inventory** `api/modules/offplan` | `units.stock_status`, `hold_id`, `reservation_id`; `unit_holds`; `reservations`; `bookings` | create, release and expire a hold; create, extend, cancel and expire a reservation; book; change status; import stock |
| **Job queue** `api/core/jobs.js`, run by `api/modules/cron` | `jobs` (status, attempts, lease, dedupe key), `dead_letter_jobs`, `job_attempts` | enqueue, claim, complete, fail, give back, retry a dead letter |
| **Deals and commission** `api/modules/deals`, `packages/domain/src/commission.js` | `deals`, `commission_snapshots`, `commission_lines` | create, edit, change stage (win, lose, cancel), approve a line; calculate, reverse |
| **Outbox** `api/core/outbox.js`, `api/jobs/outbox-processor.js` | `outbox_events`, `webhook_deliveries` | emit, claim, process, complete, fail |
| **Sales screen** `api/modules/sales-screen` | `sales_events`, `points_ledger`, display pairings and sessions | create an event, award and reverse points, pair and revoke displays |
| **Leads** `api/modules/leads` | `leads`, pool entries, assignments, SLA events | create, assign, edit, acknowledge, release to and claim from the pool, SLA warning and breach |
| **Portals** `api/modules/portals` | `portal_publications`, listing's aggregate status | publish, execute, unpublish, aggregate |
| **Listings** `api/modules/listings` | `listings` with versions, approvals | create, edit, submit, decide, change status |
| **Workflow engine** `api/modules/workflows` | `workflow_runs`, step log | trigger, run, wait, resume |
| **Sessions** `api/modules/auth` | `sessions`, `password_reset_tokens`; users and invitations | login, refresh, logout, switch of organization, reset; register, verify, invite, accept |
| **Request idempotency** `api/core/idempotency.js` | `idempotency_keys` | begin, replay, complete |
| **Webhooks in** `api/modules/webhooks` | `webhook_receipts` | receive, process |
| rate limit, references, repository, contacts, documents, finance, activities, media, AI, reports, organizations | counters and ordinary rows | mostly single statements or single transactions |
| **Web clients, schemas, migrations, configuration** | none of their own | rendering, input shapes, DDL |

### How they interact

Requests call the services, which write rows, enqueue jobs and emit outbox events. Cron requests
(`api/modules/cron/routes.js`) run batches of jobs and of events; a job handler
(`api/jobs/handlers.js`) calls a service function such as `expireReservation`. Winning a deal
marks its unit sold, so Deals writes the table Inventory guards; `deal.won` and `deal.cancelled`
events award and take back points on the sales screen. Portal and webhook calls leave the process
between two statements.

### What is hard, and what correctness means

| Component | Hard behaviour | Correct when |
| --- | --- | --- |
| Inventory | agents race for a unit; deadlines race extensions and bookings; three writers take no lock | one active hold, one live reservation and one booking per unit; a hold protects its agent; a reserved unit has its reservation; nothing expires early, everything overdue ends |
| Job queue | two batches read the same candidates; a batch dies with jobs in hand | one hand per job; every job settles; every job given up leaves a dead letter; a finished job is not run again |
| Deals | a check made before the transaction that relies on it; stages repeated | reversed money is reversed once; the snapshot that stands is that of the won deal; approvals come to an end |
| Outbox, sales screen | retries put events out of order; a crash between an event and its points | points awarded and reversed at most once, and match the deal in the end |
| Leads | acknowledgement, SLA and pool meet on one lead | one owner; an acknowledgement is not overwritten; a lead in the pool is there to be claimed, and claimed once |
| Portals | the portal answers late | the row says what the portal was last told; unpublishing happens |
| Sessions | refresh races refresh, logout, reset | a login has one good session, none once it was ended; none survives a reset of the password |
| Workflows | a wait resumed by job and by sweep, jobs that die | no action is skipped, none repeated beyond a bound; run limits hold |
| Idempotency | the request dies in the middle | one effect per key; a retry gets an answer |

`PROJECT.json` lists each hazard at the line where it bites, with the properties that cover it.

## 2. Modules

| Module | What it is |
| --- | --- |
| `Inventory` | units, holds, reservations, bookings, their expiry jobs, and the unlocked writers |
| `UnitClaims` | the abstract promise of the reservation flow: a unit has one claimant at a time, a reservation claims once |
| `JobQueue` | the job table and the batches, statement by statement |
| `Leases` | the abstract promise of claiming rows, of `JobQueue` and of `Outbox`: a row is taken only from nobody's hands, and laid down only by its holder |
| `Deals` | one deal, its snapshots and lines, and the requests on it |
| `Ledger` | the abstract promise of a deal's commission: its amount is entered when it is earned and taken back when it no longer is, and no entry changes |
| `Outbox` | the events of one deal, the batches that handle them, and what they leave on the sales screen |
| `Leads` | one lead, its owner and its pool entries, and the timers that watch for an answer |
| `Sessions` | the refresh sessions of one account, and the links that reset its password |
| `Logins` | the abstract promise of refresh tokens: a line of tokens is begun, its one good token is exchanged for a new one, and it is ended for good |
| `Portals` | one listing, its publications, what the portals show, and the jobs between them |
| `Workflows` | the runs of one workflow on one entity, and the jobs that start, resume and sweep them |
| `InventoryProofs`, `JobQueueProofs`, `DealsProofs`, `OutboxProofs`, `LeadsProofs`, `SessionsProofs`, `PortalsProofs`, `WorkflowsProofs` | proofs about the module of that name, which they extend |
| `MCInventory`, `MCJobQueue`, `MCDeals`, `MCOutbox`, `MCLeads`, `MCSessions`, `MCPortals`, `MCWorkflows` | symmetry sets and structured constants of the TLC runs |

Two modules have a constant that says what staff refrain from: `Paths` in `Inventory`, of which
`Disciplined` speaks, and `Patient` in `Outbox`. The code does not enforce it. It is the assumption
under which the component keeps its promise; section 5 says what happens without it.

`Deals`, `Leads`, `Sessions` and `Portals` assume nothing of the kind: whatever the code lets overlap
may overlap. Where an overlap breaks a promise, the module has a history variable, which no guard
reads, that records when just this overlap happens (`slips`; `overtaken`, `crossed`, `loose`;
`line`, `late`; `apart`, `crossed`), and the property says that nothing else breaks it. The
exceptions are defined by what was read and what is there when it is written, so that a property is
also a statement of which races matter.

### Inventory

Every function of `inventory.js` runs in one transaction (`withTransaction`) that locks the rows
it is about to change (`forUpdate`) before it reads them, so it is one action: `CreateHold`,
`ReleaseHold`, `ExpireHold`, `CreateReservation`, `ExtendReservation`, `CancelReservation`,
`ExpireReservation`, `CreateBooking`. `releaseHold` and the creation of a reservation take locks
in opposite orders; MySQL breaks such a cycle by rolling one of them back, which `withTransaction`
retries, so the cycle is below the grain of the model.

Three writers of `stock_status` take no lock: the status form (`POST /units/:id/status`), the
stock import, and the winning of a deal. Each is a `Decide...` action, which reads and checks, and
a later `MakeWrite`. The constant `Paths` says which of the ways round the flow staff use:
`status`, `override`, `import`, `cancel_ended` (cancelling a reservation that has already ended)
and `deal`. `Disciplined` is `Paths \subseteq {"deal"}`: it is the assumption under which the
flow keeps its promises; section 5 shows what breaks without it.

Expiry is a set of jobs `[kind, id, at]`, one per deadline as in the dedupe keys. A job may run
again after it ran (`again`): by `JobQueue_reclaim` below that is what the queue really allows. The cron
sweep for overdue reservations only enqueues a run of the same handler, which a repeated job
already is. No code sets the status `confirmed`; it stays in `Live` because the functions test for it.

### JobQueue

`claimJobs` is two statements, a read of candidates and an update conditional on the lease, and
they are two steps (`ReadCandidates`, `Claim`). `completeJob`, `failJob` and the insert of the
dead letter are steps too, and a batch may die between any two (`Crash`). A dead batch leaves
`locked_by` behind (`Ghost`) until its lease ends (`LeaseEnds`). The lease is 120 s and a function
lives at most 60 s, so no lease ends under a live batch: that bound of the deployment is the guard
of `LeaseEnds`. Time is `due`, whether `run_after` has passed.

### Deals

A request reads and checks outside any transaction (`AskStage`, `AskEdit`, `AskDecision`) and
writes later. The write of a stage begins with an update of the deal's row, which locks it till
commit, so `WriteStage`, with `finalizeCommission` or `reverseCommission` inside, is one step; so
is `WriteEdit`. The decision on a commission line is three statements outside a transaction:
`WriteDecision`, `SeePending`, `ApproveDeal`.

Requests of all kinds may be under way together. `slips` records the kinds of requests that were
written to a deal they were no longer meant for. A change of stage slips when the deal was won since
it was read, or was won before and does not move to that stage from the one it has by then: the
stage repeated, which `CanMove` accepts, or another change gone ahead. An edit slips when it is
written to a deal that may not be edited any more; a decision, or the settling after it, when its
snapshot is no more that of a won deal.

Amounts are small numbers; the split into lines is abstracted to the set of lines that wait for
approval, chosen freely since the plan decides it. The latest snapshot is found by order of
creation; the code's `created_at` has a precision of a second and two snapshots of one
second would be in either order.

### Outbox

A deal is won and cancelled (`WinDeal`, `CancelDeal`); both write an event in the transaction of
the change. A batch claims events as the job queue does (`ReadCandidates`, `Claim`) and handles
them outside any transaction, so each statement is a phase of the batch: `Look` and `Celebrate`
are the check and the insert of `createSalesEvent`, `Award` one rule of `awardPoints`;
`ReadEntries`, `CheckEntry`, `Negate` and `MarkCelebration` are `reversePointsFor`; `Publish` is the
rest of the handler, which inserts the webhook deliveries. The unique keys of `sales_events` and
`points_ledger` make a second insert throw. `Throw` is any other failure of a statement, `Crash`
the end of a function; `Fail` puts the event off or gives it up.

`Patient` says whether a won deal is cancelled only when its win has been handled; `InOrder`
whether the claimed rows come in the order of their ids, which MySQL will usually do and the
query does not ask for. The lease is 60 s and so is the life of a function
(`apps/api/vercel.json:8`). The deal is eligible for the sales screen, has an agent, and its
tenant approves celebrations automatically.

### Leads

A request of staff is a transaction (`Assign`, `UpdateLead`, `ChangeStatus`, `ReleaseToPool`, `Claim`),
except that `claimFromPool` looks for the newest entry first (`ReadEntry`), and its conditional update
finds out later whether it is still there (`Claim`, `LoseClaim`). An entry may be reserved for a group
(`for`) and may end (`ends`, `Expire`). The refusals of `claimFromPool` change nothing: the one for an
entry past its end writes `expired` and then throws inside the transaction, which takes the write back.
So they are guards of `ReadEntry`, and such an entry stays the newest.

`UpdateLead` is the owner in the body of `PATCH /leads/:id` (`leads/service.js:297-305`): it writes the
lead and neither the assignments nor the pool. A body that also changes the stage is this action and
`ChangeStatus`, one after the other.

`processSlaEvent` runs in no transaction, so each of its statements is a phase of a `worker`: `ReadLead`,
then `CloseTimer`, or `Trigger`, `Breach`, and for the release `EnterPool`, `TakeFromOwner`,
`Deactivate`. Two actions of workflows do the same: `add_to_lead_pool` goes through the phases from
`EnterPool` on, and `assign_lead` calls `assignLead` with no transaction (`engine.js:77-89`), which is
`AssignByWorkflow`, `Grant`, `Own`. `Die` is a statement that throws or a function that ends; the job may
run the timer again as long as its row is `scheduled`. A timeline (`timer[r]`) begins at creation and at
every claim; `age` counts the timers of it that are due, and a timeline begun earlier is never behind a
later one. A rule with `pool_release_disabled` (`packages/domain/src/sla.js:58`) is a `Timeline` without
that step, the same for all timelines of a lead.

Requests and handlers overlap in any way. `overtaken`: a claim fell between the statements of a release,
and no entry was made since. `crossed`: the last acknowledgement met a handler that had read the lead.
`loose`: the owner was edited, or owner and assignments were written by two at once or only halfway,
since they were last written undisturbed. Assignment rules are abstracted to any agent; notifications,
scores and history are left out.

### Sessions

A session is a row with the hash of a refresh token and a family. Refresh reads the session and,
if it is good, later revokes it and inserts the next (`StartRefresh`, `Rotate`); if it was revoked
it revokes the family (`RevokeFamily`). Login compares the password with the user as read, and
opens a session later (`StartLogin`, `OpenSession`). Switching the organization is a logout and a
new family (`StartSwitch`, `LeaveOrganization`, `OpenSession`). Each row remembers with which password
its login was made: the code has no such column, it is there so that a property can speak of it.
`Die` may end a request between any two of its statements.

Requests overlap in any way. `line` gives each session the session its line began with: a login begins
a line, a rotation continues it. A rotation is `Overtaken` when its session was live as it was read and is
revoked as it is written: it then begins a line of its own, and that line is `late`; so is that of a
login or a switch that compared a password which was reset before the session is written. Expiry only
refuses, and takes no step.

### Portals

`publishListing` is a read with its validation (`AskPublish`) and a transaction (`Publish`);
`unpublishListing` and the retry of one publication are two statements for every publication
(`Mark`, `Queue`); `updateListing` and `changeStatus` read and then write (`UpdateListing`,
`ChangeStatus`). A job takes a publication (`Take`), writes, calls the portal, writes the
answer and then the aggregate status of the listing: `Begin`, `Call`, `Write`, `Count`, `Finish` for
`executePublication`, `Remove` for `executeUnpublish`. `advert` is what the portal shows; a
call that throws may have been obeyed. Jobs are kept by their dedupe key for ever, as the unique index
keeps them, so a key that was used swallows what is enqueued under it later. `Sweep` is the
hourly sweep with its key of id and number of attempts. `Crash` leaves the job running, and no batch takes it again;
`RequestDies` ends a request between its statements.

Users ask, one request at a time, whatever is under way. `apart` remembers whether so far they asked
only when what they asked for was settled, and no job started while a request was under way or when it
was over. `crossed` is
the set of portals where a job to publish and one to remove the advert met: both were between their
statements, or the one to remove it began when the status was `published`.

The six statuses from which nothing can be published are one, with the moves of all of them; approvals,
field validation and the health of accounts are left out. So are statements of a job that throw, other
than the call of the portal: they make it try again from its first statement, as a failed removal does.
`Take` claims a job that is queued or, as `jobs.js:91` allows, is over by the time it is claimed; the latter ends
`apart`, and is counted with the crashes, since both are bounded.

### Workflows

A job is claimed in two steps, as `claimJobs` does it: `ReadCandidate` reads a job that is due, and `Take`
claims it by its lease alone. In between another worker may have taken it, done it and finished; it is
then done again, with no fault of anybody (`again` counts this). `GiveBack` puts back what a batch
past its time has not begun.

`executeRun` for a new event counts the runs of the day, then inserts the run (`Count`,
`Insert`), then does the actions in order (`Act`). A `wait` writes the status, then queues the
job that resumes behind it (`Wait`, `QueueResume`), and ends the job. The sweep queues a job without
a position, under a key that is always the same (`Sweep`). A job that resumes or sweeps evaluates the
conditions again and does not look at the status of the run (`Evaluate`).
`StartPosition` is where each kind of job begins. `ActionThrows` is an action, or the log of the one before
it, that throws and fails the run; `Throw` a statement outside the actions, which lets the job try
again; `Crash` the end of the function.

An action is `plain`, which may be repeated; `once`, for points and celebrations, which carry an
idempotency key of run and position; or a `wait`. Conditions hold or not, freely. What the actions
write is the business of the other modules. The positions of a version are taken to be distinct, which
the schema does not ask for (`packages/validation/src/business.js:213`): an action that shares the
position of a wait before it is left out, since the run goes on at `position + 1` (`engine.js:224`, 297).

### What is read as a step

MySQL runs each statement atomically and holds row locks until commit. A transaction that locks
first is one step; anything else is one step per statement that reads or writes shared rows.
Rows nothing decides on (history, audit, events emitted in the same transaction) are left out.

## 3. Runs

| Run | Instance | States | Shows |
| --- | --- | --- | --- |
| `Inventory_all` | 1 unit, 2 holds, 1 reservation, 1 clerk, all paths, clock to 2 | 458 k | on every path: types, one active hold, a job for every deadline, no early expiry, ended is ended, overdue ends |
| `Inventory_flow` | 2 units, 1 hold, 2 reservations, 2 agents, 1 lead, deals | 649 k | the disciplined flow: no double reservation or booking, reserved is backed, holds protect, `UnitClaims` is implemented |
| `Inventory_double` | 1 unit, 3 reservations, `cancel_ended` | violation | cancelling an expired reservation frees the unit under the next one; two live reservations |
| `JobQueue_safe` | 3 jobs, two with one key, 2 batches, 2 attempts, 1 crash | 74 k | ownership, dead letters, settling |
| `JobQueue_reclaim` | the same, no crash | violation | a job completed by one batch is claimed and run again by another |
| `Deals_races` | 3 requests of any kind, 2 lines, amounts 0 and 1, 2 snapshots, 1 edit | 3.8 M | money reversed exactly once and snapshot and deal agree until a request slips; an approval stands; a deal never goes on waiting when no line does |
| `Outbox_patient` | 3 events, 2 rules, 2 batches, 2 attempts, 2 faults, any order | 1.5 M | one hand per event; points given completely, and taken back completely; no event processed without its deliveries |
| `Outbox_late` | 2 events, 1 batch, 1 fault, in order, not patient | violation | a win retried after the cancellation leaves its points and celebration |
| `Leads_pool` | 2 agents, 2 handlers, up to 3 timelines of the release, 2 turns of staff, workflow or fault | 175 k | a lead in the pool has an entry, claimed once; owner and assignment agree; an acknowledgement stands; an unanswered lead reaches the pool |
| `Sessions_races` | 4 rows, 2 requests, 1 link | 348 k | the sessions implement `Logins`: one good token per line, none once ended, late lines only from overtaken requests; no other session of an old password |
| `Portals_jobs` | 1 portal, 2 workers, 2 attempts, 2 requests at any time, 1 retry, 1 crash or second claim | 3.3 M | the status of a publication is what the portal shows unless opposite jobs met; what is queued is taken up |
| `Workflows_limit` | 3 events, 2 workers, limit 1, actions wait, once, plain; 2 attempts, 1 fault or second claim of a job that is over | 1.2 M | no action skipped, none repeated beyond its bound, the limit overrun by no more than the jobs that count together |

### Why these bounds

- *Inventory.* Every property speaks of at most two holds or two reservations of one unit, and
  the faulty run needs three reservations on one unit (one ended, one robbed, one new). Two units
  are there in `Inventory_flow` so that a step could disturb the wrong one; two agents and a lead
  so that a hold can belong to the reserving agent, to his lead or to neither. A clock of 2 with
  durations of 1 has a deadline, an extension past it, and a stale job at the old one.
- *JobQueue.* Two batches are needed to overlap, three jobs for two limits of `Limit = 2`, two of
  them under one key to exercise deduplication, one without a key for the retry of a dead letter;
  `MaxAttempts = 2` has a retry that is not the last.
- *Deals.* Three requests let two decisions, their settling and a cancellation meet; two lines let one
  be decided while the other waits; the amount 0 stands for none, and an edit to or from it shows. Two
  snapshots are a win and its reversal, or two wins, which is where the promises about money end.
- *Outbox.* Three events are a win, a repeated win or cancellation, and a cancellation; two batches
  overlap in claiming and in handling two events of the deal at once; two rules let a failure fall
  between them; two faults let a retry fail again, and with it `MaxAttempts = 2` be reached, or a
  batch die while another's event is retried.
- *Leads.* Two handlers can hold the same timer, or an old owner's and a new owner's, or a timer and
  a workflow. A turn is a request of staff, the start of a workflow or a fault: two of them are a claim
  or an assignment in the middle of a release that another begins again, or an acknowledgement between
  two handlers; what a handler, the clock or the second statement of a claim does takes no turn. The run
  has only the release in its timeline: the other two timers take the same phases and stop before the
  pool. The proofs are for every timeline and any number of turns.
- *Sessions.* Four rows are two logins with a rotation each, or one rotated three times; two requests are
  what a race needs; one link is a reset in the middle of either. The proofs are for any number.
- *Portals.* Nothing relates two portals but the listing's aggregate status and the order in which an
  unpublish marks them; the two properties speak of one publication. Two requests are a publication and
  an unpublish, an edit or a retry beside it; two workers are a late job beside a
  new one; two attempts a failure that is not the last. The proofs are for any number of portals and requests.
- *Workflows.* A wait first has the job of the event, the sweep and the job that resumes all start in front
  of the same two actions; one of these must not be repeated and the other may be. Three events under a
  limit of one show the overrun by two workers; one mishap lets a job die at every step or be claimed
  once it is over. The proofs are for any actions.

`CHECK_DEADLOCK FALSE` is set everywhere: with finitely many identifiers, and a clock that stops,
a run really can use everything up.

### Fairness

- `Inventory!Fairness`: the due job of each reservation and hold is eventually run to completion.
  Cron calls the runner every minute, whatever happened before. The exception is a job whose batch
  died with it in hand, which `JobQueue` shows to be lost (`Orphaned`); `OverdueEnds` is about
  the others. Extensions may be made for ever only up to `MaxExpiry`; `OverdueEnds` accepts an
  extension as an answer.
- `JobQueue!Fairness`: a batch is started again and again, a batch that does not die goes on, and
  time passes. Nothing is assumed of leases, crashes, or who wins a race.
- `Leads!Fairness`: the clock runs, the sweep over due timers starts each that is still
  `scheduled` (cron calls it every five minutes, `vercel.json:14`), and a handler that was started goes on.
  `AnsweredOrPooled` leaves out runs in which a handler fails: one that dies after `Trigger` has
  left the timer `triggered`, and nothing takes it up again.

The other modules state no fairness and have no liveness property. `JobQueue` settles for them:
they claim in the same way. `NothingLeftPending` (`Deals`), `QueuedHasTaker` (`Portals`) and the
properties of `Outbox` say of quiet states, or of what is enabled, what liveness would say of the end.

## 4. Proofs

All theorems hold for any sets of identifiers and any bounds, under the assumptions the modules
name (`ConstantsAssumption`, `StatusAssumption`, `JobsAssumption`, `DealsAssumption`,
`OutboxAssumption`, `LeadsAssumption`, `SessionsAssumption`, `PortalsAssumption`,
`WorkflowsAssumption`: bounds are numbers, NULL is not an identifier, statuses are statuses, and
there are finitely many workers, at least one). The six theorems of
`Inventory` whose names begin with `Flow` assume `Disciplined`, and `CancelledIsClear` of `Outbox` assumes
`Patient`, in their statements; no other theorem has a condition.

Five components are shown to implement an abstract specification, each by the same argument: under
the component's inductive invariant every action is one abstract action or a stutter, and one
lemma per kind of action says which. `ImplementsClaims` and `ImplementsLogins` are also properties
of a run. TLC agrees with the others too, when `ImplementsLeases` or `ImplementsLedger` is added to
`JobQueue_safe` or `Outbox_patient`, or `Deals_races`; the runs leave them to the proofs, which say
more and cost less.

**InventoryProofs.** `TypeCorrect`, `OneActiveHoldHolds`, `ExpiryScheduledHolds`, `NeverEarly` and
`EndedIsForGood` need no discipline. For `ExpiryScheduled` the inductive step is that a deadline only changes in
the action that schedules its job, and that the handler completes a job without ending the
reservation only if the deadline is not the job's. `FlowInvariant` proves `FlowInv` for
`Disciplined` staff; `NoDoubleReservation` alone is not inductive, since it says nothing of a
unit that is available while it still has a live reservation. `FlowInv` adds what ties each table
to `stock_status`: an active hold's unit is on hold or sold, a live reservation's unit is
reserved by it or sold, a booked reservation's unit is booked or sold, and pending unlocked writes
only sell. From it follow `FlowNeverDoubleBooks`, `FlowBooksOnce`, `FlowBacksReservedUnits`,
`FlowHoldProtects` and `FlowImplementsClaims`, the refinement: initial states map to initial
states, and each step to a `Claim`, a `GiveUp` or a stutter.

**JobQueueProofs.** `TypeCorrect` and `OwnershipHolds` are proved together, by what each statement
does to the row and the batch. `Ownership` is inductive with types because it is an equivalence:
the lock names a batch exactly when the batch holds the job. `GivenUpIsDeadLettered` counts: no step but
`Crash` adds to the jobs that are dead without a letter, and `Crash` adds the one its batch had in
hand. `BatchesImplementLeases`: by `Ownership` what a batch has in hand is what is locked by it, and
each statement locks rows nobody holds, for one batch, or unlocks rows of one batch.

**DealsProofs**, however requests overlap. `MoneyInOrder` proves `MoneyInv`: as long as no change of stage
slipped, the deal was not won, is won with one final snapshot, or was won and is cancelled with its
reversal; and as long as no edit did either, the snapshot has the deal's amount. The inductive step needs
nothing of what other requests have read: it is decided at the write, and `StageSlips` is exactly what a
write would have to be to leave the three states. `NoMoneyStale` and `SnapshotIsTheDeals` follow.
`NothingWaits` holds whatever slips: its invariant `WaitsForSomething` says that when no line of the deal's
snapshot waits and the deal still does, some request is about to see it, also after a second win or a
reversal. `ApprovalStands` needs `LinesStand` beside `MoneyInv`: while the deal is won its lines are not
reversed, and it is approved only when no line waits. `DealsImplementLedger` maps the snapshots to their
amounts, and the deal to what it earns while it is won; it is a theorem about every step before the first
that slips.

**OutboxProofs**, with no condition on staff, on the order of events or on faults: `TypeCorrect`;
`OneBatchHandles`, on the lines of `Ownership`; `BatchesImplementLeases`, as for the job queue;
`ProcessedIsDelivered`, whose invariant follows the batch from the insert of the deliveries to the
status, and keeps in mind that deliveries are never taken away; and `WonDealHasItsPoints`, also of
deals nobody is patient with. Its invariant is `Base`, `Celebrated` and `Arriving`: only the handler that
inserted the celebration gives its points, so a rule without them is still ahead of that handler, or
an event shows for good that a handler threw or died. `CancelledIsClear` assumes `Patient`, and needs
it: `Outbox_late` is the counterexample without. Its invariant is `Base` and `Withdrawn`: once the deal
is cancelled its wins are dealt with, a batch that goes through the entries still has ahead of it
every rule whose points are there, and past the celebration none are. `Base` has the types and hands,
that events are written one behind the other, and that a handler goes the way of its event's type.

**LeadsProofs**, however staff, handlers and workflows overlap. `TypeCorrect` and `ClaimsStand`: the claim
is guarded by the status it changes. `PoolStaysOpen` needs `HeldOpen`: between `EnterPool` and
`TakeFromOwner` there is an open entry, too, unless one was claimed just there; no edit of the lead can change
that. `AckIsNotBreached` needs that no handler past its read finds the lead acknowledged, unless the
acknowledgement met it. `OwnerIsOne` needs that as long as nothing was written in the middle of another write
at most one handler is halfway, and that it finds what its first statements left (`FindsItsOwn`); an
assignment, release or claim by staff that meets no such handler writes owner and assignments together and
so ends the exception.

**SessionsProofs**, however requests overlap. `TypeCorrect`; `RevokedIsForGood`, no step makes a revoked
session good again; `LoginHasOneSession`, a line has one good session at most and none once it was ended,
which is inductive with the types because a rotation either finds its session live, and leaves it
revoked, or begins a new line; `ResetEndsSessions`, where a session takes the password of the one it was
rotated from, and a line that was not overtaken had none good left after the reset. `SessionsImplementLogins` maps
each line to its live sessions; by `OneSessionPerLogin`, which no run checks by itself since
`ImplementsLogins` says more, there is one at most, so a rotation exchanges it, or begins a late line, and
a revocation ends lines.

**PortalsProofs.** `TypeCorrect`; `StatusIsTrue`, whatever users ask meanwhile, from two invariants.
`Calm` speaks of a portal where opposite jobs never met: the status says what the portal shows, all jobs at
that portal are of one kind, and an answer that is about to be written is still so; no request and no
edit can disturb that, since they only write statuses that say nothing. `Safe` speaks of runs in which
users ask only when all is settled and no job is claimed when it is over, and shows that there no status is
wrong, crossed or not: no request is under way beside a job, and what an unpublish has queued finds its publication `unpublishing`.
`QueuedIsTaken` adds `Waves`, that no job past its first write finds its publication queued; `Swept`, that
a sweep key that was used has a number of attempts no greater than the row's, and if it is the same,
that its job is still to be done; `Asked`, that only a retry leaves a publication queued while the request
is under way.

**WorkflowsProofs.** `TypeCorrect` and `OrderStands`. The invariant says where each job is: at action `i`
everything before `i` has been done, and a job to resume at `n` is only queued by a wait at `n` that was
reached in this way. `ActsAreBounded` counts. For the runs (`RunsBounded`): a job that goes on to `Insert`
has just counted fewer runs than the limit, and with it at most all workers are about to insert. For an
action (`Budget`): how often it was done, and once more for each job that can still pass it, stays
within the bound. Before the first wait these are the job of the event and that of the sweep; behind
it, the one that resumes at the last wait before the action. `Routes` says that no job passes a wait, which
is what keeps those jobs apart; a job that starts again is paid for by the fault that made it, or by the claim
of it when it was over.

**Only model-checked:** the liveness properties `OverdueEnds`, `Settles` and `AnsweredOrPooled`,
which are outside the prover's reach. All invariants and action properties of the passing runs are
proved.

## 5. Disagreements found

Three have a run and stand under `findings` in `PROJECT.json`: cancelling an ended reservation can
take the unit from another (`inventory.js:320`); a second batch can run a finished job again
(`jobs.js:91`), so that "running a batch twice is safe" rests on the handlers; points of a
cancelled deal are given by a retried win (`outbox-processor.js:143`).

The others are what the history variables record, or follow from a constant of another value, or were met
while reading.

*Inventory.* With `Paths = {"import"}` in `Inventory_all`, `ImportKeepsCommitted` fails: an import
row without a status passes the check at `stock-import.js:121` and is written as `available` (145)
over a reserved unit.

*Deals.* The properties hold up to the request that slips. What such a request leaves behind: a deal
won twice has two final snapshots, and `commission.js:190` reverses only the later; cancelled twice, it has two reversals of one snapshot; cancelled by a request that read it before
the win, it has none, because `deals/service.js:311` asks the deal as it was read. An edit checked at
`deals/service.js:149` before the win and written after it gives the deal an amount its snapshot does not
have. A decision read before the cancellation writes `approved` over a line that was reversed
(`commission.js:253`), and its settling writes it over the deal.

*Job queue.* `completeJob` marks the job completed and then writes the attempt log inside the same
`try` as the handler (`jobs.js:105`): a log that fails sends a completed job into `failJob`, which
queues it again. `JobQueue` leaves this out; it would break `Ownership`, since the row is
changed by a batch that no longer has its lock.

*Sessions.* Two refreshes with one token read the session before either rotates it, and both get one; a refresh
under way during a logout, a reuse or a reset opens a session that outlives it, and so does a login or a
switch that compared the password before a reset. `operations.md:56` speaks of a reused token that revokes the
whole family; it does not revoke what such a request is about to insert. These are the late lines of
`Sessions`; without the exception for them `OneSessionPerLogin` and `NoSessionOutlivesReset` fail.

*Leads.* A claim between two statements of a release leaves the lead in the pool without an open entry,
where nobody can claim it (`overtaken`). An acknowledgement after a handler has read is overwritten by
`breached` (`crossed`). A change of the owner by `PATCH /leads/:id` leaves the assignments as they were and,
in the pool, gives the lead an owner there; `assign_lead` of a workflow and a release that meet, or that die
halfway, leave an owner without an assignment or the reverse (`loose`). Also: an entry of staff that has passed
its end stays `available`, is refused to everybody, hides any older entry, and `releaseToPool` refuses the
lead as pooled already, so that only an assignment, or a timer or workflow that adds an entry, brings it
back; the release of an earlier timeline takes a lead back from an agent who has just claimed it; `assign`
starts no timeline, so an assigned lead is watched by the old one or by none; an entry left over by an
assignment lets another agent take the assigned lead; a lead opened again just after a handler has found it
closed loses that timer.

*Portals.* An unpublish that meets a publication leaves a status that is not what the portal shows
(`crossed`), and when users ask while something is under way a publication can stay `queued` with its jobs
dead and its sweep key used (`QueuedHasTaker` is about the others). A removal that is over and claimed
once more takes down an advert that was published again. Also: the key of an unpublish never changes, so
the second unpublish of a republished listing is swallowed and the row stays `unpublishing`
(`portals/service.js:449`); when validation fails on every portal the listing stays `publishing`;
after a full unpublish the listing keeps `published` or `partially_published` and with it its place
in the feed, although `uae-portal.js:194` says it is removed; an edit while the listing is
`publishing` queues nothing (`listings/service.js:191`); a crash in a job leaves `publishing`, which
no sweep looks for; two jobs that finish together can write an aggregate of before the other.

*Workflows.* A job that is over can be claimed and run once more (`jobs.js:91`), and a workflow then repeats its
plain actions from where that job starts, although `operations.md:20` calls jobs "safe to run twice"; the
bound of `ActsWithinBounds` counts these claims. A sweep before the job that resumes repeats the actions
before the first wait, and can leave the run `waiting` with every key used, although `deployment.md:122` promises
that it resumes what was missed; a leftover sweep job restarts a run that is complete; the job that
resumes carries no entity, so that conditions on it fail and the run is `skipped`; `MAX_DEPTH`
never bites, since the outbox does not hand the depth on; points that are repeated throw
and fail the run.

## 6. What is left

In this order:

1. `CommissionSplit`: `calculateCommission` and `distributeMinor` as functions, checked over small
   amounts and weights against the definition that parts sum to the base and are each within one
   unit of exact.
2. `Idempotency`: begin, replay and complete of a key, with a request that dies in the middle and a
   key that is taken over; with it the receipts of incoming webhooks, which a crash leaves
   `processing`.
3. The rest of accounts: registration, verification, invitations, the lockout after failed logins.
4. `Listings` with versions and approvals beside `Portals`; pairing and revoking of displays
   beside `Outbox`.
5. An abstract specification that `Portals` implements (what a portal shows changes only as users
   asked) and one for `Workflows` (a run goes through its actions in order), with their proofs.
6. The log inside the `try` (`jobs.js:105`) as steps of `JobQueue`, with an `Ownership` that
   excepts it.

## 7. Not modelled

Parsing, permissions, rendering, audit and history rows, money formats, and calls of external
services except as answers that come late. The larger part of the repository's lines is of this kind:
web clients, migrations and seeds, input schemas, and routes and services that read or write one row
and decide nothing. Components with only single-statement updates (documents, finance, activities, media,
reports, administration) have no protocol to check. Payment schedules and installments follow a booking
but nothing modelled depends on them. The modules here cover the code in which several statements,
jobs or requests meet on the same rows; that is why they cover a small part of the lines.
`PROJECT.json` gives the reason for every component.
