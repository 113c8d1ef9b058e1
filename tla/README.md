# Formal models of NGO HomeSuite

NGO HomeSuite is a Flask and SQLAlchemy application for non-profit
organizations. It runs as several gunicorn processes with several threads each
(`Dockerfile`: three processes, four threads) over one database, PostgreSQL in
production and SQLite for local use and demos (`README.md:57` of the
repository). Its core logic is in service functions that read rows, check them
and write others, so most of what is hard about it is *what happens when two of
these functions run at once, when one stops half-way, or when the outside world
calls twice, late or in the wrong order*. That is what the models here are
about. Everything else in a handler (parsing, formatting, logging, rendering)
is abstracted away.

`PROJECT.json` is the index of the project: components, runs, the mutant that
shows each property can fail, the source lines of every definition, the
hazards of the code, and the theorems. Paths below are relative to
`src/ngo_homesuite/`.

## 1. Inventory

| component | state | operations | what is hard | what makes it correct |
|---|---|---|---|---|
| **Grant approval** `grants/services/approval_impl.py` | `grant_approval_requests` (status, policy, deadline, `version_id`), `grant_approval_decisions` | create, decide, consume, expire or escalate on read, two sweeps | an expiry commits in the middle of a handler and so gives the row lock up; two approvers at once; SQLite ignores row locks | as many *distinct* approvers as required; a rejection is final; separation of duties; no approval is lost |
| **Grant budget and lifecycle** `grants/services/lifecycle.py`, `web/admin_grants_routes.py`, `web/budget_transactions_routes.py` | `grants` (status, award), disbursements, budget lines with running totals and `version_id`, expense allocations, budget transactions | transitions, disbursement, lines (service and admin pages), allocation, resize, release, pledge ("commit"), confirm ("reconcile"), `update_grant` | limits over several tables checked by reading and then writing; only some paths lock; lock order; the delete-orphan cascade | spending within line and award; running totals equal to the log; no circular wait |
| **Approval-gated operations** `grants/services/lifecycle.py:1277-1383` | none of its own: an action's rows and an approval request | four `..._with_approval` operations | two transactions, in the order act, then consume | an executed request stands for an action; no action without approval |
| **Grant pre-award** `grants/services/preaward_impl.py` | opportunities and proposals, each with a version | drafting (numbered), submitting and deciding proposals, editing and converting an opportunity | tests on rows read earlier; a conversion is four commits that a crash or another conversion may separate | only a submitted proposal is decided; an opportunity links to a grant with its award |
| **Workflow engine and write gate** `app/write_gate.py`, `workflow_engine/`, `persistence/`, `audit/event_store.py` | instances (step, version, history column), an append-only event log | create an instance, dispatch an event; every command is idempotent by key | `save` compares versions as it reads them, the UPDATE carries none; retries while the first is under way; the failure record is a second transaction | row and log agree; one effect per key; commands behave as if one at a time |
| **Donations** `services/donation_service.py` | `donations` (status, unique `reference_number`, `version_id`), `donation_receipts` | create, edit, change status, delete, receipt, complete a payment, follow-up workflow | duplicated and late payments against staff's changes; unlocked read, version test at the flush | a payment is recorded once and for good; status table; one receipt |
| **Recurring gifts** `services/donation_service.py:228-390` | `recurring_donation_plans` (status, next charge, version) | create a plan, charge all due plans | a run repeated, overlapping, late, or broken off | one charge per due date; a failed plan stays failed |
| **Payment webhooks** `services/payment_service.py`, `web/integrations_routes.py`, `utils/payment_webhooks.py` | in each process: the event ids seen in the last hour | checkout completed, charge refunded, payment failed | at-least-once delivery in any order; the guard is per process and is entered before processing | what is acknowledged is recorded |
| **Campaign totals** `services/campaign_service.py` | `campaigns.raised_amount` | listeners on donation insert, update, delete | total computed from a snapshot, written after a lock wait | the total is the sum |
| **Campaign mail** `services/campaign_email_service.py` | batches, deliveries, opt-outs, preferences, suppressions | schedule, process what is due, send at once, retry the failed, unsubscribe, bounce | due batches are read and claimed by nobody; a mail leaves before its delivery is committed; a mail server that takes a mail and does not answer; a batch that raises; the scheduler is off by default | copies bounded; counts backed by deliveries; all that is due is handled |
| **Event reminders** `events/services.py`, `events/scheduler.py` | queue (status, attempts, next attempt), dead letters, suppressions | two jobs for each process with a scheduler that queue and deliver, bounce and complaint webhooks | all jobs work on all rows, from copies; retries; lost answers; an exception or a crash after a mail and before its record | outcomes true; copies bounded; every reminder settled |
| **Donor automations** `services/stewardship_service.py:271-760` | automation events (unique key), tasks | one run over three triggers | mail before commit; a repeated key rolls the whole run back; two runs at once | no task and no mail off the record; nobody thanked twice |
| E-mail worker `utils/email_worker.py`; stewardship plans `services/stewardship_service.py:30-268` | queues | retry, due steps | – | no callers outside tests |
| Accounting synchronization | a log row per push | push to QuickBooks or Xero | no idempotency key | – |
| Everything else (web pages, reports, AI assistants, authentication, back-ups, migrations, memberships, volunteers, tasks, funds, expenses) | rows of one organization | one commit per call, or read-only | nothing concurrent beyond it | – |

**Interactions.** Routes call services in-process. The services of one request
share one SQLAlchemy session; services interact through the tables. The gated
operations call the approval service after an action of the lifecycle service
(`GatedAction` composes the two). A conversion of an opportunity calls the
lifecycle service three times, each with its own commit (`Preaward` keeps these
commits apart). `expense_service` calls the allocation handler. The Stripe route
calls the payment service, which calls the donation service; the flush of a
donation calls the campaign listener inside the same transaction
(`DonationPayments` composes all four). The scheduler's threads call the
campaign-mail and the reminder jobs; staff's requests call the former too.
Bounces block both kinds of mail. Stripe and the mail provider are the only
outside parties that send messages.

## 2. How the code is modelled

A handler becomes one session with a program counter, and its *statements*
become steps: the read, the check, the flush, the commit. Between two steps any
other session may run. The database is modelled by the rules the code relies on:

* **PostgreSQL at READ COMMITTED.** A read sees what is committed.
  `SELECT ... FOR UPDATE`, an UPDATE and a DELETE lock the row until commit; an
  INSERT share-locks its parent through the foreign key.
* **SQLite.** `FOR UPDATE` locks nothing; from its first write to its commit a
  transaction is the only writer; readers are not kept out. Python's driver opens
  a transaction at the first INSERT, UPDATE or DELETE only, so a savepoint entered
  before any of these *is* the transaction and its release commits
  (`CampaignEmail`).
* **version_id.** SQLAlchemy sends an UPDATE only if a column differs from the
  loaded value, and only with those columns; where the table has a version, the
  UPDATE fails (StaleDataError) if the row's version is not the loaded one. The
  `seen` of a session is the row as it was loaded.
* **Commit expires.** After a commit a row is loaded again when it is next used,
  so what was tested before is not what is written after (`GrantApproval`,
  `Preaward`, `CampaignEmail`).
* A **crash**, an exception or a deadlock victim ends a transaction with
  nothing written (`Crash`, `Fail`, `Stop`, `Fault`, `Abort`), at any step; mail
  that has left stays sent.

### ApprovalContract, GrantApproval, GatedAction

`ApprovalContract` says what the gate promises without sessions, locks,
versions or deadlines: distinct people approve one at a time until the quorum is
reached, one rejection or a lapse closes, an approved request is executed once
by an outsider.

`GrantApproval` is the code. `request`, `decisions` are the tables; `executor`
records the audit entry of an execution; `session[s]` holds `pc`, the call, the
ORM copy of the row (`view`), whether the row lock is held, and the approvals
counted. `Load` is `_get_approval_request`; `NotOverdue`, `Expire`, `Reload` are
`_expire_if_needed` and the unlocked re-read after its commit; `CheckDecide`,
`InsertDecision`, `CommitDecision` are `decide_approval_request`; `CheckConsume`
and `CommitConsume` are `consume_approved_request`; a sweep is a call that stops
after `Expire`. `Refuse` is an error. `RowLocks` chooses the database. `Create`
takes any policy, since a request copies the resolved policy and never reads the
configuration again. `NewDecision` numbers rows, so that two decisions of one
user are two rows. A deadline is "none", "ahead" or "passed"; `DeadlinePasses` is
the clock.

`GatedAction` extends it: `Act` commits the action (only counted), `Consume`
hands over to `Load`. A worker may die in between.

### GrantBudget

One grant. `lines`, `alloc`, `disbursed`, `ledger` are the tables or their sums;
a session holds its call, its ORM copies and its `FOR UPDATE` locks. `Load` reads
and takes the first lock, `LockLine` the second one of an allocation, `Pass` is
all checks of the handler (`May...`), the `Commit...` actions write. The admin
pages and the service have different handlers for the same table and promise
different things, so an instance says which take part: a *deployment* is a set of
handlers, a number of workers and the bounds, chosen by `Init` from the constant
`Deployments`.

### DonationPayments

Donations to one campaign and Stripe's events. `rows` and `receipts` are tables;
`raised` is the *set of donations* summed in `raised_amount`, so amounts are not
needed; `checkout` is the donation id in a payment's metadata; `sent`,
`processed`, `acked` are Stripe's view; `seen` is each process's replay guard. A
transaction holds the row it is about to write, the total it read, and in `copy`
what others have made of the row it read: it is still the row ("current"), an
earlier version of it ("stale"), or a donation that was deleted and whose id
another has now ("former"). The last can happen on SQLite, where the column has
no AUTOINCREMENT: `NextId` gives a new donation the largest id in the table plus
one, at its INSERT, and the version starts at 1 again, so that the version test
(`Fresh`) may let a former copy pass. `Aged` is what a commit makes of others'
copies. On such a database `_replay` may also compare a request with the audit
event of the donation that had the id before, and refuse (`Replay`).
`IdsAreUnique` says where ids are given once: on PostgreSQL, or with no deletions.
The first steps are the handlers
(`OpenPending` ... `FollowUp` for people, `Receive` and then `FinalizePayment`,
`CreatePaid`, `ChargeRefunded`, `PaymentFailed` for Stripe), the others the
transaction: `Flush`, `FlushReplays` (unique index hit, answer with the existing
donation), `FlushFails`, `SumTotal` (the listener), `Commit`, which also stands
for the locks taken on the way: the campaign's row and, for the audit event, the
organization's (`MayAudit`). `Receive` and the following step separate the
look-up in the guard from the entry, because threads share it without a lock. The
database and what people do are a deployment, as above.

Left out: amounts and currencies (a mismatch is refused and never changes state),
a replay with changed inputs, e-mail, event registrations.

### WorkflowContract, WorkflowGate

`WorkflowContract` has a stage per instance and the set of events applied, and
two actions: `Open` and `Advance` along a rule, by a role that may, once per key.

`WorkflowGate` is the code. `record` is the row with its history column, `log` the
event table, `command[c]` an execution of the gate. `Read` and `Replay` are
`_dispatch_event` up to its search for the key; `Apply` is `apply_event` and
`save`, which reads the row again and compares versions; `Flush` is the UPDATE
that the first query of the event store sends, and waits for whoever holds the
row; `Validate` is `_validate_batch` on the log as it then is; `Commit` writes row
and event. `RefuseEvent`, `Fail`, `RecordFailure` are the error path with its
second transaction. `CommitReplay` writes the gate's own two events only. A
command's answer stands for these. The map names what each line does; the
definition of the workflow, roles and permissions are constants.

### Preaward

One opportunity with its proposals and the grants made from it. `Draft` reads the
highest number and `CommitDraft` meets the unique constraint. `Edit`, `Submit` and
`SetOutcome` read (`seen`, `read`) and decide; `CommitChange` sends an UPDATE per
changed row, both with their version or neither. `Convert` tests; `CreateGrant`,
`SubmitGrant`, `AwardGrant` and `Link` are the four commits; `Stop` ends a
conversion between any two.

### RecurringPlans

A run (`clerk[c]`) holds the due plans as it read them. `CommitRun` is the whole
loop, since it is one transaction: `Processed` gives each plan its next date or
the status "failed", `Unopposed` is the version of each plan and the unique
reference of each charge. Days are numbers; an interval is a number of days.

### DonorAutomations

A run takes the cases of the first trigger and then those of the other two
(`NextTrigger`), each as its query found them. `Skip` and `Judge` are the query for
the key and for a recent execution, and send the event added before (`added` to
`sent`, where it meets the unique index: `Collide`). `Act` is `_ensure_open_task`,
the mail and the event. `CommitAutomation` is the single commit. A case's key has
an `anchor`, the date of the gift, which staff may correct.

### CampaignEmail

`batch` and `delivery` are tables, `mailed` counts what the mail server took,
`blocked` joins the three tables that keep a donor off. `ReadDue` ... `NextBatch`
are `process_scheduled_campaign_email_batches`, which the scheduler, if the
deployment has one, and staff call alike: `MailOne` is INSERT and mail inside a
savepoint, `RecordOne` its release, `FinishBatch` the verdict, `BatchRaises`,
`Reload`, `WriteOff` the exception path. `send_email` tries SendGrid and then SMTP
and takes a call that timed out for a failure; `Copies` are the mails that may have
left by then: with the verdict "sent" one to `Providers`, with "failed" none to
`Providers`. A deployment says which threads there are (`Dispatchers` are those of
a scheduler; without them `Automatic` is false), for whom batches are meant, which
only retry others, and how many crashes and exceptions there may be.
`SendNow`, `MailNow`, `CommitNow` are `send_campaign_bulk_email`, also behind
`Retry`. `Updated` writes what differs from `seen`: a thread that read an old
batch writes its own status and count over another's.

### EventReminders

`queue` is the table; a job holds the rows it read, with their attempts. `StartJob`
finds the event in its window or not; `QueueReminder` is INSERT OR IGNORE;
`ReadQueue` reads the rows of all jobs; `BeginSend`, `ServerTakes`,
`ServerDeclines` are `send_event_reminder`, whose tries and providers make up to
`Handovers` mails, whatever it returns; `RecordSent`, `RecordFailed`, `RecordRetry`
are the UPDATE by id, whatever the row says by then. `BackoffEnds` is the clock,
`Suppress` the webhooks. `BreakOff` ends one run of one job: by an exception, which
`_run_with_guard` logs, or because its process dies, which breaks off each of its
jobs. `HoursOf` says how far ahead a job queues, so that there may be any number
of jobs: outside production each process can have a scheduler with its two.

### MCRecords, MCMail

Components that share no table are checked in one run: `part` chooses, initially,
the one a behaviour is about, and the others stutter. What holds of every
behaviour of the run thus holds of every behaviour of each component.

## 3. Runs

Passing runs explore every state of their instance; violation runs find one
counterexample each.

| run | instance | shows |
|---|---|---|
| `GrantApproval` | PostgreSQL, 1 request, 4 users, chains of 1 or 2 approvals, 2 sessions; 270 thousand states | all safety properties of the gate, and that it implements `ApprovalContract` |
| `GrantApprovalLive` | as above, 3 users, chain of 2, fairness, no symmetry | every handler ends |
| `GrantApprovalThree` *(violation)* | chain of 3 | one approver counts twice |
| `GrantBudget` | four deployments (below); 707 thousand states | with one worker every checked limit is kept; with two the locks of the service layer keep spending within line and award and never deadlock, and what is checked without a lock overruns the award at most once per worker; running totals equal the log |
| `GatedAction` | 2 requests for one target, 2 sessions; 1.8 million states | an executed request stands for a committed action |
| `GatedActionUnapproved` *(violation)* | 1 request | an action is committed with no approval |
| `DonationPayments` | 2 donations, 1 payment, 2 sessions, both databases, SQLite with deletions and without; SQLite with the follow-up workflow for the total | one record per payment; kept for good, and the status table followed, where no id is given twice; on SQLite the total is exact |
| `DonationTotalsDrift` *(violation)* | PostgreSQL, two gifts, entered and edited | the total misses one |
| `DonationAcknowledged` *(violation)* | SQLite, 1 donation | a paid checkout is acknowledged and never recorded |
| `Records` | workflows, pre-award, recurring gifts, automations; 1.5 million states | row and log agree, one effect per key, the gate implements `WorkflowContract`; proposals, links, charges, tasks and thanks are as they should be |
| `Mail` | campaign mail and reminders, fairness; 227 thousand states | copies bounded, records true, all that is due handled where a scheduler runs, every reminder settled |
| `AutomationsRepeated` *(violation)* | 2 first gifts, 4 runs one after another, no fault | a donor is thanked twice |

**Bounds and why they are enough.** Two sessions: every hazard in the list is a
race of two handlers, and the locks and the version test are pairwise.

* *Approval.* One request: no handler touches two. Chains of one or two approvals
  are the code's defaults; three is where the gate fails. Two finance approvers,
  one user with the escalation role, and the requester, so that a role, a quorum
  and an execution by an outsider can each be met and missed. The deadline may
  pass again after each escalation; escalation raises the role until it is the
  highest, so no bound is needed. `MaxEffects`: actions per target, as many as
  requests.
* *Budget.* Award 2, amounts 1 and 2, expenses of 1 and 2: each limit can be met
  exactly and exceeded by one. `OneWorker`: all handlers but `update_grant` and the
  admin PUT, which check nothing; the award has been decided and stands.
  `TwoWorkers`: the handlers that the service layer protects with locks. `Racing`:
  two that compare with an award of 1 and lock nothing, to be overrun by both.
  `Ledger`: one line, everything that writes it or the grant.
  `maxVersion` bounds how often a line is updated (a stale read needs one update
  between the read and the write), `maxDisbursed` the sum of disbursements where
  the award does not.
* *Donations.* Two donations: one may be created twice, one may be summed without
  the other, one may get the id of the other. One worker process with two threads:
  a second process is one whose guard does not know the event, which `Forget`
  produces. Four deployments: PostgreSQL with checkouts, edits, changes of status,
  deletions and receipts; SQLite with the same but no deletions; SQLite with
  checkouts, changes of status and deletions; and, for the total, SQLite with
  checkouts, gifts, deletions and follow-ups.
* *Records.* Four commands on one instance with one key and a definition of three
  steps (a branch, a repeatable event, a rule out of a terminal step that must not
  be taken): one creates, two race, one repeats. Executions are interchangeable, so
  they begin in order (`CommandsInOrder`). Two officers, one proposal, four grants,
  `MaxVersion` 5, one broken conversion: two overlapping conversions and a retry.
  A weekly and a fortnightly plan (1 and 2 days), two clerks, three days: a date
  missed, a date charged late, both plans in one run. One newcomer, one struggler,
  two dates, two automata, three runs, one fault.
* *Mail.* Two providers, as in the code, so that an answer can be lost and the
  other tried. Four campaign deployments: a scheduler and staff with one batch for
  two donors, and with two batches for one donor, so that two are due at once; the
  scheduler alone with two batches for a donor who may leave, one of which raises
  and must not keep the other from being sent; and staff alone, whose batch nobody
  has to process, with a retry. One interruption, since each adds one to the bounds
  and a second adds nothing new. One attendee, two jobs, three attempts as in the
  code, one run broken off. `Handovers` is 2, where the code's three tries and two
  providers make 6: the number only multiplies the mails of an attempt. Only the job
  an hour ahead finds the event in its window (`InTime`), but both work on its
  reminder. `FloodIsBounded` is not tight: without a run broken off the instance
  sends at most 18 mails of the 28 allowed.

Sessions, lines, requests and the two finance approvers are
interchangeable, hence the symmetry sets; runs with liveness use none.

**Fairness.** `GrantApprovalLive`: weak fairness of `Step(s)`, as a worker thread
runs its handler to the end; strong fairness of the steps that wait for a lock, whether they
then go on or refuse, as the database grants a row lock in the order it was asked
for. A crash also ends a
handler, and no fairness is asked of it, of new calls or of the clock. `Mail`: weak
fairness of what each thread and each job has begun (`Continue`, `JobStep`), and of
the end of a back-off, which is time passing. A scheduler starts its jobs at a fixed
interval for as long as it runs (`events/scheduler.py:67`), so the start of the next
run is fair too, but only where there is one: for campaign mail it is off by default
(`events/scheduler.py:74`), fairness is asked of the threads in `Dispatchers` and
`DueIsHandled` is claimed where one of them is deployed; for reminders a process
without a scheduler is the other initial state, and then nothing is queued.
Nothing is asked of the mail server, of webhooks, of people or of crashes; crashes
are bounded in number, not in time.

**Deadlock** is checked in all runs but `Records`, `Mail` and
`AutomationsRepeated`, whose bounds let a behaviour end.

**Mutants.** Each property of a passing run has a mutated definition, written
just before the one it replaces and named in `PROJECT.json`, that a plausible
mistake would produce (no version test, a dropped check, a lock not taken, the
listener before the flush, an idempotency key redacted from the payload, retries
without end); the property fails with it.

## 4. What the violation runs found

1. **`GrantApprovalThree`.** `approval_impl.py:416`: the commit of an escalation
   releases the row lock and the handler continues on an unlocked re-read. Two
   requests of one approver then both pass "approver has already decided this
   request"; the first leaves the status as it is, so the second meets no
   version test. With one or two approvals required the second commit does.
   On SQLite, where nothing locks, two approvals suffice (set `RowLocks` to FALSE
   and the policies to `TwoApprovals`).
2. **`GatedActionUnapproved`.** `lifecycle.py:1315`: the action is committed before
   the approval is looked for.
3. **`DonationTotalsDrift`.** `campaign_service.py:247`: the UPDATE sums before it
   waits for the campaign's row and does not sum again: an edit, status change or
   refund that waits for another donation's commit writes a total without it. Two
   donations created at once do not get there: their audit events deadlock on the
   organization's row (`MayAudit`), and PostgreSQL aborts one of them.
4. **`DonationAcknowledged`.** `integrations_routes.py:224`: the replay guard keeps
   the id of an event whose processing failed; the retry is a "duplicate".
5. **`AutomationsRepeated`.** `stewardship_service.py:472`: the second run logs a
   first gift as a repeat, under the key of the execution with ":repeat" appended;
   the third inserts that key again. The IntegrityError is not caught, the run is
   rolled back after it has mailed others, and the next does the same.

Other deployments of the same modules show the following. They are listed as
hazards and are not kept as runs; two of them contradict a docstring.

* **The id of a deleted donation, on SQLite.** Two people delete the same pending
  donation at once. The first commits; a checkout that names no donation is recorded
  and gets the id and the first version of the deleted one; the second deletion
  passes the version test and takes the paid donation away. The docstring
  `services/donation_service.py:573` says "Only permitted for donations in 'pending'
  or 'failed' status". A stale change of status is written over another donation in
  the same way. `ProcessedIsRecorded` and `FollowsTransitions` therefore hold where
  `IdsAreUnique`, and fail without it.
* **The admin page's delete.** `web/admin_grants_routes.py:243` says "Delete a budget
  line (only if no allocations exist).", and counts them without a lock: between
  workers an allocation committed after the count goes with the line, and
  `OnlyUnusedLinesGo` fails. The service's delete locks the line.
* **Limits without a lock.** `update_allocation` locks no line, and between workers
  `SpentFitsLine` fails with it. Lines, disbursements and the closing of a grant are
  checked without a lock on it: two workers can each spend the rest of an award, and
  `BudgetFitsAward` says that this is as far as it goes. `update_grant` and the admin
  PUT compare nothing at all. No document promises more of these.
* `NoCircularWait` fails with pledge and allocation, a deadlock that PostgreSQL
  resolves. `FollowsTransitions` fails with the follow-up workflow, which needs no
  race. Two conversions of one opportunity make two grants.
* Two threads that process the scheduled batches send each donor two mails, and each
  of them may be two where SendGrid's answer is lost; a reminder that one job has
  marked sent may be set back to "retrying" by another and sent again. The bounds
  checked in `Mail` say how far this goes.

## 5. What is proved

Eight modules hold theorems for every value of the constants; the leaves are
checked by Z3 and Zenon, the temporal steps by LS4. Every invariant and action
property that a passing run checks is the statement of one of them. The larger
inductive invariants (`QInv`, `GInv`, `AutomationInv` and that of payments) were
checked by TLC on the instance of their run before they were proved.

**`GrantApproval_proofs`** (any number of requests, users, roles, policies and
sessions, and both values of `RowLocks`):

* `TypeCorrect`: `Spec => []TypeOK`.
* `VersionTestIsSound`: `Spec => []SnapshotsAreCurrent`. A session whose copy
  carries the current version holds the current row (deadline apart).
* `RejectionDecides`: `Spec => []RejectionIsFinal`.
* `NeverReopened`: `Spec => ClosedStaysClosed`.

`TypeInv` is `TypeOK` with two additions it needs to be inductive: decision logs
are finite (`FiniteLogs`, since rows are numbered by counting them) and a busy
session works on an existing request (`SessionsOnRows`, or its copy would not be a
row). `IInv` adds `SnapshotsAreCurrent`; `ChecksRemembered`, which keeps after the
check what the check established: a session about to insert or commit a decision
holds a copy that was open, and one about to consume a copy that was approved; and
`RejectionIsFinal`. No smaller formula is inductive: that a commit does not undo a
rejection rests on the copy being open, on the version test and on the fact that
an equal version means an equal row. A commit that writes no status passes no
version test; `RejectionIsFinal` survives it because such a commit is a partial
approval, never a rejection. Each step is first reduced to its effect on one row
(`RowEffect`) and one session (`SessionEffect`), and `RejectionStep` and
`SnapshotStep` then follow action by action.

**`GrantQuorum_proofs`** (any number of requests, users, roles and sessions, under
two hypotheses: `RowLocks`, which is PostgreSQL, and `AtMostTwo`, no policy asks
for more than two approvals, which the default chains do not):

* `QuorumIsReal`: `Spec => []QuorumOfDistinctApprovers`.
* `NoApprovalIsLost`: `Spec => []NoLostApproval`.
* `DutiesAreSeparate`: `Spec => []SeparationOfDuties`.
* `GateImplementsContract`: `Spec => ImplementsContract`; the contract lets nobody
  ask for more approvals than there are users, so it also assumes `EnoughUsers`,
  two of them.

Both hypotheses are needed (section 4, item 1). The danger is a partial approval:
it leaves the status "pending" and so passes no version test, and a session that
has committed an expiry holds no lock. `DecisionsAreFresh` is the heart: whoever
commits a decision holds the current row, tested or not. A session without its
lock looks at an escalated request, where a first approval changes the status, or
at one that is pending again and so has an approval already (`VersionsTell`),
where the next is the second and grants it; either way the version is tested.
`QInv` adds to `IInv` the tables (`TablesHold`: the three properties, numbered
logs in which nobody appears twice, counted quorums), what a session knows of its
request as long as its copy is current (`Known`), and that a lock excludes other locks
and uncommitted decisions (`LocksExclude`). `QuietStep` does the steps that only
change a session, `BumpKeeps` those that raise the version, `DecisionKeeps` the
partial approval; `TablesByRow` and `OneRow` reduce the tables to one request. TLC
checked `QInv` with two sessions and the default chains before it was proved. In
the refinement each commit is one step of the contract (`ContractDecide`,
`ContractConsume`, `ContractExpire`), an escalation none.

**`GatedAction_proofs`** (as `GrantApproval_proofs`, both values of `RowLocks`,
and any bound on the actions):

* `ExecutionsStandForActions`: `GSpec => []ExecutionsHappened`.
* `GateUnchanged`: `GSpec => Spec`, so that what is proved of the gate holds of the
  operations behind it.

The action is committed first and the request executed later, in another
transaction, so the property has to be strengthened to what sessions still owe. A
session has a *claim* on an action while it owes the consumption or is making it;
`CoveredAt` says that claims and executed requests together are no more than the
committed actions. A claim turns into an execution (`Commit`), lapses (a refusal, a
crash) or is taken together with an action (`Act`). That it is one and not two
rests on `OwersAreIdle`; that the request it executes is for the target acted on
rests on `TargetsAreChecked` and on the gate's own `SnapshotsAreCurrent`: the row
executed is the row that was looked at. Row locks are not needed for this.

**`GrantBudget_proofs`** (any lines, expenses, amounts, sessions and deployments):

* `TypeCorrect`: `Spec => []TypeOK`.
* `LedgersBalance`: `Spec => []LedgerBalances`.
* `NobodyWaitsInACircle`: `Spec => []NoCircularWait`.
* `LinesAreNotOverspent`: `LinesGuarded` of every deployment implies
  `Spec => []SpentFitsLine`.
* `AwardIsNotOverspent`: `AwardGuarded` implies `Spec => []SpentFitsAward`.
* `BudgetIsWithinAward`: `Spec => []BudgetFitsAward`.
* `OnlyUnusedLinesAreDeleted`: `DeletesGuarded` implies `Spec => OnlyUnusedLinesGo`.

The types, the ledger, the waiting and the budget are proved for every deployment,
with any number of workers; `BudgetFitsAward` itself says where it applies. For the
other three the hypothesis says how far the code's protection goes, and TLC finds a
counterexample beyond it (section 4): `LinesGuarded` keeps the admin PUT, which
compares nothing, and, between workers, `update_allocation`, which locks no line,
apart from allocations; `DeletesGuarded` does so with the admin page's delete
between workers; `AwardGuarded` asks that the award stands (no `update_grant`, and a
grant past its decision, whose status never leads back to "awarded") and that no
`update_allocation` runs beside an allocation. The four deployments of the run
satisfy all three.

`IInv` is types, locks that no two sessions hold, and what each session knows
(`Sound`): its copy of a line is the row as long as its version is, its line and
grant are locked where the handler locks them. A step is `Clean` if it writes rows
nobody else has locked and locks rows nobody else has, and one lemma
(`CleanKeepsIInv`) carries `IInv` over all clean steps; a handler that locks nothing
is clean because of the version test. Each theorem then adds its own invariant:
`LedgerInv`; `LineInv`, `AwardInv` and `DeleteInv`, which say that what a session has
checked and not yet written (`FitsLine`, `FitsAward`, `SeesUnused`) still fits,
whatever others have committed since. No such thing is true of the budget, where a
check may be out of date at once, so `BudgetInv` counts: what a session has checked
and is still to add (`Raises`, `Payments`) is one award at most, and the total with
all these parts (`Covered`) is within as many awards as there are workers. A session
that passes its check keeps this, since its own part and the total fit one award and
each of the others adds at most another (`CheckerAdds`); one that commits moves its
part into the total (`FinisherAdds`, `LinesGrowAsRaised`). The totals are folds
over sets; a total is restated as the number of units it counts (`Total`, a
cardinality), `FoldedIsTotal` shows that the fold computes it, and the library's
facts on finite sets say how it changes when one row does.

**`WorkflowGate_proofs`** (any definition, permissions, roles, keys, instances and
number of commands):

* `TypeCorrect`: `Spec => []TypeOK`.
* `RowAndLogAgree`: `Spec => []HistoryMatchesLog`.
* `KeyIsAppliedOnce`: `Spec => []KeyAppliedOnce`.
* `AppliedIsCounted`: `Spec => []AppliedIsKept`.
* `GateImplementsContract`: `Spec => Contract!Spec`.

`IInv` is `TypeOK`, `HistoryMatchesLog`, `KeyAppliedOnce` and three parts that make
them inductive: the status of a row follows from its step; what a command is about
to write is its copy moved along one rule (`Good`), its key not in the copy's
history and, once it is validated, not in the log and its version the next one; and
at most one command holds a row (`OneHolder`). The UPDATE carries no version, so
this is the heart of it: only the holder of the lock can commit, and it has looked
at the log *after* it got the lock. That a validated command's copy is the row
follows from the version it has, because row and log agree. The refinement
theorem then has one step per action; only `Create` and `Commit` change what the
contract sees.

**`Records_proofs`** (pre-award work, recurring gifts, automations and the
composition; any officers, plans, intervals, clerks, cases, runs and bounds):

* `PreawardTypes`: `PreawardSpec => []PreawardTypeOK`.
* `LinkIsSound`: `PreawardSpec => []LinkedGrantIsAwarded`.
* `OnlySubmittedDecided`: `PreawardSpec => OnlySubmittedAreDecided`.
* `RecurringTypes`: `RecurringSpec => []RecurringTypeOK`.
* `ScheduleIsKept`: `RecurringSpec => []ChargesFollowSchedule`.
* `FailedIsFinal`: `RecurringSpec => FailedStaysFailed`.
* `TasksHaveExecutions`: `AutomationSpec => []TasksAreLogged`.
* `ThanksHaveExecutions`: `AutomationSpec => []ThanksAreLogged`.
* `RecordsTypes`: `RecordsSpec => []RecordsTypeOK`, as a behaviour of the run is
  one of each of its components (`RecordsAreAll`).

*Pre-award.* `PreawardInv` adds to the type: a decision under way was made on a
proposal that exists, at a version no newer than the row's, and equal to the row if
the versions are equal; a deciding outcome was chosen for a copy that was submitted;
grants are numbered in the order they are made; and each conversion has a grant of
its own (`OneConverter`), in the state its step says. The last is why a linked grant
cannot be set back to "submitted" by another conversion.

*Recurring gifts.* `RecurringInv` says that a run's copy with the plan's version is
the plan (`CopyIsKnown`) and that the next charge is a whole number of intervals
after the first (`NextIsScheduled`). The four lemmas about `%` (`Division`,
`SmallMultiple`, `NextMultiple`, `OneMore`) say that between one charge and the next
there is no other day of the schedule.

*Automations.* Tasks, mails and executions are written by different statements of
one transaction, and mail cannot be rolled back. `AutomationInv` therefore says what
a run has done and not yet committed (`RunOK`): the keys it inserts are not on
record, each case it acted on has an execution among them, the case in hand has
none; one run at a time writes (`WritersTakeTurns`); runs that are active, broken
off or collided are no more than those started (`RunsAreCounted`). A commit then adds
to the record, for each case with a task or a mail, a key that was not there
(`LoggedAt`).

**`DonationPayments_proofs`** (any number of donations, payments, sessions and
worker processes, both databases, any operations of staff):

* `TypeCorrect`: `Spec => []TypeOK`.
* `PaymentRecordedOnce`: `Spec => []OneRecordPerPayment`.
* `ProcessedStaysOnRecord`: `Spec => []ProcessedIsRecorded`.
* `TotalIsExactOnSQLite`: `Spec => []RaisedIsExactOnSQLite`.
* `StatusTableFollowed`: `Spec => FollowsTransitions`.

The first two and the total hold whatever ids are given twice. `ProcessedIsRecorded`
and `FollowsTransitions` say themselves that they are about deployments where
`IdsAreUnique`; there no copy is ever "former", which is part of `Sound`.

None of the properties of the tables is inductive: whether a commit keeps them
depends on what its transaction read long before. `IInv` says what every
transaction knows (`Sound`): it works for an event that was sent, or opens a
checkout that no event is about; if the row is still as read, what it writes over
the row keeps the reference, or gives a reference to a donation that had none and
that the payment's own checkout names (`ChangeIsKnown`); a new row's reference is
that of a checkout that names no donation (`InsertIsKnown`); and after the flush
the row is locked and as read, and no other row has its reference
(`FlushHolds`). And it says what keeps two transactions `Apart`: an id not yet in
the table belongs to one, the row of one that flushed is locked, and two that
flushed never write one reference. The last is the heart of it (`ReferencesApart`):
two INSERTs meet at the unique index, an INSERT and the completion of a pending
donation differ in what the checkout's metadata says, and two completions are of
one donation. A donation with a reference counts as paid or refunded
(`ReferredIsRecorded`), so a stale cancellation or deletion of staff fails at its
version test and a later one is not allowed.

**`Mail_proofs`** (any donors, batches, threads, mail providers and deployments; any
attendees, attempts and reminder jobs, and any number of tries in an attempt):

* `CountsHaveBacking`: `CampaignSpec => []CountsAreBacked`.
* `MailsStayOnRecord`: `CampaignSpec => []MailsAreRecorded`.
* `CopiesAreFew`: `CampaignSpec => []CopiesAreBounded`.
* `OutcomesHappened`: `ReminderSpec => []OutcomesAreTrue`.
* `NobodyIsFlooded`: `ReminderSpec => []FloodIsBounded`.
* `MailTypes`: `MailSpec => []MailTypeOK`.

*Campaign mail.* `CampaignInv` is types, what each thread knows (`MailerOK`), that
the verdict and the count of a batch are backed by its rows (`Backed`), and that one
thread at a time is between the INSERT and its release (`OneWriter`, the write
lock). Nothing keeps two threads from handling one batch, so copies are counted with
potentials (`CountAt`), each worth as many mails as there are providers: mails handed
over and not yet recorded (`Unrecorded`) account for the difference between mails and
rows, and the threads that may still mail the donor (`Senders`) for the copies to
come. A thread that reads the batch anew is a sender only if the batch was still to
be sent, which is why the bound counts threads and interruptions and not runs.

*Reminders.* A row read when it was waiting had an attempt left (`AttemptsLeft`), and
a mail that was accepted has been delivered (`MailLeft`); hence an outcome is true
although it is written over whatever the row says by then. The bound on the mails is
a potential too (`FloodAt`). A job has a claim (`Claim`) on the mails that may still
leave on its account: from its copy of the row, if it holds one; from all jobs, if it
has sent the reminder and may put the row back with one attempt fewer; from the row,
if that waits; none otherwise. `Worth` of a number of attempts made is `Sends` of
those that are left: one mail, and as much as all jobs can make of the rest. A job
that sends spends one of its claim, whatever `Handovers` made of it; one that puts a
row back shares out what it gives up among all jobs; one that settles the row takes
it from all; and a run broken off is paid for by one more `Worth`, its job's new
claim. So mails and claims stay within the bound whatever the number of jobs.

**Assumptions.** Those that the modules declare about their constants, which TLC
evaluates in every run: `ConstantsOK` and `NoRowOK` (`GrantApproval`), `BoundOK`
(`GatedAction`), `ConstantsOK` and `NoRecordOK` (`WorkflowGate`), `ConstantsOK`,
`NullsApart` and `LocksApart` (`GrantBudget`: what stands for NULL is no row, and no
row is another), `PreawardConstantsOK` and `NoProposalOK`, `RecurringConstantsOK` and
`NoPlanOK`, `AutomationConstantsOK`, `CampaignConstantsOK` (both with finitely many
threads, as no count is defined otherwise), `DeploymentsOK`,
`ReminderConstantsOK` and `NotQueuedOK`, `ConstantsOK` and `NullsOK` (`DonationPayments`). And the hypotheses that
theorems name: `RowLocks`, `AtMostTwo` and `EnoughUsers` in `GrantQuorum_proofs`,
which the run `GrantApproval` satisfies with the default chains, and the three
`...Guarded` in `GrantBudget_proofs`, which the run `GrantBudget` satisfies.

**Only model-checked.** `HandlersFinish`, `DueIsHandled` and `QueuedIsSettled`: the
prover has no rules here for liveness under fairness and ENABLED. The violation runs
are counterexamples and need no proof. The induction theorems of the library take an
operator as a parameter, which the provers cannot instantiate; what induction over
data the proofs need (the sum over a finite set in `GrantBudget_proofs`, least
elements elsewhere) is done with a minimal counterexample, from the well-foundedness
of the naturals and of finite subsets. The modules declare no recursive operator.

## 6. What is left

1. Theorems: `SeparationOfDuties` without row locks, for chains of one approval.
2. A contract for payments (pending, paid, refunded) that `DonationPayments`
   implements.
3. `GrantBudget` with two grants, for `update_allocation` across grants.

## 7. Not modelled

* *Left out of modelled components*: the chain configuration of approvals (copied
  at creation), `delete_grant`, the budget "expense" route (it opens a transaction
  inside an open one), search profiles and imports of opportunities, drafting,
  templates, tracking and analytics of campaign mail, the creation of events and
  registrations (one commit per call, and no capacity is enforced), event
  registrations paid by a checkout.
* *No callers*: the e-mail worker's queue (`utils/email_worker.py`) and
  stewardship plans with their steps; a model would have no environment to be
  faithful to.
* *One commit per call, or read-only*: memberships, volunteers, peer-to-peer,
  tasks, funds, expenses, bank reconciliation, outcomes, the Grants.gov client,
  accounting synchronization. Their hazards, where they have any, are unguarded
  reads that nothing promises anything about.
* *In front of or beside the handlers*: authentication, sessions and roles, web
  routes, reports, compliance scores, assistants, back-ups, migrations, connection
  set-up.

Most lines of the repository are of the last two kinds, in particular the two
route modules of nine thousand lines, which parse forms, call one service and
render a page; the share of lines the map covers is therefore small.
