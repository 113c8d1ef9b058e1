--------------------------- MODULE EventReminders ---------------------------
(***************************************************************************)
(* The reminders of one event: events/services.py, the jobs that           *)
(* events/scheduler.py runs, and the links and webhooks that stop mail     *)
(* (web/integrations_routes.py).  The database is SQLite.                  *)
(*                                                                         *)
(* Each job first queues a reminder for everyone registered and then       *)
(* works through the rows of ALL jobs that are due, as they were when it   *)
(* read them.  A scheduler has two jobs, which start at the same times and *)
(* run in two threads; outside production every web process may have one.  *)
(* _is_suppressed creates tables and so commits what the loop wrote for    *)
(* the row before: the outcome of each row is a transaction of its own,    *)
(* and the mail leaves before it.                                          *)
(***************************************************************************)
EXTENDS Naturals, FiniteSets

CONSTANTS
    Attendees,    \* e-mail addresses of people registered for the event
    ReminderJobs, \* the jobs of every process that runs a scheduler
    HoursOf,      \* how many hours ahead of the event a job queues
    InTime,       \* the hours at which the event is found in the window: one
                  \* entered late has no reminder a day ahead
    Handovers,    \* mails handed over in one send_event_reminder: its tries
                  \* times the providers that send_email tries
    MaxAttempts,  \* _MAX_SEND_ATTEMPTS
    MaxBrokenOff, \* bound: runs that an exception or a crash ends
    NotQueued     \* a reminder with no row in event_email_queue

ASSUME ReminderConstantsOK ==
    /\ MaxAttempts \in Nat \ {0}
    /\ Handovers \in Nat \ {0}
    /\ MaxBrokenOff \in Nat
    /\ IsFiniteSet(ReminderJobs)

Reminders == Attendees \X InTime

Attendee(r) == r[1]

QueueRow == [status : {"pending", "retrying", "sent", "failed", "suppressed"},
             attempts : 0..MaxAttempts]

ASSUME NotQueuedOK == NotQueued \notin QueueRow

VARIABLES
    queue,        \* event_email_queue
    deadLetters,  \* event_email_dead_letter, by reminder
    suppressed,   \* email_suppressions
    backoff,      \* the reminders whose next_attempt_at is in the future
    deliveries,   \* how often the mail server took a reminder
    job,          \* what each job of the scheduler is doing
    brokenOff,    \* how many runs of a job were broken off
    scheduled     \* whether EVENT_REMINDER_SCHEDULER_ENABLED is set

reminderVars == <<queue, deadLetters, suppressed, backoff, deliveries, job,
                  brokenOff, scheduled>>

(* todo is whom the job will still queue, rows the rows it read, with the  *)
(* attempts it read, current the row it is sending.                        *)
JobIdle == [pc |-> "idle"]

Job == [pc : {"queueing"}, todo : SUBSET Attendees]
          \cup (UNION {[pc : {"delivering"}, rows : [R -> 0..MaxAttempts]] :
                          R \in SUBSET Reminders})
          \cup (UNION {[pc : {"sending", "accepted", "declined"},
                        rows : [R -> 0..MaxAttempts], current : R] :
                          R \in SUBSET Reminders})

ReminderTypeOK ==
    /\ queue \in [Reminders -> QueueRow \cup {NotQueued}]
    /\ deadLetters \subseteq Reminders
    /\ suppressed \subseteq Attendees
    /\ backoff \subseteq Reminders
    /\ deliveries \in [Reminders -> Nat]
    /\ job \in [ReminderJobs -> Job \cup {JobIdle}]
    /\ brokenOff \in 0..MaxBrokenOff
    /\ scheduled \in BOOLEAN

ReminderInit ==
    /\ queue = [r \in Reminders |-> NotQueued]
    /\ deadLetters = {}
    /\ suppressed = {}
    /\ backoff = {}
    /\ deliveries = [r \in Reminders |-> 0]
    /\ job = [j \in ReminderJobs |-> JobIdle]
    /\ brokenOff = 0
    /\ scheduled \in BOOLEAN

(* Mutant of Waiting: a reminder is not tried again.                       *)
OnlyPending(r) == queue[r] # NotQueued /\ queue[r].status = "pending"

Waiting(r) ==
    queue[r] # NotQueued /\ queue[r].status \in {"pending", "retrying"}

Settled(r) ==
    queue[r] # NotQueued /\ queue[r].status \in {"sent", "failed", "suppressed"}

JobGoes(j, state) == job' = [job EXCEPT ![j] = state]

Without(rows, r) == [x \in DOMAIN rows \ {r} |-> rows[x]]
-----------------------------------------------------------------------------
(* A run of the job finds the event in its window, or not.                 *)
StartJob(j) ==
    /\ scheduled
    /\ job[j] = JobIdle
    /\ \E todo \in {{}, IF HoursOf[j] \in InTime THEN Attendees ELSE {}} :
          JobGoes(j, [pc |-> "queueing", todo |-> todo])
    /\ UNCHANGED <<queue, deadLetters, suppressed, backoff, deliveries, brokenOff,
                   scheduled>>

(* INSERT OR IGNORE, unless the address is suppressed.                     *)
QueueReminder(j, a) ==
    /\ job[j].pc = "queueing"
    /\ a \in job[j].todo
    /\ queue' = IF a \in suppressed \/ queue[<<a, HoursOf[j]>>] # NotQueued THEN queue
                ELSE [queue EXCEPT ![<<a, HoursOf[j]>>] =
                         [status |-> "pending", attempts |-> 0]]
    /\ JobGoes(j, [pc |-> "queueing", todo |-> job[j].todo \ {a}])
    /\ UNCHANGED <<deadLetters, suppressed, backoff, deliveries, brokenOff,
                   scheduled>>

(* process_event_email_queue reads every row that is due.                  *)
ReadQueue(j) ==
    LET due == {r \in Reminders : Waiting(r) /\ r \notin backoff}
    IN  /\ job[j].pc = "queueing"
        /\ job[j].todo = {}
        /\ JobGoes(j, [pc |-> "delivering",
                       rows |-> [r \in due |-> queue[r].attempts]])
        /\ UNCHANGED <<queue, deadLetters, suppressed, backoff, deliveries,
                       brokenOff, scheduled>>

DropSuppressed(j, r) ==
    /\ job[j].pc = "delivering"
    /\ r \in DOMAIN job[j].rows
    /\ Attendee(r) \in suppressed
    /\ queue' = [queue EXCEPT ![r].status = "suppressed"]
    /\ deadLetters' = deadLetters \cup {r}
    /\ JobGoes(j, [pc |-> "delivering", rows |-> Without(job[j].rows, r)])
    /\ UNCHANGED <<suppressed, backoff, deliveries, brokenOff,
                   scheduled>>

BeginSend(j, r) ==
    /\ job[j].pc = "delivering"
    /\ r \in DOMAIN job[j].rows
    /\ Attendee(r) \notin suppressed
    /\ JobGoes(j, [pc |-> "sending", rows |-> job[j].rows, current |-> r])
    /\ UNCHANGED <<queue, deadLetters, suppressed, backoff, deliveries, brokenOff,
                   scheduled>>

(* send_event_reminder: True when a provider says that it has taken the    *)
(* mail, which may be after tries whose answers were lost ...              *)
ServerTakes(j, copies) ==
    /\ job[j].pc = "sending"
    /\ copies \in 1..Handovers
    /\ deliveries' = [deliveries EXCEPT ![job[j].current] = @ + copies]
    /\ JobGoes(j, [job[j] EXCEPT !.pc = "accepted"])
    /\ UNCHANGED <<queue, deadLetters, suppressed, backoff, brokenOff,
                   scheduled>>

(* ... and False when none does, whatever they took, or the event is gone. *)
ServerDeclines(j, copies) ==
    /\ job[j].pc = "sending"
    /\ copies \in 0..Handovers
    /\ deliveries' = [deliveries EXCEPT ![job[j].current] = @ + copies]
    /\ JobGoes(j, [job[j] EXCEPT !.pc = "declined"])
    /\ UNCHANGED <<queue, deadLetters, suppressed, backoff, brokenOff,
                   scheduled>>

(* What the job writes for the row it has sent; attempts is what it read.  *)
Conclude(j, status, attempts) ==
    LET r == job[j].current
    IN  /\ queue' = [queue EXCEPT ![r] = [status |-> status,
                                          attempts |-> attempts]]
        /\ JobGoes(j, [pc |-> "delivering", rows |-> Without(job[j].rows, r)])

Attempt(j) == job[j].rows[job[j].current] + 1

RecordSent(j) ==
    /\ job[j].pc = "accepted"
    /\ Conclude(j, "sent", Attempt(j))
    /\ UNCHANGED <<deadLetters, suppressed, backoff, deliveries, brokenOff,
                   scheduled>>

(* Mutant of GivesUp: one attempt too many.                                *)
GivesUpLate(attempt) == attempt > MaxAttempts

GivesUp(attempt) == attempt >= MaxAttempts

(* Mutant of Buried: no dead letter.                                       *)
NotBuried(r) == deadLetters

Buried(r) == deadLetters \cup {r}

RecordFailed(j) ==
    /\ job[j].pc = "declined"
    /\ GivesUp(Attempt(j))
    /\ Conclude(j, "failed", Attempt(j))
    /\ deadLetters' = Buried(job[j].current)
    /\ UNCHANGED <<suppressed, backoff, deliveries, brokenOff,
                   scheduled>>

(* Mutant of Remembered: attempts start anew.                              *)
Forgotten(attempt) == 0

Remembered(attempt) == attempt

RecordRetry(j) ==
    /\ job[j].pc = "declined"
    /\ ~GivesUp(Attempt(j))
    /\ Conclude(j, "retrying", Remembered(Attempt(j)))
    /\ backoff' = backoff \cup {job[j].current}
    /\ UNCHANGED <<deadLetters, suppressed, deliveries, brokenOff,
                   scheduled>>

EndJob(j) ==
    /\ job[j].pc = "delivering"
    /\ DOMAIN job[j].rows = {}
    /\ JobGoes(j, JobIdle)
    /\ UNCHANGED <<queue, deadLetters, suppressed, backoff, deliveries, brokenOff,
                   scheduled>>
-----------------------------------------------------------------------------
(* The clock passes next_attempt_at.                                       *)
BackoffEnds(r) ==
    /\ r \in backoff
    /\ backoff' = backoff \ {r}
    /\ UNCHANGED <<queue, deadLetters, suppressed, deliveries, job,
                   brokenOff, scheduled>>

(* mark_email_bounced and mark_email_complaint, from the webhook.          *)
Suppress(a) ==
    /\ suppressed' = suppressed \cup {a}
    /\ UNCHANGED <<queue, deadLetters, backoff, deliveries, job,
                   brokenOff, scheduled>>

(* An exception, "database is locked" among them, ends a run of the job:   *)
(* _run_with_guard logs it.  What the job was about to write is lost, a    *)
(* mail that left is not.  A process that dies breaks off each of its jobs.*)
BreakOff(j) ==
    /\ job[j] # JobIdle
    /\ brokenOff < MaxBrokenOff
    /\ brokenOff' = brokenOff + 1
    /\ JobGoes(j, JobIdle)
    /\ UNCHANGED <<queue, deadLetters, suppressed, backoff, deliveries,
                   scheduled>>

JobStep(j) ==
    \/ StartJob(j)
    \/ \E a \in Attendees : QueueReminder(j, a)
    \/ ReadQueue(j)
    \/ \E r \in Reminders : DropSuppressed(j, r) \/ BeginSend(j, r)
    \/ \E copies \in 0..Handovers :
          ServerTakes(j, copies) \/ ServerDeclines(j, copies)
    \/ RecordSent(j) \/ RecordFailed(j) \/ RecordRetry(j)
    \/ EndJob(j)

ReminderNext ==
    \/ \E j \in ReminderJobs : JobStep(j) \/ BreakOff(j)
    \/ \E r \in Reminders : BackoffEnds(r)
    \/ \E a \in Attendees : Suppress(a)

ReminderSpec == ReminderInit /\ [][ReminderNext]_reminderVars

(* A scheduler that runs keeps starting the jobs, a job keeps running, and *)
(* time passes.  Nothing is asked of the mail server, nor that the event   *)
(* be in a window.                                                         *)
ReminderFairness ==
    /\ \A j \in ReminderJobs : WF_reminderVars(JobStep(j))
    /\ \A r \in Reminders : WF_reminderVars(BackoffEnds(r))
-----------------------------------------------------------------------------
(* Whatever jobs with stale copies write over each other, a reminder       *)
(* marked sent was taken by the mail server, and one given up on has its   *)
(* dead letter.                                                            *)
OutcomesAreTrue ==
    \A r \in Reminders :
        /\ queue[r] # NotQueued /\ queue[r].status = "sent"
              => deliveries[r] > 0
        /\ queue[r] # NotQueued /\ queue[r].status \in {"failed", "suppressed"}
              => r \in deadLetters

(* A job that has read a row with so many attempts left sends it once, and *)
(* may leave it, with one attempt fewer, to every job.                     *)
Sends[left \in 0..MaxAttempts] ==
    IF left = 0 THEN 0 ELSE 1 + Cardinality(ReminderJobs) * Sends[left - 1]

(* Nobody is flooded.  A job that read a row before another settled it may *)
(* set it back to retrying, again and again, a run that is broken off      *)
(* forgets the mail that has left, and the answer of the mail server may   *)
(* be lost; but an attempt is never given back, so that each job, and each *)
(* run broken off, brings about a bounded number of mails.                 *)
FloodIsBounded ==
    \A r \in Reminders :
        deliveries[r] <= Handovers * ((Cardinality(ReminderJobs) + brokenOff)
                                         * Sends[MaxAttempts])

(* Every queued reminder is settled in the end, and stays so, though a     *)
(* settled row can be set back by a job with a stale copy.                 *)
QueuedIsSettled ==
    \A r \in Reminders :
        queue[r] # NotQueued ~> [](Settled(r))
=============================================================================
