---------------------------- MODULE CampaignEmail ----------------------------
(***************************************************************************)
(* Bulk mail of one campaign: services/campaign_email_service.py, the      *)
(* routes that send, process and retry batches, and the link with which a  *)
(* donor unsubscribes (web/v2_routes.py).  The database is SQLite, the     *)
(* only one on which the table email_suppressions can be created.          *)
(*                                                                         *)
(* Whoever processes the scheduled batches, a scheduler's job, which the   *)
(* deployment need not have, or the staff's route, reads those that are    *)
(* due and claims none of them.  The savepoint around each recipient is    *)
(* the outermost transaction: it takes the database's one write lock with  *)
(* its INSERT, keeps it while the mail is handed over, and commits the     *)
(* delivery when it is released.  A batch sent at once has written before, *)
(* so all of it is one transaction.                                        *)
(***************************************************************************)
EXTENDS Naturals, FiniteSets, FiniteSetsExt

CONSTANTS
    Donors,        \* donors of the campaign, by id; each has an address
    Leavers,       \* bound: those that unsubscribe or bounce
    Batches,       \* batches, numbered in the order of scheduled_at
    Deployments,   \* see DeploymentsOK
    Mailers,       \* threads that send: the scheduler's, staff requests
    Dispatchers,   \* those in which a scheduler runs its job
    Providers,     \* those send_email tries in turn: SendGrid, then SMTP
    NoBatch        \* a batch that was not created, or is not due yet

Batch == [status : {"scheduled", "sent", "partial_failed", "failed"},
          audience : SUBSET Donors, sent : 0..Cardinality(Donors)]

Outcomes == {"sent", "failed"}

ASSUME CampaignConstantsOK ==
    /\ Batches \subseteq Nat
    /\ Donors \subseteq Nat
    /\ IsFiniteSet(Donors)
    /\ IsFiniteSet(Mailers)
    /\ Dispatchers \subseteq Mailers
    /\ Providers \in Nat \ {0}
    /\ Leavers \subseteq Donors
    /\ NoBatch \notin Batch

(* The threads there are; whom new batches are meant for; which batches    *)
(* only retry others; a bound on crashes and exceptions.                   *)
ASSUME DeploymentsOK ==
    \A d \in Deployments :
        /\ d.mailers \subseteq Mailers
        /\ DOMAIN d.audience \subseteq Batches
        /\ \A b \in DOMAIN d.audience : d.audience[b] \subseteq Donors
        /\ d.retries \subseteq Batches
        /\ d.maxInterruptions \in Nat

VARIABLES
    deployment,    \* never changes
    batch,         \* campaign_email_batches
    delivery,      \* how many campaign_email_deliveries a batch has for a
                   \* donor, by their status
    blocked,       \* campaign_email_opt_outs, email_suppressions, and the
                   \* preferences with campaign_opt_in false
    mailed,        \* how often the mail server took a batch's mail to a donor
    mailer,        \* what each thread is doing
    interruptions  \* crashes and exceptions so far

campaignVars ==
    <<deployment, batch, delivery, blocked, mailed, mailer, interruptions>>

MailerIdle == [pc |-> "idle"]

(* left are the batches the thread read as due and has not handled, and    *)
(* the first of them is as it was read then; todo are the donors it still  *)
(* writes to, ok and bad those it wrote to, to the one it is writing to;   *)
(* seen is the batch as it was loaded: the columns that differ from it are *)
(* written.                                                                *)
Mailer ==
    [pc : {"choosing"}, left : SUBSET Batches, first : BOOLEAN]
        \cup [pc : {"sending", "mailed", "rolled back", "reloaded", "now"},
              left : SUBSET Batches, batch : Batches, seen : Batch,
              todo : SUBSET Donors, ok : SUBSET Donors, bad : SUBSET Donors,
              to : SUBSET Donors, outcome : Outcomes]

CampaignTypeOK ==
    /\ deployment \in Deployments
    /\ batch \in [Batches -> Batch \cup {NoBatch}]
    /\ delivery \in [Batches -> [Donors -> [Outcomes -> Nat]]]
    /\ blocked \subseteq Donors
    /\ mailed \in [Batches -> [Donors -> Nat]]
    /\ mailer \in [Mailers -> Mailer \cup {MailerIdle}]
    /\ interruptions \in 0..deployment.maxInterruptions

CampaignInit ==
    /\ deployment \in Deployments
    /\ batch = [b \in Batches |-> NoBatch]
    /\ delivery = [b \in Batches |-> [a \in Donors |-> [o \in Outcomes |-> 0]]]
    /\ blocked = {}
    /\ mailed = [b \in Batches |-> [a \in Donors |-> 0]]
    /\ mailer = [m \in Mailers |-> MailerIdle]
    /\ interruptions = 0
-----------------------------------------------------------------------------
(* _resolve_recipients: nobody who opted out, declined or bounced.         *)
Allowed(audience) == audience \ blocked

(* A thread in the middle of a transaction has the write lock.             *)
Locked == \E m \in Mailers : mailer[m].pc \in {"mailed", "now"}

MailerGoes(m, state) == mailer' = [mailer EXCEPT ![m] = state]

(* CAMPAIGN_EMAIL_SCHEDULER_ENABLED is set, which it is not by default.    *)
Automatic == deployment.mailers \cap Dispatchers # {}

New == DOMAIN deployment.audience

(* Nobody else is written to.                                              *)
Addressed == UNION {deployment.audience[b] : b \in New}

(* No thread is about to insert a batch with this id.                      *)
NewBatch(b) ==
    /\ batch[b] = NoBatch
    /\ \A m \in Mailers : mailer[m].pc = "now" => mailer[m].batch # b

(* Mutant of Scheduled: a batch that failed for some is due again.         *)
Unfinished ==
    {b \in Batches : /\ batch[b] # NoBatch
                     /\ batch[b].status \in {"scheduled", "partial_failed"}}

Scheduled ==
    {b \in Batches : batch[b] # NoBatch /\ batch[b].status = "scheduled"}

Due(audience) == [status |-> "scheduled", audience |-> audience, sent |-> 0]

Sending(pc, left, b, seen) ==
    [pc |-> pc, left |-> left, batch |-> b, seen |-> seen,
     todo |-> Allowed(seen.audience), ok |-> {}, bad |-> {}, to |-> {},
     outcome |-> "sent"]

(* Mutant of Verdict: a batch whose donors have all left stays scheduled.  *)
StillScheduled(ok, bad) ==
    IF ok \cup bad = {} THEN "scheduled" ELSE IF bad = {} THEN "sent" ELSE "failed"

(* Mutant of Count: those that failed count as sent.                       *)
AllSent(ok, bad) == Cardinality(ok \cup bad)

Verdict(ok, bad) ==
    IF bad = {} THEN "sent" ELSE IF ok = {} THEN "failed" ELSE "partial_failed"

Count(ok, bad) == Cardinality(ok)

(* An UPDATE has the columns in which the new values differ from seen.     *)
Updated(row, seen, status, sent) ==
    [row EXCEPT !.status = IF status # seen.status THEN status ELSE @,
                !.sent = IF sent # seen.sent THEN sent ELSE @]

Interrupt ==
    /\ interruptions < deployment.maxInterruptions
    /\ interruptions' = interruptions + 1
-----------------------------------------------------------------------------
(* A batch scheduled by send_campaign_bulk_email or as a step of a         *)
(* sequence becomes due; before that nothing looks at it.                  *)
BecomesDue(b, audience) ==
    /\ NewBatch(b)
    /\ batch' = [batch EXCEPT ![b] = Due(audience)]
    /\ UNCHANGED <<deployment, delivery, blocked, mailed, mailer, interruptions>>

(* process_scheduled_campaign_email_batches, from the scheduler's job or   *)
(* the staff's route.                                                      *)
ReadDue(m) ==
    /\ m \in deployment.mailers
    /\ mailer[m] = MailerIdle
    /\ Scheduled # {}
    /\ MailerGoes(m, [pc |-> "choosing", left |-> Scheduled, first |-> TRUE])
    /\ UNCHANGED <<deployment, batch, delivery, blocked, mailed,
                   interruptions>>

(* The donors are looked up.  All but the first batch are loaded again,    *)
(* since a commit has expired them; the status is not looked at.           *)
TakeBatch(m) ==
    LET b == Min(mailer[m].left)
        seen == IF mailer[m].first THEN Due(batch[b].audience) ELSE batch[b]
    IN  /\ mailer[m].pc = "choosing"
        /\ MailerGoes(m, Sending("sending", mailer[m].left \ {b}, b, seen))
        /\ UNCHANGED <<deployment, batch, delivery, blocked, mailed,
                       interruptions>>

(* How many copies of a mail leave when send_email says so.  A provider    *)
(* may take it and its answer be lost: then the next one is tried, and if  *)
(* there is none the mail counts as failed.                                *)
Copies(outcome) == {n \in 0..Providers : outcome = "sent" => n > 0}

(* The delivery is inserted and the mail handed over, in the order of ids; *)
(* one over the cap on mails per window has failed with no copy.           *)
MailOne(m, outcome, copies) ==
    LET a == Min(mailer[m].todo)
    IN  /\ mailer[m].pc = "sending"
        /\ mailer[m].todo # {}
        /\ ~Locked
        /\ mailed' = [mailed EXCEPT ![mailer[m].batch][a] = @ + copies]
        /\ MailerGoes(m, [mailer[m] EXCEPT !.pc = "mailed", !.to = {a},
                             !.todo = @ \ {a}, !.outcome = outcome])
        /\ UNCHANGED <<deployment, batch, delivery, blocked, interruptions>>

(* Mutant of Released: the delivery is only there until the batch ends.    *)
ReleasedInVain(m) == delivery

Released(m) ==
    [b \in Batches |-> [a \in Donors |-> [o \in Outcomes |->
        IF b = mailer[m].batch /\ a \in mailer[m].to /\ o = mailer[m].outcome
        THEN delivery[b][a][o] + 1 ELSE delivery[b][a][o]]]]

RecordOne(m) ==
    LET s == mailer[m]
    IN  /\ s.pc = "mailed"
        /\ delivery' = Released(m)
        /\ MailerGoes(m, [s EXCEPT
              !.pc = "sending", !.to = {},
              !.ok = IF s.outcome = "sent" THEN @ \cup s.to ELSE @,
              !.bad = IF s.outcome = "failed" THEN @ \cup s.to ELSE @])
        /\ UNCHANGED <<deployment, batch, blocked, mailed, interruptions>>

(* The loop goes on with the next batch, or the handler returns.           *)
NextBatch(m) ==
    MailerGoes(m, IF mailer[m].left = {} THEN MailerIdle
                  ELSE [pc |-> "choosing", left |-> mailer[m].left,
                        first |-> FALSE])

FinishBatch(m) ==
    LET s == mailer[m]
    IN  /\ s.pc = "sending"
        /\ s.todo = {}
        /\ ~Locked
        /\ batch' = [batch EXCEPT ![s.batch] =
              Updated(@, s.seen, Verdict(s.ok, s.bad), Count(s.ok, s.bad))]
        /\ NextBatch(m)
        /\ UNCHANGED <<deployment, delivery, blocked, mailed, interruptions>>

(* An exception, "database is locked" among them: rolled back, ...         *)
BatchRaises(m) ==
    /\ mailer[m].pc \in {"sending", "mailed"}
    /\ Interrupt
    /\ MailerGoes(m, [mailer[m] EXCEPT !.pc = "rolled back"])
    /\ UNCHANGED <<deployment, batch, delivery, blocked, mailed>>

(* ... and the batch loaded again and written off, whoever has handled it. *)
Reload(m) ==
    /\ mailer[m].pc = "rolled back"
    /\ MailerGoes(m, [mailer[m] EXCEPT !.pc = "reloaded",
                                       !.seen = batch[mailer[m].batch]])
    /\ UNCHANGED <<deployment, batch, delivery, blocked, mailed,
                   interruptions>>

WriteOff(m) ==
    /\ mailer[m].pc = "reloaded"
    /\ ~Locked
    /\ batch' = [batch EXCEPT ![mailer[m].batch] =
          Updated(@, mailer[m].seen, "failed", 0)]
    /\ NextBatch(m)
    /\ UNCHANGED <<deployment, delivery, blocked, mailed, interruptions>>

-----------------------------------------------------------------------------
(* send_campaign_bulk_email with no time: batch and deliveries are rows of *)
(* the thread's own transaction until it commits.                          *)
SendNow(m, b, audience) ==
    /\ m \in deployment.mailers \ Dispatchers
    /\ mailer[m] = MailerIdle
    /\ NewBatch(b)
    /\ ~Locked
    /\ MailerGoes(m, Sending("now", {}, b, Due(audience)))
    /\ UNCHANGED <<deployment, batch, delivery, blocked, mailed,
                   interruptions>>

(* retry_failed_campaign_email_batch: whoever has a failed delivery.       *)
Missed(b) == {a \in Donors : delivery[b][a]["failed"] > 0}

Retry(m, b, new) == Missed(b) # {} /\ SendNow(m, new, Missed(b))

MailNow(m, outcome, copies) ==
    LET s == mailer[m]
        a == Min(s.todo)
    IN  /\ s.pc = "now"
        /\ s.todo # {}
        /\ mailed' = [mailed EXCEPT ![s.batch][a] = @ + copies]
        /\ MailerGoes(m, [s EXCEPT
              !.todo = @ \ {a},
              !.ok = IF outcome = "sent" THEN @ \cup {a} ELSE @,
              !.bad = IF outcome = "failed" THEN @ \cup {a} ELSE @])
        /\ UNCHANGED <<deployment, batch, delivery, blocked, interruptions>>

CommitNow(m) ==
    LET s == mailer[m]
    IN  /\ s.pc = "now"
        /\ s.todo = {}
        /\ batch' = [batch EXCEPT ![s.batch] =
              [status |-> Verdict(s.ok, s.bad), audience |-> s.seen.audience,
               sent |-> Count(s.ok, s.bad)]]
        /\ delivery' = [delivery EXCEPT ![s.batch] =
              [a \in Donors |-> [sent |-> IF a \in s.ok THEN 1 ELSE 0,
                                 failed |-> IF a \in s.bad THEN 1 ELSE 0]]]
        /\ MailerGoes(m, MailerIdle)
        /\ UNCHANGED <<deployment, blocked, mailed, interruptions>>

(* The process dies, a request raises, or what WriteOff does fails.        *)
Abort(m) ==
    /\ mailer[m] # MailerIdle
    /\ Interrupt
    /\ MailerGoes(m, MailerIdle)
    /\ UNCHANGED <<deployment, batch, delivery, blocked, mailed>>
-----------------------------------------------------------------------------
(* The unsubscribe link makes two commits, an opt-out and a preference,    *)
(* either of which blocks the address.  Each waits for the write lock, and *)
(* when it waits in vain the exception is dropped and the page says "You   *)
(* will no longer receive campaign emails" all the same.                   *)
Unsubscribe(a) ==
    /\ ~Locked
    /\ blocked' = blocked \cup {a}
    /\ UNCHANGED <<deployment, batch, delivery, mailed, mailer, interruptions>>

(* The webhook of the mail provider.                                       *)
Bounce(a) ==
    /\ ~Locked
    /\ blocked' = blocked \cup {a}
    /\ UNCHANGED <<deployment, batch, delivery, mailed, mailer, interruptions>>

Continue(m) ==
    \/ TakeBatch(m) \/ RecordOne(m) \/ FinishBatch(m)
    \/ Reload(m) \/ WriteOff(m) \/ CommitNow(m)
    \/ \E outcome \in Outcomes : \E copies \in Copies(outcome) :
          MailOne(m, outcome, copies) \/ MailNow(m, outcome, copies)

CampaignNext ==
    \/ \E m \in Mailers :
          \/ ReadDue(m)
          \/ Continue(m)
          \/ BatchRaises(m)
          \/ Abort(m)
          \/ \E b \in Batches :
                \/ b \in New /\ SendNow(m, b, deployment.audience[b])
                \/ /\ b \in deployment.retries
                   /\ \E source \in Batches : Retry(m, source, b)
    \/ \E b \in New : BecomesDue(b, deployment.audience[b])
    \/ \E a \in Leavers \cap Addressed : Unsubscribe(a) \/ Bounce(a)

CampaignSpec == CampaignInit /\ [][CampaignNext]_campaignVars

(* A thread goes on with what it has begun, and a scheduler, where there   *)
(* is one, starts its job again and again.  Nobody has to use the route.   *)
CampaignFairness ==
    /\ \A m \in Mailers : WF_campaignVars(Continue(m))
    /\ \A m \in Dispatchers : WF_campaignVars(ReadDue(m))
-----------------------------------------------------------------------------
(* The counts of a batch are backed by its deliveries, however many        *)
(* threads sent it and wrote their own counts over each other's.           *)
CountsAreBacked ==
    \A b \in Batches :
        batch[b] # NoBatch =>
            /\ batch[b].sent
                  <= Cardinality({a \in Donors : delivery[b][a]["sent"] > 0})
            /\ batch[b].status = "partial_failed" => Missed(b) # {}

(* No mail is sent without a delivery on record, as sent or as failed, but *)
(* those under way and those of one transaction for each interruption;     *)
(* what is on record as sent was taken.  One delivery stands for a mail    *)
(* that each provider has taken at most once.                              *)
Pending(b, a) ==
    {m \in Mailers :
        /\ mailer[m].pc \in {"mailed", "now"}
        /\ mailer[m].batch = b
        /\ a \in mailer[m].to \cup mailer[m].ok \cup mailer[m].bad}

MailsAreRecorded ==
    \A b \in Batches, a \in Donors :
        /\ delivery[b][a]["sent"] <= mailed[b][a]
        /\ mailed[b][a] <= Providers * (delivery[b][a]["sent"]
                              + delivery[b][a]["failed"]
                              + Cardinality(Pending(b, a)) + interruptions)

(* A batch that nobody claims is sent at most once by each thread through  *)
(* each provider, and once more for each interruption.                     *)
CopiesAreBounded ==
    \A b \in Batches, a \in Donors :
        mailed[b][a] <= Providers * (Cardinality(Mailers) + interruptions)

(* Every batch that is due is handled where a scheduler runs: one that     *)
(* fails is written off and does not keep those after it from being sent.  *)
DueIsHandled ==
    \A b \in Batches : (Automatic /\ b \in Scheduled) ~> b \notin Scheduled
=============================================================================
