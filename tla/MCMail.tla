------------------------------- MODULE MCMail -------------------------------
(***************************************************************************)
(* Small instances of the two components whose work a scheduler must get   *)
(* done: campaign mail and event reminders.  part is the one a behaviour   *)
(* is about.                                                               *)
(***************************************************************************)
EXTENDS CampaignEmail, EventReminders, TLC

CONSTANTS m1, m2, j1, j2

(* The scheduler and the staff send one batch for two donors, or two       *)
(* batches for one; the scheduler alone sends two batches for one donor,   *)
(* who may leave meanwhile, and fails at one of them; without a scheduler  *)
(* the staff sends, processes and retries a batch for two donors, of whom  *)
(* one may leave.                                                          *)
MCDeployments ==
    {[mailers |-> {m1, m2}, audience |-> (1 :> {1, 2}), retries |-> {},
      maxInterruptions |-> 1],
     [mailers |-> {m1, m2}, audience |-> (1 :> {1} @@ 2 :> {1}),
      retries |-> {}, maxInterruptions |-> 0],
     [mailers |-> {m1}, audience |-> (1 :> {3} @@ 2 :> {3}), retries |-> {},
      maxInterruptions |-> 1],
     [mailers |-> {m2}, audience |-> (1 :> {2, 3}), retries |-> {2},
      maxInterruptions |-> 1]}

MCHoursOf == [j \in ReminderJobs |-> IF j = j1 THEN 24 ELSE 1]

VARIABLE part

mailVars == <<campaignVars, reminderVars, part>>

MailInit ==
    /\ part \in {"campaign", "reminders"}
    /\ CampaignInit
    /\ ReminderInit
    /\ part = "campaign" => ~scheduled
    /\ part = "reminders" => ~Automatic

MailNext ==
    \/ /\ part = "campaign"
       /\ CampaignNext
       /\ UNCHANGED <<reminderVars, part>>
    \/ /\ part = "reminders"
       /\ ReminderNext
       /\ UNCHANGED <<campaignVars, part>>

MailSpec ==
    /\ MailInit
    /\ [][MailNext]_mailVars
    /\ CampaignFairness
    /\ ReminderFairness

(* Each table holds rows of its own kind: no batch counts more donors than *)
(* it has, no reminder more attempts than are made.                        *)
MailTypeOK == CampaignTypeOK /\ ReminderTypeOK
=============================================================================
