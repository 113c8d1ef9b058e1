--------------------------- MODULE RecurringPlans ---------------------------
(***************************************************************************)
(* Recurring gifts: create_recurring_plan and process_due_recurring_plans  *)
(* of services/donation_service.py, which staff start from a page.         *)
(*                                                                         *)
(* A run reads the plans that are due and charges each once, in a single   *)
(* transaction: all of it or none.  A run that overlaps finds a plan with  *)
(* another version, or the reference number of a charge taken.  No code    *)
(* gives a plan that failed another status.                                *)
(***************************************************************************)
EXTENDS Naturals

CONSTANTS
    Plans,     \* recurring donation plans
    Interval,  \* days between the charges of a plan
    Clerks,    \* requests that run the due plans
    LastDay,   \* bound: the last day
    NoPlan     \* a plan that does not exist

ASSUME RecurringConstantsOK ==
    /\ Interval \in [Plans -> Nat \ {0}]
    /\ LastDay \in Nat

Days == 0..LastDay

Plan == [status : {"active", "failed"}, first : Nat, next : Nat, version : Nat]

ASSUME NoPlanOK == NoPlan \notin Plan

VARIABLES
    today,
    plan,       \* recurring_donation_plans; first is kept for the invariant
    reachable,  \* plans whose donor can be asked for the payment
    charges,    \* donations with reference number recurring:<plan>:<day>
    clerk       \* the plans each run read as due, as it read them

recurringVars == <<today, plan, reachable, charges, clerk>>

NotRunning == [p \in {} |-> NoPlan]

RecurringTypeOK ==
    /\ today \in Days
    /\ plan \in [Plans -> Plan \cup {NoPlan}]
    /\ reachable \subseteq Plans
    /\ charges \in [Plans -> [Days -> Nat]]
    /\ \A c \in Clerks : /\ DOMAIN clerk[c] \subseteq Plans
                         /\ clerk[c] \in [DOMAIN clerk[c] -> Plan]

RecurringInit ==
    /\ today = 0
    /\ plan = [p \in Plans |-> NoPlan]
    /\ reachable = Plans
    /\ charges = [p \in Plans |-> [d \in Days |-> 0]]
    /\ clerk = [c \in Clerks |-> NotRunning]
-----------------------------------------------------------------------------
(* create_recurring_plan: the page puts the first charge one period ahead. *)
CreatePlan(p) ==
    /\ plan[p] = NoPlan
    /\ plan' = [plan EXCEPT ![p] =
          [status |-> "active", first |-> today + Interval[p],
           next |-> today + Interval[p], version |-> 1]]
    /\ UNCHANGED <<today, reachable, charges, clerk>>

IsDue(p) ==
    plan[p] # NoPlan /\ plan[p].status = "active" /\ plan[p].next <= today

StartRun(c) ==
    LET due == {p \in Plans : IsDue(p)}
    IN  /\ clerk[c] = NotRunning
        /\ due # {}
        /\ clerk' = [clerk EXCEPT ![c] = [p \in due |-> plan[p]]]
        /\ UNCHANGED <<today, plan, reachable, charges>>

(* Mutant of NextCharge: a late run moves the schedule.                    *)
FromToday(p, seen) == today + Interval[p]

NextCharge(p, seen) == seen.next + Interval[p]

(* A donor who cannot be asked costs the plan its status, and the run goes *)
(* on with the others.                                                     *)
Processed(p, seen) ==
    IF p \in reachable
    THEN [seen EXCEPT !.next = NextCharge(p, seen), !.version = @ + 1]
    ELSE [seen EXCEPT !.status = "failed", !.version = @ + 1]

(* Mutant of Unopposed: a run asks only for free references.               *)
ReferencesFree(c) ==
    \A p \in DOMAIN clerk[c] \cap reachable : charges[p][clerk[c][p].next] = 0

Unopposed(c) ==
    \A p \in DOMAIN clerk[c] :
        /\ plan[p].version = clerk[c][p].version
        /\ p \in reachable => charges[p][clerk[c][p].next] = 0

CommitRun(c) ==
    LET due == DOMAIN clerk[c]
    IN  /\ clerk[c] # NotRunning
        /\ Unopposed(c)
        /\ plan' = [p \in Plans |->
              IF p \in due THEN Processed(p, clerk[c][p]) ELSE plan[p]]
        /\ charges' = [p \in Plans |-> [d \in Days |->
              IF p \in due \cap reachable /\ d = clerk[c][p].next
              THEN charges[p][d] + 1 ELSE charges[p][d]]]
        /\ clerk' = [clerk EXCEPT ![c] = NotRunning]
        /\ UNCHANGED <<today, reachable>>

(* DonationConcurrencyError, a crash, any other exception.                 *)
RunFails(c) ==
    /\ clerk[c] # NotRunning
    /\ clerk' = [clerk EXCEPT ![c] = NotRunning]
    /\ UNCHANGED <<today, plan, reachable, charges>>

(* A donor loses or gets an address.                                       *)
ContactChanges(p) ==
    /\ reachable' = IF p \in reachable THEN reachable \ {p}
                    ELSE reachable \cup {p}
    /\ UNCHANGED <<today, plan, charges, clerk>>

NextDay ==
    /\ today < LastDay
    /\ today' = today + 1
    /\ UNCHANGED <<plan, reachable, charges, clerk>>

RecurringNext ==
    \/ NextDay
    \/ \E p \in Plans : CreatePlan(p) \/ ContactChanges(p)
    \/ \E c \in Clerks : StartRun(c) \/ CommitRun(c) \/ RunFails(c)

RecurringSpec == RecurringInit /\ [][RecurringNext]_recurringVars
-----------------------------------------------------------------------------
(* A plan has been charged for exactly the days of its schedule before the *)
(* next one, and once for each, whatever runs overlapped, broke off or     *)
(* came late.                                                              *)
ChargesFollowSchedule ==
    \A p \in Plans, d \in Days :
        charges[p][d] =
            IF /\ plan[p] # NoPlan
               /\ d \in plan[p].first..(plan[p].next - 1)
               /\ (d - plan[p].first) % Interval[p] = 0
            THEN 1 ELSE 0

(* A run with an old copy neither revives nor charges a plan that another  *)
(* run has failed, though the donor may have an address again.             *)
FailedStaysFailed ==
    [][\A p \in Plans :
          (plan[p] # NoPlan /\ plan[p].status = "failed") =>
              plan'[p] = plan[p] /\ charges'[p] = charges[p]]_recurringVars
=============================================================================
