------------------------------ MODULE MCRecords ------------------------------
(***************************************************************************)
(* Small instances of four components that share no tables: workflows,     *)
(* pre-award work, recurring gifts and donor automations.  part is the one *)
(* a behaviour is about.                                                   *)
(***************************************************************************)
EXTENDS WorkflowGate, Preaward, RecurringPlans, DonorAutomations, TLC

CONSTANTS weekly, fortnightly

VARIABLE part

recordsVars ==
    <<vars, preawardVars, recurringVars, automationVars, part>>

(* A small definition with what the larger ones have: a branch, an event   *)
(* that may come again, one that comes too early, a terminal step, and a   *)
(* rule that leaves it.                                                    *)
MCRules == {[from |-> "intake", event |-> "note", to |-> "review"],
            [from |-> "review", event |-> "note", to |-> "review"],
            [from |-> "review", event |-> "resolve", to |-> "closure"],
            [from |-> "closure", event |-> "note", to |-> "closure"]}

MCPermits == {"case_worker"} \X {"note", "resolve"}

MCInterval == [p \in Plans |-> IF p = weekly THEN 1 ELSE 2]

(* Executions of the gate are interchangeable: it is enough to look at the *)
(* behaviours in which they begin in order.                                *)
CommandsInOrder ==
    \A c, d \in Commands : c < d /\ command'[d] # Unused => command'[c] # Unused

RecordsInit ==
    /\ part \in {"workflows", "preaward", "recurring", "automations"}
    /\ Init
    /\ PreawardInit
    /\ RecurringInit
    /\ AutomationInit

RecordsNext ==
    \/ /\ part = "workflows"
       /\ Next
       /\ CommandsInOrder
       /\ UNCHANGED <<preawardVars, recurringVars, automationVars, part>>
    \/ /\ part = "preaward"
       /\ PreawardNext
       /\ UNCHANGED <<vars, recurringVars, automationVars, part>>
    \/ /\ part = "recurring"
       /\ RecurringNext
       /\ UNCHANGED <<vars, preawardVars, automationVars, part>>
    \/ /\ part = "automations"
       /\ AutomationNext
       /\ UNCHANGED <<vars, preawardVars, recurringVars, part>>

RecordsSpec == RecordsInit /\ [][RecordsNext]_recordsVars

(* Each table holds rows of its own kind: an instance has a step of its    *)
(* definition, an opportunity one of its statuses, a plan one of its own.  *)
RecordsTypeOK ==
    /\ TypeOK
    /\ PreawardTypeOK
    /\ RecurringTypeOK
    /\ AutomationTypeOK
=============================================================================
