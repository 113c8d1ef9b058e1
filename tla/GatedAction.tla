----------------------------- MODULE GatedAction -----------------------------
(***************************************************************************)
(* The four ..._with_approval operations of                                *)
(* ngo_homesuite/grants/services/lifecycle.py: an action on a grant or a   *)
(* proposal composed with the approval gate of GrantApproval.  Each of     *)
(* them calls the action, which commits its own transaction, and then      *)
(* consume_approved_request, which commits another.                        *)
(*                                                                         *)
(* What the action does is abstracted to its effect, a count of committed  *)
(* actions per target; whether its own checks let it through is left open. *)
(***************************************************************************)
EXTENDS GrantApproval

CONSTANTS
    MaxEffects,  \* bound: committed actions per target
    NoCall       \* the session owes no consumption

ASSUME BoundOK == MaxEffects \in Nat

VARIABLES
    effect,      \* how often the action on each target was committed
    owed         \* the consumption a session's handler still has to make

gvars == <<request, decisions, executor, session, effect, owed>>

Consumption == {c \in Call : c.op = "consume"}

GInit ==
    /\ Init
    /\ effect = [t \in Targets |-> 0]
    /\ owed = [s \in Sessions |-> NoCall]

(* Mutant: the action is left for after the consumption and may be lost.   *)
ActLater(s, c) ==
    /\ session[s] = Idle
    /\ owed[s] = NoCall
    /\ owed' = [owed EXCEPT ![s] = c]
    /\ UNCHANGED <<vars, effect>>

(* The first half: submit_proposal, add_disbursement, record_outcome or    *)
(* advance_grant_status runs and commits.  The caller names the request.   *)
Act(s, c) ==
    /\ session[s] = Idle
    /\ owed[s] = NoCall
    /\ effect[c.target] < MaxEffects
    /\ effect' = [effect EXCEPT ![c.target] = @ + 1]
    /\ owed' = [owed EXCEPT ![s] = c]
    /\ UNCHANGED vars

(* The second half: the same handler goes on to consume the request.       *)
Consume(s) ==
    /\ owed[s] # NoCall
    /\ Load(s, owed[s])
    /\ owed' = [owed EXCEPT ![s] = NoCall]
    /\ UNCHANGED effect

(* The request does not exist: GrantApprovalNotFound, too late to undo.    *)
NotFound(s) ==
    /\ owed[s] # NoCall
    /\ ~Created(owed[s].req)
    /\ owed' = [owed EXCEPT ![s] = NoCall]
    /\ UNCHANGED <<vars, effect>>

(* The other handlers of the gate, by workers that owe nothing.            *)
Other(s) ==
    /\ owed[s] = NoCall
    /\ \E c \in Call \ Consumption : Load(s, c)
    /\ UNCHANGED <<effect, owed>>

GCrash(s) ==
    /\ \/ Crash(s)
       \/ session[s] = Idle /\ owed[s] # NoCall /\ UNCHANGED vars
    /\ owed' = [owed EXCEPT ![s] = NoCall]
    /\ UNCHANGED effect

Environment ==
    /\ \/ \E r \in Requests, u \in Askers, tgt \in Targets, p \in Policies :
             Create(r, u, tgt, p)
       \/ \E r \in Requests : DeadlinePasses(r)
    /\ UNCHANGED <<effect, owed>>

GNext ==
    \/ Environment
    \/ \E s \in Sessions :
          \/ \E c \in Consumption : Act(s, c)
          \/ Consume(s) \/ NotFound(s) \/ Other(s) \/ GCrash(s)
          \/ Step(s) /\ UNCHANGED <<effect, owed>>

GSpec == GInit /\ [][GNext]_gvars
------------------------------------------------------------------------------
(* Every executed request stands for an action that was committed, and two *)
(* requests never share one: the audit trail claims no execution that did  *)
(* not happen, whichever worker crashes where.                             *)
ExecutionsHappened ==
    \A t \in Targets :
        Cardinality({r \in Requests : /\ Created(r)
                                      /\ request[r].target = t
                                      /\ request[r].status = "executed"})
            <= effect[t]

(* The gate: an action is committed only while an approved request for its *)
(* target stands.  The tests state it: "cannot execute grant action        *)
(* without approved request".                                              *)
OnlyApprovedActions ==
    [][\A t \in Targets : effect'[t] # effect[t] =>
          \E r \in Requests : /\ Created(r)
                              /\ request[r].target = t
                              /\ request[r].status = "approved"]_gvars
==============================================================================
