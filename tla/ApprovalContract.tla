-------------------------- MODULE ApprovalContract --------------------------
(***************************************************************************)
(* What the approval gate promises, with no sessions, locks, versions,     *)
(* deadlines or roles: a request opens, distinct people other than the     *)
(* requester approve it one at a time until the quorum is reached, one     *)
(* rejection or a lapse closes it, and an approved request is executed at  *)
(* most once by somebody who neither asked for it nor decided on it.       *)
(* Escalation is invisible: an escalated request is still open.            *)
(***************************************************************************)
EXTENDS Naturals, FiniteSets

CONSTANTS Requests, Users, NoUser

VARIABLES
    phase,      \* "none", "open", "approved", "rejected", "expired", "executed"
    requester,  \* who asked
    quorum,     \* how many must approve
    approvers,  \* who approved
    executor    \* who executed

vars == <<phase, requester, quorum, approvers, executor>>

Init ==
    /\ phase = [r \in Requests |-> "none"]
    /\ requester = [r \in Requests |-> NoUser]
    /\ quorum = [r \in Requests |-> 0]
    /\ approvers = [r \in Requests |-> {}]
    /\ executor = [r \in Requests |-> NoUser]

Ask(r, u, q) ==
    /\ phase[r] = "none"
    /\ q > 0
    /\ phase' = [phase EXCEPT ![r] = "open"]
    /\ requester' = [requester EXCEPT ![r] = u]
    /\ quorum' = [quorum EXCEPT ![r] = q]
    /\ UNCHANGED <<approvers, executor>>

MayJudge(r, u) ==
    phase[r] = "open" /\ u # requester[r] /\ u \notin approvers[r]

Approve(r, u) ==
    /\ MayJudge(r, u)
    /\ approvers' = [approvers EXCEPT ![r] = @ \cup {u}]
    /\ phase' = [phase EXCEPT ![r] =
          IF Cardinality(approvers'[r]) >= quorum[r] THEN "approved" ELSE "open"]
    /\ UNCHANGED <<requester, quorum, executor>>

Close(r, ending) ==
    /\ phase[r] = "open"
    /\ phase' = [phase EXCEPT ![r] = ending]
    /\ UNCHANGED <<requester, quorum, approvers, executor>>

Reject(r, u) == MayJudge(r, u) /\ Close(r, "rejected")

Lapse(r) == Close(r, "expired")

Execute(r, u) ==
    /\ phase[r] = "approved"
    /\ u # requester[r]
    /\ u \notin approvers[r]
    /\ phase' = [phase EXCEPT ![r] = "executed"]
    /\ executor' = [executor EXCEPT ![r] = u]
    /\ UNCHANGED <<requester, quorum, approvers>>

Next ==
    \E r \in Requests :
        \/ Lapse(r)
        \/ \E u \in Users :
              \/ \E q \in 1..Cardinality(Users) : Ask(r, u, q)
              \/ Approve(r, u) \/ Reject(r, u) \/ Execute(r, u)

Spec == Init /\ [][Next]_vars
==============================================================================
