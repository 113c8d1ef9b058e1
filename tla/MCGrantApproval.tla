-------------------------- MODULE MCGrantApproval --------------------------
(* Small instances of GrantApproval.  asker requests; fin1 and fin2 are    *)
(* approvers; admin acts in the role requests escalate to; exec executes.  *)
EXTENDS GrantApproval, TLC

CONSTANTS asker, fin1, fin2, admin, finance, org_admin

MCRoleOf ==
    [u \in Users |-> IF u = admin THEN org_admin ELSE finance]

APolicy(n, d) ==
    [required |-> n, roles |-> {finance}, escRole |-> NoRole, deadline |-> d]

(* The default chains ask for one or two approvals.                        *)
DefaultPolicies == {APolicy(1, "ahead"), APolicy(2, "ahead")}

TwoApprovals == {APolicy(2, "ahead")}

ThreeApprovals == {APolicy(3, "ahead")}

(* Sessions are interchangeable, and so are the two finance approvers.     *)
Symmetry == Permutations(Sessions) \cup Permutations({fin1, fin2})
==============================================================================
