--------------------------- MODULE MCGrantBudget ---------------------------
(* Small instances of GrantBudget: two expenses of different cost, amounts *)
(* 1 and 2, an award of 2, so that every limit can be met and missed.      *)
EXTENDS GrantBudget, TLC

CONSTANTS e1, e2

MCCost == [e \in Expenses |-> IF e = e1 THEN 1 ELSE 2]

Awarded == {[status |-> "awarded", awarded |-> 2]}

Submitted == {[status |-> "submitted", awarded |-> NoAward]}

(* One worker and every handler that compares amounts.  update_grant and   *)
(* the PUT of a line compare none, and either breaks the limits on its     *)
(* own: with them left out, and the decision past, the award stands.       *)
OneWorker ==
    [workers |-> 1, ops |-> AllOps \ {"edit", "admin_update"},
     statuses |-> {"active", "reporting", "closed"}, grants |-> Awarded,
     maxLines |-> 2, maxVersion |-> 2, maxDisbursed |-> 3]

(* Two workers and what the service layer protects with row locks.         *)
TwoWorkers ==
    [workers |-> 2,
     ops |-> {"create", "update", "delete", "allocate", "release", "disburse",
              "advance"},
     statuses |-> {"closed"}, grants |-> Awarded,
     maxLines |-> 2, maxVersion |-> 1, maxDisbursed |-> 2]

(* Two workers that race for an award of 1 where the code takes no lock    *)
(* on it.                                                                  *)
Racing ==
    [workers |-> 2, ops |-> {"create", "admin_create", "update", "disburse"},
     statuses |-> {}, grants |-> {[status |-> "active", awarded |-> 1]},
     maxLines |-> 2, maxVersion |-> 1, maxDisbursed |-> 3]

(* Two workers, one line with its running totals, and everything that      *)
(* writes the line or the grant.                                           *)
Ledger ==
    [workers |-> 2,
     ops |-> {"create", "update", "admin_update", "delete", "pledge",
              "confirm", "edit", "advance"},
     statuses |-> {"awarded"}, grants |-> Submitted,
     maxLines |-> 1, maxVersion |-> 2, maxDisbursed |-> 0]

MCDeployments == {OneWorker, TwoWorkers, Racing, Ledger}

Symmetry == Permutations(Lines) \cup Permutations(Sessions)
                \cup Permutations(Categories)
============================================================================
