------------------------- MODULE MCDonationPayments -------------------------
(* Small instances of DonationPayments.  One worker process with two       *)
(* threads: a second process with a guard of its own behaves as this one   *)
(* does after Forget.                                                      *)
EXTENDS DonationPayments, TLC

CONSTANT w1

MCWorkerOf == [s \in Sessions |-> w1]

(* What people do besides paying, in four deployments: with and without    *)
(* deletions, on which the ids of SQLite depend.  The follow-up workflow   *)
(* sets a status without looking at the table, so it takes part only where *)
(* the total is the question.                                              *)
Lifecycle ==
    [database : {"postgresql"},
     ops : {{"open", "edit", "status", "delete", "receipt"}}]
        \cup [database : {"sqlite"},
              ops : {{"open", "edit", "status", "receipt"},
                     {"open", "status", "delete"}}]

Totals == [database : {"sqlite"}, ops : {{"open", "record", "followup", "delete"}}]

LifecycleAndTotals == Lifecycle \cup Totals

(* For the runs that end in a counterexample.                              *)
Webhooks == [database : {"sqlite"}, ops : {{"open", "edit"}}]

Gifts == [database : {"postgresql"}, ops : {{"record", "edit"}}]

Symmetry == Permutations(Sessions) \cup Permutations(Payments)
=============================================================================
