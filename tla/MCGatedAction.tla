--------------------------- MODULE MCGatedAction ---------------------------
(* A small instance of GatedAction: two people who approve or execute, two *)
(* requests for the one target, chains of one approval.                    *)
EXTENDS GatedAction, TLC

CONSTANTS asker, fin1, fin2, finance

MCRoleOf == [u \in Users |-> finance]

OneApproval ==
    {[required |-> 1, roles |-> {finance}, escRole |-> finance,
      deadline |-> "ahead"]}

Symmetry ==
    Permutations(Sessions) \cup Permutations({fin1, fin2})
        \cup Permutations(Requests)
============================================================================
