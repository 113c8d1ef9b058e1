-------------------------- MODULE WorkflowContract --------------------------
(***************************************************************************)
(* What the write gate promises of workflow instances, with no commands,   *)
(* reads, versions, histories or locks: an instance begins at the initial  *)
(* step, each event moves it along one rule of its definition, an event    *)
(* with an idempotency key takes effect once, and an instance that reached *)
(* a terminal step stays there.                                            *)
(***************************************************************************)
CONSTANTS Instances, Events, Keys, Roles, Initial, Terminal, NoStep, NoKey,
          MayEmit(_, _),  \* may a role emit an event?
          RuleFor(_, _)   \* the step an event leads to from a step, or NoStep

VARIABLES
    stage,   \* the step an instance is at, NoStep before it exists
    applied  \* the events that took effect, with their keys

vars == <<stage, applied>>

Init ==
    /\ stage = [i \in Instances |-> NoStep]
    /\ applied = [i \in Instances |-> {}]

Open(i) ==
    /\ stage[i] = NoStep
    /\ stage' = [stage EXCEPT ![i] = Initial]
    /\ UNCHANGED applied

Advance(i, role, event, key) ==
    /\ stage[i] \notin Terminal \cup {NoStep}
    /\ MayEmit(role, event)
    /\ RuleFor(stage[i], event) # NoStep
    /\ key # NoKey => [event |-> event, key |-> key] \notin applied[i]
    /\ stage' = [stage EXCEPT ![i] = RuleFor(@, event)]
    /\ applied' = [applied EXCEPT ![i] =
                      @ \cup {[event |-> event, key |-> key]}]

Next ==
    \E i \in Instances :
        \/ Open(i)
        \/ \E role \in Roles, event \in Events, key \in Keys \cup {NoKey} :
              Advance(i, role, event, key)

Spec == Init /\ [][Next]_vars
=============================================================================
