---------------------------- MODULE WorkflowGate ----------------------------
(***************************************************************************)
(* Workflow instances and the write gate in front of them:                 *)
(* app/write_gate.py, workflow_engine/state_machine.py,                    *)
(* persistence/repositories/workflow_repository.py, persistence/uow.py and *)
(* the checks of audit/event_store.py.                                     *)
(*                                                                         *)
(* A command is one transaction of one worker.  It reads the instance      *)
(* (Read), applies its event to the copy, reads the row again and compares *)
(* versions (Apply), sends the UPDATE, which carries no version but locks  *)
(* the row (Flush), checks the instance's event log (Validate) and commits *)
(* (Commit).  Other workers' commands commit in between.  On SQLite, where *)
(* there is one writer at a time, a run is one of these.                   *)
(***************************************************************************)
EXTENDS Naturals, Sequences, FiniteSets, FiniteSetsExt

CONSTANTS
    Commands,   \* executions of the gate: their execution_ids
    Instances,  \* ids of workflow instances
    Events,     \* event types
    Keys,       \* idempotency keys of clients
    Roles,      \* roles of users
    Steps,      \* steps of the workflow definition
    Initial,    \* its initial step
    Terminal,   \* its terminal steps
    Rules,      \* its transition rules: [from, event, to]
    Permits,    \* _ALLOWED_TRANSITIONS, as pairs of role and event
    Opening,    \* the event "workflow_instance_created"
    NoKey,      \* the client sent no idempotency key
    NoRecord,   \* an instance that does not exist
    NoStep      \* no rule applies

ASSUME ConstantsOK ==
    /\ Initial \in Steps \ Terminal
    /\ Terminal \subseteq Steps
    /\ Rules \subseteq [from : Steps, event : Events, to : Steps]
    /\ Permits \subseteq Roles \X Events
    /\ Opening \notin Events
    /\ NoKey \notin Keys
    /\ NoStep \notin Steps

Applied == [event : Events, key : Keys \cup {NoKey}]

Record == [step : Steps, status : {"active", "completed"},
           version : Nat \ {0}, history : Seq(Applied)]

LogEntry == [event : Events \cup {Opening}, key : Keys \cup {NoKey},
             version : Nat \ {0}]

ASSUME NoRecordOK == NoRecord \notin Record

VARIABLES
    record,  \* workflow_instances_v2
    log,     \* workflow_events_v2, by instance, in the order of commits
    command  \* what each execution of the gate is doing

vars == <<record, log, command>>

Unused == [pc |-> "unused"]

(* view is the instance as it was read, row what the command writes.  The  *)
(* answer is the response and the audit event of the execution itself:     *)
(* workflow_command_completed (created, applied, replayed) or _failed.     *)
Call == [instance : Instances, role : Roles, event : Events,
         key : Keys \cup {NoKey}]

Reading == [pc : {"read"}, call : Call, view : Record]

Writing == [pc : {"saved", "flushed", "valid"}, call : Call, view : Record,
            row : Record]

Ending == [pc : {"replaying", "refused"}, call : Call]

Done == [pc : {"done"}, call : Call \cup [instance : Instances],
         answer : {"created", "applied", "replayed", "failed", "none"}]

TypeOK ==
    /\ record \in [Instances -> Record \cup {NoRecord}]
    /\ log \in [Instances -> Seq(LogEntry)]
    /\ command \in [Commands -> Reading \cup Writing \cup Ending \cup Done
                                 \cup {Unused}]

Init ==
    /\ record = [i \in Instances |-> NoRecord]
    /\ log = [i \in Instances |-> <<>>]
    /\ command = [c \in Commands |-> Unused]
-----------------------------------------------------------------------------
(* can_transition_workflow and transition_for.                             *)
MayEmit(role, event) == <<role, event>> \in Permits

RulesFor(step, event) == {r \in Rules : r.from = step /\ r.event = event}

RuleFor(step, event) ==
    IF RulesFor(step, event) = {} THEN NoStep
    ELSE (CHOOSE r \in RulesFor(step, event) : TRUE).to

(* Mutant of Stored: the key is redacted with the rest of the payload.     *)
StoredRedacted(call) == [event |-> call.event, key |-> NoKey]

(* What the history and the event keep of a command.                       *)
Stored(call) == [event |-> call.event, key |-> call.key]

Finds(entries, call) ==
    /\ call.key # NoKey
    /\ \E k \in DOMAIN entries : /\ entries[k].event = call.event
                                 /\ entries[k].key = call.key

(* Mutants of MayApply: a completed instance takes events; an event that   *)
(* no rule allows is applied.                                              *)
ApplyToCompleted(view, call) ==
    /\ MayEmit(call.role, call.event)
    /\ RuleFor(view.step, call.event) # NoStep

ApplyWithoutRule(view, call) ==
    /\ MayEmit(call.role, call.event)
    /\ view.status = "active"

MayApply(view, call) ==
    /\ MayEmit(call.role, call.event)
    /\ view.status = "active"
    /\ RuleFor(view.step, call.event) # NoStep

Moved(view, call) ==
    LET to == RuleFor(view.step, call.event)
    IN  [step |-> to,
         status |-> IF to \in Terminal THEN "completed" ELSE view.status,
         version |-> view.version + 1,
         history |-> Append(view.history, Stored(call))]

Working(c) == command[c].pc \in {"read", "saved", "flushed", "valid"}

Holds(c) == command[c].pc \in {"flushed", "valid"}

Goto(c, state) == command' = [command EXCEPT ![c] = state]

Refuse(c) == Goto(c, [pc |-> "refused", call |-> command[c].call])

Finish(c, answer) ==
    Goto(c, [pc |-> "done", call |-> command[c].call, answer |-> answer])
-----------------------------------------------------------------------------
(* _create_instance: nobody knows the new id before the commit, so it is   *)
(* one step.                                                               *)
Create(c, i) ==
    /\ command[c] = Unused
    /\ record[i] = NoRecord
    /\ record' = [record EXCEPT ![i] =
          [step |-> Initial, status |-> "active", version |-> 1,
           history |-> <<>>]]
    /\ log' = [log EXCEPT ![i] =
          Append(@, [event |-> Opening, key |-> NoKey, version |-> 1])]
    /\ Goto(c, [pc |-> "done", call |-> [instance |-> i],
                answer |-> "created"])

(* _dispatch_event: an unknown instance is a KeyError.                     *)
Read(c, call) ==
    /\ command[c] = Unused
    /\ Goto(c, IF record[call.instance] = NoRecord
               THEN [pc |-> "refused", call |-> call]
               ELSE [pc |-> "read", call |-> call,
                     view |-> record[call.instance]])
    /\ UNCHANGED <<record, log>>

(* The event is in the history with this key: nothing to write but the     *)
(* gate's own two events.                                                  *)
Replay(c) ==
    /\ command[c].pc = "read"
    /\ Finds(command[c].view.history, command[c].call)
    /\ Goto(c, [pc |-> "replaying", call |-> command[c].call])
    /\ UNCHANGED <<record, log>>

SameVersion(c) ==
    record[command[c].call.instance].version = command[c].view.version

(* apply_event and save, which compares with the row as it is now.         *)
Apply(c) ==
    LET view == command[c].view
        call == command[c].call
    IN  /\ command[c].pc = "read"
        /\ ~Finds(view.history, call)
        /\ MayApply(view, call)
        /\ SameVersion(c)
        /\ Goto(c, [pc |-> "saved", call |-> call, view |-> view,
                    row |-> Moved(view, call)])
        /\ UNCHANGED <<record, log>>

RefuseEvent(c) ==
    LET view == command[c].view
        call == command[c].call
    IN  /\ command[c].pc = "read"
        /\ ~Finds(view.history, call)
        /\ ~(MayApply(view, call) /\ SameVersion(c))
        /\ Refuse(c)
        /\ UNCHANGED <<record, log>>

(* Mutant of Unlocked: nobody waits.                                       *)
NeverWaits(c) == TRUE

(* No other command holds the row.                                         *)
Unlocked(c) ==
    \A d \in Commands \ {c} :
        Holds(d) => command[d].call.instance # command[c].call.instance

(* The autoflush of the first query of _validate_batch sends the UPDATE,   *)
(* which waits for whoever holds the row.                                  *)
Flush(c) ==
    /\ command[c].pc = "saved"
    /\ Unlocked(c)
    /\ Goto(c, [command[c] EXCEPT !.pc = "flushed"])
    /\ UNCHANGED <<record, log>>

Baseline(i) ==
    Max({Len(log[i])} \cup {log[i][k].version : k \in DOMAIN log[i]})

(* Mutant of InSequence: the event store does not look at versions.        *)
OutOfSequence(c) == TRUE

(* "Version sequence violation" if not.                                    *)
InSequence(c) ==
    command[c].row.version = Baseline(command[c].call.instance) + 1

Acceptable(c) ==
    InSequence(c) /\ ~Finds(log[command[c].call.instance], command[c].call)

(* _validate_batch.                                                        *)
Validate(c) ==
    /\ command[c].pc = "flushed"
    /\ IF Acceptable(c)
       THEN Goto(c, [command[c] EXCEPT !.pc = "valid"])
       ELSE Refuse(c)
    /\ UNCHANGED <<record, log>>

Logged(c) ==
    [event |-> Stored(command[c].call).event,
     key |-> Stored(command[c].call).key,
     version |-> command[c].row.version]

Commit(c) ==
    LET i == command[c].call.instance
    IN  /\ command[c].pc = "valid"
        /\ record' = [record EXCEPT ![i] = command[c].row]
        /\ log' = [log EXCEPT ![i] = Append(@, Logged(c))]
        /\ Finish(c, "applied")

CommitReplay(c) ==
    /\ command[c].pc = "replaying"
    /\ Finish(c, "replayed")
    /\ UNCHANGED <<record, log>>

(* An exception inside the transaction rolls it back ...                   *)
Fail(c) ==
    /\ Working(c)
    /\ Refuse(c)
    /\ UNCHANGED <<record, log>>

(* ... and _record_failed_execution commits one event of its own.          *)
RecordFailure(c) ==
    /\ command[c].pc = "refused"
    /\ Finish(c, "failed")
    /\ UNCHANGED <<record, log>>

(* The worker dies, the commit fails, or the failure cannot be recorded.   *)
Crash(c) ==
    /\ Working(c) \/ command[c].pc \in {"replaying", "refused"}
    /\ Finish(c, "none")
    /\ UNCHANGED <<record, log>>

Step(c) ==
    \/ Replay(c) \/ Apply(c) \/ RefuseEvent(c) \/ Flush(c) \/ Validate(c)
    \/ Commit(c) \/ CommitReplay(c) \/ RecordFailure(c)

Next ==
    \E c \in Commands :
        \/ \E i \in Instances : Create(c, i)
        \/ \E call \in Call : Read(c, call)
        \/ Step(c)
        \/ Fail(c)
        \/ Crash(c)

Spec == Init /\ [][Next]_vars
-----------------------------------------------------------------------------
(* The instance's row and its event log tell the same story: as many       *)
(* events as the version says, numbered without gaps, and the history      *)
(* column lists all of them after the first, in order.  Neither UPDATE nor *)
(* INSERT carries a version test; the row lock and the check after it are  *)
(* what keeps two commands from overwriting each other.                    *)
HistoryMatchesLog ==
    \A i \in Instances :
        IF record[i] = NoRecord THEN log[i] = <<>>
        ELSE /\ record[i].version = Len(log[i])
             /\ Len(record[i].history) = Len(log[i]) - 1
             /\ \A k \in 1..Len(log[i]) : log[i][k].version = k
             /\ \A k \in 1..Len(record[i].history) :
                    /\ record[i].history[k].event = log[i][k + 1].event
                    /\ record[i].history[k].key = log[i][k + 1].key

Answered(answer) ==
    {c \in Commands : command[c].pc = "done" /\ command[c].answer = answer}

(* Of the commands of one client, sent again with the same idempotency     *)
(* key, at most one takes effect, however they overlap.                    *)
KeyAppliedOnce ==
    \A c, d \in Answered("applied") :
        command[c].call = command[d].call /\ command[c].call.key # NoKey
            => c = d

(* Every command answered with "applied" moved its instance by one         *)
(* version, and nothing else did: no transition overwrites another, none   *)
(* comes from a command recorded as failed, and a replay adds none.        *)
AppliedIsKept ==
    \A i \in Instances :
        Cardinality({c \in Answered("applied") \cup Answered("created") :
                        command[c].call.instance = i}) =
            IF record[i] = NoRecord THEN 0 ELSE record[i].version

(* The contract's view: the step in the row, the events in the log.        *)
Contract == INSTANCE WorkflowContract WITH
    stage <- [i \in Instances |->
                 IF record[i] = NoRecord THEN NoStep ELSE record[i].step],
    applied <- [i \in Instances |->
                   {[event |-> log[i][k].event, key |-> log[i][k].key] :
                        k \in 2..Len(log[i])}]

(* Concurrent commands have the effect of commands executed one at a time, *)
(* each along a rule of the definition, by a role that may, and once for   *)
(* each key.                                                               *)
ImplementsContract == Contract!Spec
=============================================================================
