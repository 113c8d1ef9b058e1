-------------------------- MODULE DonorAutomations --------------------------
(***************************************************************************)
(* The donor journey automations that staff start:                         *)
(* run_donor_journey_automations in services/stewardship_service.py.       *)
(*                                                                         *)
(* A run goes through the donors with a first gift, then through lapsing   *)
(* donors and plans that fail.  For each case it looks for an event with   *)
(* the case's idempotency key, then for any recent execution; else it      *)
(* opens a task, mails the donor and adds an event.  An added event is     *)
(* sent to the database by the next query, where its key is unique, and    *)
(* all of the run is one transaction that begins with its first INSERT.    *)
(* The database is SQLite: one transaction writes at a time.  All runs lie *)
(* within one cooldown (21 days), so that an execution is always recent.   *)
(***************************************************************************)
EXTENDS Naturals, FiniteSets, FiniteSetsExt

CONSTANTS
    Newcomers,   \* cases of the trigger first_gift_followup
    Strugglers,  \* cases of the other two triggers
    Anchors,     \* dates a case may be keyed by; bound: one is corrected
                 \* to a later one only
    Automata,    \* requests that run the automations
    MaxRuns,     \* bound: runs that are started
    MaxFaults    \* bound: those that crash, or time out on the lock

Cases == Newcomers \cup Strugglers

ASSUME AutomationConstantsOK ==
    /\ Newcomers \cap Strugglers = {}
    /\ Anchors \subseteq Nat /\ Anchors # {}
    /\ IsFiniteSet(Automata)
    /\ MaxRuns \in Nat
    /\ MaxFaults \in Nat

(* The key of an execution is the trigger, the donor and the date; a case  *)
(* that is skipped adds a suffix.                                          *)
EventKeys ==
    [case : Cases, anchor : Anchors, suffix : {"", ":repeat", ":cooldown"}]

VARIABLES
    current,    \* the cases that match their trigger now
    anchor,     \* the date in the key of a case
    events,     \* idempotency keys in donor_journey_automation_events
    openTasks,  \* open follow-up tasks of a case
    thanked,    \* how often the mail of a case was sent
    automaton,  \* what each run is doing
    runs,       \* runs started so far
    faults,     \* runs that crashed or timed out
    collisions  \* runs that added a key that was there

counters == <<runs, faults, collisions>>

automationVars ==
    <<current, anchor, events, openTasks, thanked, automaton, counters>>

AutomatonIdle == [pc |-> "idle"]

(* todo is what the last query returned and last whether it was the final  *)
(* one; sent are the keys the transaction has inserted, added the one that *)
(* the next query will, tasks and acted the cases it has opened a task for *)
(* and mailed; key and opens what was decided about the case in hand.      *)
Automaton ==
    [pc : {"judging", "acting"}, todo : SUBSET Cases, last : BOOLEAN,
     sent : SUBSET EventKeys, added : SUBSET EventKeys,
     tasks : SUBSET Cases, acted : SUBSET Cases,
     key : SUBSET EventKeys, opens : BOOLEAN]

AutomationTypeOK ==
    /\ current \subseteq Cases
    /\ anchor \in [Cases -> Anchors]
    /\ events \subseteq EventKeys
    /\ openTasks \in [Cases -> Nat]
    /\ thanked \in [Cases -> Nat]
    /\ automaton \in [Automata -> Automaton \cup {AutomatonIdle}]
    /\ runs \in 0..MaxRuns
    /\ faults \in 0..MaxFaults
    /\ collisions \in 0..runs

AutomationInit ==
    /\ current = {}
    /\ anchor = [x \in Cases |-> Min(Anchors)]
    /\ events = {}
    /\ openTasks = [x \in Cases |-> 0]
    /\ thanked = [x \in Cases |-> 0]
    /\ automaton = [r \in Automata |-> AutomatonIdle]
    /\ runs = 0
    /\ faults = 0
    /\ collisions = 0

AutomatonGoes(r, state) == automaton' = [automaton EXCEPT ![r] = state]

Key(x, suffix) == [case |-> x, anchor |-> anchor[x], suffix |-> suffix]

(* The write lock is a transaction's from its first INSERT on.             *)
Writes(r) ==
    /\ automaton[r].pc # "idle"
    /\ automaton[r].sent \cup automaton[r].tasks # {}

MayWrite(r) == \A q \in Automata \ {r} : ~Writes(q)

MayQuery(r) == automaton[r].added = {} \/ MayWrite(r)

(* Mutant of Collides: the keys are not unique.                            *)
NeverCollides(r) == FALSE

Collides(r) == automaton[r].added \cap events # {}

Executed(x, keys) == {k \in keys : k.case = x /\ k.suffix = ""}
-----------------------------------------------------------------------------
StartAutomation(r) ==
    /\ automaton[r] = AutomatonIdle
    /\ runs < MaxRuns
    /\ runs' = runs + 1
    /\ AutomatonGoes(r,
          [pc |-> "judging", todo |-> current \cap Newcomers, last |-> FALSE,
           sent |-> {}, added |-> {}, tasks |-> {}, acted |-> {},
           key |-> {}, opens |-> FALSE])
    /\ UNCHANGED <<current, anchor, events, openTasks, thanked, faults,
                   collisions>>

(* The state after a query, which inserts what was added before it.        *)
Queried(r) ==
    [automaton[r] EXCEPT !.sent = @ \cup automaton[r].added, !.added = {}]

CanQuery(r) ==
    /\ automaton[r].pc = "judging"
    /\ MayQuery(r)
    /\ ~Collides(r)

(* A case executed before, or within the cooldown, is skipped; only that   *)
(* of a first gift leaves an event of its own.                             *)
Skip(r, x) ==
    LET s == Queried(r)
        known == Executed(x, events \cup s.sent)
        suffix == IF Key(x, "") \in known THEN ":repeat" ELSE ":cooldown"
    IN  /\ CanQuery(r)
        /\ x \in s.todo
        /\ known # {}
        /\ AutomatonGoes(r, [s EXCEPT
              !.todo = @ \ {x},
              !.added = IF x \in Newcomers THEN {Key(x, suffix)} ELSE {}])
        /\ UNCHANGED <<current, anchor, events, openTasks, thanked, counters>>

Judge(r, x) ==
    LET s == Queried(r)
    IN  /\ CanQuery(r)
        /\ x \in s.todo
        /\ Executed(x, events \cup s.sent) = {}
        /\ AutomatonGoes(r, [s EXCEPT !.pc = "acting", !.todo = @ \ {x},
                                      !.key = {Key(x, "")},
                                      !.opens = openTasks[x] = 0])
        /\ UNCHANGED <<current, anchor, events, openTasks, thanked, counters>>

(* _ensure_open_task, which inserts at once, then the mail, then the event *)
(* with its result.                                                        *)
Act(r, delivered) ==
    LET s == automaton[r]
        about == {k.case : k \in s.key}
    IN  /\ s.pc = "acting"
        /\ s.opens => MayWrite(r)
        /\ thanked' = [x \in Cases |->
              IF x \in about /\ delivered THEN thanked[x] + 1 ELSE thanked[x]]
        /\ AutomatonGoes(r, [s EXCEPT
              !.pc = "judging", !.added = s.key, !.key = {}, !.opens = FALSE,
              !.tasks = IF s.opens THEN @ \cup about ELSE @,
              !.acted = @ \cup about])
        /\ UNCHANGED <<current, anchor, events, openTasks, counters>>

NextTrigger(r) ==
    /\ CanQuery(r)
    /\ automaton[r].todo = {}
    /\ ~automaton[r].last
    /\ AutomatonGoes(r, [Queried(r) EXCEPT !.last = TRUE,
                                           !.todo = current \cap Strugglers])
    /\ UNCHANGED <<current, anchor, events, openTasks, thanked, counters>>

(* Mutant of Inserted: the event added last is not inserted.               *)
InsertedEarlier(r) == automaton[r].sent

Inserted(r) == automaton[r].sent \cup automaton[r].added

CommitAutomation(r) ==
    /\ CanQuery(r)
    /\ automaton[r].todo = {}
    /\ automaton[r].last
    /\ events' = events \cup Inserted(r)
    /\ openTasks' = [x \in Cases |->
          IF x \in automaton[r].tasks THEN openTasks[x] + 1 ELSE openTasks[x]]
    /\ AutomatonGoes(r, AutomatonIdle)
    /\ UNCHANGED <<current, anchor, thanked, counters>>

(* The INSERT of a key that is there: an IntegrityError that nobody        *)
(* catches ends the run, and everything it wrote is rolled back.           *)
Collide(r) ==
    /\ automaton[r].pc = "judging"
    /\ MayQuery(r)
    /\ Collides(r)
    /\ collisions' = collisions + 1
    /\ AutomatonGoes(r, AutomatonIdle)
    /\ UNCHANGED <<current, anchor, events, openTasks, thanked, runs, faults>>

Fault(r) ==
    /\ automaton[r] # AutomatonIdle
    /\ faults < MaxFaults
    /\ faults' = faults + 1
    /\ AutomatonGoes(r, AutomatonIdle)
    /\ UNCHANGED <<current, anchor, events, openTasks, thanked, runs, collisions>>
-----------------------------------------------------------------------------
(* A gift is the donor's first and new, a donor lapses, a plan fails, or   *)
(* does so no longer; the date of a gift is corrected; a task is closed.   *)
Matches(x) ==
    /\ x \notin current
    /\ current' = current \cup {x}
    /\ UNCHANGED <<anchor, events, openTasks, thanked, automaton, counters>>

MatchesNoMore(x) ==
    /\ x \in current
    /\ current' = current \ {x}
    /\ UNCHANGED <<anchor, events, openTasks, thanked, automaton, counters>>

Correct(x, date) ==
    /\ date > anchor[x]
    /\ anchor' = [anchor EXCEPT ![x] = date]
    /\ UNCHANGED <<current, events, openTasks, thanked, automaton, counters>>

CloseTasks(x) ==
    /\ openTasks[x] > 0
    /\ openTasks' = [openTasks EXCEPT ![x] = 0]
    /\ UNCHANGED <<current, anchor, events, thanked, automaton, counters>>

AutomationNext ==
    \/ \E r \in Automata :
          \/ StartAutomation(r) \/ NextTrigger(r) \/ CommitAutomation(r)
          \/ Collide(r) \/ Fault(r)
          \/ \E x \in Cases : Skip(r, x) \/ Judge(r, x)
          \/ \E delivered \in BOOLEAN : Act(r, delivered)
    \/ \E x \in Cases :
          \/ Matches(x) \/ MatchesNoMore(x) \/ CloseTasks(x)
          \/ \E date \in Anchors : Correct(x, date)

AutomationSpec == AutomationInit /\ [][AutomationNext]_automationVars
-----------------------------------------------------------------------------
(* No follow-up task is open without an execution on record for it: two    *)
(* runs that both found no task and no event do not leave two, because     *)
(* task and event are one transaction and the event's key is unique.       *)
TasksAreLogged ==
    \A x \in Cases : openTasks[x] <= Cardinality(Executed(x, events))

(* Every mail sent to a donor is on record as an execution, but those of   *)
(* runs under way and one for each run that was rolled back.               *)
ThanksAreLogged ==
    \A x \in Cases :
        thanked[x] <=
            Cardinality(Executed(x, events)) + faults + collisions
              + Cardinality({r \in Automata :
                    automaton[r].pc # "idle" /\ x \in automaton[r].acted})

(* "Idempotent trigger execution": nobody is thanked twice for one gift.   *)
ThankedOnce == \A x \in Cases : thanked[x] <= 1
=============================================================================
