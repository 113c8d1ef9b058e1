------------------------ MODULE WorkflowGate_proofs ------------------------
(***************************************************************************)
(* Theorems about WorkflowGate for every set of commands, instances, keys  *)
(* and roles and every workflow definition.                                *)
(***************************************************************************)
EXTENDS WorkflowGate, FiniteSetTheorems, TLAPS

(* The status column says whether the step is terminal.                    *)
StatusIsStep ==
    \A i \in Instances : record[i] # NoRecord =>
        (record[i].status = "active" <=> record[i].step \notin Terminal)

(* A copy is the row, or of an earlier version.                            *)
ViewIsKnown(m) ==
    LET r == record[m.call.instance]
    IN  /\ r # NoRecord
        /\ m.view.version <= r.version
        /\ m.view.version = r.version => m.view = r

(* What Apply established stays true of the copy.                          *)
RowIsMoved(m) ==
    /\ MayApply(m.view, m.call)
    /\ m.row = Moved(m.view, m.call)

(* Nothing was committed to the instance since the check.                  *)
IsCurrent(m) ==
    /\ m.view.version = record[m.call.instance].version
    /\ ~Finds(log[m.call.instance], m.call)

(* What an execution knows and what it left behind.                        *)
Good(m) ==
    /\ m.pc \in {"read", "saved", "flushed", "valid"} => ViewIsKnown(m)
    /\ m.pc \in {"saved", "flushed", "valid"} => RowIsMoved(m)
    /\ m.pc = "valid" => IsCurrent(m)
    /\ m.pc = "done" /\ m.answer = "applied" =>
          /\ m.call \in Call
          /\ m.call.key # NoKey => Finds(log[m.call.instance], m.call)

OneHolder ==
    \A c, d \in Commands :
        /\ Holds(c) /\ Holds(d)
        /\ command[c].call.instance = command[d].call.instance
        => c = d

IInv ==
    /\ TypeOK
    /\ HistoryMatchesLog
    /\ StatusIsStep
    /\ \A c \in Commands : Good(command[c])
    /\ OneHolder
    /\ KeyAppliedOnce
-----------------------------------------------------------------------------
LEMMA PcTypes ==
    ASSUME TypeOK, NEW c \in Commands
    PROVE  /\ command[c].pc = "read" => command[c] \in Reading
           /\ command[c].pc \in {"saved", "flushed", "valid"} =>
                 command[c] \in Writing
           /\ command[c].pc \in {"replaying", "refused"} =>
                 command[c] \in Ending
           /\ command[c].pc = "done" => command[c] \in Done
BY DEF TypeOK, Reading, Writing, Ending, Done, Unused

LEMMA RuleForType ==
    ASSUME NEW step, NEW event, RuleFor(step, event) # NoStep
    PROVE  RuleFor(step, event) \in Steps
BY ConstantsOK DEF RuleFor, RulesFor

LEMMA MovedType ==
    ASSUME NEW view \in Record, NEW call \in Call, MayApply(view, call)
    PROVE  /\ Moved(view, call) \in Record
           /\ Moved(view, call).version = view.version + 1
           /\ Moved(view, call).history = Append(view.history, Stored(call))
<1>1. RuleFor(view.step, call.event) \in Steps
  BY RuleForType DEF MayApply
<1>2. Stored(call) \in Applied
  BY DEF Stored, Applied, Call
<1>3. Append(view.history, Stored(call)) \in Seq(Applied)
  BY <1>2 DEF Record
<1> QED
  BY <1>1, <1>3 DEF Moved, Record

LEMMA TypeInit == Init => TypeOK
BY DEF Init, TypeOK

(* What a step that writes no table may do to a command.                   *)
LEMMA QuietType ==
    ASSUME TypeOK, UNCHANGED <<record, log>>, NEW c \in Commands,
           NEW state \in Reading \cup Writing \cup Ending \cup Done, Goto(c, state)
    PROVE  TypeOK'
BY DEF TypeOK, Goto

LEMMA TypeNext == TypeOK /\ [Next]_vars => TypeOK'
<1> SUFFICES ASSUME TypeOK, [Next]_vars PROVE TypeOK'
  OBVIOUS
<1>1. CASE UNCHANGED vars
  BY <1>1 DEF vars, TypeOK
<1>2. ASSUME NEW c \in Commands, NEW i \in Instances, Create(c, i)
      PROVE  TypeOK'
  <2>1. [step |-> Initial, status |-> "active", version |-> 1,
         history |-> <<>>] \in Record
    BY ConstantsOK DEF Record
  <2>2. [event |-> Opening, key |-> NoKey, version |-> 1] \in LogEntry
    BY DEF LogEntry
  <2>3. [pc |-> "done", call |-> [instance |-> i], answer |-> "created"] \in Done
    BY DEF Done
  <2> QED
    BY <1>2, <2>1, <2>2, <2>3 DEF Create, TypeOK, Goto
<1>3. ASSUME NEW c \in Commands, NEW call \in Call, Read(c, call)
      PROVE  TypeOK'
  <2>1. call.instance \in Instances
    BY DEF Call
  <2>2. CASE record[call.instance] = NoRecord
    <3>1. [pc |-> "refused", call |-> call] \in Ending
      BY DEF Ending
    <3> QED
      BY <1>3, <2>2, <3>1, QuietType DEF Read
  <2>3. CASE record[call.instance] # NoRecord
    <3>1. record[call.instance] \in Record
      BY <2>1, <2>3 DEF TypeOK
    <3>2. [pc |-> "read", call |-> call, view |-> record[call.instance]] \in Reading
      BY <3>1 DEF Reading
    <3> QED
      BY <1>3, <2>3, <3>2, QuietType DEF Read
  <2> QED
    BY <2>2, <2>3
<1>4. ASSUME NEW c \in Commands, Apply(c)
      PROVE  TypeOK'
  <2>1. command[c] \in Reading
    BY <1>4, PcTypes DEF Apply
  <2>2. Moved(command[c].view, command[c].call) \in Record
    BY <1>4, <2>1, MovedType DEF Apply, Reading
  <2>3. [pc |-> "saved", call |-> command[c].call, view |-> command[c].view,
         row |-> Moved(command[c].view, command[c].call)] \in Writing
    BY <2>1, <2>2 DEF Reading, Writing
  <2> QED
    BY <1>4, <2>3, QuietType DEF Apply
<1>5. ASSUME NEW c \in Commands, Flush(c)
      PROVE  TypeOK'
  <2>1. command[c] \in Writing
    BY <1>5, PcTypes DEF Flush
  <2>2. [command[c] EXCEPT !.pc = "flushed"] \in Writing
    BY <2>1 DEF Writing
  <2> QED
    BY <1>5, <2>2, QuietType DEF Flush
<1>6. ASSUME NEW c \in Commands, command[c].pc \notin {"unused", "done"}
      PROVE  /\ command[c].call \in Call
             /\ [pc |-> "refused", call |-> command[c].call] \in Ending
             /\ [pc |-> "replaying", call |-> command[c].call] \in Ending
             /\ \A a \in {"applied", "replayed", "failed", "none"} :
                  [pc |-> "done", call |-> command[c].call, answer |-> a] \in Done
  <2>1. command[c].call \in Call
    BY <1>6 DEF TypeOK, Reading, Writing, Ending, Done, Unused
  <2> QED
    BY <2>1 DEF Ending, Done
<1>7. ASSUME NEW c \in Commands,
             Replay(c) \/ RefuseEvent(c) \/ CommitReplay(c)
                \/ RecordFailure(c) \/ Fail(c) \/ Crash(c)
      PROVE  TypeOK'
  <2>1. command[c].pc \notin {"unused", "done"}
    BY <1>7 DEF Replay, RefuseEvent, CommitReplay, RecordFailure, Fail, Crash,
       Working
  <2> QED
    BY <1>7, <1>6, <2>1, QuietType DEF Replay, RefuseEvent, CommitReplay,
       RecordFailure, Fail, Crash, Refuse, Finish
<1>8. ASSUME NEW c \in Commands, Validate(c)
      PROVE  TypeOK'
  <2>1. command[c] \in Writing
    BY <1>8, PcTypes DEF Validate
  <2>2. [command[c] EXCEPT !.pc = "valid"] \in Writing
    BY <2>1 DEF Writing
  <2>3. [pc |-> "refused", call |-> command[c].call] \in Ending
    BY <1>6, <1>8 DEF Validate
  <2> QED
    BY <1>8, <2>2, <2>3, QuietType DEF Validate, Refuse
<1>9. ASSUME NEW c \in Commands, Commit(c)
      PROVE  TypeOK'
  <2>1. command[c] \in Writing
    BY <1>9, PcTypes DEF Commit
  <2>2. command[c].call.instance \in Instances
    BY <2>1 DEF Writing, Call
  <2>3. Logged(c) \in LogEntry
    BY <1>9, <2>1 DEF Logged, LogEntry, Stored, Writing, Call, Record
  <2>4. [pc |-> "done", call |-> command[c].call, answer |-> "applied"] \in Done
    BY <2>1 DEF Writing, Done
  <2> QED
    BY <1>9, <2>1, <2>2, <2>3, <2>4 DEF Commit, Finish, Goto, TypeOK, Writing
<1> QED
  BY <1>1, <1>2, <1>3, <1>4, <1>5, <1>7, <1>8, <1>9 DEF Next, Step
-----------------------------------------------------------------------------
LEMMA IInvInit == Init => IInv
<1> SUFFICES ASSUME Init PROVE IInv
  OBVIOUS
<1>1. \A c \in Commands : command[c] = Unused
  BY DEF Init
<1>2. HistoryMatchesLog /\ StatusIsStep
  BY DEF Init, HistoryMatchesLog, StatusIsStep
<1>3. \A c \in Commands : Good(command[c])
  BY <1>1 DEF Good, Unused
<1>4. OneHolder
  BY <1>1 DEF OneHolder, Holds, Unused
<1>5. KeyAppliedOnce
  BY <1>1 DEF KeyAppliedOnce, Answered, Unused
<1> QED
  BY <1>2, <1>3, <1>4, <1>5, TypeInit DEF IInv

(* A step of one command that writes no table preserves the invariant if   *)
(* the command's new state is good, takes no lock in use, and is not an    *)
(* answer "applied".                                                       *)
LEMMA QuietStep ==
    ASSUME IInv, TypeOK', UNCHANGED <<record, log>>, NEW c \in Commands,
           NEW state, Goto(c, state), Good(state),
           state.pc \in {"flushed", "valid"} =>
              /\ Unlocked(c)
              /\ state.call = command[c].call,
           ~(state.pc = "done" /\ state.answer = "applied")
    PROVE  IInv'
<1>1. /\ command'[c] = state
      /\ \A d \in Commands \ {c} : command'[d] = command[d]
  BY DEF Goto, IInv, TypeOK
<1>2. HistoryMatchesLog' /\ StatusIsStep'
  BY DEF IInv, HistoryMatchesLog, StatusIsStep
<1>3. \A d \in Commands : Good(command'[d])
  BY <1>1 DEF IInv
<1>4. (\A d \in Commands : Good(command[d]))'
  BY <1>3 DEF Good, ViewIsKnown, RowIsMoved, IsCurrent
<1>5. OneHolder'
  <2> SUFFICES ASSUME NEW d \in Commands, NEW e \in Commands,
                      Holds(d)', Holds(e)',
                      command'[d].call.instance = command'[e].call.instance,
                      d # e
               PROVE  FALSE
    BY DEF OneHolder
  <2>1. CASE d # c /\ e # c
    BY <1>1, <2>1 DEF IInv, OneHolder, Holds
  <2>2. CASE d = c
    BY <1>1, <2>2 DEF Unlocked, Holds
  <2>3. CASE e = c
    BY <1>1, <2>3 DEF Unlocked, Holds
  <2> QED
    BY <2>1, <2>2, <2>3
<1>6. KeyAppliedOnce'
  BY <1>1 DEF IInv, KeyAppliedOnce, Answered
<1> QED
  BY <1>2, <1>4, <1>5, <1>6 DEF IInv

(* Versions are consecutive, so the largest is the number of events.       *)
LEMMA BaselineIsLength ==
    ASSUME IInv, NEW i \in Instances, record[i] # NoRecord
    PROVE  /\ Baseline(i) = record[i].version
           /\ record[i].version = Len(log[i])
<1>1. log[i] \in Seq(LogEntry)
  BY DEF IInv, TypeOK
<1>2. /\ record[i].version = Len(log[i])
      /\ \A k \in 1..Len(log[i]) : log[i][k].version = k
  BY DEF IInv, HistoryMatchesLog
<1> DEFINE S == {Len(log[i])} \cup {log[i][k].version : k \in DOMAIN log[i]}
<1>3. DOMAIN log[i] = 1..Len(log[i]) /\ Len(log[i]) \in Nat
  BY <1>1
<1>4. \A x \in S : x \in Nat /\ x <= Len(log[i])
  BY <1>2, <1>3
<1>5. \A x \in S : (\A y \in S : x >= y) => x = Len(log[i])
  <2> SUFFICES ASSUME NEW x \in S, \A y \in S : x >= y
               PROVE  x = Len(log[i])
    OBVIOUS
  <2>1. x >= Len(log[i])
    OBVIOUS
  <2> QED
    BY <1>3, <1>4, <2>1
<1>6. \E x \in S : \A y \in S : x >= y
  <2>1. Len(log[i]) \in S
    OBVIOUS
  <2>2. \A y \in S : Len(log[i]) >= y
    BY <1>3, <1>4
  <2> QED
    BY <2>1, <2>2
<1>7. Max(S) = Len(log[i])
  BY <1>5, <1>6 DEF Max
<1> QED
  BY <1>2, <1>7 DEF Baseline
-----------------------------------------------------------------------------
(* A command leaves "valid" only with the row it read.                     *)
LEMMA ValidRow ==
    ASSUME IInv, NEW c \in Commands, command[c].pc = "valid"
    PROVE  /\ command[c] \in Writing
           /\ command[c].call.instance \in Instances
           /\ record[command[c].call.instance] \in Record
           /\ command[c].view = record[command[c].call.instance]
           /\ MayApply(command[c].view, command[c].call)
           /\ command[c].row = Moved(command[c].view, command[c].call)
           /\ ~Finds(log[command[c].call.instance], command[c].call)
<1>1. command[c] \in Writing
  BY PcTypes DEF IInv
<1>2. command[c].call.instance \in Instances
  BY <1>1 DEF Writing, Call
<1>3. Good(command[c])
  BY DEF IInv
<1> QED
  BY <1>1, <1>2, <1>3 DEF Good, ViewIsKnown, RowIsMoved, IsCurrent, IInv, TypeOK

LEMMA FindsAppended ==
    ASSUME NEW entries \in Seq(LogEntry), NEW e \in LogEntry, NEW call
    PROVE  /\ Finds(entries, call) => Finds(Append(entries, e), call)
           /\ e.event = call.event /\ e.key = call.key /\ call.key # NoKey
                => Finds(Append(entries, e), call)
<1>1. /\ DOMAIN entries = 1..Len(entries)
      /\ DOMAIN Append(entries, e) = 1..(Len(entries) + 1)
      /\ Len(entries) \in Nat
      /\ \A k \in 1..Len(entries) : Append(entries, e)[k] = entries[k]
      /\ Append(entries, e)[Len(entries) + 1] = e
  OBVIOUS
<1> QED
  BY <1>1 DEF Finds

LEMMA CommitStep ==
    ASSUME IInv, TypeOK', NEW c \in Commands, Commit(c)
    PROVE  IInv'
<1> DEFINE i == command[c].call.instance
           old == record[i]
           new == command[c].row
           e == Logged(c)
<1>1. /\ command[c] \in Writing /\ i \in Instances /\ old \in Record
      /\ old # NoRecord
      /\ command[c].view = old /\ MayApply(old, command[c].call)
      /\ new = Moved(old, command[c].call)
      /\ ~Finds(log[i], command[c].call)
  BY ValidRow, NoRecordOK DEF Commit
<1>2. /\ new \in Record
      /\ new.version = old.version + 1
      /\ new.history = Append(old.history, Stored(command[c].call))
      /\ new # NoRecord
  BY <1>1, MovedType, NoRecordOK DEF Writing
<1>3. /\ e \in LogEntry
      /\ e.event = command[c].call.event /\ e.key = command[c].call.key
      /\ e.version = new.version
  BY <1>1, <1>2 DEF Logged, Stored, LogEntry, Writing, Call, Record
<1>4. /\ record' = [record EXCEPT ![i] = new]
      /\ log' = [log EXCEPT ![i] = Append(log[i], e)]
      /\ command' = [command EXCEPT ![c] =
            [pc |-> "done", call |-> command[c].call, answer |-> "applied"]]
      /\ command[c].pc = "valid"
  BY DEF Commit, Finish, Goto
<1>5. log \in [Instances -> Seq(LogEntry)] /\ log[i] \in Seq(LogEntry)
      /\ record \in [Instances -> Record \cup {NoRecord}]
      /\ command \in [Commands -> Reading \cup Writing \cup Ending \cup Done
                                     \cup {Unused}]
  BY <1>1 DEF IInv, TypeOK
<1>6. HistoryMatchesLog'
  <2> SUFFICES ASSUME NEW j \in Instances
               PROVE  IF record'[j] = NoRecord THEN log'[j] = <<>>
                      ELSE /\ record'[j].version = Len(log'[j])
                           /\ Len(record'[j].history) = Len(log'[j]) - 1
                           /\ \A k \in 1..Len(log'[j]) : log'[j][k].version = k
                           /\ \A k \in 1..Len(record'[j].history) :
                                 /\ record'[j].history[k].event
                                       = log'[j][k + 1].event
                                 /\ record'[j].history[k].key
                                       = log'[j][k + 1].key
    BY DEF HistoryMatchesLog
  <2>1. CASE j # i
    BY <1>4, <1>5, <2>1 DEF IInv, HistoryMatchesLog
  <2>2. CASE j = i
    <3> DEFINE L == log[i]
               H == old.history
    <3>1. L \in Seq(LogEntry) /\ H \in Seq(Applied)
          /\ Stored(command[c].call) \in Applied
      BY <1>1, <1>5 DEF Record, Stored, Applied, Writing, Call
    <3>2. /\ old.version = Len(L) /\ Len(H) = Len(L) - 1
          /\ \A k \in 1..Len(L) : L[k].version = k
          /\ \A k \in 1..Len(H) : /\ H[k].event = L[k + 1].event
                                  /\ H[k].key = L[k + 1].key
      BY <1>1 DEF IInv, HistoryMatchesLog
    <3>3. record'[i] = new /\ log'[i] = Append(L, e)
      BY <1>1, <1>4, <1>5
    <3>4. /\ Stored(command[c].call).event = e.event
          /\ Stored(command[c].call).key = e.key
      BY <1>3 DEF Stored
    <3> HIDE DEF L, H, e, new, old
    <3>5. /\ Len(Append(L, e)) = Len(L) + 1
          /\ Len(L) \in Nat /\ Len(H) \in Nat
          /\ \A k \in 1..Len(L) : Append(L, e)[k] = L[k]
          /\ Append(L, e)[Len(L) + 1] = e
      BY <1>3, <3>1
    <3>6. /\ Len(new.history) = Len(H) + 1
          /\ \A k \in 1..Len(H) : new.history[k] = H[k]
          /\ new.history[Len(H) + 1] = Stored(command[c].call)
      BY <1>2, <3>1 DEF H
    <3>7. new.version = Len(L) + 1 /\ e.version = Len(L) + 1
      BY <1>2, <1>3, <3>2
    <3>8. \A k \in 1..(Len(L) + 1) : Append(L, e)[k].version = k
      BY <3>2, <3>5, <3>7
    <3>9. \A k \in 1..(Len(H) + 1) :
             /\ new.history[k].event = Append(L, e)[k + 1].event
             /\ new.history[k].key = Append(L, e)[k + 1].key
      <4> TAKE k \in 1..(Len(H) + 1)
      <4>1. CASE k \in 1..Len(H)
        BY <3>2, <3>5, <3>6, <4>1
      <4>2. CASE k = Len(H) + 1
        BY <3>2, <3>4, <3>5, <3>6, <4>2
      <4>3. k \in 1..Len(H) \/ k = Len(H) + 1
        BY <3>5
      <4> QED
        BY <4>1, <4>2, <4>3
    <3>10. /\ new.version = Len(Append(L, e))
           /\ Len(new.history) = Len(Append(L, e)) - 1
           /\ 1..Len(Append(L, e)) = 1..(Len(L) + 1)
           /\ 1..Len(new.history) = 1..(Len(H) + 1)
      BY <3>2, <3>5, <3>6, <3>7
    <3> QED
      BY <1>2, <2>2, <3>3, <3>8, <3>9, <3>10
  <2> QED
    BY <2>1, <2>2
<1>7. StatusIsStep'
  <2>1. new.status = "active" <=> new.step \notin Terminal
    BY <1>1 DEF Moved, MayApply
  <2> QED
    BY <1>1, <1>4, <1>5, <2>1 DEF IInv, StatusIsStep
<1>8. ASSUME NEW d \in Commands PROVE Good(command[d])'
  <2>1. CASE d = c
    <3>1. command[c].call \in Call
      BY <1>1 DEF Writing
    <3>2. command[c].call.key # NoKey => Finds(log'[i], command[c].call)
      BY <1>1, <1>3, <1>4, <1>5, FindsAppended
    <3> QED
      BY <1>4, <1>5, <2>1, <3>1, <3>2 DEF Good
  <2>2. CASE d # c /\ command[d].call.instance # i
    <3>1. command'[d] = command[d]
      BY <1>4, <1>5, <2>2
    <3>2. /\ record'[command[d].call.instance] = record[command[d].call.instance]
          /\ log'[command[d].call.instance] = log[command[d].call.instance]
      BY <1>4, <1>5, <2>2
    <3> QED
      BY <3>1, <3>2 DEF IInv, Good, ViewIsKnown, RowIsMoved, IsCurrent
  <2>3. CASE d # c /\ command[d].call.instance = i
    <3>1. command'[d] = command[d] /\ Good(command[d])
      BY <1>4, <1>5, <2>3 DEF IInv
    <3>2. command[d].pc # "valid"
      BY <1>4, <2>3 DEF IInv, OneHolder, Holds
    <3>3. record'[i] = new /\ log'[i] = Append(log[i], e)
      BY <1>1, <1>4, <1>5
    <3>4. command[d].pc \in {"read", "saved", "flushed", "valid"} =>
             command[d].view \in Record
      BY PcTypes DEF IInv, Reading, Writing
    <3>5. ASSUME command[d].pc \in {"read", "saved", "flushed", "valid"}
          PROVE  ViewIsKnown(command[d])'
      <4>1. /\ command[d].view.version \in Nat
            /\ command[d].view.version <= old.version
            /\ old.version \in Nat
        BY <1>1, <2>3, <3>1, <3>4, <3>5 DEF Good, ViewIsKnown, Record
      <4>2. /\ command[d].view.version <= new.version
            /\ command[d].view.version # new.version
        BY <1>2, <4>1
      <4> HIDE DEF new
      <4> QED
        BY <1>2, <2>3, <3>1, <3>3, <4>2 DEF ViewIsKnown
    <3>6. Finds(log[i], command[d].call) => Finds(log'[i], command[d].call)
      BY <1>3, <1>5, <3>3, FindsAppended
    <3> QED
      BY <2>3, <3>1, <3>2, <3>5, <3>6 DEF Good, RowIsMoved
  <2> QED
    BY <2>1, <2>2, <2>3
<1>9. OneHolder'
  BY <1>4, <1>5 DEF IInv, OneHolder, Holds
<1>10. KeyAppliedOnce'
  <2>1. ASSUME NEW d \in Commands \ {c}, d \in Answered("applied"),
               command[d].call = command[c].call, command[c].call.key # NoKey
        PROVE  FALSE
    BY <1>1, <2>1 DEF IInv, Good, Answered
  <2> QED
    BY <1>4, <1>5, <2>1 DEF IInv, KeyAppliedOnce, Answered
<1> QED
  BY <1>6, <1>7, <1>8, <1>9, <1>10 DEF IInv

LEMMA CreateStep ==
    ASSUME IInv, TypeOK', NEW c \in Commands, NEW i \in Instances, Create(c, i)
    PROVE  IInv'
<1> DEFINE new == [step |-> Initial, status |-> "active", version |-> 1,
                   history |-> <<>>]
           e == [event |-> Opening, key |-> NoKey, version |-> 1]
<1>0. new \in Record
  BY ConstantsOK DEF Record
<1>1. new \in Record /\ new # NoRecord
  BY <1>0, NoRecordOK
<1>2. /\ command[c] = Unused
      /\ record[i] = NoRecord /\ log[i] = <<>>
      /\ record' = [record EXCEPT ![i] = new]
      /\ log' = [log EXCEPT ![i] = <<e>>]
      /\ command' = [command EXCEPT ![c] =
            [pc |-> "done", call |-> [instance |-> i], answer |-> "created"]]
  <2>1. record[i] = NoRecord /\ log[i] = <<>>
    BY DEF Create, IInv, HistoryMatchesLog
  <2>2. Append(<<>>, e) = <<e>>
    OBVIOUS
  <2> QED
    BY <2>1, <2>2 DEF Create, Goto
<1>3. log \in [Instances -> Seq(LogEntry)]
      /\ record \in [Instances -> Record \cup {NoRecord}]
      /\ command \in [Commands -> Reading \cup Writing \cup Ending \cup Done
                                     \cup {Unused}]
  BY DEF IInv, TypeOK
<1>4. HistoryMatchesLog'
  <2>1. /\ record'[i] = new /\ log'[i] = <<e>>
        /\ \A j \in Instances \ {i} : record'[j] = record[j] /\ log'[j] = log[j]
    BY <1>2, <1>3
  <2>2. /\ Len(<<e>>) = 1 /\ <<e>>[1] = e /\ Len(new.history) = 0
        /\ new.version = 1 /\ e.version = 1
        /\ 1..0 = {} /\ 1..1 = {1}
    OBVIOUS
  <2> HIDE DEF new, e
  <2>3. /\ new.version = Len(<<e>>)
        /\ Len(new.history) = Len(<<e>>) - 1
        /\ \A k \in 1..Len(<<e>>) : <<e>>[k].version = k
        /\ 1..Len(new.history) = {}
    BY <2>2
  <2> SUFFICES ASSUME NEW j \in Instances
               PROVE  IF record'[j] = NoRecord THEN log'[j] = <<>>
                      ELSE /\ record'[j].version = Len(log'[j])
                           /\ Len(record'[j].history) = Len(log'[j]) - 1
                           /\ \A k \in 1..Len(log'[j]) : log'[j][k].version = k
                           /\ \A k \in 1..Len(record'[j].history) :
                                 /\ record'[j].history[k].event
                                       = log'[j][k + 1].event
                                 /\ record'[j].history[k].key
                                       = log'[j][k + 1].key
    BY DEF HistoryMatchesLog
  <2>4. CASE j = i
    BY <1>1, <2>1, <2>3, <2>4
  <2>5. CASE j # i
    <3>1. record'[j] = record[j] /\ log'[j] = log[j]
      BY <2>1, <2>5
    <3>2. HistoryMatchesLog
      BY DEF IInv
    <3> QED
      BY <3>1, <3>2 DEF HistoryMatchesLog
  <2> QED
    BY <2>4, <2>5
<1>5. StatusIsStep'
  BY <1>1, <1>2, <1>3, ConstantsOK DEF IInv, StatusIsStep
<1>6. ASSUME NEW d \in Commands PROVE Good(command[d])'
  <2>1. CASE d = c
    BY <1>2, <1>3, <2>1 DEF Good
  <2>2. CASE d # c
    <3>1. command'[d] = command[d] /\ Good(command[d])
      BY <1>2, <1>3, <2>2 DEF IInv
    <3>2. command[d].call.instance = i =>
             /\ command[d].pc \notin {"read", "saved", "flushed", "valid"}
             /\ command[d].pc = "done" /\ command[d].answer = "applied"
                   => command[d].call.key = NoKey
      BY <1>2, <3>1 DEF Good, ViewIsKnown, Finds
    <3>3. command[d].call.instance # i =>
             /\ record'[command[d].call.instance]
                   = record[command[d].call.instance]
             /\ log'[command[d].call.instance] = log[command[d].call.instance]
      BY <1>2, <1>3
    <3> QED
      BY <3>1, <3>2, <3>3 DEF Good, ViewIsKnown, RowIsMoved, IsCurrent
  <2> QED
    BY <2>1, <2>2
<1>7. OneHolder'
  BY <1>2, <1>3 DEF IInv, OneHolder, Holds
<1>8. KeyAppliedOnce'
  BY <1>2, <1>3 DEF IInv, KeyAppliedOnce, Answered
<1> QED
  BY <1>4, <1>5, <1>6, <1>7, <1>8 DEF IInv
-----------------------------------------------------------------------------
LEMMA IInvNext == IInv /\ [Next]_vars => IInv'
<1> SUFFICES ASSUME IInv, [Next]_vars PROVE IInv'
  OBVIOUS
<1>1. TypeOK'
  BY TypeNext DEF IInv
<1>2. CASE UNCHANGED vars
  BY <1>1, <1>2 DEF vars, IInv, HistoryMatchesLog, StatusIsStep, Good,
     ViewIsKnown, RowIsMoved, IsCurrent, OneHolder, Holds, KeyAppliedOnce,
     Answered
<1>3. ASSUME NEW c \in Commands, NEW call \in Call, Read(c, call)
      PROVE  IInv'
  <2>1. CASE record[call.instance] = NoRecord
    <3>1. Good([pc |-> "refused", call |-> call])
      BY DEF Good
    <3> QED
      BY <1>1, <1>3, <2>1, <3>1, QuietStep DEF Read
  <2>2. CASE record[call.instance] # NoRecord
    <3> DEFINE m == [pc |-> "read", call |-> call,
                     view |-> record[call.instance]]
    <3>1. record[call.instance].version \in Nat
      BY <2>2 DEF IInv, TypeOK, Record, Call
    <3>2. Good(m)
      BY <2>2, <3>1 DEF Good, ViewIsKnown
    <3> QED
      BY <1>1, <1>3, <2>2, <3>2, QuietStep DEF Read
  <2> QED
    BY <2>1, <2>2
<1>4. ASSUME NEW c \in Commands, Apply(c)
      PROVE  IInv'
  <2> DEFINE m == [pc |-> "saved", call |-> command[c].call,
                   view |-> command[c].view,
                   row |-> Moved(command[c].view, command[c].call)]
  <2>1. Good(m)
    BY <1>4 DEF Apply, IInv, Good, ViewIsKnown, RowIsMoved
  <2> QED
    BY <1>1, <1>4, <2>1, QuietStep DEF Apply
<1>5. ASSUME NEW c \in Commands, Flush(c)
      PROVE  IInv'
  <2> DEFINE m == [command[c] EXCEPT !.pc = "flushed"]
  <2>1. command[c] \in Writing
    BY <1>5, PcTypes DEF Flush, IInv
  <2>2. /\ m.pc = "flushed" /\ m.call = command[c].call
        /\ m.view = command[c].view /\ m.row = command[c].row
    BY <2>1 DEF Writing
  <2>3. Good(m)
    BY <1>5, <2>2 DEF Flush, IInv, Good, ViewIsKnown, RowIsMoved
  <2> HIDE DEF m
  <2>4. Goto(c, m) /\ UNCHANGED <<record, log>> /\ Unlocked(c)
    BY <1>5 DEF Flush, m
  <2> QED
    BY <1>1, <2>2, <2>3, <2>4, QuietStep
<1>6. ASSUME NEW c \in Commands, Validate(c)
      PROVE  IInv'
  <2> DEFINE m == [command[c] EXCEPT !.pc = "valid"]
             i == command[c].call.instance
  <2>1. CASE ~Acceptable(c)
    <3>1. Good([pc |-> "refused", call |-> command[c].call])
      BY DEF Good
    <3> QED
      BY <1>1, <1>6, <2>1, <3>1, QuietStep DEF Validate, Refuse
  <2>2. CASE Acceptable(c)
    <3>1. command[c] \in Writing /\ i \in Instances
      BY <1>6, PcTypes DEF Validate, IInv, Writing, Call
    <3>2. /\ m.pc = "valid" /\ m.call = command[c].call
          /\ m.view = command[c].view /\ m.row = command[c].row
      BY <3>1 DEF Writing
    <3>3. ViewIsKnown(command[c]) /\ RowIsMoved(command[c])
      BY <1>6 DEF Validate, IInv, Good
    <3>4. Baseline(i) = record[i].version /\ record[i] \in Record
      BY <3>1, <3>3, BaselineIsLength DEF ViewIsKnown, IInv, TypeOK
    <3>5. command[c].row.version = command[c].view.version + 1
      BY <3>1, <3>3, MovedType DEF RowIsMoved, Writing
    <3>6. command[c].row.version = Baseline(i) + 1
      BY <2>2 DEF Acceptable, InSequence
    <3>7. command[c].view.version \in Nat /\ record[i].version \in Nat
      BY <3>1, <3>4 DEF Writing, Record
    <3>8. command[c].view.version = record[i].version
      BY <3>4, <3>5, <3>6, <3>7
    <3>9. Good(m)
      BY <2>2, <3>2, <3>3, <3>8 DEF Acceptable, Good, ViewIsKnown, RowIsMoved,
         IsCurrent
    <3>10. Unlocked(c)
      BY <1>6 DEF Validate, Unlocked, Holds, IInv, OneHolder
    <3> HIDE DEF m
    <3>11. Goto(c, m) /\ UNCHANGED <<record, log>>
      BY <1>6, <2>2 DEF Validate, m
    <3> QED
      BY <1>1, <3>2, <3>9, <3>10, <3>11, QuietStep
  <2> QED
    BY <2>1, <2>2
<1>7. ASSUME NEW c \in Commands,
             Replay(c) \/ RefuseEvent(c) \/ CommitReplay(c)
                \/ RecordFailure(c) \/ Fail(c) \/ Crash(c)
      PROVE  IInv'
  <2>1. /\ Good([pc |-> "refused", call |-> command[c].call])
        /\ Good([pc |-> "replaying", call |-> command[c].call])
        /\ \A a \in {"replayed", "failed", "none"} :
              Good([pc |-> "done", call |-> command[c].call, answer |-> a])
    BY DEF Good
  <2> QED
    BY <1>1, <1>7, <2>1, QuietStep DEF Replay, RefuseEvent, CommitReplay,
       RecordFailure, Fail, Crash, Refuse, Finish
<1> QED
  BY <1>1, <1>2, <1>3, <1>4, <1>5, <1>6, <1>7, CommitStep, CreateStep
     DEF Next, Step

LEMMA Invariance == Spec => []IInv
BY IInvInit, IInvNext, PTL DEF Spec

(* Every reachable state is well typed.                                    *)
THEOREM TypeCorrect == Spec => []TypeOK
BY Invariance, PTL DEF IInv

(* The instance's row, its version and its history are what its event log  *)
(* says, for any number of concurrent commands, though neither the UPDATE  *)
(* nor the INSERTs test a version: save, the row lock of the UPDATE and    *)
(* the check of the event store together do.                               *)
THEOREM RowAndLogAgree == Spec => []HistoryMatchesLog
BY Invariance, PTL DEF IInv

(* An idempotency key takes effect once, however often and in whatever     *)
(* order a client's commands with it run.                                  *)
THEOREM KeyIsAppliedOnce == Spec => []KeyAppliedOnce
BY Invariance, PTL DEF IInv

-----------------------------------------------------------------------------
(* The commands behind the version of an instance.                         *)
MovedBy(i) ==
    {c \in Answered("applied") \cup Answered("created") : command[c].call.instance = i}

AppliedInv == AppliedIsKept /\ \A i \in Instances : IsFiniteSet(MovedBy(i))

LEMMA MoversNow ==
    ASSUME NEW i, NEW c
    PROVE  /\ c \in MovedBy(i) <=>
                /\ c \in Commands /\ command[c].pc = "done"
                /\ command[c].answer \in {"applied", "created"}
                /\ command[c].call.instance = i
           /\ (c \in MovedBy(i))' <=>
                /\ c \in Commands /\ command'[c].pc = "done"
                /\ command'[c].answer \in {"applied", "created"}
                /\ command'[c].call.instance = i
BY DEF MovedBy, Answered

(* Steps that answer neither "applied" nor "created".                      *)
LEMMA OthersMoveNothing ==
    ASSUME IInv, AppliedInv, record' = record, NEW c \in Commands, NEW state, Goto(c, state),
           command[c].pc # "done",
           state.pc = "done" => state.answer \notin {"applied", "created"}
    PROVE  AppliedInv'
<1>1. command'[c] = state /\ \A d \in Commands \ {c} : command'[d] = command[d]
  BY DEF Goto, IInv, TypeOK
<1>2. ASSUME NEW i \in Instances PROVE MovedBy(i)' = MovedBy(i)
  <2>1. c \notin MovedBy(i) /\ c \notin MovedBy(i)'
    BY <1>1, MoversNow
  <2>2. ASSUME NEW d, d # c PROVE d \in MovedBy(i)' <=> d \in MovedBy(i)
    BY <1>1, <2>2, MoversNow
  <2> QED BY <2>1, <2>2
<1> QED BY <1>2 DEF AppliedInv, AppliedIsKept, MovedBy

(* A command that answers moves its instance by one version.               *)
LEMMA OneMoreMoves ==
    ASSUME IInv, AppliedInv, NEW c \in Commands, NEW state, Goto(c, state),
           command[c].pc # "done", state.pc = "done", state.answer \in {"applied", "created"},
           NEW i \in Instances, state.call.instance = i,
           NEW row \in Record, record' = [record EXCEPT ![i] = row],
           row.version = IF record[i] = NoRecord THEN 1 ELSE record[i].version + 1
    PROVE  AppliedInv'
<1>1. command'[c] = state /\ \A d \in Commands \ {c} : command'[d] = command[d]
  BY DEF Goto, IInv, TypeOK
<1>2. record'[i] = row /\ row # NoRecord /\ \A j \in Instances \ {i} : record'[j] = record[j]
  BY NoRecordOK DEF IInv, TypeOK
<1>3. c \notin MovedBy(i) /\ MovedBy(i)' = MovedBy(i) \cup {c}
  BY <1>1, MoversNow
<1>4. \A j \in Instances \ {i} : MovedBy(j)' = MovedBy(j)
  BY <1>1, MoversNow
<1>5. /\ IsFiniteSet(MovedBy(i)')
      /\ Cardinality(MovedBy(i)') = Cardinality(MovedBy(i)) + 1
  BY <1>3, FS_AddElement DEF AppliedInv
<1>6. Cardinality(MovedBy(i)) = IF record[i] = NoRecord THEN 0 ELSE record[i].version
  BY DEF AppliedInv, AppliedIsKept, MovedBy
<1>7. ASSUME NEW j \in Instances
      PROVE  /\ IsFiniteSet(MovedBy(j)')
             /\ Cardinality(MovedBy(j)')
                   = IF record'[j] = NoRecord THEN 0 ELSE record'[j].version
  <2>1. CASE j = i
    BY <1>2, <1>5, <1>6, <2>1
  <2>2. CASE j # i
    BY <1>2, <1>4, <2>2 DEF AppliedInv, AppliedIsKept, MovedBy
  <2> QED BY <2>1, <2>2
<1> QED BY <1>7 DEF AppliedInv, AppliedIsKept, MovedBy

LEMMA AppliedInvNext == IInv /\ AppliedInv /\ [Next]_vars => AppliedInv'
<1> SUFFICES ASSUME IInv, AppliedInv, [Next]_vars PROVE AppliedInv'
  OBVIOUS
<1>1. CASE UNCHANGED vars
  BY <1>1 DEF vars, AppliedInv, AppliedIsKept, MovedBy, Answered
<1>2. ASSUME NEW c \in Commands, NEW i \in Instances, Create(c, i) PROVE AppliedInv'
  <2> DEFINE row == [step |-> Initial, status |-> "active", version |-> 1, history |-> <<>>]
             state == [pc |-> "done", call |-> [instance |-> i], answer |-> "created"]
  <2>1. row \in Record /\ row.version = 1
    BY ConstantsOK DEF Record
  <2>2. command[c].pc # "done" /\ record[i] = NoRecord
    BY <1>2 DEF Create, Unused
  <2>3. Goto(c, state) /\ record' = [record EXCEPT ![i] = row]
    BY <1>2 DEF Create
  <2>4. state.pc = "done" /\ state.answer \in {"applied", "created"} /\ state.call.instance = i
    OBVIOUS
  <2> HIDE DEF row, state
  <2> QED BY <2>1, <2>2, <2>3, <2>4, OneMoreMoves
<1>3. ASSUME NEW c \in Commands, Commit(c) PROVE AppliedInv'
  <2> DEFINE m == command[c]  i == m.call.instance
             state == [pc |-> "done", call |-> m.call, answer |-> "applied"]
  <2>1. m \in Writing /\ m.pc = "valid"
    BY <1>3, PcTypes DEF Commit, IInv
  <2>2. i \in Instances /\ m.row \in Record /\ m.view \in Record /\ m.call \in Call
    BY <2>1 DEF Writing, Call
  <2>3. /\ m.row = Moved(m.view, m.call) /\ MayApply(m.view, m.call)
        /\ m.view.version = record[i].version /\ record[i] # NoRecord
    BY <2>1 DEF IInv, Good, RowIsMoved, IsCurrent, ViewIsKnown
  <2>4. m.row.version = record[i].version + 1
    BY <2>2, <2>3, MovedType
  <2>5. Goto(c, state) /\ record' = [record EXCEPT ![i] = m.row]
    BY <1>3 DEF Commit, Finish
  <2>6. state.pc = "done" /\ state.answer \in {"applied", "created"} /\ state.call.instance = i
    OBVIOUS
  <2> HIDE DEF m, i, state
  <2>7. command[c].pc # "done"
    BY <2>1 DEF m
  <2> QED BY <2>2, <2>3, <2>4, <2>5, <2>6, <2>7, OneMoreMoves
<1>4. ASSUME NEW c \in Commands, NEW call \in Call, Read(c, call) PROVE AppliedInv'
  <2>1. command[c].pc # "done" /\ record' = record
    BY <1>4 DEF Read, Unused
  <2>2. CASE record[call.instance] = NoRecord
    BY <1>4, <2>1, <2>2, OthersMoveNothing DEF Read
  <2>3. CASE record[call.instance] # NoRecord
    BY <1>4, <2>1, <2>3, OthersMoveNothing DEF Read
  <2> QED BY <2>2, <2>3
<1>5. ASSUME NEW c \in Commands,
             Replay(c) \/ Apply(c) \/ RefuseEvent(c) \/ Flush(c) \/ Validate(c)
               \/ CommitReplay(c) \/ RecordFailure(c) \/ Fail(c) \/ Crash(c)
      PROVE  AppliedInv'
  <2>1. record' = record /\ command[c].pc # "done"
    BY <1>5 DEF Replay, Apply, RefuseEvent, Flush, Validate, CommitReplay, RecordFailure,
                Fail, Crash, Working
  <2>2. CASE Replay(c) \/ Apply(c) \/ RefuseEvent(c) \/ Fail(c)
    BY <2>1, <2>2, OthersMoveNothing DEF Replay, Apply, RefuseEvent, Fail, Refuse
  <2>3. CASE Flush(c) \/ Validate(c)
    <3>1. command[c] \in Writing
      BY <2>3, PcTypes DEF Flush, Validate, IInv
    <3>2. \A pc \in {"flushed", "valid"} : [command[c] EXCEPT !.pc = pc].pc = pc
      BY <3>1 DEF Writing
    <3> QED BY <2>1, <2>3, <3>2, OthersMoveNothing DEF Flush, Validate, Refuse
  <2>4. CASE CommitReplay(c) \/ RecordFailure(c) \/ Crash(c)
    BY <2>1, <2>4, OthersMoveNothing DEF CommitReplay, RecordFailure, Crash, Finish
  <2> QED BY <1>5, <2>2, <2>3, <2>4
<1> QED BY <1>1, <1>2, <1>3, <1>4, <1>5 DEF Next, Step

(* The version of an instance counts the commands that were told they      *)
(* created or moved it: none is overwritten, none takes effect after its   *)
(* client heard of a failure.                                              *)
THEOREM AppliedIsCounted == Spec => []AppliedIsKept
<1>1. Init => AppliedInv
  <2> SUFFICES ASSUME Init PROVE AppliedInv
    OBVIOUS
  <2>1. \A i \in Instances : MovedBy(i) = {} /\ record[i] = NoRecord
    BY DEF Init, MovedBy, Answered, Unused
  <2> QED BY <2>1, FS_EmptySet DEF AppliedInv, AppliedIsKept, MovedBy
<1>2. AppliedInv => AppliedIsKept
  BY DEF AppliedInv
<1> QED BY <1>1, <1>2, AppliedInvNext, Invariance, PTL DEF Spec
-----------------------------------------------------------------------------
(* The refinement.                                                         *)
stage == [i \in Instances |->
             IF record[i] = NoRecord THEN NoStep ELSE record[i].step]

EventsOf(entries) ==
    {[event |-> entries[k].event, key |-> entries[k].key] :
         k \in 2..Len(entries)}

applied == [i \in Instances |-> EventsOf(log[i])]

(* The mapping of an instance's log when an event is appended to it.       *)
LEMMA AppendedEvents ==
    ASSUME NEW entries \in Seq(LogEntry), NEW e \in LogEntry, entries # <<>>
    PROVE  EventsOf(Append(entries, e)) =
              EventsOf(entries) \cup {[event |-> e.event, key |-> e.key]}
<1> DEFINE n == Len(entries)
           new == Append(entries, e)
<1>1. /\ n \in Nat /\ n >= 1 /\ Len(new) = n + 1
      /\ \A k \in 1..n : new[k] = entries[k]
      /\ new[n + 1] = e
  OBVIOUS
<1> HIDE DEF n, new
<1>2. 2..(n + 1) = (2..n) \cup {n + 1}
  BY <1>1
<1>3. \A k \in 2..n : new[k] = entries[k]
  BY <1>1
<1> QED
  BY <1>1, <1>2, <1>3 DEF EventsOf, n, new

LEMMA ContractInit == Init => Contract!Init
<1> SUFFICES ASSUME Init PROVE Contract!Init
  OBVIOUS
<1>1. \A i \in Instances : EventsOf(log[i]) = {}
  BY DEF Init, EventsOf
<1> QED
  BY <1>1 DEF Init, Contract!Init, EventsOf

LEMMA ContractNext == IInv /\ [Next]_vars => [Contract!Next]_(Contract!vars)
<1> SUFFICES ASSUME IInv, [Next]_vars
             PROVE  Contract!Next \/ UNCHANGED <<stage, applied>>
  BY DEF Contract!vars, stage, applied, EventsOf
<1>1. CASE UNCHANGED <<record, log>>
  BY <1>1 DEF stage, applied, EventsOf
<1>2. ASSUME NEW c \in Commands, NEW i \in Instances, Create(c, i)
      PROVE  Contract!Next
  <2> DEFINE new == [step |-> Initial, status |-> "active", version |-> 1,
                     history |-> <<>>]
             e == [event |-> Opening, key |-> NoKey, version |-> 1]
  <2>1. new \in Record
    BY ConstantsOK DEF Record
  <2>2. new # NoRecord
    BY <2>1, NoRecordOK
  <2>3. log[i] = <<>> /\ record[i] = NoRecord
    BY <1>2 DEF Create, IInv, HistoryMatchesLog
  <2>4. /\ record' = [record EXCEPT ![i] = new]
        /\ log' = [log EXCEPT ![i] = Append(log[i], e)]
    BY <1>2 DEF Create
  <2>5. Len(Append(log[i], e)) = 1 /\ 2..1 = {} /\ 2..0 = {}
    BY <2>3
  <2>6. EventsOf(Append(log[i], e)) = EventsOf(log[i])
    BY <2>3, <2>5 DEF EventsOf
  <2>7. stage[i] = NoStep /\ stage' = [stage EXCEPT ![i] = Initial]
    <3> HIDE DEF new
    <3>1. new.step = Initial
      BY DEF new
    <3> QED
      BY <2>2, <2>3, <2>4, <3>1 DEF stage, IInv, TypeOK
  <2>8. applied' = applied
    <3> HIDE DEF e
    <3> QED
      BY <2>4, <2>6 DEF applied, IInv, TypeOK
  <2>9. Contract!Open(i)
    BY <2>7, <2>8 DEF Contract!Open, stage, applied, EventsOf
  <2> QED
    BY <2>9 DEF Contract!Next
<1>3. ASSUME NEW c \in Commands, Commit(c)
      PROVE  Contract!Next
  <2> DEFINE call == command[c].call
             i == call.instance
             new == command[c].row
             e == Logged(c)
             to == RuleFor(record[i].step, call.event)
  <2>1. /\ call \in Call /\ i \in Instances /\ record[i] \in Record
        /\ record[i] # NoRecord
        /\ MayApply(record[i], call)
        /\ new = Moved(record[i], call) /\ new \in Record
        /\ ~Finds(log[i], call)
        /\ log[i] \in Seq(LogEntry)
    BY <1>3, ValidRow, NoRecordOK DEF Commit, Writing, IInv, TypeOK
  <2>2. /\ record' = [record EXCEPT ![i] = new]
        /\ log' = [log EXCEPT ![i] = Append(log[i], e)]
    BY <1>3 DEF Commit
  <2>3. /\ e \in LogEntry /\ e.event = call.event /\ e.key = call.key
    BY <2>1 DEF Logged, Stored, LogEntry, Call, Record
  <2>4. log[i] # <<>>
    BY <2>1 DEF IInv, HistoryMatchesLog, Record
  <2>5. /\ stage[i] \notin Terminal \cup {NoStep}
        /\ stage[i] = record[i].step
        /\ to # NoStep
        /\ MayEmit(call.role, call.event)
    BY <2>1, ConstantsOK DEF stage, MayApply, IInv, StatusIsStep, Record
  <2>6. stage' = [stage EXCEPT ![i] = to]
    <3>0. Moved(record[i], call).step = to
      BY DEF Moved
    <3> HIDE DEF new, to, i
    <3>1. new.step = to /\ new # NoRecord
      BY <2>1, <3>0, NoRecordOK
    <3>2. ASSUME NEW j \in Instances
          PROVE  (IF record'[j] = NoRecord THEN NoStep ELSE record'[j].step)
                   = IF j = i THEN to ELSE stage[j]
      BY <2>1, <2>2, <3>1 DEF stage, IInv, TypeOK
    <3> QED
      BY <3>2 DEF stage
  <2>7. applied' = [applied EXCEPT ![i] =
                       @ \cup {[event |-> call.event, key |-> call.key]}]
    <3>1. EventsOf(Append(log[i], e)) =
             EventsOf(log[i]) \cup {[event |-> call.event, key |-> call.key]}
      BY <2>1, <2>3, <2>4, AppendedEvents
    <3> HIDE DEF e, call, i
    <3>2. ASSUME NEW j \in Instances
          PROVE  EventsOf(log'[j]) =
                   IF j = i THEN EventsOf(log[i]) \cup
                                    {[event |-> call.event, key |-> call.key]}
                            ELSE EventsOf(log[j])
      BY <2>1, <2>2, <3>1 DEF IInv, TypeOK
    <3> QED
      BY <2>1, <3>2 DEF applied
  <2>8. call.key # NoKey =>
           [event |-> call.event, key |-> call.key] \notin applied[i]
    <3>1. DOMAIN log[i] = 1..Len(log[i]) /\ Len(log[i]) \in Nat
      BY <2>1
    <3>2. ASSUME [event |-> call.event, key |-> call.key] \in EventsOf(log[i]),
                 call.key # NoKey
          PROVE  FALSE
      <4>1. PICK k \in 2..Len(log[i]) :
               [event |-> call.event, key |-> call.key]
                  = [event |-> log[i][k].event, key |-> log[i][k].key]
        BY <3>2 DEF EventsOf
      <4>2. call.event = log[i][k].event /\ call.key = log[i][k].key
        BY <4>1
      <4> HIDE DEF call, i, new, e, to
      <4>3. k \in DOMAIN log[i]
        BY <3>1
      <4> QED
        BY <2>1, <3>2, <4>2, <4>3 DEF Finds
    <3> HIDE DEF call, i
    <3> QED
      BY <2>1, <3>2 DEF applied
  <2>9. /\ call.role \in Roles /\ call.event \in Events
        /\ call.key \in Keys \cup {NoKey}
    BY <2>1 DEF Call
  <2> HIDE DEF call, i, to
  <2>10. PICK j \in Instances, role \in Roles, event \in Events,
              key \in Keys \cup {NoKey} :
           j = i /\ role = call.role /\ event = call.event /\ key = call.key
    BY <2>1, <2>9
  <2>11. to = RuleFor(stage[j], event)
    BY <2>5, <2>10 DEF to
  <2>12. Contract!Advance(j, role, event, key)
    BY <2>5, <2>6, <2>7, <2>8, <2>10, <2>11
       DEF Contract!Advance, stage, applied, EventsOf
  <2> QED
    BY <2>12 DEF Contract!Next
<1>4. ASSUME NEW c \in Commands,
             \/ \E call \in Call : Read(c, call)
             \/ Replay(c) \/ Apply(c) \/ RefuseEvent(c) \/ Flush(c)
             \/ Validate(c) \/ CommitReplay(c) \/ RecordFailure(c)
             \/ Fail(c) \/ Crash(c)
      PROVE  UNCHANGED <<record, log>>
  BY <1>4 DEF Read, Replay, Apply, RefuseEvent, Flush, Validate, CommitReplay,
     RecordFailure, Fail, Crash
<1> QED
  BY <1>1, <1>2, <1>3, <1>4 DEF Next, Step, vars

(* Concurrent commands of the write gate implement the contract: their     *)
(* effects are those of commands executed one at a time.                   *)
THEOREM GateImplementsContract == Spec => ImplementsContract
<1>1. Init => Contract!Init
  BY ContractInit
<1>2. IInv /\ [Next]_vars => [Contract!Next]_(Contract!vars)
  BY ContractNext
<1> QED
  BY <1>1, <1>2, Invariance, PTL DEF Spec, ImplementsContract, Contract!Spec
=============================================================================
