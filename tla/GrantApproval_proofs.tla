------------------------ MODULE GrantApproval_proofs ------------------------
(***************************************************************************)
(* Theorems about GrantApproval for every set of requests, users, roles,   *)
(* policies and sessions.                                                  *)
(***************************************************************************)
EXTENDS GrantApproval, FiniteSetTheorems, TLAPS

LEMMA CallFields ==
    ASSUME NEW c \in Call
    PROVE  /\ c.req \in Requests
           /\ c.op \in {"decide", "consume", "sweep"}
           /\ c.op = "decide" => c.user \in Users /\ c.verdict \in Verdicts
           /\ c.op = "consume" => c.user \in Users /\ c.target \in Targets
BY DEF Call

(* What the types of the variables say of a session that is not idle.      *)
LEMMA BusyFields ==
    ASSUME TypeOK, NEW s \in Sessions, session[s] # Idle
    PROVE  /\ session[s] \in Busy
           /\ session[s].call \in Call
           /\ session[s].view \in Row
           /\ session[s].pc # "idle"
BY DEF TypeOK, Busy

LEMMA PcBusy ==
    ASSUME NEW s \in Sessions, session[s].pc # "idle"
    PROVE  session[s] # Idle
BY DEF Idle

(* Finite decision logs: NewDecision numbers rows by counting them.        *)
FiniteLogs == \A r \in Requests : IsFiniteSet(decisions[r])

(* A session works on a request that exists.                               *)
SessionsOnRows ==
    \A s \in Sessions : session[s] # Idle => Created(session[s].call.req)

TypeInv == TypeOK /\ FiniteLogs /\ SessionsOnRows

LEMMA TypeInit == Init => TypeInv
<1> SUFFICES ASSUME Init PROVE TypeInv
  OBVIOUS
<1>1. TypeOK
  BY DEF Init, TypeOK
<1>2. FiniteLogs
  BY FS_EmptySet DEF Init, FiniteLogs
<1>3. SessionsOnRows
  BY DEF Init, SessionsOnRows
<1> QED
  BY <1>1, <1>2, <1>3 DEF TypeInv

(* An update of one column keeps a row a row.                              *)
LEMMA OneColumn ==
    ASSUME NEW row \in Row
    PROVE  /\ \A st \in Statuses : [row EXCEPT !.status = st] \in Row
           /\ \A d \in Deadlines : [row EXCEPT !.deadline = d] \in Row
           /\ \A e \in Roles \cup {NoRole} : [row EXCEPT !.escRole = e] \in Row
           /\ \A n \in Nat : [row EXCEPT !.version = n] \in Row
BY DEF Row

LEMMA Stamped ==
    ASSUME NEW row \in Row, NEW st \in Statuses
    PROVE  [row EXCEPT !.status = st, !.version = @ + 1] \in Row
<1> DEFINE mid == [row EXCEPT !.status = st]
<1>1. mid \in Row
  BY OneColumn
<1>2. mid.version = row.version /\ row.version + 1 \in Nat
  BY DEF Row
<1>3. [row EXCEPT !.status = st, !.version = @ + 1]
         = [mid EXCEPT !.version = row.version + 1]
  BY <1>2
<1> HIDE DEF mid
<1> QED
  BY <1>1, <1>2, <1>3, OneColumn

LEMMA RowUpdates ==
    ASSUME NEW row \in Row
    PROVE  /\ Escalated(row) \in Row
           /\ Expired(row) \in Row
           /\ Lapsed(row) \in Row
<1>1. Escalated(row) \in Row
  <2> DEFINE esc == IF row.escRole = NoRole THEN OrgAdmin ELSE row.escRole
             row1 == [row EXCEPT !.status = "escalated"]
             row2 == [row1 EXCEPT !.deadline = "ahead"]
             row3 == [row2 EXCEPT !.escRole = esc]
  <2>1. row1 \in Row
    BY OneColumn DEF Statuses
  <2>2. row2 \in Row
    <3> HIDE DEF row1
    <3> QED  BY <2>1, OneColumn DEF Deadlines
  <2>3. row3 \in Row
    <3>1. esc \in Roles \cup {NoRole}
      BY ConstantsOK DEF Row
    <3> HIDE DEF row2, esc
    <3> QED  BY <2>2, <3>1, OneColumn
  <2>4. row3.version = row.version /\ row2.escRole = row.escRole
    BY DEF Row
  <2>5. Escalated(row) = [row3 EXCEPT !.version = row.version + 1]
    BY <2>4 DEF Escalated
  <2>6. row.version + 1 \in Nat
    BY DEF Row
  <2> HIDE DEF row3
  <2> QED
    BY <2>3, <2>5, <2>6, OneColumn
<1>2. Expired(row) \in Row
  BY Stamped DEF Expired, Statuses
<1> QED
  BY <1>1, <1>2 DEF Lapsed

(* What a session's step does to the types: it keeps rows rows, and leaves *)
(* itself idle or busy with the same call.                                 *)
LEMMA SessionStep ==
    ASSUME TypeInv, NEW s \in Sessions, session[s] # Idle,
           NEW next \in Busy \cup {Idle},
           next # Idle => next.call = session[s].call,
           session' = [session EXCEPT ![s] = next],
           request' \in [Requests -> Row \cup {NoRow}],
           \A r \in Requests : Created(r) => Created(r)',
           decisions' \in [Requests -> SUBSET Decision], FiniteLogs',
           executor' \in [Requests -> Users \cup {NoUser}]
    PROVE  TypeInv'
<1>1. TypeOK'
  BY DEF TypeInv, TypeOK
<1>2. ASSUME NEW t \in Sessions, session'[t] # Idle
      PROVE  Created(session[t].call.req)' /\ session'[t].call.req \in Requests
  <2>1. session[t] # Idle /\ session'[t].call = session[t].call
    BY <1>2 DEF TypeInv, TypeOK
  <2>2. session[t].call.req \in Requests
    BY <2>1, BusyFields, CallFields DEF TypeInv
  <2> QED
    BY <2>1, <2>2 DEF TypeInv, SessionsOnRows, Created
<1> QED
  BY <1>1, <1>2 DEF TypeInv, SessionsOnRows

LEMMA TypeNext == TypeInv /\ [Next]_vars => TypeInv'
<1> SUFFICES ASSUME TypeInv, [Next]_vars PROVE TypeInv'
  OBVIOUS
<1> USE DEF TypeInv
<1>1. ASSUME NEW r \in Requests, NEW u \in Askers, NEW tgt \in Targets,
             NEW p \in Policies, Create(r, u, tgt, p)
      PROVE  TypeInv'
  <2>1. p \in Policy /\ u \in Users
    BY ConstantsOK
  <2>2. request'[r] \in Row
    BY <1>1, <2>1 DEF Create, Row, Policy, Statuses, Deadlines, TypeOK
  <2>3. TypeOK'
    BY <1>1, <2>2 DEF Create, TypeOK
  <2>4. SessionsOnRows'
    BY <1>1, <2>2, NoRowOK DEF Create, SessionsOnRows, Created, TypeOK
  <2> QED
    BY <1>1, <2>3, <2>4 DEF Create, FiniteLogs
<1>2. ASSUME NEW r \in Requests, DeadlinePasses(r)
      PROVE  TypeInv'
  <2>1. request[r] \in Row
    BY <1>2 DEF DeadlinePasses, TypeOK, Created
  <2>2. request'[r] \in Row
    BY <1>2, <2>1, OneColumn DEF DeadlinePasses, TypeOK, Deadlines
  <2>3. TypeOK'
    BY <1>2, <2>2 DEF DeadlinePasses, TypeOK
  <2>4. SessionsOnRows'
    BY <1>2, <2>2, NoRowOK DEF DeadlinePasses, SessionsOnRows, Created, TypeOK
  <2> QED
    BY <1>2, <2>3, <2>4 DEF DeadlinePasses, FiniteLogs
<1>3. ASSUME NEW s \in Sessions, NEW c \in Call, Load(s, c)
      PROVE  TypeInv'
  <2>1. c.req \in Requests /\ request[c.req] \in Row
    BY <1>3, CallFields DEF Load, Created, TypeOK
  <2>2. session'[s] \in Busy
    BY <1>3, <2>1, ConstantsOK DEF Load, TypeOK, Busy
  <2>3. TypeOK'
    BY <1>3, <2>2 DEF Load, TypeOK
  <2>4. session'[s].call = c
    BY <1>3 DEF Load, TypeOK
  <2>5. SessionsOnRows'
    BY <1>3, <2>4 DEF Load, SessionsOnRows, Created, TypeOK
  <2> QED
    BY <1>3, <2>3, <2>5 DEF Load, FiniteLogs
<1>4. ASSUME NEW s \in Sessions, Step(s) \/ Crash(s)
      PROVE  TypeInv'
  <2> DEFINE r == session[s].call.req  call == session[s].call
             view == session[s].view
  <2>1. session[s] # Idle
    BY <1>4, PcBusy DEF Step, Crash, NotOverdue, Expire, Reload, CheckDecide,
       InsertDecision, CommitDecision, CheckConsume, CommitConsume, Refuse
  <2>2. session[s] \in Busy /\ call \in Call /\ view \in Row /\ r \in Requests
    BY <2>1, BusyFields, CallFields
  <2>3. request[r] \in Row
    BY <2>1, <2>2 DEF SessionsOnRows, Created, TypeOK
  <2> HIDE DEF r, call, view, TypeInv
  <2>4. CASE UNCHANGED <<request, decisions, executor>> /\ Finish(s)
    BY <2>1, <2>4, SessionStep DEF Finish, TypeInv, TypeOK, Created, FiniteLogs
  <2>5. CASE NotOverdue(s) \/ CheckDecide(s) \/ CheckConsume(s)
    <3>1. PICK pc \in {"checking", "inserting", "committing"} :
            \/ Finish(s)
            \/ session' = [session EXCEPT ![s].pc = pc]
      BY <2>5 DEF NotOverdue, CheckDecide, CheckConsume
    <3>2. UNCHANGED <<request, decisions, executor>>
      BY <2>5 DEF NotOverdue, CheckDecide, CheckConsume
    <3>3. [session[s] EXCEPT !.pc = pc] \in Busy
      BY <2>2 DEF Busy
    <3>4. [session[s] EXCEPT !.pc = pc].call = session[s].call
      BY <2>2 DEF Busy
    <3> QED
      BY <2>1, <2>4, <3>1, <3>2, <3>3, <3>4, SessionStep
      DEF TypeInv, TypeOK, Created, FiniteLogs
  <2>6. CASE Expire(s)
    <3>1. Lapsed(view) \in Row
      BY <2>2, RowUpdates
    <3>2. request' = [request EXCEPT ![r] = Lapsed(view)]
      BY <2>6 DEF Expire, r, view
    <3>3. request' \in [Requests -> Row \cup {NoRow}]
      BY <2>2, <3>1, <3>2 DEF TypeInv, TypeOK
    <3>4. \A q \in Requests : Created(q) => Created(q)'
      BY <2>2, <3>1, <3>2, NoRowOK DEF Created, TypeInv, TypeOK
    <3>5. PICK next \in Busy \cup {Idle} :
            /\ session' = [session EXCEPT ![s] = next]
            /\ next # Idle => next.call = session[s].call
      <4> DEFINE row1 == [session[s] EXCEPT !.pc = "reload"]
                 row2 == [row1 EXCEPT !.locked = FALSE]
      <4>1. row1 \in Busy /\ row1.call = session[s].call
        BY <2>2 DEF Busy
      <4>2. row2 \in Busy /\ row2.call = row1.call
        <5> HIDE DEF row1
        <5> QED  BY <4>1 DEF Busy
      <4>3. \/ Finish(s)
            \/ session' = [session EXCEPT ![s].pc = "reload",
                                          ![s].locked = FALSE]
        BY <2>6 DEF Expire
      <4>4. ASSUME session' = [session EXCEPT ![s].pc = "reload",
                                              ![s].locked = FALSE]
            PROVE  session' = [session EXCEPT ![s] = row2]
        BY <4>4 DEF TypeInv, TypeOK
      <4> QED
        BY <4>1, <4>2, <4>3, <4>4 DEF Finish
    <3> QED
      BY <2>1, <2>6, <3>3, <3>4, <3>5, SessionStep
      DEF Expire, TypeInv, TypeOK, FiniteLogs
  <2>7. CASE Reload(s)
    <3> DEFINE row1 == [session[s] EXCEPT !.pc = "checking"]
               row2 == [row1 EXCEPT !.view = request[r]]
    <3>1. row1 \in Busy /\ row1.call = session[s].call
      BY <2>2 DEF Busy
    <3>2. row2 \in Busy /\ row2.call = row1.call
      <4> HIDE DEF row1
      <4> QED  BY <2>3, <3>1 DEF Busy
    <3>3. session' = [session EXCEPT ![s] = row2]
      BY <2>7 DEF Reload, TypeInv, TypeOK, r
    <3> HIDE DEF row2
    <3> QED
      BY <2>1, <2>7, <3>1, <3>2, <3>3, SessionStep
      DEF Reload, TypeInv, TypeOK, FiniteLogs, Created
  <2>8. CASE InsertDecision(s)
    <3>1. Cardinality(Approvals(r)) \in Nat
      BY <2>2, FS_Subset, FS_CardinalityType DEF Approvals, TypeInv, FiniteLogs
    <3> DEFINE own == IF session[s].call.verdict = "approved" THEN 1 ELSE 0
               tally == Cardinality(Approvals(r)) + own
               row1 == [session[s] EXCEPT !.pc = "committing"]
               row2 == [row1 EXCEPT !.tally = tally]
    <3>2. row1 \in Busy /\ row1.call = session[s].call
      BY <2>2 DEF Busy
    <3>3. row2 \in Busy /\ row2.call = row1.call
      <4>1. tally \in Nat
        BY <3>1
      <4> HIDE DEF row1, tally
      <4> QED  BY <3>2, <4>1 DEF Busy
    <3>4. session' = [session EXCEPT ![s] = row2]
      BY <2>8 DEF InsertDecision, TypeInv, TypeOK, r
    <3>5. UNCHANGED <<request, decisions, executor>>
      BY <2>8 DEF InsertDecision
    <3> HIDE DEF row1, row2
    <3> QED
      BY <2>1, <3>2, <3>3, <3>4, <3>5, SessionStep
      DEF TypeInv, TypeOK, FiniteLogs, Created
  <2>9. CASE CommitDecision(s)
    <3>1. NewStatus(s) \in Statuses
      BY DEF NewStatus, Statuses
    <3>2. /\ request' \in [Requests -> Row \cup {NoRow}]
          /\ \A q \in Requests : Created(q) => Created(q)'
      <4>1. CASE UNCHANGED request
        BY <4>1 DEF TypeInv, TypeOK, Created
      <4>2. CASE request' = [request EXCEPT ![r].status = NewStatus(s),
                                            ![r].version = @ + 1]
        <5> DEFINE row == [request[r] EXCEPT !.status = NewStatus(s),
                                             !.version = @ + 1]
        <5>1. row \in Row
          BY <2>3, <3>1, Stamped
        <5>2. request' = [request EXCEPT ![r] = row]
          BY <4>2 DEF TypeInv, TypeOK
        <5> HIDE DEF row
        <5> QED
          BY <2>2, <5>1, <5>2, NoRowOK DEF TypeInv, TypeOK, Created
      <4> QED
        BY <2>9, <4>1, <4>2 DEF CommitDecision, r
    <3>3. IsFiniteSet(decisions[r]) /\ Cardinality(decisions[r]) \in Nat
      BY <2>2, FS_CardinalityType DEF TypeInv, FiniteLogs
    <3>4. NewDecision(s) \in Decision
      BY <2>2, <2>9, <3>3, CallFields
      DEF NewDecision, Decision, CommitDecision, r, call
    <3>5. decisions' = [decisions EXCEPT ![r] = @ \cup {NewDecision(s)}]
      BY <2>9 DEF CommitDecision, r
    <3>6. decisions' \in [Requests -> SUBSET Decision] /\ FiniteLogs'
      BY <2>2, <3>3, <3>4, <3>5, FS_AddElement DEF TypeInv, TypeOK, FiniteLogs
    <3> QED
      BY <2>1, <2>9, <3>2, <3>6, SessionStep
      DEF CommitDecision, Finish, TypeInv, TypeOK
  <2>10. CASE CommitConsume(s)
    <3> DEFINE row == [request[r] EXCEPT !.status = "executed",
                                         !.version = @ + 1]
    <3>1. row \in Row
      BY <2>3, Stamped DEF Statuses
    <3>2. request' = [request EXCEPT ![r] = row]
      BY <2>10 DEF CommitConsume, TypeInv, TypeOK, r
    <3>3. executor' \in [Requests -> Users \cup {NoUser}]
      BY <2>2, <2>10, CallFields DEF CommitConsume, TypeInv, TypeOK, r, call
    <3>4. /\ request' \in [Requests -> Row \cup {NoRow}]
          /\ \A q \in Requests : Created(q) => Created(q)'
      <4> HIDE DEF row
      <4> QED
        BY <2>2, <3>1, <3>2, NoRowOK DEF TypeInv, TypeOK, Created
    <3>5. UNCHANGED decisions /\ Finish(s)
      BY <2>10 DEF CommitConsume
    <3> QED
      BY <2>1, <3>3, <3>4, <3>5, SessionStep
      DEF Finish, TypeInv, TypeOK, FiniteLogs
  <2>11. CASE Refuse(s) \/ Crash(s)
    BY <2>4, <2>11 DEF Refuse, Crash
  <2> QED
    BY <1>4, <2>5, <2>6, <2>7, <2>8, <2>9, <2>10, <2>11 DEF Step
<1>5. CASE UNCHANGED vars
  BY <1>5 DEF vars, TypeOK, FiniteLogs, SessionsOnRows, Created
<1> QED
  BY <1>1, <1>2, <1>3, <1>4, <1>5 DEF Next

(* The state stays well typed: every row a handler writes is a row, every  *)
(* count a number, whatever the sessions interleave.                       *)
THEOREM TypeCorrect == Spec => []TypeOK
<1>1. Spec => []TypeInv
  BY TypeInit, TypeNext, PTL DEF Spec
<1> QED
  BY <1>1, PTL DEF TypeInv
------------------------------------------------------------------------------
(* Safety.  The inductive invariant adds to the types that snapshots are   *)
(* current, what a session past its checks knows of the request it loaded, *)
(* and RejectionIsFinal itself.                                            *)

ChecksRemembered ==
    \A s \in Sessions : session[s] # Idle =>
        /\ session[s].pc = "inserting" => session[s].call.op = "decide"
        /\ session[s].call.op = "decide"
             /\ session[s].pc \in {"inserting", "committing"} =>
                Open(session[s].view)
        /\ session[s].call.op = "consume" /\ session[s].pc = "committing" =>
                session[s].view.status = "approved"

IInv == TypeInv /\ SnapshotsAreCurrent /\ ChecksRemembered /\ RejectionIsFinal

LEMMA StampedFields ==
    ASSUME NEW row \in Row, NEW st \in Statuses
    PROVE  LET new == [row EXCEPT !.status = st, !.version = @ + 1] IN
           new.status = st /\ new.version = row.version + 1
BY DEF Row

LEMMA LapsedFields ==
    ASSUME NEW row \in Row
    PROVE  /\ Lapsed(row).status \in {"escalated", "expired"}
           /\ Lapsed(row).version = row.version + 1
BY DEF Row, Lapsed, Escalated, Expired

(* The four ways a session's step can touch the tables.                    *)
LEMMA RowEffect ==
    ASSUME TypeInv, NEW s \in Sessions, Step(s) \/ Crash(s)
    PROVE  LET r == session[s].call.req IN
           \/ UNCHANGED <<request, decisions>>
           \/ CommitDecision(s) /\ NewStatus(s) = session[s].view.status
                                /\ UNCHANGED request
           \/ \E new \in Row :
                 /\ Fresh(s)
                 /\ request' = [request EXCEPT ![r] = new]
                 /\ new.version = request[r].version + 1
                 /\ \/ /\ Open(session[s].view)
                       /\ new.status \in {"escalated", "expired"}
                       /\ UNCHANGED decisions
                    \/ CommitDecision(s) /\ new.status = NewStatus(s)
                    \/ /\ CommitConsume(s)
                       /\ new.status = "executed"
                       /\ UNCHANGED decisions
<1> DEFINE r == session[s].call.req  view == session[s].view
<1>1. CASE NotOverdue(s) \/ Reload(s) \/ CheckDecide(s) \/ InsertDecision(s)
             \/ CheckConsume(s) \/ Refuse(s) \/ Crash(s)
  BY <1>1 DEF NotOverdue, Reload, CheckDecide, InsertDecision, CheckConsume,
     Refuse, Crash
<1>2. ASSUME Expire(s) \/ CommitDecision(s) \/ CommitConsume(s)
      PROVE  r \in Requests /\ view \in Row /\ request[r] \in Row
  <2>1. session[s] # Idle
    BY <1>2, PcBusy DEF Expire, CommitDecision, CommitConsume
  <2> QED
    BY <2>1, BusyFields, CallFields DEF TypeInv, SessionsOnRows, Created, TypeOK
<1>3. CASE Expire(s)
  <2>1. r \in Requests /\ view \in Row /\ request[r] \in Row
    BY <1>2, <1>3
  <2>2. Lapsed(view) \in Row
    BY <2>1, RowUpdates
  <2>3. Fresh(s) /\ Open(view) /\ UNCHANGED decisions
           /\ request' = [request EXCEPT ![r] = Lapsed(view)]
    BY <1>3 DEF Expire, Overdue
  <2>4. Lapsed(view).version = request[r].version + 1
           /\ Lapsed(view).status \in {"escalated", "expired"}
    BY <2>1, <2>3, LapsedFields DEF Fresh
  <2> QED
    BY <2>2, <2>3, <2>4
<1>4. CASE CommitDecision(s) /\ NewStatus(s) # view.status
  <2> DEFINE new == [request[r] EXCEPT !.status = NewStatus(s),
                                       !.version = @ + 1]
  <2>1. r \in Requests /\ view \in Row /\ request[r] \in Row
    BY <1>2, <1>4
  <2>2. NewStatus(s) \in Statuses
    BY DEF NewStatus, Statuses
  <2>3. new \in Row /\ new.version = request[r].version + 1
           /\ new.status = NewStatus(s)
    BY <2>1, <2>2, Stamped, StampedFields
  <2>4. Fresh(s) /\ request' = [request EXCEPT ![r].status = NewStatus(s),
                                              ![r].version = @ + 1]
    BY <1>4 DEF CommitDecision
  <2>5. request' = [request EXCEPT ![r] = new]
    BY <2>1, <2>4 DEF TypeInv, TypeOK
  <2> HIDE DEF new
  <2> QED
    BY <1>4, <2>3, <2>4, <2>5
<1>5. CASE CommitConsume(s)
  <2> DEFINE new == [request[r] EXCEPT !.status = "executed",
                                       !.version = @ + 1]
  <2>1. r \in Requests /\ view \in Row /\ request[r] \in Row
    BY <1>2, <1>5
  <2>2. new \in Row /\ new.version = request[r].version + 1
           /\ new.status = "executed"
    BY <2>1, Stamped, StampedFields DEF Statuses
  <2>3. Fresh(s) /\ UNCHANGED decisions
           /\ request' = [request EXCEPT ![r].status = "executed",
                                         ![r].version = @ + 1]
    BY <1>5 DEF CommitConsume
  <2>4. request' = [request EXCEPT ![r] = new]
    BY <2>1, <2>3 DEF TypeInv, TypeOK
  <2> HIDE DEF new
  <2> QED
    BY <1>5, <2>2, <2>3, <2>4
<1>6. CASE CommitDecision(s) /\ NewStatus(s) = view.status
  BY <1>6 DEF CommitDecision
<1> QED
  BY <1>1, <1>3, <1>4, <1>5, <1>6 DEF Step

(* What a session's step does to the session itself.                       *)
LEMMA SessionEffect ==
    ASSUME TypeInv, NEW s \in Sessions, Step(s) \/ Crash(s)
    PROVE  LET old == session[s]  new == session'[s] IN
           /\ \A t \in Sessions \ {s} : session'[t] = session[t]
           /\ old # Idle
           /\ new # Idle =>
                /\ new.call = old.call
                /\ \/ /\ new.view = old.view
                      /\ \/ new.pc = "checking" /\ UNCHANGED request
                         \/ new.pc = "reload" /\ Expire(s)
                         \/ /\ new.pc = "inserting" /\ UNCHANGED request
                            /\ CheckDecide(s)
                         \/ /\ new.pc = "committing" /\ UNCHANGED request
                            /\ InsertDecision(s) \/ CheckConsume(s)
                   \/ /\ new.view = request[old.call.req]
                      /\ new.pc = "checking" /\ UNCHANGED request
<1>1. session[s] # Idle
  BY PcBusy DEF Step, Crash, NotOverdue, Expire, Reload, CheckDecide,
     InsertDecision, CommitDecision, CheckConsume, CommitConsume, Refuse
<1>2. session[s] \in Busy
  BY <1>1, BusyFields DEF TypeInv
<1>3. CASE Finish(s)
  BY <1>1, <1>3 DEF Finish, TypeInv, TypeOK
<1>4. CASE Expire(s)
  BY <1>1, <1>2, <1>4 DEF Expire, Finish, TypeInv, TypeOK, Busy
<1>5. CASE Reload(s)
  BY <1>1, <1>2, <1>5 DEF Reload, TypeInv, TypeOK, Busy
<1>6. CASE InsertDecision(s)
  BY <1>1, <1>2, <1>6 DEF InsertDecision, TypeInv, TypeOK, Busy
<1>7. CASE NotOverdue(s) \/ CheckDecide(s) \/ CheckConsume(s)
  BY <1>1, <1>2, <1>3, <1>7
  DEF NotOverdue, CheckDecide, CheckConsume, TypeInv, TypeOK, Busy
<1> QED
  BY <1>3, <1>4, <1>5, <1>6, <1>7
  DEF Step, Crash, CommitDecision, CommitConsume, Refuse

LEMMA IInvInit == Init => IInv
BY TypeInit DEF Init, IInv, SnapshotsAreCurrent, ChecksRemembered,
   RejectionIsFinal, Created

(* The steps of nobody's session: a request is created, its deadline       *)
(* passes, a session loads it.                                             *)
LEMMA OpeningSteps ==
    ASSUME IInv, TypeInv',
           \/ \E r \in Requests, u \in Askers, tgt \in Targets, p \in Policies :
                 Create(r, u, tgt, p)
           \/ \E r \in Requests : DeadlinePasses(r)
           \/ \E s \in Sessions, c \in Call : Load(s, c)
    PROVE  IInv'
<1> USE DEF IInv
<1>1. ASSUME NEW r \in Requests, NEW u \in Askers, NEW tgt \in Targets,
             NEW p \in Policies, Create(r, u, tgt, p)
      PROVE  IInv'
  <2>1. \A s \in Sessions : session[s] # Idle =>
            session[s].call.req # r /\ session[s].call.req \in Requests
    BY <1>1, BusyFields, CallFields DEF Create, TypeInv, SessionsOnRows
  <2>2. \A q \in Requests \ {r} : request'[q] = request[q]
    BY <1>1 DEF Create, TypeInv, TypeOK
  <2>3. request'[r].status = "pending"
    BY <1>1 DEF Create, TypeInv, TypeOK
  <2>4. UNCHANGED <<decisions, session>> /\ ~Created(r)
    BY <1>1 DEF Create
  <2>5. SnapshotsAreCurrent' /\ ChecksRemembered'
    BY <2>1, <2>2, <2>4
    DEF SnapshotsAreCurrent, ChecksRemembered, SameButDeadline, Open
  <2>6. RejectionIsFinal'
    BY <2>2, <2>3, <2>4 DEF RejectionIsFinal, Created
  <2> QED
    BY <2>5, <2>6
<1>2. ASSUME NEW r \in Requests, DeadlinePasses(r) PROVE IInv'
  <2>1. request[r] \in Row
    BY <1>2 DEF DeadlinePasses, Created, TypeInv, TypeOK
  <2>2. \A q \in Requests \ {r} : request'[q] = request[q]
    BY <1>2 DEF DeadlinePasses, TypeInv, TypeOK
  <2>3. SameButDeadline(request'[r], request[r])
           /\ request'[r].version = request[r].version
    BY <1>2, <2>1 DEF DeadlinePasses, TypeInv, TypeOK, Row, SameButDeadline
  <2>4. UNCHANGED <<decisions, session>> /\ Created(r) /\ Created(r)'
    BY <1>2, <2>1, NoRowOK, OneColumn
    DEF DeadlinePasses, TypeInv, TypeOK, Created, Deadlines
  <2>5. \A s \in Sessions : session[s] # Idle => session[s].call.req \in Requests
    BY BusyFields, CallFields DEF TypeInv
  <2>6. SnapshotsAreCurrent'
    BY <2>2, <2>3, <2>4, <2>5 DEF SnapshotsAreCurrent, SameButDeadline
  <2>7. ChecksRemembered'
    BY <2>4 DEF ChecksRemembered, Open
  <2>8. RejectionIsFinal'
    BY <2>2, <2>3, <2>4 DEF RejectionIsFinal, Created, SameButDeadline
  <2> QED
    BY <2>6, <2>7, <2>8
<1>3. ASSUME NEW s \in Sessions, NEW c \in Call, Load(s, c) PROVE IInv'
  <2>1. /\ session'[s].view = request[c.req]
        /\ session'[s].call = c
        /\ session'[s].pc = "loaded"
        /\ \A t \in Sessions \ {s} : session'[t] = session[t]
        /\ UNCHANGED <<request, decisions>>
    BY <1>3 DEF Load, TypeInv, TypeOK
  <2>2. request[c.req] \in Row
    BY <1>3, CallFields DEF Load, Created, TypeInv, TypeOK
  <2>3. request[c.req].version <= request[c.req].version
    BY <2>2 DEF Row
  <2>4. SnapshotsAreCurrent'
    BY <2>1, <2>3 DEF SnapshotsAreCurrent, SameButDeadline
  <2>5. ChecksRemembered'
    BY <2>1 DEF ChecksRemembered
  <2> QED
    BY <2>1, <2>4, <2>5 DEF RejectionIsFinal, Created
<1> QED
  BY <1>1, <1>2, <1>3

LEMMA FreshMeansCurrent ==
    ASSUME IInv, NEW s \in Sessions, session[s] # Idle, Fresh(s)
    PROVE  request[session[s].call.req].status = session[s].view.status
BY DEF IInv, SnapshotsAreCurrent, SameButDeadline, Fresh

LEMMA RejectionStep ==
    ASSUME IInv, NEW s \in Sessions, Step(s) \/ Crash(s)
    PROVE  RejectionIsFinal'
<1> DEFINE r == session[s].call.req
           Rejected(q) == \E d \in decisions[q] : d.verdict = "rejected"
<1>1. session[s] # Idle /\ r \in Requests /\ request[r] \in Row /\ Created(r)
  BY SessionEffect, BusyFields, CallFields
  DEF IInv, TypeInv, SessionsOnRows, Created, TypeOK
<1>2. CASE CommitDecision(s)
  <2>1. Open(session[s].view) /\ session[s].call \in Call
           /\ session[s].call.op = "decide"
    BY <1>1, <1>2, BusyFields DEF CommitDecision, IInv, TypeInv, ChecksRemembered
  <2>2. decisions' = [decisions EXCEPT ![r] = @ \cup {NewDecision(s)}]
    BY <1>2 DEF CommitDecision
  <2>3. NewDecision(s).verdict = "rejected" <=> NewStatus(s) = "rejected"
    BY DEF NewDecision, NewStatus
  <2>4. \A q \in Requests \ {r} : request'[q] = request[q]
    BY <1>2, <1>1 DEF CommitDecision, IInv, TypeInv, TypeOK
  <2>5. \A q \in Requests \ {r} : decisions'[q] = decisions[q]
    BY <2>2 DEF IInv, TypeInv, TypeOK
  <2>6. decisions'[r] = decisions[r] \cup {NewDecision(s)}
    BY <1>1, <2>2 DEF IInv, TypeInv, TypeOK
  <2>7. CASE NewStatus(s) = session[s].view.status /\ UNCHANGED request
    <3>1. NewStatus(s) # "rejected"
      BY <2>1, <2>7 DEF Open
    <3> QED
      BY <2>3, <2>5, <2>6, <2>7, <3>1 DEF RejectionIsFinal, IInv, Created
  <2>8. CASE Fresh(s) /\ request' = [request EXCEPT ![r].status = NewStatus(s),
                                                    ![r].version = @ + 1]
    <3>1. request[r].status # "rejected"
      BY <1>1, <2>1, <2>8, FreshMeansCurrent DEF Open
    <3>2. ~Rejected(r)
      BY <1>1, <3>1 DEF IInv, RejectionIsFinal
    <3> DEFINE new == [request[r] EXCEPT !.status = NewStatus(s),
                                         !.version = @ + 1]
    <3>3. request'[r] = new
      BY <1>1, <2>8 DEF IInv, TypeInv, TypeOK
    <3>4. NewStatus(s) \in Statuses
      BY DEF NewStatus, Statuses
    <3>5. new \in Row /\ new.status = NewStatus(s)
      BY <1>1, <3>4, Stamped, StampedFields
    <3> HIDE DEF new
    <3>6. \A q \in Requests \ {r} : Created(q) <=> Created(q)'
      BY <2>4 DEF Created
    <3>7. \A q \in Requests \ {r} :
            (\E d \in decisions'[q] : d.verdict = "rejected")
                <=> Created(q)' /\ request'[q].status = "rejected"
      BY <2>4, <2>5, <3>6 DEF RejectionIsFinal, IInv
    <3>8. (\E d \in decisions'[r] : d.verdict = "rejected")
                <=> request'[r] # NoRow /\ request'[r].status = "rejected"
      BY <2>3, <2>6, <3>2, <3>3, <3>5, NoRowOK
    <3> QED
      BY <3>7, <3>8 DEF RejectionIsFinal, Created
  <2> QED
    BY <1>2, <2>7, <2>8 DEF CommitDecision
<1>3. CASE ~CommitDecision(s) /\ ~UNCHANGED <<request, decisions>>
  <2>1. PICK new \in Row :
          /\ request' = [request EXCEPT ![r] = new]
          /\ Fresh(s)
          /\ UNCHANGED decisions
          /\ new.status # "rejected"
          /\ \/ Open(session[s].view)
             \/ CommitConsume(s)
    BY <1>3, RowEffect DEF IInv
  <2>2. CommitConsume(s) => session[s].view.status = "approved"
    BY <1>1 DEF CommitConsume, IInv, ChecksRemembered
  <2>3. request[r].status # "rejected"
    BY <1>1, <2>1, <2>2, FreshMeansCurrent DEF Open
  <2>4. request'[r] = new /\ \A q \in Requests \ {r} : request'[q] = request[q]
    BY <1>1, <2>1 DEF IInv, TypeInv, TypeOK
  <2> QED
    BY <1>1, <2>1, <2>3, <2>4, NoRowOK DEF RejectionIsFinal, IInv, Created
<1>4. CASE UNCHANGED <<request, decisions>>
  BY <1>4 DEF RejectionIsFinal, IInv, Created
<1> QED
  BY <1>2, <1>3, <1>4

LEMMA SnapshotStep ==
    ASSUME IInv, TypeInv', NEW s \in Sessions, Step(s) \/ Crash(s)
    PROVE  SnapshotsAreCurrent' /\ ChecksRemembered'
<1> DEFINE r == session[s].call.req
<1>1. session[s] # Idle /\ r \in Requests /\ request[r] \in Row
         /\ session[s].view \in Row
  BY SessionEffect, BusyFields, CallFields
  DEF IInv, TypeInv, SessionsOnRows, Created, TypeOK
<1>2. UNCHANGED request
        \/ \E new \in Row : request' = [request EXCEPT ![r] = new]
                             /\ new.version = request[r].version + 1
  BY RowEffect DEF IInv
<1>3. ASSUME NEW t \in Sessions, session[t] # Idle
      PROVE  LET q == session[t].call.req IN
             /\ session[t].view.version <= request'[q].version
             /\ session[t].view.version = request'[q].version =>
                   SameButDeadline(request'[q], session[t].view)
  <2> DEFINE q == session[t].call.req
  <2>1. q \in Requests /\ request[q] \in Row /\ session[t].view \in Row
    BY <1>3, BusyFields, CallFields
    DEF IInv, TypeInv, SessionsOnRows, Created, TypeOK
  <2>2. /\ session[t].view.version <= request[q].version
        /\ session[t].view.version = request[q].version =>
              SameButDeadline(request[q], session[t].view)
    BY <1>3 DEF IInv, SnapshotsAreCurrent
  <2>3. CASE request'[q] = request[q]
    BY <2>2, <2>3
  <2>4. CASE q = r /\ ~UNCHANGED request
    <3>1. PICK new \in Row : request' = [request EXCEPT ![r] = new]
                             /\ new.version = request[r].version + 1
      BY <1>2, <2>4
    <3>2. request'[q] = new
      BY <2>1, <2>4, <3>1 DEF IInv, TypeInv, TypeOK
    <3>3. session[t].view.version < request'[q].version
      BY <2>1, <2>2, <2>4, <3>1, <3>2 DEF Row
    <3>4. session[t].view.version \in Nat /\ request'[q].version \in Nat
      BY <2>1, <3>2 DEF Row
    <3> QED
      BY <3>3, <3>4
  <2>5. q = r \/ request'[q] = request[q]
    BY <1>2, <2>1 DEF IInv, TypeInv, TypeOK
  <2> QED
    BY <2>3, <2>4, <2>5
<1>4. SnapshotsAreCurrent'
  <2> SUFFICES ASSUME NEW t \in Sessions, session'[t] # Idle
               PROVE  LET row == request'[session'[t].call.req]
                          view == session'[t].view IN
                      /\ view.version <= row.version
                      /\ view.version = row.version =>
                            SameButDeadline(row, view)
    BY DEF SnapshotsAreCurrent
  <2>1. CASE t # s
    BY <1>3, <2>1, SessionEffect DEF IInv
  <2>2. CASE t = s /\ session'[s].view = session[s].view
    BY <1>1, <1>3, <2>2, SessionEffect DEF IInv
  <2>3. CASE t = s /\ session'[s].view = request[r] /\ UNCHANGED request
    <3>1. session'[s].call = session[s].call
      BY <2>3, SessionEffect DEF IInv
    <3>2. request[r].version <= request[r].version
      BY <1>1 DEF Row
    <3> QED
      BY <2>3, <3>1, <3>2 DEF SameButDeadline
  <2> QED
    BY <2>1, <2>2, <2>3, SessionEffect DEF IInv
<1>5. ChecksRemembered'
  <2> SUFFICES ASSUME NEW t \in Sessions, session'[t] # Idle
               PROVE  /\ session'[t].pc = "inserting" =>
                              session'[t].call.op = "decide"
                      /\ session'[t].call.op = "decide"
                           /\ session'[t].pc \in {"inserting", "committing"} =>
                              Open(session'[t].view)
                      /\ session'[t].call.op = "consume"
                           /\ session'[t].pc = "committing" =>
                              session'[t].view.status = "approved"
    BY DEF ChecksRemembered
  <2>1. CASE t # s
    BY <2>1, SessionEffect DEF IInv, ChecksRemembered
  <2>2. CASE t = s /\ session'[s].pc \notin {"inserting", "committing"}
    BY <2>2
  <2>3. CASE t = s /\ session'[s].call = session[s].call
               /\ session'[s].view = session[s].view
    <3>1. CheckDecide(s) => Open(session[s].view)
                               /\ session[s].call.op = "decide"
      BY DEF CheckDecide, MayDecide
    <3>2. CheckConsume(s) => session[s].view.status = "approved"
                               /\ session[s].call.op = "consume"
      BY DEF CheckConsume, MayConsume
    <3>3. InsertDecision(s) => Open(session[s].view)
                               /\ session[s].call.op = "decide"
      BY <1>1 DEF InsertDecision, IInv, ChecksRemembered
    <3>4. /\ session'[s].pc = "inserting" => CheckDecide(s)
          /\ session'[s].pc = "committing" =>
                InsertDecision(s) \/ CheckConsume(s)
      BY <2>3, SessionEffect DEF IInv
    <3> QED
      BY <2>3, <3>1, <3>2, <3>3, <3>4
  <2> QED
    BY <2>1, <2>2, <2>3, SessionEffect DEF IInv
<1> QED
  BY <1>4, <1>5

LEMMA IInvNext == IInv /\ [Next]_vars => IInv'
<1> SUFFICES ASSUME IInv, [Next]_vars PROVE IInv'
  OBVIOUS
<1>1. TypeInv'
  BY TypeNext DEF IInv
<1>2. CASE UNCHANGED vars
  BY <1>1, <1>2 DEF vars, IInv, SnapshotsAreCurrent, ChecksRemembered,
     RejectionIsFinal, Created, Open
<1>3. CASE \E s \in Sessions : Step(s) \/ Crash(s)
  BY <1>1, <1>3, SnapshotStep, RejectionStep DEF IInv
<1> QED
  BY <1>1, <1>2, <1>3, OpeningSteps DEF Next

LEMMA Invariance == Spec => []IInv
BY IInvInit, IInvNext, PTL DEF Spec

(* An UPDATE whose version_id test passes overwrites nothing its session   *)
(* has not seen: true on both databases, with or without row locks.        *)
THEOREM VersionTestIsSound == Spec => []SnapshotsAreCurrent
BY Invariance, PTL DEF IInv

(* One rejection closes a request for good, and nothing else rejects it,   *)
(* on both databases and with any number of sessions.                      *)
THEOREM RejectionDecides == Spec => []RejectionIsFinal
BY Invariance, PTL DEF IInv

(* A closed request never changes status, and an approved one can only be  *)
(* executed.                                                               *)
StaysClosed ==
    \A r \in Requests : Created(r) =>
        /\ request[r].status \in {"rejected", "expired", "executed"} =>
              request'[r].status = request[r].status
        /\ request[r].status = "approved" =>
              request'[r].status \in {"approved", "executed"}

LEMMA StaysClosedStep == IInv /\ [Next]_vars => StaysClosed
<1> SUFFICES ASSUME IInv, [Next]_vars, NEW q \in Requests, Created(q)
             PROVE  /\ request[q].status \in {"rejected", "expired", "executed"} =>
                          request'[q].status = request[q].status
                    /\ request[q].status = "approved" =>
                          request'[q].status \in {"approved", "executed"}
  BY DEF StaysClosed
<1>1. ASSUME NEW r \in Requests, NEW u \in Askers, NEW tgt \in Targets,
             NEW p \in Policies, Create(r, u, tgt, p)
      PROVE  request'[q] = request[q]
  BY <1>1 DEF Create, Created, IInv, TypeInv, TypeOK
<1>2. ASSUME NEW r \in Requests, DeadlinePasses(r)
      PROVE  request'[q].status = request[q].status
  BY <1>2 DEF DeadlinePasses, Created, IInv, TypeInv, TypeOK, Row
<1>3. ASSUME NEW s \in Sessions, Step(s) \/ Crash(s), request' # request
      PROVE  \/ request'[q] = request[q]
             \/ Open(request[q])
             \/ request[q].status = "approved" /\ request'[q].status = "executed"
  <2> DEFINE r == session[s].call.req
  <2>1. session[s] # Idle /\ r \in Requests
    BY <1>3, SessionEffect, BusyFields, CallFields DEF IInv, TypeInv
  <2>2. PICK new \in Row :
          /\ Fresh(s)
          /\ request' = [request EXCEPT ![r] = new]
          /\ \/ Open(session[s].view)
             \/ CommitDecision(s)
             \/ CommitConsume(s) /\ new.status = "executed"
    BY <1>3, RowEffect DEF IInv
  <2>3. /\ CommitDecision(s) => Open(session[s].view)
        /\ CommitConsume(s) => session[s].view.status = "approved"
    BY <2>1 DEF CommitDecision, CommitConsume, IInv, ChecksRemembered
  <2>4. request[r].status = session[s].view.status
    BY <2>1, <2>2, FreshMeansCurrent
  <2> QED
    BY <2>1, <2>2, <2>3, <2>4 DEF Open, IInv, TypeInv, TypeOK
<1> QED
  BY <1>1, <1>2, <1>3 DEF Next, Load, vars, Open

THEOREM NeverReopened == Spec => ClosedStaysClosed
<1>1. IInv /\ [Next]_vars => [StaysClosed]_vars
  BY StaysClosedStep
<1>2. Spec => [][StaysClosed]_vars
  BY <1>1, Invariance, PTL DEF Spec
<1> QED
  BY <1>2 DEF ClosedStaysClosed, StaysClosed
==============================================================================
