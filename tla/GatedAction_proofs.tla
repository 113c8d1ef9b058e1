------------------------- MODULE GatedAction_proofs -------------------------
(***************************************************************************)
(* Theorems about GatedAction for every set of requests, users, targets,   *)
(* policies and sessions: what an executed request stands for.             *)
(***************************************************************************)
EXTENDS GatedAction, GrantApproval_proofs

(* A session's claim on a committed action: it owes the consumption of a   *)
(* request for it, or is about to make it.                                 *)
Claims(state, waiting, t) ==
    \/ waiting # NoCall /\ waiting.target = t
    \/ state # Idle /\ state.call.op = "consume" /\ state.call.target = t

ClaimsOn(t) == {s \in Sessions : Claims(session[s], owed[s], t)}

ExecutedFor(t) ==
    {r \in Requests : /\ Created(r)
                      /\ request[r].target = t
                      /\ request[r].status = "executed"}

GTypeOK ==
    /\ effect \in [Targets -> Nat]
    /\ owed \in [Sessions -> Consumption \cup {NoCall}]

(* Whoever owes a consumption does nothing else before it.                 *)
OwersAreIdle == \A s \in Sessions : owed[s] # NoCall => session[s] = Idle

(* Whoever is about to execute a request has found it to be for the target *)
(* that he acted on.                                                       *)
TargetsAreChecked ==
    \A s \in Sessions :
        session[s] # Idle /\ session[s].pc = "committing"
          /\ session[s].call.op = "consume" =>
            session[s].view.target = session[s].call.target

(* Executed requests and claims together are covered by committed actions. *)
CoveredAt(t) ==
    /\ IsFiniteSet(ExecutedFor(t)) /\ IsFiniteSet(ClaimsOn(t))
    /\ Cardinality(ExecutedFor(t)) + Cardinality(ClaimsOn(t)) <= effect[t]

GInv ==
    /\ GTypeOK
    /\ OwersAreIdle
    /\ TargetsAreChecked
    /\ \A t \in Targets : CoveredAt(t)
-----------------------------------------------------------------------------
(* Counting.                                                               *)

LEMMA Fewer ==
    ASSUME NEW E, IsFiniteSet(E), NEW F, F \subseteq E
    PROVE  /\ IsFiniteSet(F) /\ Cardinality(F) \in Nat /\ Cardinality(E) \in Nat
           /\ Cardinality(F) <= Cardinality(E)
BY FS_Subset, FS_CardinalityType

LEMMA OneMoreAtMost ==
    ASSUME NEW E, IsFiniteSet(E), NEW e, NEW F, F \subseteq E \cup {e}
    PROVE  /\ IsFiniteSet(F) /\ Cardinality(F) \in Nat /\ Cardinality(E) \in Nat
           /\ Cardinality(F) <= Cardinality(E) + 1
<1>1. /\ IsFiniteSet(E \cup {e}) /\ Cardinality(E) \in Nat
      /\ Cardinality(E \cup {e}) <= Cardinality(E) + 1
      /\ Cardinality(E \cup {e}) \in Nat
  <2>1. CASE e \in E
    <3>1. E \cup {e} = E
      BY <2>1
    <3>2. Cardinality(E) \in Nat
      BY FS_CardinalityType
    <3>3. Cardinality(E) <= Cardinality(E) + 1
      BY <3>2
    <3> QED
      BY <3>1, <3>2, <3>3
  <2>2. CASE e \notin E
    <3>1. Cardinality(E) \in Nat
      BY FS_CardinalityType
    <3>2. IsFiniteSet(E \cup {e}) /\ Cardinality(E \cup {e}) = Cardinality(E) + 1
      BY <2>2, FS_AddElement
    <3> QED
      BY <3>1, <3>2
  <2> QED
    BY <2>1, <2>2
<1>2. /\ IsFiniteSet(F) /\ Cardinality(F) \in Nat
      /\ Cardinality(F) <= Cardinality(E \cup {e})
  BY <1>1, Fewer
<1> QED
  BY <1>1, <1>2

LEMMA OneFewer ==
    ASSUME NEW E, IsFiniteSet(E), NEW e \in E, NEW F, F \subseteq E \ {e}
    PROVE  /\ IsFiniteSet(F) /\ Cardinality(F) \in Nat /\ Cardinality(E) \in Nat
           /\ Cardinality(F) + 1 <= Cardinality(E)
<1>1. /\ IsFiniteSet(E \ {e}) /\ Cardinality(E \ {e}) = Cardinality(E) - 1
  BY FS_RemoveElement
<1>2. IsFiniteSet(F) /\ Cardinality(F) \in Nat /\ Cardinality(F) <= Cardinality(E \ {e})
  BY <1>1, Fewer
<1> QED
  BY <1>1, <1>2, FS_CardinalityType

(* The three ways in which the cover is kept: nothing is added; an action  *)
(* brings its claim; a claim becomes an executed request.                  *)
LEMMA CoverKept ==
    ASSUME NEW t \in Targets, GTypeOK, GTypeOK', CoveredAt(t),
           effect'[t] = effect[t],
           ExecutedFor(t)' \subseteq ExecutedFor(t), ClaimsOn(t)' \subseteq ClaimsOn(t)
    PROVE  CoveredAt(t)'
<1>1. effect[t] \in Nat
  BY DEF GTypeOK
<1>2. /\ IsFiniteSet(ExecutedFor(t)') /\ Cardinality(ExecutedFor(t)') \in Nat
      /\ Cardinality(ExecutedFor(t)) \in Nat
      /\ Cardinality(ExecutedFor(t)') <= Cardinality(ExecutedFor(t))
  BY Fewer DEF CoveredAt
<1>3. /\ IsFiniteSet(ClaimsOn(t)') /\ Cardinality(ClaimsOn(t)') \in Nat
      /\ Cardinality(ClaimsOn(t)) \in Nat
      /\ Cardinality(ClaimsOn(t)') <= Cardinality(ClaimsOn(t))
  BY Fewer DEF CoveredAt
<1> QED
  BY <1>1, <1>2, <1>3 DEF CoveredAt

LEMMA CoverOfAction ==
    ASSUME NEW t \in Targets, GTypeOK, GTypeOK', CoveredAt(t), NEW s,
           effect'[t] = effect[t] + 1,
           ExecutedFor(t)' \subseteq ExecutedFor(t),
           ClaimsOn(t)' \subseteq ClaimsOn(t) \cup {s}
    PROVE  CoveredAt(t)'
<1>1. effect[t] \in Nat
  BY DEF GTypeOK
<1>2. /\ IsFiniteSet(ExecutedFor(t)') /\ Cardinality(ExecutedFor(t)') \in Nat
      /\ Cardinality(ExecutedFor(t)) \in Nat
      /\ Cardinality(ExecutedFor(t)') <= Cardinality(ExecutedFor(t))
  BY Fewer DEF CoveredAt
<1>3. /\ IsFiniteSet(ClaimsOn(t)') /\ Cardinality(ClaimsOn(t)') \in Nat
      /\ Cardinality(ClaimsOn(t)) \in Nat
      /\ Cardinality(ClaimsOn(t)') <= Cardinality(ClaimsOn(t)) + 1
  BY OneMoreAtMost DEF CoveredAt
<1> QED
  BY <1>1, <1>2, <1>3 DEF CoveredAt

LEMMA CoverOfExecution ==
    ASSUME NEW t \in Targets, GTypeOK, GTypeOK', CoveredAt(t), NEW r,
           NEW s \in ClaimsOn(t),
           effect'[t] = effect[t],
           ExecutedFor(t)' \subseteq ExecutedFor(t) \cup {r},
           ClaimsOn(t)' \subseteq ClaimsOn(t) \ {s}
    PROVE  CoveredAt(t)'
<1>1. effect[t] \in Nat
  BY DEF GTypeOK
<1>2. /\ IsFiniteSet(ExecutedFor(t)') /\ Cardinality(ExecutedFor(t)') \in Nat
      /\ Cardinality(ExecutedFor(t)) \in Nat
      /\ Cardinality(ExecutedFor(t)') <= Cardinality(ExecutedFor(t)) + 1
  BY OneMoreAtMost DEF CoveredAt
<1>3. /\ IsFiniteSet(ClaimsOn(t)') /\ Cardinality(ClaimsOn(t)') \in Nat
      /\ Cardinality(ClaimsOn(t)) \in Nat
      /\ Cardinality(ClaimsOn(t)') + 1 <= Cardinality(ClaimsOn(t))
  BY OneFewer DEF CoveredAt
<1> QED
  BY <1>1, <1>2, <1>3 DEF CoveredAt
-----------------------------------------------------------------------------
LEMMA GTypeInit == GInit => GTypeOK
BY DEF GInit, GTypeOK

LEMMA GTypeNext == GTypeOK /\ [GNext]_gvars => GTypeOK'
<1> SUFFICES ASSUME GTypeOK, [GNext]_gvars PROVE GTypeOK'
  OBVIOUS
<1> USE DEF GTypeOK
<1>1. ASSUME NEW s \in Sessions, NEW c \in Consumption, Act(s, c) PROVE GTypeOK'
  <2>1. c.target \in Targets
    BY CallFields DEF Consumption
  <2> QED
    BY <1>1, <2>1 DEF Act
<1>2. ASSUME NEW s \in Sessions, Consume(s) \/ NotFound(s) \/ GCrash(s) PROVE GTypeOK'
  BY <1>2 DEF Consume, NotFound, GCrash
<1>3. ASSUME UNCHANGED <<effect, owed>> PROVE GTypeOK'
  BY <1>3
<1>4. ASSUME NEW s \in Sessions, Other(s) PROVE GTypeOK'
  BY <1>3, <1>4 DEF Other
<1>5. CASE Environment
  BY <1>3, <1>5 DEF Environment
<1>6. CASE UNCHANGED gvars
  BY <1>3, <1>6 DEF gvars
<1> QED
  BY <1>1, <1>2, <1>3, <1>4, <1>5, <1>6 DEF GNext

(* Seen from the gate, a gated operation is a handler of the gate.         *)
LEMMA GatedIsGate == GTypeOK /\ [GNext]_gvars => [Next]_vars
<1> SUFFICES ASSUME GTypeOK, [GNext]_gvars PROVE [Next]_vars
  OBVIOUS
<1>1. ASSUME NEW s \in Sessions, Consume(s) PROVE Next
  <2>1. owed[s] \in Call /\ Load(s, owed[s])
    BY <1>1 DEF Consume, GTypeOK, Consumption
  <2> QED
    BY <2>1 DEF Next
<1>2. ASSUME NEW s \in Sessions, Other(s) PROVE Next
  BY <1>2 DEF Other, Next
<1>3. ASSUME NEW s \in Sessions, GCrash(s) PROVE [Next]_vars
  BY <1>3 DEF GCrash, Next, vars
<1>4. ASSUME NEW s \in Sessions, NEW c \in Consumption, Act(s, c) PROVE UNCHANGED vars
  BY <1>4 DEF Act
<1>5. ASSUME NEW s \in Sessions, NotFound(s) PROVE UNCHANGED vars
  BY <1>5 DEF NotFound
<1>6. ASSUME NEW s \in Sessions, Step(s) PROVE Next
  BY <1>6 DEF Next
<1>7. CASE Environment
  BY <1>7 DEF Environment, Next
<1>8. CASE UNCHANGED gvars
  BY <1>8 DEF gvars, vars
<1> QED
  BY <1>1, <1>2, <1>3, <1>4, <1>5, <1>6, <1>7, <1>8 DEF GNext

LEMMA GateInvariance == GSpec => [](GTypeOK /\ IInv)
<1>1. GInit => GTypeOK /\ IInv
  BY GTypeInit, IInvInit DEF GInit
<1>2. GTypeOK /\ IInv /\ [GNext]_gvars => (GTypeOK /\ IInv)'
  BY GTypeNext, GatedIsGate, IInvNext
<1> QED
  BY <1>1, <1>2, PTL DEF GSpec
-----------------------------------------------------------------------------
(* A step of a handler of the gate: what becomes executed, and for whom.   *)

RowStays(q) ==
    request'[q].target = request[q].target
      /\ (request'[q].status = "executed" => request[q].status = "executed")

LEMMA LapsedTarget ==
    ASSUME NEW row \in Row
    PROVE  Lapsed(row).target = row.target /\ Lapsed(row).status # "executed"
BY DEF Row, Lapsed, Escalated, Expired

LEMMA StampedTarget ==
    ASSUME NEW row \in Row, NEW st
    PROVE  /\ [row EXCEPT !.status = st, !.version = @ + 1].target = row.target
           /\ [row EXCEPT !.status = st, !.version = @ + 1].status = st
BY DEF Row

LEMMA ExpiryRow ==
    ASSUME IInv, NEW s \in Sessions, Expire(s), NEW q \in Requests, Created(q)
    PROVE  RowStays(q)
<1> DEFINE r == session[s].call.req  view == session[s].view
<1>1. session[s] # Idle
  BY PcBusy DEF Expire
<1>2. r \in Requests /\ view \in Row
  BY <1>1, BusyFields, CallFields DEF IInv, TypeInv
<1>3. view.target = request[r].target
  BY <1>1 DEF Expire, Fresh, IInv, SnapshotsAreCurrent, SameButDeadline
<1>4. request' = [request EXCEPT ![r] = Lapsed(view)]
  BY DEF Expire
<1>5. Lapsed(view).target = view.target /\ Lapsed(view).status # "executed"
  BY <1>2, LapsedTarget
<1> HIDE DEF r, view
<1>6. CASE q = r
  BY <1>2, <1>3, <1>4, <1>5, <1>6 DEF RowStays, IInv, TypeInv, TypeOK
<1>7. CASE q # r
  BY <1>4, <1>7 DEF RowStays, IInv, TypeInv, TypeOK
<1> QED
  BY <1>6, <1>7

LEMMA CommitRow ==
    ASSUME IInv, NEW s \in Sessions, CommitDecision(s) \/ CommitConsume(s),
           NEW q \in Requests, Created(q)
    PROVE  \/ RowStays(q)
           \/ /\ CommitConsume(s) /\ q = session[s].call.req
              /\ request'[q].target = request[q].target
<1> DEFINE r == session[s].call.req
<1>1. session[s] # Idle
  BY PcBusy DEF CommitDecision, CommitConsume
<1>2. r \in Requests /\ request[r] \in Row
  BY <1>1, BusyFields, CallFields DEF IInv, TypeInv, SessionsOnRows, Created, TypeOK
<1>3. CASE UNCHANGED request
  BY <1>3 DEF RowStays
<1>4. ASSUME NEW st, request' = [request EXCEPT ![r].status = st, ![r].version = @ + 1],
             st # "executed" \/ CommitConsume(s)
      PROVE  \/ RowStays(q)
             \/ CommitConsume(s) /\ q = r /\ request'[q].target = request[q].target
  <2> DEFINE new == [request[r] EXCEPT !.status = st, !.version = @ + 1]
  <2>1. request' = [request EXCEPT ![r] = new]
    BY <1>2, <1>4 DEF IInv, TypeInv, TypeOK
  <2>2. new.target = request[r].target /\ new.status = st
    BY <1>2, StampedTarget
  <2> HIDE DEF new, r
  <2>3. CASE q = r
    BY <1>2, <1>4, <2>1, <2>2, <2>3 DEF RowStays, IInv, TypeInv, TypeOK
  <2>4. CASE q # r
    BY <2>1, <2>4 DEF RowStays, IInv, TypeInv, TypeOK
  <2> QED
    BY <2>3, <2>4
<1>5. CASE CommitDecision(s)
  <2>1. NewStatus(s) # "executed"
    BY DEF NewStatus
  <2>2. \/ UNCHANGED request
        \/ request' = [request EXCEPT ![r].status = NewStatus(s), ![r].version = @ + 1]
    BY <1>5 DEF CommitDecision
  <2> QED
    BY <2>1, <2>2, <1>3, <1>4
<1>6. CASE CommitConsume(s)
  <2>1. request' = [request EXCEPT ![r].status = "executed", ![r].version = @ + 1]
    BY <1>6 DEF CommitConsume
  <2> QED
    BY <2>1, <1>4, <1>6
<1> QED
  BY <1>5, <1>6

LEMMA RowsOfStep ==
    ASSUME IInv, NEW s \in Sessions, Step(s) \/ Crash(s), NEW q \in Requests, Created(q)
    PROVE  \/ RowStays(q)
           \/ /\ CommitConsume(s) /\ q = session[s].call.req
              /\ request'[q].target = request[q].target
<1>1. CASE NotOverdue(s) \/ Reload(s) \/ CheckDecide(s) \/ InsertDecision(s)
             \/ CheckConsume(s) \/ Refuse(s) \/ Crash(s)
  BY <1>1 DEF NotOverdue, Reload, CheckDecide, InsertDecision, CheckConsume,
     Refuse, Crash, RowStays
<1> QED
  BY <1>1, ExpiryRow, CommitRow DEF Step

LEMMA NobodyUncreates ==
    ASSUME IInv, NEW s \in Sessions, Step(s) \/ Crash(s), NEW q \in Requests
    PROVE  Created(q)' <=> Created(q)
<1> DEFINE r == session[s].call.req
<1>1. session[s] # Idle /\ r \in Requests /\ request[r] # NoRow
  BY SessionEffect, BusyFields, CallFields DEF IInv, TypeInv, SessionsOnRows, Created
<1>2. ASSUME NEW new \in Row, request' = [request EXCEPT ![r] = new]
      PROVE  request'[q] # NoRow <=> request[q] # NoRow
  BY <1>1, <1>2, NoRowOK DEF IInv, TypeInv, TypeOK
<1>3. UNCHANGED request \/ \E new \in Row : request' = [request EXCEPT ![r] = new]
  BY RowEffect DEF IInv
<1> QED
  BY <1>2, <1>3 DEF Created

(* What a step of a handler does to the executed requests of a target.     *)
LEMMA ExecutedByStep ==
    ASSUME IInv, NEW s \in Sessions, Step(s) \/ Crash(s), NEW t \in Targets
    PROVE  \/ ExecutedFor(t)' \subseteq ExecutedFor(t)
           \/ /\ CommitConsume(s)
              /\ request[session[s].call.req].target = t
              /\ ExecutedFor(t)' \subseteq ExecutedFor(t) \cup {session[s].call.req}
<1> DEFINE r == session[s].call.req
<1>1. ASSUME NEW q \in ExecutedFor(t)'
      PROVE  \/ q \in ExecutedFor(t)
             \/ CommitConsume(s) /\ q = r /\ request[r].target = t
  <2>1. /\ q \in Requests /\ Created(q)' /\ request'[q].target = t
        /\ request'[q].status = "executed"
    BY <1>1 DEF ExecutedFor
  <2>2. Created(q)
    BY <2>1, NobodyUncreates
  <2>3. CASE RowStays(q)
    BY <2>1, <2>2, <2>3 DEF RowStays, ExecutedFor
  <2>4. CASE CommitConsume(s) /\ q = r /\ request'[q].target = request[q].target
    BY <2>1, <2>4
  <2> QED
    BY <2>1, <2>2, <2>3, <2>4, RowsOfStep
<1> QED
  BY <1>1

(* What it does to the claims: its own may end, nothing else changes.      *)
LEMMA ClaimsOfStep ==
    ASSUME IInv, GInv, NEW s \in Sessions, Step(s) \/ Crash(s),
           owed' = owed \/ owed' = [owed EXCEPT ![s] = NoCall], NEW t \in Targets
    PROVE  /\ ClaimsOn(t)' \subseteq ClaimsOn(t)
           /\ session'[s] = Idle => s \notin ClaimsOn(t)'
<1>1. /\ \A q \in Sessions \ {s} : session'[q] = session[q]
      /\ session[s] # Idle
      /\ session'[s] # Idle => session'[s].call = session[s].call
  BY SessionEffect DEF IInv
<1>2. owed[s] = NoCall
  BY <1>1 DEF GInv, OwersAreIdle
<1>3. /\ \A q \in Sessions \ {s} : owed'[q] = owed[q]
      /\ owed'[s] = NoCall
  BY <1>2 DEF GInv, GTypeOK
<1> QED
  BY <1>1, <1>3 DEF ClaimsOn, Claims

LEMMA StepCovered ==
    ASSUME IInv, GInv, GTypeOK', NEW s \in Sessions, Step(s) \/ Crash(s),
           owed' = owed \/ owed' = [owed EXCEPT ![s] = NoCall],
           UNCHANGED effect, NEW t \in Targets
    PROVE  CoveredAt(t)'
<1> DEFINE r == session[s].call.req
<1>1. CoveredAt(t) /\ GTypeOK /\ effect'[t] = effect[t]
  BY DEF GInv
<1>2. /\ ClaimsOn(t)' \subseteq ClaimsOn(t)
      /\ session'[s] = Idle => s \notin ClaimsOn(t)'
  BY ClaimsOfStep
<1>3. CASE ExecutedFor(t)' \subseteq ExecutedFor(t)
  BY <1>1, <1>2, <1>3, CoverKept
<1>4. CASE /\ CommitConsume(s) /\ request[r].target = t
           /\ ExecutedFor(t)' \subseteq ExecutedFor(t) \cup {r}
  <2>1. session[s] # Idle /\ session[s].pc = "committing" /\ session[s].call.op = "consume"
    BY <1>4, PcBusy DEF CommitConsume
  <2>2. session[s].view.target = session[s].call.target
    BY <2>1 DEF GInv, TargetsAreChecked
  <2>3. session[s].view.target = request[r].target
    BY <1>4, <2>1 DEF CommitConsume, Fresh, IInv, SnapshotsAreCurrent, SameButDeadline
  <2>4. s \in ClaimsOn(t)
    BY <1>4, <2>1, <2>2, <2>3 DEF ClaimsOn, Claims
  <2>5. session'[s] = Idle
    BY <1>4 DEF CommitConsume, Finish, IInv, TypeInv, TypeOK
  <2>6. ClaimsOn(t)' \subseteq ClaimsOn(t) \ {s}
    BY <1>2, <2>5
  <2> QED
    BY <1>1, <1>4, <2>4, <2>6, CoverOfExecution
<1> QED
  BY <1>3, <1>4, ExecutedByStep

LEMMA StepChecked ==
    ASSUME IInv, GInv, NEW s \in Sessions, Step(s) \/ Crash(s),
           owed' = owed \/ owed' = [owed EXCEPT ![s] = NoCall]
    PROVE  OwersAreIdle' /\ TargetsAreChecked'
<1>1. /\ \A q \in Sessions \ {s} : session'[q] = session[q]
      /\ session[s] # Idle
      /\ session'[s] # Idle => session'[s].call = session[s].call
  BY SessionEffect DEF IInv
<1>2. owed[s] = NoCall
  BY <1>1 DEF GInv, OwersAreIdle
<1>3. /\ \A q \in Sessions \ {s} : owed'[q] = owed[q]
      /\ owed'[s] = NoCall
  BY <1>2 DEF GInv, GTypeOK
<1>4. OwersAreIdle'
  BY <1>1, <1>3 DEF GInv, OwersAreIdle
<1>5. ASSUME session'[s] # Idle, session'[s].pc = "committing",
             session'[s].call.op = "consume"
      PROVE  session'[s].view.target = session'[s].call.target
  <2>1. /\ session'[s].view = session[s].view
        /\ InsertDecision(s) \/ CheckConsume(s)
    BY <1>5, SessionEffect DEF IInv
  <2>2. ~InsertDecision(s)
    BY <1>1, <1>5 DEF InsertDecision, IInv, ChecksRemembered
  <2>3. session[s].view.target = session[s].call.target
    BY <2>1, <2>2 DEF CheckConsume, MayConsume
  <2> QED
    BY <1>1, <1>5, <2>1, <2>3
<1>6. TargetsAreChecked'
  BY <1>1, <1>5 DEF GInv, TargetsAreChecked
<1> QED
  BY <1>4, <1>6

LEMMA StepKeepsCover ==
    ASSUME IInv, GInv, GTypeOK', NEW s \in Sessions, Step(s) \/ Crash(s),
           owed' = owed \/ owed' = [owed EXCEPT ![s] = NoCall], UNCHANGED effect
    PROVE  GInv'
<1>1. \A t \in Targets : CoveredAt(t)'
  BY StepCovered
<1> QED
  BY <1>1, StepChecked DEF GInv
-----------------------------------------------------------------------------
(* The first and the second half of a gated operation, and what is lost.   *)

LEMMA ActCovered ==
    ASSUME IInv, GInv, GTypeOK', NEW s \in Sessions, NEW c \in Consumption, Act(s, c)
    PROVE  GInv'
<1>1. /\ UNCHANGED vars /\ session[s] = Idle /\ owed' = [owed EXCEPT ![s] = c]
      /\ effect' = [effect EXCEPT ![c.target] = @ + 1]
  BY DEF Act
<1>2. /\ \A q \in Sessions \ {s} : owed'[q] = owed[q]
      /\ owed'[s] = c /\ UNCHANGED <<request, session>>
  BY <1>1 DEF GInv, GTypeOK, vars
<1>3. OwersAreIdle' /\ TargetsAreChecked'
  BY <1>1, <1>2 DEF GInv, OwersAreIdle, TargetsAreChecked
<1>4. ASSUME NEW t \in Targets PROVE CoveredAt(t)'
  <2>1. ExecutedFor(t)' \subseteq ExecutedFor(t)
    BY <1>2 DEF ExecutedFor, Created
  <2>2. CoveredAt(t) /\ GTypeOK
    BY DEF GInv
  <2>3. CASE t = c.target
    <3>1. ClaimsOn(t)' \subseteq ClaimsOn(t) \cup {s}
      BY <1>2 DEF ClaimsOn, Claims
    <3>2. effect'[t] = effect[t] + 1
      BY <1>1, <2>3 DEF GInv, GTypeOK
    <3> QED
      BY <2>1, <2>2, <3>1, <3>2, CoverOfAction
  <2>4. CASE t # c.target
    <3>1. ClaimsOn(t)' \subseteq ClaimsOn(t)
      BY <1>1, <1>2, <2>4 DEF ClaimsOn, Claims
    <3>2. effect'[t] = effect[t]
      BY <1>1, <2>4 DEF GInv, GTypeOK
    <3> QED
      BY <2>1, <2>2, <3>1, <3>2, CoverKept
  <2> QED
    BY <2>3, <2>4
<1> QED
  BY <1>3, <1>4 DEF GInv

(* A request is loaded, for a call owed or one that claims nothing.        *)
LEMMA LoadCovered ==
    ASSUME IInv, GInv, GTypeOK', NEW s \in Sessions, Consume(s) \/ Other(s)
    PROVE  GInv'
<1>1. PICK c \in Call :
         /\ Load(s, c) /\ UNCHANGED effect
         /\ \/ owed[s] # NoCall /\ c = owed[s]
            \/ c.op # "consume"
         /\ owed' = [owed EXCEPT ![s] = NoCall]
  <2>1. CASE Consume(s)
    BY <2>1 DEF Consume, GInv, GTypeOK, Consumption
  <2>2. CASE Other(s)
    <3>1. PICK c \in Call \ Consumption : Load(s, c)
      BY <2>2 DEF Other
    <3>2. c.op # "consume"
      BY <3>1 DEF Consumption
    <3>3. owed' = [owed EXCEPT ![s] = NoCall] /\ UNCHANGED effect
      BY <2>2 DEF Other, GInv, GTypeOK
    <3> QED
      BY <3>1, <3>2, <3>3
  <2> QED
    BY <2>1, <2>2
<1> DEFINE x == [pc |-> "loaded", call |-> c, view |-> request[c.req],
                 locked |-> RowLocks, tally |-> 0]
<1>2. x.pc = "loaded" /\ x.call = c
  OBVIOUS
<1>3. session' = [session EXCEPT ![s] = x] /\ UNCHANGED request
  BY <1>1 DEF Load
<1> HIDE DEF x
<1>4. /\ \A q \in Sessions \ {s} : session'[q] = session[q] /\ owed'[q] = owed[q]
      /\ session'[s] = x /\ owed'[s] = NoCall
  BY <1>1, <1>3 DEF GInv, GTypeOK, IInv, TypeInv, TypeOK
<1>5. OwersAreIdle' /\ TargetsAreChecked'
  BY <1>2, <1>4 DEF GInv, OwersAreIdle, TargetsAreChecked
<1>6. ASSUME NEW t \in Targets PROVE CoveredAt(t)'
  <2>1. ExecutedFor(t)' \subseteq ExecutedFor(t)
    BY <1>3 DEF ExecutedFor, Created
  <2>2. ClaimsOn(t)' \subseteq ClaimsOn(t)
    BY <1>1, <1>2, <1>4 DEF ClaimsOn, Claims
  <2> QED
    BY <1>1, <2>1, <2>2, CoverKept DEF GInv
<1> QED
  BY <1>5, <1>6 DEF GInv

(* A claim is given up: no such request, or the worker dies before it.     *)
LEMMA GivenUpCovered ==
    ASSUME IInv, GInv, GTypeOK', NEW s \in Sessions,
           owed' = [owed EXCEPT ![s] = NoCall], UNCHANGED <<vars, effect>>
    PROVE  GInv'
<1>1. /\ \A q \in Sessions \ {s} : owed'[q] = owed[q]
      /\ owed'[s] = NoCall /\ UNCHANGED <<request, session>>
  BY DEF GInv, GTypeOK, vars
<1>2. OwersAreIdle' /\ TargetsAreChecked'
  BY <1>1 DEF GInv, OwersAreIdle, TargetsAreChecked
<1>3. ASSUME NEW t \in Targets PROVE CoveredAt(t)'
  <2>1. ExecutedFor(t)' \subseteq ExecutedFor(t) /\ ClaimsOn(t)' \subseteq ClaimsOn(t)
    BY <1>1 DEF ExecutedFor, Created, ClaimsOn, Claims
  <2> QED
    BY <2>1, CoverKept DEF GInv
<1> QED
  BY <1>2, <1>3 DEF GInv

(* Requests are made, and their deadlines pass.                            *)
LEMMA EnvironmentCovered ==
    ASSUME IInv, GInv, GTypeOK', Environment
    PROVE  GInv'
<1>1. UNCHANGED <<session, effect, owed>>
  BY DEF Environment, Create, DeadlinePasses
<1>2. ASSUME NEW t \in Targets PROVE ExecutedFor(t)' \subseteq ExecutedFor(t)
  <2>1. ASSUME NEW r \in Requests, NEW u \in Askers, NEW tgt \in Targets,
               NEW p \in Policies, Create(r, u, tgt, p)
        PROVE  ExecutedFor(t)' \subseteq ExecutedFor(t)
    <3>1. request'[r].status = "pending"
             /\ \A q \in Requests \ {r} : request'[q] = request[q]
      BY <2>1 DEF Create, IInv, TypeInv, TypeOK
    <3> QED
      BY <3>1 DEF ExecutedFor, Created
  <2>2. ASSUME NEW r \in Requests, DeadlinePasses(r)
        PROVE  ExecutedFor(t)' \subseteq ExecutedFor(t)
    <3>1. request[r] \in Row /\ request[r] # NoRow
      BY <2>2 DEF DeadlinePasses, Created, IInv, TypeInv, TypeOK
    <3>2. /\ request'[r].status = request[r].status
          /\ request'[r].target = request[r].target
          /\ \A q \in Requests \ {r} : request'[q] = request[q]
      BY <2>2, <3>1 DEF DeadlinePasses, IInv, TypeInv, TypeOK, Row
    <3> QED
      BY <3>1, <3>2 DEF ExecutedFor, Created
  <2> QED
    BY <2>1, <2>2 DEF Environment
<1>3. ASSUME NEW t \in Targets PROVE CoveredAt(t)'
  <2>1. ClaimsOn(t)' \subseteq ClaimsOn(t)
    BY <1>1 DEF ClaimsOn, Claims
  <2> QED
    BY <1>1, <1>2, <2>1, CoverKept DEF GInv
<1>4. OwersAreIdle' /\ TargetsAreChecked'
  BY <1>1 DEF GInv, OwersAreIdle, TargetsAreChecked
<1> QED
  BY <1>3, <1>4 DEF GInv
-----------------------------------------------------------------------------
LEMMA GInvInit == GInit => GInv
<1> SUFFICES ASSUME GInit PROVE GInv
  OBVIOUS
<1>1. GTypeOK /\ OwersAreIdle /\ TargetsAreChecked
  BY GTypeInit DEF GInit, Init, OwersAreIdle, TargetsAreChecked
<1>2. ASSUME NEW t \in Targets PROVE CoveredAt(t)
  <2>1. ExecutedFor(t) = {} /\ ClaimsOn(t) = {} /\ effect[t] = 0
    BY DEF GInit, Init, ExecutedFor, Created, ClaimsOn, Claims
  <2> QED
    BY <2>1, FS_EmptySet DEF CoveredAt
<1> QED
  BY <1>1, <1>2 DEF GInv

LEMMA GInvNext == IInv /\ GInv /\ [GNext]_gvars => GInv'
<1> SUFFICES ASSUME IInv, GInv, [GNext]_gvars PROVE GInv'
  OBVIOUS
<1>1. GTypeOK'
  BY GTypeNext DEF GInv
<1>2. ASSUME NEW s \in Sessions, NEW c \in Consumption, Act(s, c) PROVE GInv'
  BY <1>1, <1>2, ActCovered
<1>3. ASSUME NEW s \in Sessions, Consume(s) \/ Other(s) PROVE GInv'
  BY <1>1, <1>3, LoadCovered
<1>4. ASSUME NEW s \in Sessions, NotFound(s) PROVE GInv'
  BY <1>1, <1>4, GivenUpCovered DEF NotFound
<1>5. ASSUME NEW s \in Sessions, GCrash(s) PROVE GInv'
  <2>1. CASE Crash(s)
    BY <1>1, <1>5, <2>1, StepKeepsCover DEF GCrash
  <2>2. CASE UNCHANGED vars
    BY <1>1, <1>5, <2>2, GivenUpCovered DEF GCrash
  <2> QED
    BY <1>5, <2>1, <2>2 DEF GCrash
<1>6. ASSUME NEW s \in Sessions, Step(s), UNCHANGED <<effect, owed>> PROVE GInv'
  BY <1>1, <1>6, StepKeepsCover
<1>7. CASE Environment
  BY <1>1, <1>7, EnvironmentCovered
<1>8. CASE UNCHANGED gvars
  BY <1>8 DEF gvars, GInv, GTypeOK, OwersAreIdle, TargetsAreChecked, CoveredAt,
              ExecutedFor, Created, ClaimsOn, Claims
<1> QED
  BY <1>2, <1>3, <1>4, <1>5, <1>6, <1>7, <1>8 DEF GNext

(* However many workers run ..._with_approval operations, and wherever     *)
(* they crash, no more requests for a target are executed than actions on  *)
(* it were committed, on both databases.                                   *)
THEOREM ExecutionsStandForActions == GSpec => []ExecutionsHappened
<1>1. GInit => GInv
  BY GInvInit
<1>2. (GTypeOK /\ IInv) /\ GInv /\ [GNext]_gvars => GInv'
  BY GInvNext
<1>3. GSpec => []GInv
  BY <1>1, <1>2, GateInvariance, PTL DEF GSpec
<1>4. GInv => ExecutionsHappened
  <2> SUFFICES ASSUME GInv, NEW t \in Targets
               PROVE  Cardinality(ExecutedFor(t)) <= effect[t]
    BY DEF ExecutionsHappened, ExecutedFor
  <2>1. /\ IsFiniteSet(ExecutedFor(t)) /\ IsFiniteSet(ClaimsOn(t))
        /\ Cardinality(ExecutedFor(t)) + Cardinality(ClaimsOn(t)) <= effect[t]
        /\ effect[t] \in Nat
    BY DEF GInv, CoveredAt, GTypeOK
  <2>2. Cardinality(ExecutedFor(t)) \in Nat /\ Cardinality(ClaimsOn(t)) \in Nat
    BY <2>1, FS_CardinalityType
  <2> QED
    BY <2>1, <2>2
<1> QED
  BY <1>3, <1>4, PTL

(* A gated operation, half made or whole, does to the gate what its        *)
(* handlers do: what is proved of the gate alone holds beside the actions. *)
THEOREM GateUnchanged == GSpec => Spec
<1>1. GInit => Init
  BY DEF GInit
<1>2. GTypeOK /\ [GNext]_gvars => [Next]_vars
  BY GatedIsGate
<1>3. GSpec => []GTypeOK
  BY GTypeInit, GTypeNext, PTL DEF GSpec
<1> QED
  BY <1>1, <1>2, <1>3, PTL DEF GSpec, Spec
=============================================================================
