-------------------------- MODULE GrantQuorum_proofs --------------------------
(***************************************************************************)
(* The quorum, the separation of duties and the contract of the approval   *)
(* gate, where SELECT ... FOR UPDATE locks (PostgreSQL) and no policy asks *)
(* for more than two approvals, as the default chains do; for every set of *)
(* requests, users, roles, such policies and sessions.                     *)
(*                                                                         *)
(* The handlers give up the row lock when they commit an expiry, and the   *)
(* partial approval of a pending request meets no version test.  The heart *)
(* of the argument is that the two never come together                     *)
(* (DecisionsAreFresh): who has lost the lock looks at a request that was  *)
(* escalated, where a first approval changes the status, or at one with an *)
(* approval already, where the next one is the second and grants it.       *)
(***************************************************************************)
EXTENDS GrantApproval_proofs

(* The default chains ask for one approval or two.                         *)
AtMostTwo == \A p \in Policies : p.required <= 2

------------------------------------------------------------------------------
(* The tables.                                                             *)

ChainsAreShort ==
    \A r \in Requests : Created(r) => request[r].required <= 2

(* A pending request that is not as it was created has an approval.        *)
VersionsTell ==
    \A r \in Requests :
        Created(r) /\ request[r].status = "pending" /\ request[r].version # 0 =>
            Approvals(r) # {}

NothingBefore ==
    \A r \in Requests : ~Created(r) => decisions[r] = {} /\ executor[r] = NoUser

(* The rows of a log are numbered, and nobody decides twice or for himself.*)
LogsAreSound ==
    \A r \in Requests :
        /\ \A d \in decisions[r] :
              d.id < Cardinality(decisions[r]) /\ d.user # request[r].requester
        /\ \A d, e \in decisions[r] : d.user = e.user => d = e

GrantedIsCounted ==
    \A r \in Requests : Created(r) /\ Granted(request[r]) =>
        Cardinality(Approvals(r)) >= request[r].required

ExecutedOnce ==
    \A r \in Requests : executor[r] # NoUser => request[r].status = "executed"

TablesHold ==
    /\ ChainsAreShort
    /\ VersionsTell
    /\ NothingBefore
    /\ LogsAreSound
    /\ GrantedIsCounted
    /\ NoLostApproval
    /\ ExecutedOnce
    /\ SeparationOfDuties
------------------------------------------------------------------------------
(* The sessions.                                                           *)

Req(s) == session[s].call.req

(* These columns are written once.                                         *)
CopyAgrees(s) ==
    /\ session[s].view.required = request[Req(s)].required
    /\ session[s].view.requester = request[Req(s)].requester

LockedIsCurrent(s) == session[s].locked => Fresh(s)

(* A session without the lock has committed an expiry.                     *)
UnlockedIsKnown(s) ==
    ~session[s].locked =>
        /\ session[s].pc # "loaded"
        /\ session[s].pc = "reload" => request[Req(s)].version # 0
        /\ session[s].pc # "reload" /\ session[s].view.status = "pending" =>
              Approvals(Req(s)) # {}

Own(s) == IF session[s].call.verdict = "approved" THEN 1 ELSE 0

(* What a session has checked and counted is so as long as its copy is the *)
(* current one.                                                            *)
ChecksHold(s) ==
    session[s].pc \in {"inserting", "committing"} =>
        /\ session[s].call.user # session[s].view.requester
        /\ Fresh(s) => session[s].call.user \notin Deciders(Req(s))

CountHolds(s) ==
    HoldsInsert(s) =>
        /\ Fresh(s) =>
              session[s].tally = Cardinality(Approvals(Req(s))) + Own(s)
        /\ ~session[s].locked /\ session[s].view.status = "pending"
              /\ session[s].call.verdict = "approved" =>
              session[s].tally >= 2

Known(s) ==
    /\ CopyAgrees(s)
    /\ LockedIsCurrent(s)
    /\ UnlockedIsKnown(s)
    /\ ChecksHold(s)
    /\ CountHolds(s)

SessionsKnow == \A s \in Sessions : session[s] # Idle => Known(s)

LocksExclude ==
    \A s, t \in Sessions : \A r \in Requests :
        s # t /\ HoldsLock(s, r) =>
            ~HoldsLock(t, r) /\ ~(On(t, r) /\ HoldsInsert(t))

QInv == IInv /\ TablesHold /\ SessionsKnow /\ LocksExclude
------------------------------------------------------------------------------
LEMMA QInvInit == Init => QInv
<1> SUFFICES ASSUME Init PROVE QInv
  OBVIOUS
<1>1. IInv
  BY IInvInit
<1>2. TablesHold
  BY DEF Init, TablesHold, ChainsAreShort, VersionsTell, NothingBefore,
     LogsAreSound, GrantedIsCounted, NoLostApproval, ExecutedOnce,
     SeparationOfDuties, Created
<1>3. SessionsKnow /\ LocksExclude
  BY DEF Init, SessionsKnow, LocksExclude, HoldsLock, On
<1> QED
  BY <1>1, <1>2, <1>3 DEF QInv

(* Types, for a session that is not idle.                                  *)
LEMMA BusyFacts ==
    ASSUME IInv, NEW s \in Sessions, session[s] # Idle
    PROVE  /\ TypeOK /\ FiniteLogs
           /\ session[s] \in Busy /\ session[s].call \in Call
           /\ Req(s) \in Requests
           /\ session[s].view \in Row
           /\ request[Req(s)] \in Row /\ Created(Req(s))
           /\ session[s].view.version <= request[Req(s)].version
           /\ session[s].tally \in Nat
BY BusyFields, CallFields
DEF IInv, TypeInv, SessionsOnRows, Created, TypeOK, SnapshotsAreCurrent, Req, Busy

LEMMA RowNumbers ==
    ASSUME NEW row \in Row
    PROVE  row.required \in Nat /\ row.required >= 1 /\ row.version \in Nat
BY DEF Row

LEMMA LogTypes ==
    ASSUME TypeOK, FiniteLogs, NEW r \in Requests
    PROVE  /\ IsFiniteSet(decisions[r]) /\ Cardinality(decisions[r]) \in Nat
           /\ IsFiniteSet(Approvals(r)) /\ Cardinality(Approvals(r)) \in Nat
           /\ Cardinality(Approvals(r)) = 0 <=> Approvals(r) = {}
<1>1. IsFiniteSet(decisions[r])
  BY DEF FiniteLogs
<1>2. Approvals(r) \in SUBSET decisions[r]
  BY DEF Approvals
<1>3. IsFiniteSet(Approvals(r))
  BY <1>1, <1>2, FS_Subset
<1> QED
  BY <1>1, <1>3, FS_CardinalityType, FS_EmptySet

(* A copy of the current version shows the row.                            *)
LEMMA FreshFacts ==
    ASSUME IInv, NEW s \in Sessions, session[s] # Idle, Fresh(s)
    PROVE  SameButDeadline(request[Req(s)], session[s].view)
BY DEF IInv, SnapshotsAreCurrent, Fresh, Req
------------------------------------------------------------------------------
(* A decision.                                                             *)

(* A decision is committed by a session whose copy is the current row,     *)
(* whether or not the commit tests the version; and it tests it unless the *)
(* session still has the lock and this is the first approval.              *)
LEMMA DecisionsAreFresh ==
    ASSUME RowLocks, QInv, NEW s \in Sessions, CommitDecision(s)
    PROVE  LET view == session[s].view  row == request[Req(s)] IN
           /\ session[s] # Idle /\ Fresh(s) /\ HoldsInsert(s)
           /\ Open(view) /\ row.status = view.status
           /\ row.required = view.required /\ row.required <= 2
           /\ row.requester = view.requester
           /\ session[s].call.user # row.requester
           /\ session[s].call.user \notin Deciders(Req(s))
           /\ session[s].tally = Cardinality(Approvals(Req(s))) + Own(s)
           /\ NewStatus(s) = view.status =>
                 /\ session[s].locked
                 /\ view.status = "pending"
                 /\ Approvals(Req(s)) = {}
<1> DEFINE view == session[s].view  row == request[Req(s)]
<1>1. /\ session[s] # Idle /\ session[s].pc = "committing"
      /\ session[s].call.op = "decide" /\ HoldsInsert(s)
  BY PcBusy DEF CommitDecision, HoldsInsert
<1>2. IInv /\ Known(s) /\ Created(Req(s)) /\ row \in Row /\ view \in Row
      /\ Req(s) \in Requests /\ session[s].call \in Call
      /\ session[s].tally \in Nat /\ TypeOK /\ FiniteLogs
  BY <1>1, BusyFacts DEF QInv, SessionsKnow
<1>3. Open(view)
  BY <1>1, <1>2 DEF IInv, ChecksRemembered
<1>4. row.required <= 2 /\ row.required = view.required
      /\ row.requester = view.requester
  BY <1>2 DEF QInv, TablesHold, ChainsAreShort, Known, CopyAgrees
<1>5. /\ Cardinality(Approvals(Req(s))) \in Nat
      /\ Cardinality(Approvals(Req(s))) = 0 <=> Approvals(Req(s)) = {}
  BY <1>2, LogTypes
<1>6. ASSUME NewStatus(s) = view.status
      PROVE  /\ session[s].locked /\ view.status = "pending" /\ Fresh(s)
             /\ Approvals(Req(s)) = {}
  <2>1. view.status = "pending" /\ session[s].call.verdict = "approved"
        /\ ~(session[s].tally >= view.required)
    <3>1. session[s].call.verdict \in {"approved", "rejected"}
      BY <1>1, <1>2, CallFields DEF Verdicts
    <3>2. NewStatus(s) \in {"pending", "escalated"}
      BY <1>3, <1>6 DEF Open
    <3> QED
      BY <1>6, <3>1, <3>2 DEF NewStatus
  <2>2. session[s].tally < 2
    BY <1>2, <1>4, <2>1, RowNumbers
  <2>3. session[s].locked
    BY <1>1, <1>2, <2>1, <2>2 DEF Known, CountHolds
  <2>4. Fresh(s)
    BY <1>2, <2>3 DEF Known, LockedIsCurrent
  <2>5. session[s].tally = Cardinality(Approvals(Req(s))) + 1
    BY <1>1, <1>2, <2>1, <2>4 DEF Known, CountHolds, Own
  <2> QED
    BY <1>5, <2>1, <2>2, <2>3, <2>4, <2>5
<1>7. Fresh(s)
  BY <1>6 DEF CommitDecision
<1>8. row.status = view.status
  BY <1>1, <1>2, <1>7, FreshFacts DEF SameButDeadline
<1>9. session[s].call.user # row.requester /\ session[s].call.user \notin Deciders(Req(s))
  BY <1>1, <1>2, <1>4, <1>7 DEF Known, ChecksHold
<1>10. session[s].tally = Cardinality(Approvals(Req(s))) + Own(s)
  BY <1>1, <1>2, <1>7 DEF Known, CountHolds
<1> QED
  BY <1>1, <1>3, <1>4, <1>6, <1>7, <1>8, <1>9, <1>10

(* The log grows by one row.                                               *)
LEMMA LogGrows ==
    ASSUME RowLocks, QInv, NEW s \in Sessions, CommitDecision(s),
           NEW r \in Requests, r = Req(s)
    PROVE  /\ \A q \in Requests \ {r} : decisions'[q] = decisions[q]
           /\ decisions'[r] = decisions[r] \cup {NewDecision(s)}
           /\ Cardinality(decisions'[r]) = Cardinality(decisions[r]) + 1
           /\ NewDecision(s).id = Cardinality(decisions[r])
           /\ NewDecision(s).user = session[s].call.user
           /\ Approvals(r) \subseteq Approvals(r)'
           /\ Own(s) = 1 => NewDecision(s) \in Approvals(r)'
           /\ Cardinality(Approvals(r)') = Cardinality(Approvals(r)) + Own(s)
<1> DEFINE new == NewDecision(s)
<1>1. TypeOK /\ FiniteLogs /\ LogsAreSound
  BY DEF QInv, IInv, TypeInv, TablesHold
<1>2. /\ \A q \in Requests \ {r} : decisions'[q] = decisions[q]
      /\ decisions'[r] = decisions[r] \cup {new}
  BY <1>1 DEF CommitDecision, TypeOK, Req
<1>3. IsFiniteSet(decisions[r]) /\ IsFiniteSet(Approvals(r))
      /\ Cardinality(decisions[r]) \in Nat /\ Cardinality(Approvals(r)) \in Nat
  BY <1>1, LogTypes
<1>4. /\ new.id = Cardinality(decisions[r]) /\ new.user = session[s].call.user
      /\ new.verdict = session[s].call.verdict
  BY DEF NewDecision, Req
<1>5. new \notin decisions[r]
  <2>1. \A d \in decisions[r] : d.id < Cardinality(decisions[r])
    BY <1>1 DEF LogsAreSound
  <2> HIDE DEF new
  <2> QED
    BY <1>3, <1>4, <2>1
<1> HIDE DEF new
<1>6. Cardinality(decisions'[r]) = Cardinality(decisions[r]) + 1
  BY <1>2, <1>3, <1>5, FS_AddElement
<1>7. CASE Own(s) = 1
  <2>1. new.verdict = "approved"
    BY <1>4, <1>7 DEF Own
  <2>2. Approvals(r)' = Approvals(r) \cup {new} /\ new \notin Approvals(r)
    BY <1>2, <1>5, <2>1 DEF Approvals
  <2>3. Cardinality(Approvals(r)') = Cardinality(Approvals(r)) + 1
    BY <1>3, <2>2, FS_AddElement
  <2> QED
    BY <1>2, <1>4, <1>6, <1>7, <2>2, <2>3 DEF new
<1>8. CASE Own(s) # 1
  <2>1. new.verdict # "approved" /\ Own(s) = 0
    BY <1>4, <1>8 DEF Own
  <2>2. Approvals(r)' = Approvals(r)
    BY <1>2, <2>1 DEF Approvals
  <2> QED
    BY <1>2, <1>3, <1>4, <1>6, <1>8, <2>1, <2>2 DEF new
<1> QED
  BY <1>7, <1>8
------------------------------------------------------------------------------
(* What the step of one session leaves the others.                         *)
LEMMA OtherKnows ==
    ASSUME QInv, NEW t \in Sessions, session[t] # Idle, session'[t] = session[t],
           NEW q \in Requests, q = Req(t),
           request'[q].required = request[q].required,
           request'[q].requester = request[q].requester,
           request[q].version # 0 => request'[q].version # 0,
           Approvals(q) \subseteq Approvals(q)',
           \/ /\ request'[q].version = request[q].version
              /\ decisions'[q] = decisions[q]
           \/ /\ ~session[t].locked
              /\ session[t].pc \in {"inserting", "committing"} => ~Fresh(t)'
    PROVE  Known(t)'
<1>1. Known(t) /\ Req(t)' = q
  BY DEF QInv, SessionsKnow, Req
<1>2. CopyAgrees(t)'
  BY <1>1 DEF Known, CopyAgrees
<1>3. UnlockedIsKnown(t)'
  BY <1>1 DEF Known, UnlockedIsKnown
<1>4. CASE /\ request'[q].version = request[q].version
           /\ decisions'[q] = decisions[q]
  <2>1. /\ Fresh(t)' <=> Fresh(t)
        /\ Approvals(q)' = Approvals(q)
        /\ Deciders(q)' = Deciders(q)
    BY <1>4 DEF Fresh, Req, Approvals, Deciders
  <2>2. LockedIsCurrent(t)'
    BY <1>1, <2>1 DEF Known, LockedIsCurrent
  <2>3. ChecksHold(t)'
    BY <1>1, <2>1 DEF Known, ChecksHold
  <2>4. CountHolds(t)'
    BY <1>1, <2>1 DEF Known, CountHolds, HoldsInsert, Own
  <2> QED
    BY <1>2, <1>3, <2>2, <2>3, <2>4 DEF Known
<1>5. CASE /\ ~session[t].locked
           /\ session[t].pc \in {"inserting", "committing"} => ~Fresh(t)'
  <2>1. LockedIsCurrent(t)'
    BY <1>5 DEF LockedIsCurrent
  <2>2. ChecksHold(t)'
    BY <1>1, <1>5 DEF Known, ChecksHold
  <2>3. CountHolds(t)'
    BY <1>1, <1>5 DEF Known, CountHolds, HoldsInsert, Own
  <2> QED
    BY <1>2, <1>3, <2>1, <2>2, <2>3 DEF Known
<1> QED
  BY <1>4, <1>5

(* A session that takes a lock or a row of the log has asked for it.       *)
LEMMA LocksStep ==
    ASSUME LocksExclude, NEW s \in Sessions,
           \A t \in Sessions \ {s} : session'[t] = session[t],
           \A t \in Sessions \ {s}, q \in Requests :
               /\ HoldsLock(s, q)' =>
                     ~HoldsLock(t, q) /\ ~(On(t, q) /\ HoldsInsert(t))
               /\ On(s, q)' /\ HoldsInsert(s)' => ~HoldsLock(t, q)
    PROVE  LocksExclude'
<1>1. ASSUME NEW t \in Sessions \ {s}, NEW q \in Requests
      PROVE  /\ HoldsLock(t, q)' <=> HoldsLock(t, q)
             /\ On(t, q)' <=> On(t, q)
             /\ HoldsInsert(t)' <=> HoldsInsert(t)
  BY <1>1 DEF HoldsLock, On, HoldsInsert
<1>2. ASSUME NEW a \in Sessions, NEW b \in Sessions, NEW q \in Requests,
             a # b, HoldsLock(a, q)'
      PROVE  ~HoldsLock(b, q)' /\ ~(On(b, q)' /\ HoldsInsert(b)')
  <2>1. CASE a = s
    BY <1>1, <1>2, <2>1
  <2>2. CASE b = s
    BY <1>1, <1>2, <2>2
  <2>3. CASE a # s /\ b # s
    BY <1>1, <1>2, <2>3 DEF LocksExclude
  <2> QED
    BY <2>1, <2>2, <2>3
<1> QED
  BY <1>2 DEF LocksExclude

(* A step that leaves the tables alone.                                    *)
LEMMA TablesStay ==
    ASSUME TablesHold, UNCHANGED <<request, decisions, executor>>
    PROVE  TablesHold'
BY DEF TablesHold, ChainsAreShort, VersionsTell, NothingBefore, LogsAreSound,
   GrantedIsCounted, NoLostApproval, ExecutedOnce, SeparationOfDuties,
   Created, Open, Granted, Approvals, Deciders

LEMMA QuietStep ==
    ASSUME QInv, IInv', NEW s \in Sessions,
           UNCHANGED <<request, decisions, executor>>,
           \A t \in Sessions \ {s} : session'[t] = session[t],
           session'[s] # Idle => Known(s)',
           \A t \in Sessions \ {s}, q \in Requests :
               /\ HoldsLock(s, q)' =>
                     ~HoldsLock(t, q) /\ ~(On(t, q) /\ HoldsInsert(t))
               /\ On(s, q)' /\ HoldsInsert(s)' => ~HoldsLock(t, q)
    PROVE  QInv'
<1>1. TablesHold' /\ LocksExclude'
  BY TablesStay, LocksStep DEF QInv
<1>2. ASSUME NEW t \in Sessions \ {s}, session[t] # Idle
      PROVE  Known(t)'
  <2>1. Req(t) \in Requests
    BY <1>2, BusyFacts DEF QInv
  <2>2. \A q \in Requests : Approvals(q)' = Approvals(q)
    BY DEF Approvals
  <2> QED
    BY <1>2, <2>1, <2>2, OtherKnows
<1>3. SessionsKnow'
  BY <1>2 DEF SessionsKnow
<1> QED
  BY <1>1, <1>3 DEF QInv

(* A session that goes on with the request it has and takes no lock.       *)
LEMMA SameLocks ==
    ASSUME LocksExclude, NEW s \in Sessions,
           session'[s] # Idle =>
               /\ session[s] # Idle
               /\ session'[s].call = session[s].call
               /\ session'[s].locked => session[s].locked
               /\ HoldsInsert(s)' => HoldsInsert(s) \/ MayInsert(s, Req(s)),
           RowLocks,
           NEW t \in Sessions \ {s}, NEW q \in Requests
    PROVE  /\ HoldsLock(s, q)' =>
                  ~HoldsLock(t, q) /\ ~(On(t, q) /\ HoldsInsert(t))
           /\ On(s, q)' /\ HoldsInsert(s)' => ~HoldsLock(t, q)
<1>1. HoldsLock(s, q)' => HoldsLock(s, q)
  BY DEF HoldsLock, On
<1>2. On(s, q)' => On(s, q)
  BY DEF On
<1>3. On(s, q) /\ MayInsert(s, Req(s)) => ~HoldsLock(t, q)
  BY DEF On, MayInsert, Req
<1>4. On(s, q)' /\ HoldsInsert(s)' => HoldsInsert(s) \/ MayInsert(s, Req(s))
  BY DEF On
<1> QED
  BY <1>1, <1>2, <1>3, <1>4 DEF LocksExclude

LEMMA LoadKeeps ==
    ASSUME RowLocks, QInv, IInv', NEW s \in Sessions, NEW c \in Call, Load(s, c)
    PROVE  QInv'
<1>1. TypeOK /\ LocksExclude /\ c.req \in Requests
  BY CallFields DEF QInv, IInv, TypeInv
<1>2. /\ session'[s].call = c /\ session'[s].view = request[c.req]
      /\ session'[s].pc = "loaded" /\ session'[s] # Idle
      /\ session'[s].locked
      /\ UNCHANGED <<request, decisions, executor>>
      /\ \A t \in Sessions \ {s} : session'[t] = session[t]
  BY <1>1 DEF Load, TypeOK, Idle
<1>3. Known(s)'
  BY <1>2 DEF Known, CopyAgrees, LockedIsCurrent, UnlockedIsKnown, ChecksHold,
     CountHolds, HoldsInsert, Fresh, Req
<1>4. ASSUME NEW t \in Sessions \ {s}, NEW q \in Requests
      PROVE  /\ HoldsLock(s, q)' =>
                    ~HoldsLock(t, q) /\ ~(On(t, q) /\ HoldsInsert(t))
             /\ On(s, q)' /\ HoldsInsert(s)' => ~HoldsLock(t, q)
  <2>1. ~HoldsInsert(s)' /\ (On(s, q)' => q = c.req)
    BY <1>2 DEF HoldsInsert, On
  <2>2. MayLock(s, c.req)
    BY DEF Load
  <2> QED
    BY <2>1, <2>2 DEF MayLock, HoldsLock
<1> QED
  BY <1>2, <1>3, <1>4, QuietStep

(* A step between two statements that write: the session goes on or ends.  *)
LEMMA GoesOn ==
    ASSUME RowLocks, QInv, IInv', NEW s \in Sessions, session[s] # Idle,
           NEW new, session' = [session EXCEPT ![s] = new],
           UNCHANGED <<request, decisions, executor>>,
           new # Idle =>
               /\ new.call = session[s].call
               /\ new.locked => session[s].locked
               /\ HoldsInsert(s)' => HoldsInsert(s) \/ MayInsert(s, Req(s))
               /\ Known(s)'
    PROVE  QInv'
<1>1. session'[s] = new /\ \A t \in Sessions \ {s} : session'[t] = session[t]
  BY DEF QInv, IInv, TypeInv, TypeOK
<1>2. ASSUME NEW t \in Sessions \ {s}, NEW q \in Requests
      PROVE  /\ HoldsLock(s, q)' =>
                    ~HoldsLock(t, q) /\ ~(On(t, q) /\ HoldsInsert(t))
             /\ On(s, q)' /\ HoldsInsert(s)' => ~HoldsLock(t, q)
  BY <1>1, SameLocks DEF QInv
<1> QED
  BY <1>1, <1>2, QuietStep

LEMMA EndKeeps ==
    ASSUME RowLocks, QInv, IInv', NEW s \in Sessions, session[s] # Idle,
           Finish(s), UNCHANGED <<request, decisions, executor>>
    PROVE  QInv'
BY GoesOn DEF Finish

LEMMA NotOverdueKeeps ==
    ASSUME RowLocks, QInv, IInv', NEW s \in Sessions, NotOverdue(s)
    PROVE  QInv'
<1> DEFINE new == [session[s] EXCEPT !.pc = "checking"]
<1>1. session[s] # Idle /\ session[s].pc = "loaded"
      /\ UNCHANGED <<request, decisions, executor>>
  BY PcBusy DEF NotOverdue
<1>2. session[s] \in Busy /\ Known(s) /\ TypeOK
  BY <1>1, BusyFacts DEF QInv, SessionsKnow
<1>3. CASE Finish(s)
  BY <1>1, <1>3, EndKeeps
<1>4. CASE session' = [session EXCEPT ![s].pc = "checking"]
  <2>1. session' = [session EXCEPT ![s] = new]
    BY <1>2, <1>4 DEF TypeOK
  <2>2. /\ new.call = session[s].call /\ new.view = session[s].view
        /\ new.locked <=> session[s].locked
        /\ new.pc = "checking" /\ session'[s] = new
    BY <1>2, <2>1 DEF Busy, TypeOK
  <2> HIDE DEF new
  <2>3. session[s].locked
    BY <1>1, <1>2 DEF Known, UnlockedIsKnown
  <2>4. ~HoldsInsert(s)'
    BY <2>2 DEF HoldsInsert
  <2>5. Known(s)'
    BY <1>1, <1>2, <2>2, <2>3, <2>4
    DEF Known, CopyAgrees, LockedIsCurrent, UnlockedIsKnown, ChecksHold,
        CountHolds, Fresh, Req
  <2> QED
    BY <1>1, <2>1, <2>2, <2>4, <2>5, GoesOn
<1> QED
  BY <1>3, <1>4 DEF NotOverdue

LEMMA ReloadKeeps ==
    ASSUME RowLocks, QInv, IInv', NEW s \in Sessions, Reload(s)
    PROVE  QInv'
<1> DEFINE mid == [session[s] EXCEPT !.pc = "checking"]
           new == [mid EXCEPT !.view = request[Req(s)]]
<1>1. session[s] # Idle /\ session[s].pc = "reload"
      /\ UNCHANGED <<request, decisions, executor>>
  BY PcBusy DEF Reload
<1>2. session[s] \in Busy /\ Known(s) /\ TypeOK
      /\ Req(s) \in Requests /\ TablesHold
  BY <1>1, BusyFacts DEF QInv, SessionsKnow
<1>9. PICK r \in Requests : r = Req(s) /\ request[r] \in Row /\ Created(r)
  BY <1>1, <1>2, BusyFacts DEF QInv
<1>3. session' = [session EXCEPT ![s] = new]
  BY <1>2 DEF Reload, Req, TypeOK
<1>4. /\ new.call = session[s].call /\ new.view = request[r]
      /\ new.locked <=> session[s].locked
      /\ new.pc = "checking" /\ session'[s] = new
  <2>1. mid \in Busy /\ mid.call = session[s].call
        /\ (mid.locked <=> session[s].locked) /\ mid.pc = "checking"
    BY <1>2 DEF Busy
  <2> HIDE DEF mid
  <2> QED
    BY <1>2, <1>3, <1>9, <2>1 DEF Busy, TypeOK
<1> HIDE DEF new
<1>5. ~session[s].locked /\ request[r].status = "pending" => Approvals(r) # {}
  BY <1>1, <1>2, <1>9 DEF Known, UnlockedIsKnown, TablesHold, VersionsTell
<1>6. ~HoldsInsert(s)'
  BY <1>4 DEF HoldsInsert
<1>7. Req(s)' = r /\ Approvals(r)' = Approvals(r) /\ request'[r] = request[r]
  BY <1>1, <1>4, <1>9 DEF Req, Approvals
<1>8. Known(s)'
  <2>1. CopyAgrees(s)' /\ Fresh(s)'
    BY <1>4, <1>7 DEF CopyAgrees, Fresh, Req
  <2>2. UnlockedIsKnown(s)'
    BY <1>4, <1>5, <1>7 DEF UnlockedIsKnown
  <2> QED
    BY <1>4, <1>6, <2>1, <2>2
    DEF Known, LockedIsCurrent, ChecksHold, CountHolds
<1> QED
  BY <1>1, <1>3, <1>4, <1>6, <1>8, GoesOn

LEMMA CheckKeeps ==
    ASSUME RowLocks, QInv, IInv', NEW s \in Sessions,
           CheckDecide(s) \/ CheckConsume(s)
    PROVE  QInv'
<1>1. session[s] # Idle /\ session[s].pc = "checking"
      /\ UNCHANGED <<request, decisions, executor>>
  BY PcBusy DEF CheckDecide, CheckConsume
<1>2. session[s] \in Busy /\ Known(s) /\ TypeOK
  BY <1>1, BusyFacts DEF QInv, SessionsKnow
<1>3. PICK pc \in {"inserting", "committing"} :
         /\ session' = [session EXCEPT ![s].pc = pc]
          /\ session[s].call.user # session[s].view.requester
         /\ session[s].call.user \notin Deciders(Req(s))
         /\ pc = "committing" => session[s].call.op = "consume"
  BY <1>1 DEF CheckDecide, CheckConsume, MayDecide, MayConsume, Req
<1> DEFINE new == [session[s] EXCEPT !.pc = pc]
<1>4. session' = [session EXCEPT ![s] = new]
  BY <1>2, <1>3 DEF TypeOK
<1>5. /\ new.call = session[s].call /\ new.view = session[s].view
      /\ new.locked <=> session[s].locked
      /\ new.pc = pc /\ session'[s] = new
  BY <1>2, <1>4 DEF Busy, TypeOK
<1> HIDE DEF new
<1>6. ~HoldsInsert(s)'
  BY <1>3, <1>5 DEF HoldsInsert
<1>7. /\ Req(s)' = Req(s) /\ Deciders(Req(s))' = Deciders(Req(s))
      /\ Approvals(Req(s))' = Approvals(Req(s))
      /\ Fresh(s)' <=> Fresh(s)
  BY <1>1, <1>5 DEF Req, Deciders, Approvals, Fresh
<1>8. Known(s)'
  <2>1. CopyAgrees(s)' /\ LockedIsCurrent(s)'
    BY <1>1, <1>2, <1>5, <1>7 DEF Known, CopyAgrees, LockedIsCurrent
  <2>2. UnlockedIsKnown(s)'
    BY <1>1, <1>2, <1>3, <1>5, <1>7 DEF Known, UnlockedIsKnown
  <2>3. ChecksHold(s)'
    BY <1>3, <1>5, <1>7 DEF ChecksHold
  <2> QED
    BY <1>6, <2>1, <2>2, <2>3 DEF Known, CountHolds
<1> QED
  BY <1>1, <1>4, <1>5, <1>6, <1>8, GoesOn

LEMMA InsertKeeps ==
    ASSUME RowLocks, QInv, IInv', NEW s \in Sessions, InsertDecision(s)
    PROVE  QInv'
<1> DEFINE tally == Cardinality(Approvals(Req(s))) + Own(s)
           mid == [session[s] EXCEPT !.pc = "committing"]
           new == [mid EXCEPT !.tally = tally]
<1>1. session[s] # Idle /\ session[s].pc = "inserting"
      /\ UNCHANGED <<request, decisions, executor>> /\ MayInsert(s, Req(s))
  BY PcBusy DEF InsertDecision, Req
<1>2. session[s] \in Busy /\ Known(s) /\ TypeOK /\ FiniteLogs
      /\ Req(s) \in Requests
  BY <1>1, BusyFacts DEF QInv, SessionsKnow
<1>3. session' = [session EXCEPT ![s] = new]
  BY <1>2 DEF InsertDecision, Req, Own, TypeOK
<1> HIDE DEF tally
<1>4. /\ new.call = session[s].call /\ new.view = session[s].view
      /\ new.locked <=> session[s].locked
      /\ new.pc = "committing" /\ new.tally = tally /\ session'[s] = new
  <2>1. /\ mid \in Busy /\ mid.call = session[s].call
        /\ mid.view = session[s].view
        /\ mid.locked <=> session[s].locked
        /\ mid.pc = "committing"
    BY <1>2 DEF Busy
  <2> HIDE DEF mid
  <2> QED
    BY <1>2, <1>3, <2>1 DEF Busy, TypeOK
<1> HIDE DEF new
<1>5. /\ Req(s)' = Req(s) /\ Deciders(Req(s))' = Deciders(Req(s))
      /\ Approvals(Req(s))' = Approvals(Req(s)) /\ Own(s)' = Own(s)
      /\ Fresh(s)' <=> Fresh(s)
  BY <1>1, <1>4 DEF Req, Deciders, Approvals, Fresh, Own
<1>6. Known(s)'
  <2>1. CopyAgrees(s)' /\ LockedIsCurrent(s)'
    BY <1>1, <1>2, <1>4, <1>5 DEF Known, CopyAgrees, LockedIsCurrent
  <2>2. UnlockedIsKnown(s)'
    BY <1>1, <1>2, <1>4, <1>5 DEF Known, UnlockedIsKnown
  <2>3. ChecksHold(s)'
    BY <1>1, <1>2, <1>4, <1>5 DEF Known, ChecksHold
  <2>4. Fresh(s)' => session'[s].tally = (Cardinality(Approvals(Req(s))) + Own(s))'
    BY <1>4, <1>5 DEF tally
  <2>5. ASSUME ~session'[s].locked, session'[s].view.status = "pending",
               session'[s].call.verdict = "approved"
        PROVE  session'[s].tally >= 2
    <3>1. Approvals(Req(s)) # {}
      BY <1>1, <1>2, <1>4, <2>5 DEF Known, UnlockedIsKnown
    <3>2. Cardinality(Approvals(Req(s))) \in Nat /\ Cardinality(Approvals(Req(s))) # 0
      BY <1>2, <3>1, LogTypes
    <3>3. Own(s) = 1
      BY <1>4, <2>5 DEF Own
    <3> QED
      BY <1>4, <3>2, <3>3 DEF tally
  <2>6. CountHolds(s)'
    BY <2>4, <2>5 DEF CountHolds
  <2> QED
    BY <2>1, <2>2, <2>3, <2>6 DEF Known
<1> QED
  BY <1>1, <1>3, <1>4, <1>6, GoesOn

LEMMA QuietSteps ==
    ASSUME RowLocks, QInv, IInv', NEW s \in Sessions,
           \/ NotOverdue(s) \/ Reload(s) \/ CheckDecide(s) \/ InsertDecision(s)
           \/ CheckConsume(s) \/ Refuse(s) \/ Crash(s)
    PROVE  QInv'
<1>1. CASE Refuse(s) \/ Crash(s)
  BY <1>1, EndKeeps, PcBusy DEF Refuse, Crash
<1> QED
  BY <1>1, NotOverdueKeeps, ReloadKeeps, CheckKeeps, InsertKeeps
------------------------------------------------------------------------------
(* The steps that change the tables, one request at a time.                *)

RowHolds(r) ==
    /\ Created(r) =>
          /\ request[r].required <= 2
          /\ request[r].status = "pending" /\ request[r].version # 0 =>
                Approvals(r) # {}
          /\ Granted(request[r]) =>
                Cardinality(Approvals(r)) >= request[r].required
          /\ Open(request[r]) =>
                Cardinality(Approvals(r)) < request[r].required
    /\ ~Created(r) => decisions[r] = {} /\ executor[r] = NoUser
    /\ \A d \in decisions[r] :
          d.id < Cardinality(decisions[r]) /\ d.user # request[r].requester
    /\ \A d, e \in decisions[r] : d.user = e.user => d = e
    /\ executor[r] # NoUser =>
          /\ request[r].status = "executed"
          /\ executor[r] \notin Deciders(r) \cup {request[r].requester}

LEMMA TablesByRow ==
    ASSUME TablesHold, NEW r \in Requests
    PROVE  RowHolds(r)
BY DEF TablesHold, ChainsAreShort, VersionsTell, NothingBefore, LogsAreSound,
   GrantedIsCounted, NoLostApproval, ExecutedOnce, SeparationOfDuties, RowHolds

LEMMA OneRow ==
    ASSUME TablesHold, NEW r \in Requests,
           \A q \in Requests \ {r} :
               /\ request'[q] = request[q]
               /\ decisions'[q] = decisions[q]
               /\ executor'[q] = executor[q],
           RowHolds(r)'
    PROVE  TablesHold'
<1>1. ASSUME NEW q \in Requests \ {r}
      PROVE  RowHolds(q)'
  <2>1. RowHolds(q)
    BY TablesByRow
  <2>2. /\ Approvals(q)' = Approvals(q)
        /\ Deciders(q)' = Deciders(q)
        /\ Created(q)' <=> Created(q)
    BY DEF Approvals, Deciders, Created
  <2> QED
    BY <2>1, <2>2 DEF RowHolds, Granted, Open
<1>2. \A q \in Requests : RowHolds(q)'
  BY <1>1
<1>3. (\A q \in Requests : RowHolds(q)') => TablesHold'
  BY DEF TablesHold, ChainsAreShort, VersionsTell, NothingBefore, LogsAreSound,
     GrantedIsCounted, NoLostApproval, ExecutedOnce, SeparationOfDuties, RowHolds
<1> QED
  BY <1>2, <1>3

LEMMA CreateKeeps ==
    ASSUME AtMostTwo, QInv, IInv', NEW r \in Requests, NEW u \in Askers,
           NEW tgt \in Targets, NEW p \in Policies, Create(r, u, tgt, p)
    PROVE  QInv'
<1>1. TypeOK /\ TypeOK' /\ FiniteLogs /\ TablesHold
  BY DEF QInv, IInv, TypeInv
<1>2. /\ ~Created(r) /\ UNCHANGED <<decisions, executor, session>>
      /\ \A q \in Requests \ {r} : request'[q] = request[q]
      /\ request'[r].status = "pending" /\ request'[r].version = 0
      /\ request'[r].required = p.required
  BY <1>1 DEF Create, TypeOK
<1>3. p.required \in Nat /\ p.required >= 1 /\ p.required <= 2
  BY ConstantsOK DEF AtMostTwo, Policy
<1>4. decisions[r] = {} /\ executor[r] = NoUser
  BY <1>1, <1>2 DEF TablesHold, NothingBefore
<1>5. Created(r)'
  <2>1. request'[r] \in Row
    BY <1>1, <1>2, ConstantsOK DEF Create, Row, Policy, Statuses, Deadlines, TypeOK
  <2> QED
    BY <2>1, NoRowOK DEF Created
<1>6. Approvals(r)' = {} /\ Cardinality(Approvals(r)') = 0
  BY <1>2, <1>4, FS_EmptySet DEF Approvals
<1>7. RowHolds(r)'
  BY <1>2, <1>3, <1>4, <1>5, <1>6 DEF RowHolds, Granted, Open
<1>8. TablesHold'
  BY <1>1, <1>2, <1>7, OneRow
<1>9. ASSUME NEW t \in Sessions, session[t] # Idle
      PROVE  Known(t)'
  <2>1. Req(t) \in Requests /\ Req(t) # r
    BY <1>2, <1>9, BusyFacts DEF QInv
  <2>2. Approvals(Req(t))' = Approvals(Req(t)) /\ Req(t)' = Req(t)
    BY <1>2 DEF Approvals, Req
  <2>3. PICK q \in Requests : q = Req(t)
    BY <2>1
  <2>4. Approvals(q)' = Approvals(q) /\ request'[q] = request[q]
    BY <1>2, <2>1, <2>3 DEF Approvals
  <2> QED
    BY <1>2, <1>9, <2>3, <2>4, OtherKnows
<1>10. SessionsKnow' /\ LocksExclude'
  BY <1>2, <1>9
  DEF SessionsKnow, QInv, LocksExclude, HoldsLock, On, HoldsInsert
<1> QED
  BY <1>8, <1>10 DEF QInv

LEMMA DeadlineKeeps ==
    ASSUME QInv, IInv', NEW r \in Requests, DeadlinePasses(r)
    PROVE  QInv'
<1>1. TypeOK /\ TypeOK' /\ TablesHold /\ request[r] \in Row
  BY DEF QInv, IInv, TypeInv, TypeOK, DeadlinePasses, Created
<1>2. /\ Created(r) /\ UNCHANGED <<decisions, executor, session>>
      /\ \A q \in Requests \ {r} : request'[q] = request[q]
      /\ request'[r].status = request[r].status
      /\ request'[r].version = request[r].version
      /\ request'[r].required = request[r].required
      /\ request'[r].requester = request[r].requester
  BY <1>1 DEF DeadlinePasses, TypeOK, Row
<1>3. Created(r)'
  BY <1>1, <1>2, NoRowOK, OneColumn DEF DeadlinePasses, TypeOK, Created, Deadlines
<1>4. Approvals(r)' = Approvals(r) /\ Deciders(r)' = Deciders(r)
  BY <1>2 DEF Approvals, Deciders
<1>5. RowHolds(r)'
  <2>1. RowHolds(r)
    BY <1>1, TablesByRow
  <2> QED
    BY <1>2, <1>3, <1>4, <2>1 DEF RowHolds, Granted, Open
<1>6. TablesHold'
  BY <1>1, <1>2, <1>5, OneRow
<1>7. ASSUME NEW t \in Sessions, session[t] # Idle
      PROVE  Known(t)'
  <2>1. PICK q \in Requests : q = Req(t)
    BY <1>7, BusyFacts DEF QInv
  <2>2. /\ Approvals(q)' = Approvals(q)
        /\ request'[q].version = request[q].version
        /\ request'[q].required = request[q].required
        /\ request'[q].requester = request[q].requester
    BY <1>2 DEF Approvals
  <2> QED
    BY <1>2, <1>7, <2>1, <2>2, OtherKnows
<1>8. SessionsKnow' /\ LocksExclude'
  BY <1>2, <1>7
  DEF SessionsKnow, QInv, LocksExclude, HoldsLock, On, HoldsInsert
<1> QED
  BY <1>6, <1>8 DEF QInv

(* An UPDATE that passed its version test leaves the other sessions of the *)
(* request with a copy that is out of date.                                *)
LEMMA BumpKeeps ==
    ASSUME RowLocks, QInv, IInv', TablesHold',
           NEW s \in Sessions, session[s] # Idle,
           NEW r \in Requests, r = Req(s), MayUpdate(s, r),
           \A q \in Requests \ {r} :
               request'[q] = request[q] /\ decisions'[q] = decisions[q],
           request'[r].version = request[r].version + 1,
           request'[r].required = request[r].required,
           request'[r].requester = request[r].requester,
           Approvals(r) \subseteq Approvals(r)',
           \A t \in Sessions \ {s} : session'[t] = session[t],
           session'[s] # Idle =>
               /\ session'[s].call = session[s].call
               /\ ~session'[s].locked
               /\ ~HoldsInsert(s)'
               /\ Known(s)'
    PROVE  QInv'
<1>1. request[r] \in Row /\ request[r].version \in Nat
  BY BusyFacts, RowNumbers DEF QInv
<1>2. ASSUME NEW t \in Sessions \ {s}, session[t] # Idle
      PROVE  Known(t)'
  <2>1. PICK q \in Requests : q = Req(t)
    BY <1>2, BusyFacts DEF QInv
  <2>2. CASE q # r
    <3>1. Approvals(q)' = Approvals(q)
      BY <2>2 DEF Approvals
    <3> QED
      BY <1>2, <2>1, <2>2, <3>1, OtherKnows
  <2>3. CASE q = r
    <3>1. ~session[t].locked
      BY <1>2, <2>1, <2>3 DEF MayUpdate, MayInsert, HoldsLock, On, Req
    <3>2. session[t].view.version \in Nat
          /\ session[t].view.version <= request[r].version
      BY <1>2, <2>1, <2>3, BusyFacts, RowNumbers DEF QInv
    <3>3. ~Fresh(t)'
      <4>1. session[t].view.version # request[r].version + 1
        BY <1>1, <3>2
      <4>2. session'[t] = session[t] /\ session[t].call.req = r
        BY <2>1, <2>3 DEF Req
      <4> QED
        BY <4>1, <4>2 DEF Fresh
    <3>4. request[q].version # 0 => request'[q].version # 0
      BY <1>1, <2>3
    <3> QED
      BY <1>2, <2>1, <2>3, <3>1, <3>3, <3>4, OtherKnows
  <2> QED
    BY <2>2, <2>3
<1>3. SessionsKnow'
  BY <1>2 DEF SessionsKnow
<1>4. ASSUME NEW t \in Sessions \ {s}, NEW q \in Requests
      PROVE  /\ HoldsLock(s, q)' =>
                    ~HoldsLock(t, q) /\ ~(On(t, q) /\ HoldsInsert(t))
             /\ On(s, q)' /\ HoldsInsert(s)' => ~HoldsLock(t, q)
  BY DEF HoldsLock, On
<1>5. LocksExclude'
  BY <1>4, LocksStep DEF QInv
<1> QED
  BY <1>3, <1>5 DEF QInv

LEMMA ExpireKeeps ==
    ASSUME RowLocks, QInv, IInv', NEW s \in Sessions, Expire(s)
    PROVE  QInv'
<1> DEFINE mid == [session[s] EXCEPT !.pc = "reload"]
           gone == [mid EXCEPT !.locked = FALSE]
<1>1. session[s] # Idle /\ session[s].pc = "loaded"
  BY PcBusy DEF Expire
<1>2. PICK r \in Requests : r = Req(s)
  BY <1>1, BusyFacts DEF QInv
<1>3. PICK view \in Row : view = session[s].view
  BY <1>1, BusyFacts DEF QInv
<1>4. /\ TypeOK /\ session[s] \in Busy /\ request[r] \in Row /\ Known(s)
      /\ request[r].version \in Nat /\ RowHolds(r) /\ Created(r)
  BY <1>1, <1>2, BusyFacts, RowNumbers, TablesByRow DEF QInv, SessionsKnow
<1>5. /\ UNCHANGED <<decisions, executor>> /\ MayUpdate(s, r) /\ Fresh(s)
      /\ request' = [request EXCEPT ![r] = Lapsed(view)]
      /\ Open(view)
  BY <1>2, <1>3 DEF Expire, Overdue, Req
<1>6. /\ request'[r] = Lapsed(view)
      /\ \A q \in Requests \ {r} : request'[q] = request[q]
  BY <1>4, <1>5 DEF TypeOK
<1>7. /\ view.version = request[r].version /\ view.status = request[r].status
      /\ view.required = request[r].required
      /\ view.requester = request[r].requester
  BY <1>1, <1>2, <1>3, <1>5, FreshFacts DEF QInv, Fresh, SameButDeadline, Req
<1>8. /\ request'[r].status \in {"escalated", "expired"}
      /\ request'[r].version = request[r].version + 1
      /\ request'[r].required = request[r].required
      /\ request'[r].requester = request[r].requester
      /\ request'[r] \in Row
  <2>1. /\ Lapsed(view).required = view.required
        /\ Lapsed(view).requester = view.requester
    BY DEF Lapsed, Escalated, Expired, Row
  <2> QED
    BY <1>6, <1>7, <2>1, LapsedFields, RowUpdates
<1>9. Approvals(r)' = Approvals(r) /\ Deciders(r)' = Deciders(r)
  BY <1>5 DEF Approvals, Deciders
<1>10. RowHolds(r)'
  BY <1>4, <1>5, <1>7, <1>8, <1>9, NoRowOK
  DEF RowHolds, Granted, Open, Created
<1>11. TablesHold'
  BY <1>5, <1>6, <1>10, OneRow DEF QInv
<1>12. /\ \A t \in Sessions \ {s} : session'[t] = session[t]
       /\ session'[s] # Idle => session'[s] = gone
  BY <1>4 DEF Expire, Finish, TypeOK
<1>13. /\ gone.call = session[s].call /\ gone.view = view
       /\ gone.pc = "reload" /\ ~gone.locked
  <2>1. /\ mid \in Busy /\ mid.call = session[s].call /\ mid.view = view
        /\ mid.pc = "reload"
    BY <1>3, <1>4 DEF Busy
  <2> HIDE DEF mid
  <2> QED
    BY <2>1 DEF Busy
<1> HIDE DEF gone
<1>14. session'[s] # Idle => Req(s)' = r /\ ~HoldsInsert(s)' /\ Known(s)'
  <2> SUFFICES ASSUME session'[s] # Idle
               PROVE  Req(s)' = r /\ ~HoldsInsert(s)' /\ Known(s)'
    OBVIOUS
  <2>1. Req(s)' = r /\ ~HoldsInsert(s)'
    BY <1>2, <1>12, <1>13 DEF Req, HoldsInsert
  <2>2. CopyAgrees(s)'
    BY <1>7, <1>8, <1>12, <1>13, <2>1 DEF CopyAgrees
  <2>3. UnlockedIsKnown(s)'
    BY <1>4, <1>8, <1>12, <1>13, <2>1 DEF UnlockedIsKnown
  <2> QED
    BY <1>12, <1>13, <2>1, <2>2, <2>3
    DEF Known, LockedIsCurrent, ChecksHold, CountHolds
<1> QED
  BY <1>1, <1>2, <1>5, <1>6, <1>8, <1>9, <1>11, <1>12, <1>13, <1>14, BumpKeeps

LEMMA ExecutedFields ==
    ASSUME NEW row \in Row
    PROVE  LET new == [row EXCEPT !.status = "executed", !.version = @ + 1]
           IN  /\ new.status = "executed" /\ new.version = row.version + 1
               /\ new.required = row.required
               /\ new.requester = row.requester
               /\ new \in Row
<1>1. [row EXCEPT !.status = "executed", !.version = @ + 1] \in Row
  BY Stamped DEF Statuses
<1> QED BY <1>1 DEF Row

LEMMA ConsumeKeeps ==
    ASSUME RowLocks, QInv, IInv', NEW s \in Sessions, CommitConsume(s)
    PROVE  QInv'
<1>1. session[s] # Idle /\ session[s].pc = "committing"
      /\ session[s].call.op = "consume"
  BY PcBusy DEF CommitConsume
<1>2. PICK r \in Requests : r = Req(s)
  BY <1>1, BusyFacts DEF QInv
<1>3. PICK u \in Users : u = session[s].call.user
  BY <1>1, BusyFacts, CallFields DEF QInv
<1>4. /\ TypeOK /\ request[r] \in Row /\ Known(s)
      /\ request[r].version \in Nat /\ RowHolds(r) /\ Created(r)
  BY <1>1, <1>2, BusyFacts, RowNumbers, TablesByRow DEF QInv, SessionsKnow
<1>5. /\ UNCHANGED decisions /\ MayUpdate(s, r) /\ Fresh(s) /\ Finish(s)
      /\ request' = [request EXCEPT ![r].status = "executed",
                                    ![r].version = @ + 1]
      /\ executor' = [executor EXCEPT ![r] = u]
  BY <1>2, <1>3 DEF CommitConsume, Req
<1> DEFINE new == [request[r] EXCEPT !.status = "executed", !.version = @ + 1]
<1>6. /\ request'[r] = new /\ executor'[r] = u
      /\ \A q \in Requests \ {r} :
            request'[q] = request[q] /\ executor'[q] = executor[q]
  BY <1>4, <1>5 DEF TypeOK
<1>7. /\ new.status = "executed" /\ new.version = request[r].version + 1
      /\ new.required = request[r].required
      /\ new.requester = request[r].requester
      /\ new \in Row
  BY <1>4, ExecutedFields
<1> HIDE DEF new
<1>8. request[r].status = "approved"
  <2>1. session[s].view.status = "approved"
    BY <1>1 DEF QInv, IInv, ChecksRemembered
  <2> QED
    BY <1>1, <1>2, <1>5, <2>1, FreshFacts DEF QInv, SameButDeadline
<1>9. u \notin Deciders(r) /\ u # request[r].requester
  BY <1>1, <1>2, <1>3, <1>4, <1>5 DEF Known, ChecksHold, CopyAgrees
<1>10. Approvals(r)' = Approvals(r) /\ Deciders(r)' = Deciders(r)
  BY <1>5 DEF Approvals, Deciders
<1>11. RowHolds(r)'
  BY <1>4, <1>5, <1>6, <1>7, <1>8, <1>9, <1>10, NoRowOK
  DEF RowHolds, Granted, Open, Created
<1>12. TablesHold'
  BY <1>5, <1>6, <1>11, OneRow DEF QInv
<1>13. session'[s] = Idle /\ \A t \in Sessions \ {s} : session'[t] = session[t]
  BY <1>4, <1>5 DEF Finish, TypeOK
<1> QED
  BY <1>1, <1>2, <1>5, <1>6, <1>7, <1>10, <1>12, <1>13, BumpKeeps

(* What a decision does to its request.                                    *)
LEMMA DecisionRow ==
    ASSUME RowLocks, QInv, NEW s \in Sessions, CommitDecision(s),
           NEW r \in Requests, r = Req(s)
    PROVE  /\ \A q \in Requests \ {r} : request'[q] = request[q]
           /\ request'[r].required = request[r].required
           /\ request'[r].requester = request[r].requester
           /\ request'[r].status = NewStatus(s)
           /\ request'[r] \in Row
           /\ \/ /\ request' = request
                 /\ NewStatus(s) = session[s].view.status
              \/ /\ request'[r].version = request[r].version + 1
                 /\ MayUpdate(s, r)
<1>1. session[s] # Idle /\ request[r].status = session[s].view.status
  BY DecisionsAreFresh
<1>2. TypeOK /\ request[r] \in Row
  BY <1>1, BusyFacts DEF QInv
<1> DEFINE new == [request[r] EXCEPT !.status = NewStatus(s), !.version = @ + 1]
<1>3. CASE request' = [request EXCEPT ![r].status = NewStatus(s),
                                      ![r].version = @ + 1]
           /\ MayUpdate(s, r)
  <2>1. request'[r] = new /\ \A q \in Requests \ {r} : request'[q] = request[q]
    BY <1>2, <1>3 DEF TypeOK
  <2>2. NewStatus(s) \in Statuses
    BY DEF NewStatus, Statuses
  <2>3. new \in Row /\ new.status = NewStatus(s)
        /\ new.version = request[r].version + 1
    BY <1>2, <2>2, Stamped, StampedFields
  <2>4. new.required = request[r].required /\ new.requester = request[r].requester
    BY <1>2 DEF Row
  <2> HIDE DEF new
  <2> QED
    BY <1>3, <2>1, <2>3, <2>4
<1>4. CASE NewStatus(s) = session[s].view.status /\ UNCHANGED request
  BY <1>1, <1>2, <1>4
<1> QED
  BY <1>3, <1>4 DEF CommitDecision, Req

LEMMA DecisionTables ==
    ASSUME RowLocks, QInv, NEW s \in Sessions, CommitDecision(s),
           NEW r \in Requests, r = Req(s)
    PROVE  TablesHold'
<1> DEFINE new == NewDecision(s)
<1>1. /\ session[s] # Idle /\ Open(request[r]) /\ request[r].required <= 2
      /\ session[s].view.required = request[r].required
      /\ session[s].call.user # request[r].requester
      /\ session[s].call.user \notin Deciders(r)
      /\ session[s].tally = Cardinality(Approvals(r)) + Own(s)
  BY DecisionsAreFresh DEF Open
<1>2. /\ \A q \in Requests \ {r} : request'[q] = request[q]
      /\ request'[r].required = request[r].required
      /\ request'[r].requester = request[r].requester
      /\ request'[r].status = NewStatus(s)
      /\ request'[r] \in Row
  BY DecisionRow
<1>3. /\ \A q \in Requests \ {r} : decisions'[q] = decisions[q]
      /\ decisions'[r] = decisions[r] \cup {new}
      /\ Cardinality(decisions'[r]) = Cardinality(decisions[r]) + 1
      /\ new.id = Cardinality(decisions[r])
      /\ new.user = session[s].call.user
      /\ Own(s) = 1 => Approvals(r)' # {}
      /\ Cardinality(Approvals(r)') = session[s].tally
  BY <1>1, LogGrows
<1>4. /\ RowHolds(r) /\ Created(r) /\ request[r] \in Row
      /\ Cardinality(decisions[r]) \in Nat /\ session[s].tally \in Nat
      /\ executor' = executor
  BY <1>1, BusyFacts, TablesByRow, LogTypes DEF QInv, CommitDecision
<1>5. request[r].required \in Nat /\ request[r].required >= 1
  BY <1>4, RowNumbers
<1>6. executor[r] = NoUser
  BY <1>1, <1>4 DEF RowHolds, Open
<1> HIDE DEF new
<1>7. /\ NewStatus(s) = "approved" => session[s].tally >= request[r].required
      /\ NewStatus(s) \in {"pending", "escalated"} =>
            session[s].tally < request[r].required /\ Own(s) = 1
      /\ NewStatus(s) \in {"approved", "rejected", "pending"}
  <2>1. session[s].call.verdict \in {"approved", "rejected"}
    BY <1>1, BusyFacts, CallFields DEF QInv, CommitDecision, Verdicts
  <2> QED
    BY <1>1, <1>4, <1>5, <2>1 DEF NewStatus, Own
<1>8. /\ \A d \in decisions'[r] :
            d.id < Cardinality(decisions'[r]) /\ d.user # request'[r].requester
      /\ \A d, e \in decisions'[r] : d.user = e.user => d = e
  <2>1. \A d \in decisions[r] :
            d.id < Cardinality(decisions[r]) /\ d.user # request[r].requester
    BY <1>4 DEF RowHolds
  <2>2. \A d \in decisions[r] : d.id \in Nat
    BY DEF QInv, IInv, TypeInv, TypeOK, Decision
  <2>3. \A d \in decisions[r] : d.user # new.user
    BY <1>1, <1>3 DEF Deciders
  <2>4. \A d, e \in decisions[r] : d.user = e.user => d = e
    BY <1>4 DEF RowHolds
  <2>5. \A d \in decisions[r] : d.id < Cardinality(decisions[r]) + 1
    BY <1>4, <2>1, <2>2
  <2>6. new.id < Cardinality(decisions[r]) + 1
    BY <1>3, <1>4
  <2>7. new.user # request[r].requester
    BY <1>1, <1>3
  <2>8. \A d \in decisions'[r] :
            d.id < Cardinality(decisions'[r]) /\ d.user # request'[r].requester
    BY <1>2, <1>3, <2>1, <2>5, <2>6, <2>7
  <2> QED
    BY <1>3, <2>3, <2>4, <2>8
<1>9. RowHolds(r)'
  BY <1>2, <1>3, <1>4, <1>6, <1>7, <1>8, NoRowOK
  DEF RowHolds, Created, Granted, Open
<1> QED
  BY <1>2, <1>3, <1>4, <1>9, OneRow DEF QInv

(* An approval that is not the last changes nothing but the log; the other *)
(* sessions of the request wait for the lock or are out of date.           *)
LEMMA DecisionKeeps ==
    ASSUME RowLocks, QInv, IInv', NEW s \in Sessions, CommitDecision(s)
    PROVE  QInv'
<1>1. session[s] # Idle /\ Finish(s) /\ TypeOK
  BY DecisionsAreFresh DEF CommitDecision, QInv, IInv, TypeInv
<1>2. PICK r \in Requests : r = Req(s)
  BY <1>1, BusyFacts DEF QInv
<1>3. session'[s] = Idle /\ \A t \in Sessions \ {s} : session'[t] = session[t]
  BY <1>1 DEF Finish, TypeOK
<1>4. TablesHold'
  BY <1>2, DecisionTables
<1>5. /\ \A q \in Requests \ {r} :
            request'[q] = request[q] /\ decisions'[q] = decisions[q]
      /\ request'[r].required = request[r].required
      /\ request'[r].requester = request[r].requester
      /\ Approvals(r) \subseteq Approvals(r)'
  BY <1>2, DecisionRow, LogGrows
<1>6. CASE request'[r].version = request[r].version + 1 /\ MayUpdate(s, r)
  BY <1>1, <1>2, <1>3, <1>4, <1>5, <1>6, BumpKeeps
<1>7. CASE request' = request /\ NewStatus(s) = session[s].view.status
  <2>1. /\ session[s].locked /\ Approvals(r) = {}
        /\ request[r].status = "pending"
    BY <1>2, <1>7, DecisionsAreFresh
  <2>2. ASSUME NEW t \in Sessions \ {s}, session[t] # Idle, Req(t) = r
        PROVE  ~session[t].locked
               /\ (session[t].pc \in {"inserting", "committing"} => ~Fresh(t))
    <3>1. HoldsLock(s, r) /\ On(t, r)
      BY <1>1, <1>2, <2>1, <2>2 DEF HoldsLock, On, Req
    <3>2. ~HoldsLock(t, r) /\ ~HoldsInsert(t)
      BY <3>1 DEF QInv, LocksExclude
    <3>3. ~session[t].locked
      BY <3>1, <3>2 DEF HoldsLock
    <3>4. Known(t) /\ IInv /\ session[t].call \in Call
      BY <2>2, BusyFacts DEF QInv, SessionsKnow
    <3>5. ASSUME session[t].pc \in {"inserting", "committing"}, Fresh(t)
          PROVE  FALSE
      <4>1. session[t].view.status = "pending"
        BY <2>1, <2>2, <3>4, <3>5, FreshFacts DEF SameButDeadline
      <4>2. Approvals(r) # {}
        BY <2>2, <3>3, <3>4, <3>5, <4>1 DEF Known, UnlockedIsKnown
      <4> QED
        BY <2>1, <4>2
    <3> QED
      BY <3>3, <3>5
  <2>3. ASSUME NEW t \in Sessions \ {s}, session[t] # Idle
        PROVE  Known(t)'
    <3>1. PICK q \in Requests : q = Req(t)
      BY <2>3, BusyFacts DEF QInv
    <3>2. CASE q # r
      <4>1. Approvals(q)' = Approvals(q)
        BY <1>5, <3>2 DEF Approvals
      <4> QED
        BY <1>3, <1>5, <2>3, <3>1, <3>2, <4>1, OtherKnows
    <3>3. CASE q = r
      <4>1. Fresh(t)' <=> Fresh(t)
        BY <1>3, <1>7, <2>3 DEF Fresh
      <4> QED
        BY <1>3, <1>5, <1>7, <2>2, <2>3, <3>1, <3>3, <4>1, OtherKnows
    <3> QED
      BY <3>2, <3>3
  <2>4. SessionsKnow'
    BY <1>3, <2>3 DEF SessionsKnow
  <2>5. ASSUME NEW t \in Sessions \ {s}, NEW q \in Requests
        PROVE  /\ HoldsLock(s, q)' =>
                      ~HoldsLock(t, q) /\ ~(On(t, q) /\ HoldsInsert(t))
               /\ On(s, q)' /\ HoldsInsert(s)' => ~HoldsLock(t, q)
    BY <1>3 DEF HoldsLock, On
  <2>6. LocksExclude'
    BY <1>3, <2>5, LocksStep DEF QInv
  <2> QED
    BY <1>4, <2>4, <2>6 DEF QInv
<1> QED
  BY <1>2, <1>6, <1>7, DecisionRow

LEMMA QInvNext ==
    ASSUME RowLocks, AtMostTwo, QInv, [Next]_vars
    PROVE  QInv'
<1>1. IInv'
  BY IInvNext DEF QInv
<1>2. CASE UNCHANGED vars
  <2>1. TablesHold'
    BY <1>2, TablesStay DEF QInv, vars
  <2>2. ASSUME NEW t \in Sessions, session[t] # Idle
        PROVE  Known(t)'
    <3>1. PICK q \in Requests : q = Req(t)
      BY <2>2, BusyFacts DEF QInv
    <3>2. Approvals(q)' = Approvals(q) /\ UNCHANGED <<request, decisions, session>>
      BY <1>2 DEF Approvals, vars
    <3> QED
      BY <2>2, <3>1, <3>2, OtherKnows
  <2>3. SessionsKnow' /\ LocksExclude'
    BY <1>2, <2>2
    DEF vars, SessionsKnow, QInv, LocksExclude, HoldsLock, On, HoldsInsert
  <2> QED
    BY <1>1, <2>1, <2>3 DEF QInv
<1>3. ASSUME NEW s \in Sessions, Step(s) \/ Crash(s)
      PROVE  QInv'
  BY <1>1, <1>3, QuietSteps, ExpireKeeps, ConsumeKeeps, DecisionKeeps DEF Step
<1> QED
  BY <1>1, <1>2, <1>3, CreateKeeps, DeadlineKeeps, LoadKeeps DEF Next
------------------------------------------------------------------------------
(* Approvals and the people who gave them are as many.                     *)
LEMMA OneApprovalEach ==
    ASSUME TypeOK, FiniteLogs, NEW r \in Requests,
           \A d, e \in decisions[r] : d.user = e.user => d = e
    PROVE  /\ IsFiniteSet(Approvers(r))
           /\ Cardinality(Approvers(r)) = Cardinality(Approvals(r))
<1> DEFINE f == [d \in Approvals(r) |-> d.user]
<1>1. IsFiniteSet(Approvals(r))
  BY LogTypes
<1>2. Approvals(r) \subseteq decisions[r]
  BY DEF Approvals
<1>3. f \in Surjection(Approvals(r), Approvers(r))
  BY DEF Surjection, Approvers
<1>4. f \in Injection(Approvals(r), Approvers(r))
  BY <1>2, <1>3 DEF Injection, IsInjective, Surjection
<1> HIDE DEF f
<1> QED
  BY <1>1, <1>3, <1>4, FS_Surjection

ApprovalsArePeople ==
    \A r \in Requests : Cardinality(Approvers(r)) = Cardinality(Approvals(r))

LEMMA PeopleCount == QInv => ApprovalsArePeople
BY OneApprovalEach
DEF QInv, IInv, TypeInv, TablesHold, LogsAreSound, ApprovalsArePeople

LEMMA QuorumHolds == QInv => QuorumOfDistinctApprovers
<1> SUFFICES ASSUME QInv, NEW r \in Requests, Created(r), Granted(request[r])
             PROVE  Cardinality(Approvers(r) \ {request[r].requester})
                        >= request[r].required
  BY DEF QuorumOfDistinctApprovers
<1>1. TypeOK /\ FiniteLogs /\ RowHolds(r)
  BY TablesByRow DEF QInv, IInv, TypeInv
<1>2. Approvers(r) \ {request[r].requester} = Approvers(r)
  BY <1>1 DEF RowHolds, Approvers, Approvals
<1>3. Cardinality(Approvers(r)) = Cardinality(Approvals(r))
  BY PeopleCount DEF ApprovalsArePeople
<1> QED
  BY <1>1, <1>2, <1>3 DEF RowHolds

LEMMA QInvariance ==
    ASSUME RowLocks, AtMostTwo
    PROVE  Spec => []QInv
<1>1. QInv /\ [Next]_vars => QInv'
  BY QInvNext
<1> QED
  BY <1>1, QInvInit, PTL DEF Spec

(* A request counts as approved only when as many people as it requires,   *)
(* all different and none of them the requester, approved it.              *)
THEOREM QuorumIsReal ==
    ASSUME RowLocks, AtMostTwo
    PROVE  Spec => []QuorumOfDistinctApprovers
BY QInvariance, QuorumHolds, PTL

(* The approval that completes the quorum is noticed: no request stays     *)
(* open with as many approvals as it requires.                             *)
THEOREM NoApprovalIsLost ==
    ASSUME RowLocks, AtMostTwo
    PROVE  Spec => []NoLostApproval
BY QInvariance, PTL DEF QInv, TablesHold

(* Nobody executes what he asked for or decided on.                        *)
THEOREM DutiesAreSeparate ==
    ASSUME RowLocks, AtMostTwo
    PROVE  Spec => []SeparationOfDuties
BY QInvariance, PTL DEF QInv, TablesHold
------------------------------------------------------------------------------
(* The handlers implement ApprovalContract.                                *)

phase == [r \in Requests |-> Phase(request[r])]

requester ==
    [r \in Requests |-> IF Created(r) THEN request[r].requester ELSE NoUser]

quorum == [r \in Requests |-> IF Created(r) THEN request[r].required ELSE 0]

approvers == [r \in Requests |-> Approvers(r)]

(* The contract asks for no more approvals than there are users.           *)
EnoughUsers == Cardinality(Users) \in Nat /\ Cardinality(Users) >= 2

(* The contract counts as this module does.                                *)
LEMMA SameCount ==
    ASSUME NEW S
    PROVE  Contract!Cardinality(S) = Cardinality(S)
BY DEF Contract!Cardinality, Cardinality

LEMMA ContractInit == Init => Contract!Init
BY DEF Init, Contract!Init, Created, Approvers, Approvals, Phase

LEMMA ContractCreate ==
    ASSUME AtMostTwo, EnoughUsers, QInv, NEW r \in Requests, NEW u \in Askers,
           NEW tgt \in Targets, NEW p \in Policies, Create(r, u, tgt, p)
    PROVE  Contract!Next
<1>1. TypeOK
  BY DEF QInv, IInv, TypeInv
<1>2. /\ ~Created(r) /\ UNCHANGED <<decisions, executor, session>>
      /\ \A q \in Requests \ {r} : request'[q] = request[q]
      /\ request'[r].status = "pending" /\ request'[r].requester = u
      /\ request'[r].required = p.required
  BY <1>1 DEF Create, TypeOK
<1>3. p.required \in Nat /\ p.required >= 1 /\ p.required <= 2 /\ u \in Users
  BY ConstantsOK DEF AtMostTwo, Policy
<1>4. Created(r)'
  <2>1. request'[r] \in Row
    BY <1>1, <1>3, ConstantsOK
    DEF Create, Row, Policy, Statuses, Deadlines, TypeOK
  <2> QED
    BY <2>1, NoRowOK DEF Created
<1>5. phase[r] = "none" /\ phase[r]' = "open"
  BY <1>2, <1>4 DEF phase, Phase, Created, Open
<1>6. requester[r]' = u /\ quorum[r]' = p.required /\ approvers[r]' = approvers[r]
  BY <1>2, <1>4 DEF requester, quorum, approvers, Approvers, Approvals
<1>7. /\ phase' = [phase EXCEPT ![r] = "open"]
      /\ requester' = [requester EXCEPT ![r] = u]
      /\ quorum' = [quorum EXCEPT ![r] = p.required]
      /\ approvers' = approvers
  BY <1>2, <1>5, <1>6
  DEF phase, requester, quorum, approvers, Created, Approvers, Approvals, Phase
<1>8. Contract!Ask(r, u, p.required)
  BY <1>2, <1>3, <1>5, <1>7
  DEF Contract!Ask, phase, requester, quorum, approvers
<1>9. p.required \in 1..Cardinality(Users)
  BY <1>3 DEF EnoughUsers
<1> QED
  BY <1>3, <1>8, <1>9, SameCount DEF Contract!Next

(* What the contract sees of a request that was created.                   *)
LEMMA SeenRow ==
    ASSUME NEW r \in Requests, Created(r)
    PROVE  /\ requester[r] = request[r].requester
           /\ quorum[r] = request[r].required
           /\ approvers[r] = Approvers(r)
           /\ Open(request[r]) => phase[r] = "open"
           /\ ~Open(request[r]) => phase[r] = request[r].status
BY DEF requester, quorum, approvers, phase, Phase, Created

(* A session's step: the columns the contract sees change in one request.  *)
LEMMA SeenElsewhere ==
    ASSUME TypeOK, TypeOK', NEW r \in Requests, request[r] \in Row,
           \A q \in Requests \ {r} :
               request'[q] = request[q] /\ decisions'[q] = decisions[q],
           request'[r] \in Row,
           request'[r].required = request[r].required,
           request'[r].requester = request[r].requester
    PROVE  /\ requester' = requester
           /\ quorum' = quorum
           /\ decisions' = decisions => approvers' = approvers
           /\ Phase(request'[r]) = Phase(request[r]) => phase' = phase
           /\ phase' = [phase EXCEPT ![r] = Phase(request'[r])]
<1>1. request[r] # NoRow /\ request'[r] # NoRow
  BY NoRowOK
<1>2. requester' = requester /\ quorum' = quorum
  BY <1>1 DEF requester, quorum, Created
<1>3. decisions' = decisions => approvers' = approvers
  BY DEF approvers, Approvers, Approvals
<1>4. \A q \in Requests \ {r} : Phase(request'[q]) = Phase(request[q])
  OBVIOUS
<1>5. phase' = [phase EXCEPT ![r] = Phase(request'[r])]
  BY <1>4 DEF phase
<1>6. Phase(request'[r]) = Phase(request[r]) => phase' = phase
  BY <1>4 DEF phase
<1> QED
  BY <1>2, <1>3, <1>5, <1>6

LEMMA ContractExpire ==
    ASSUME RowLocks, QInv, QInv', NEW s \in Sessions, Expire(s)
    PROVE  Contract!Next \/ UNCHANGED <<phase, requester, quorum, approvers, executor>>
<1>1. session[s] # Idle
  BY PcBusy DEF Expire
<1>2. PICK r \in Requests : r = Req(s)
  BY <1>1, BusyFacts DEF QInv
<1>3. PICK view \in Row : view = session[s].view
  BY <1>1, BusyFacts DEF QInv
<1>4. TypeOK /\ TypeOK' /\ request[r] \in Row /\ Created(r)
  BY <1>1, <1>2, BusyFacts DEF QInv, IInv, TypeInv
<1>5. /\ UNCHANGED <<decisions, executor>> /\ Fresh(s) /\ Open(view)
      /\ request' = [request EXCEPT ![r] = Lapsed(view)]
  BY <1>2, <1>3 DEF Expire, Overdue, Req
<1>6. /\ request'[r] = Lapsed(view)
      /\ \A q \in Requests \ {r} : request'[q] = request[q]
  BY <1>4, <1>5 DEF TypeOK
<1>7. /\ view.status = request[r].status
      /\ view.required = request[r].required
      /\ view.requester = request[r].requester
  BY <1>1, <1>2, <1>3, <1>5, FreshFacts DEF QInv, SameButDeadline
<1>8. /\ request'[r].required = request[r].required
      /\ request'[r].requester = request[r].requester
      /\ request'[r].status \in {"escalated", "expired"}
      /\ request'[r] \in Row
  <2>1. /\ Lapsed(view).required = view.required
        /\ Lapsed(view).requester = view.requester
    BY DEF Lapsed, Escalated, Expired, Row
  <2> QED
    BY <1>6, <1>7, <2>1, LapsedFields, RowUpdates
<1>9. /\ UNCHANGED <<requester, quorum, approvers, executor>>
      /\ Phase(request'[r]) = Phase(request[r]) => phase' = phase
      /\ phase' = [phase EXCEPT ![r] = Phase(request'[r])]
  BY <1>4, <1>5, <1>6, <1>8, SeenElsewhere
<1>10. phase[r] = "open" /\ Phase(request[r]) = "open"
  BY <1>4, <1>5, <1>7 DEF phase, Phase, Open, Created
<1>11. CASE request'[r].status = "escalated"
  <2>1. Phase(request'[r]) = "open"
    BY <1>8, <1>11, NoRowOK DEF Phase, Open
  <2> QED
    BY <1>9, <1>10, <2>1
<1>12. CASE request'[r].status = "expired"
  <2>1. Phase(request'[r]) = "expired"
    BY <1>8, <1>12, NoRowOK DEF Phase, Open
  <2>2. Contract!Lapse(r)
    BY <1>9, <1>10, <2>1
    DEF Contract!Lapse, Contract!Close, phase, requester, quorum, approvers
  <2> QED
    BY <2>2 DEF Contract!Next
<1> QED
  BY <1>8, <1>11, <1>12

LEMMA ContractConsume ==
    ASSUME RowLocks, QInv, QInv', NEW s \in Sessions, CommitConsume(s)
    PROVE  Contract!Next
<1>1. session[s] # Idle /\ session[s].pc = "committing"
      /\ session[s].call.op = "consume"
  BY PcBusy DEF CommitConsume
<1>2. PICK r \in Requests : r = Req(s)
  BY <1>1, BusyFacts DEF QInv
<1>3. PICK u \in Users : u = session[s].call.user
  BY <1>1, BusyFacts, CallFields DEF QInv
<1>4. TypeOK /\ TypeOK' /\ request[r] \in Row /\ Known(s) /\ Created(r)
  BY <1>1, <1>2, BusyFacts DEF QInv, IInv, TypeInv, SessionsKnow
<1>5. /\ UNCHANGED decisions /\ Fresh(s)
      /\ request' = [request EXCEPT ![r].status = "executed",
                                    ![r].version = @ + 1]
      /\ executor' = [executor EXCEPT ![r] = u]
  BY <1>2, <1>3 DEF CommitConsume, Req
<1> DEFINE new == [request[r] EXCEPT !.status = "executed", !.version = @ + 1]
<1>6. /\ request'[r] = new
      /\ \A q \in Requests \ {r} : request'[q] = request[q]
  BY <1>4, <1>5 DEF TypeOK
<1>7. /\ new.status = "executed"
      /\ new.required = request[r].required
      /\ new.requester = request[r].requester
      /\ new \in Row
  BY <1>4, ExecutedFields
<1> HIDE DEF new
<1>8. request[r].status = "approved"
  <2>1. session[s].view.status = "approved"
    BY <1>1 DEF QInv, IInv, ChecksRemembered
  <2> QED
    BY <1>1, <1>2, <1>5, <2>1, FreshFacts DEF QInv, SameButDeadline
<1>9. u \notin Approvers(r) /\ u # request[r].requester
  <2>1. u \notin Deciders(r) /\ u # request[r].requester
    BY <1>1, <1>2, <1>3, <1>4, <1>5 DEF Known, ChecksHold, CopyAgrees
  <2> QED
    BY <2>1 DEF Deciders, Approvers, Approvals
<1>10. /\ UNCHANGED <<requester, quorum, approvers>>
       /\ phase' = [phase EXCEPT ![r] = Phase(request'[r])]
  BY <1>4, <1>5, <1>6, <1>7, SeenElsewhere
<1>11. Phase(request'[r]) = "executed" /\ phase[r] = "approved"
  BY <1>4, <1>6, <1>7, <1>8, NoRowOK DEF Phase, phase, Open, Created
<1>12. requester[r] = request[r].requester /\ approvers[r] = Approvers(r)
  BY <1>4, SeenRow
<1>13. Contract!Execute(r, u)
  BY <1>5, <1>9, <1>10, <1>11, <1>12
  DEF Contract!Execute, phase, requester, quorum, approvers
<1> QED
  BY <1>13 DEF Contract!Next

LEMMA ContractDecide ==
    ASSUME RowLocks, QInv, QInv', NEW s \in Sessions, CommitDecision(s)
    PROVE  Contract!Next
<1>1. session[s] # Idle /\ session[s].call.op = "decide"
  BY DecisionsAreFresh DEF CommitDecision
<1>2. PICK r \in Requests : r = Req(s)
  BY <1>1, BusyFacts DEF QInv
<1>3. PICK u \in Users : u = session[s].call.user
  BY <1>1, BusyFacts, CallFields DEF QInv
<1>4. /\ TypeOK /\ TypeOK' /\ request[r] \in Row /\ Created(r)
      /\ executor' = executor
      /\ session[s].call.verdict \in {"approved", "rejected"}
  BY <1>1, <1>2, BusyFacts, CallFields
  DEF QInv, IInv, TypeInv, Verdicts, CommitDecision
<1>5. /\ Open(request[r]) /\ session[s].view.required = request[r].required
      /\ u # request[r].requester /\ u \notin Deciders(r)
      /\ session[s].tally = Cardinality(Approvals(r)) + Own(s)
  BY <1>2, <1>3, DecisionsAreFresh DEF Open
<1>6. /\ \A q \in Requests \ {r} :
            request'[q] = request[q] /\ decisions'[q] = decisions[q]
      /\ request'[r].required = request[r].required
      /\ request'[r].requester = request[r].requester
      /\ request'[r].status = NewStatus(s)
      /\ request'[r] \in Row
      /\ decisions'[r] = decisions[r] \cup {NewDecision(s)}
      /\ Cardinality(Approvals(r)') = session[s].tally
  BY <1>2, <1>5, DecisionRow, LogGrows
<1>7. /\ UNCHANGED <<requester, quorum>>
      /\ phase' = [phase EXCEPT ![r] = Phase(request'[r])]
  BY <1>4, <1>6, SeenElsewhere
<1>8. /\ requester[r] = request[r].requester
      /\ quorum[r] = request[r].required
      /\ approvers[r] = Approvers(r) /\ phase[r] = "open"
  BY <1>4, <1>5, SeenRow
<1>9. u \notin approvers[r]
  BY <1>5, <1>8 DEF Deciders, Approvers, Approvals
<1>10. NewDecision(s).user = u /\ NewDecision(s).verdict = session[s].call.verdict
  BY <1>3 DEF NewDecision
<1>11. CASE session[s].call.verdict = "rejected"
  <2>1. Approvers(r)' = Approvers(r)
    BY <1>6, <1>10, <1>11 DEF Approvers, Approvals
  <2>2. approvers' = approvers
    BY <1>6, <2>1 DEF approvers, Approvers, Approvals
  <2>3. Phase(request'[r]) = "rejected"
    BY <1>6, <1>11, NoRowOK DEF Phase, Open, NewStatus
  <2>4. Contract!Reject(r, u)
    BY <1>4, <1>5, <1>7, <1>8, <1>9, <2>2, <2>3
    DEF Contract!Reject, Contract!MayJudge, Contract!Close, phase, requester,
        quorum, approvers
  <2> QED
    BY <2>4 DEF Contract!Next
<1>12. CASE session[s].call.verdict = "approved"
  <2>1. Approvers(r)' = Approvers(r) \cup {u}
    BY <1>6, <1>10, <1>12 DEF Approvers, Approvals
  <2>2. /\ approvers' = [approvers EXCEPT ![r] = approvers[r] \cup {u}]
        /\ approvers'[r] = Approvers(r)'
    BY <1>6, <1>8, <2>1 DEF approvers, Approvers, Approvals
  <2>3. Cardinality(Approvers(r)') = session[s].tally
    <3>1. ApprovalsArePeople'
      BY PeopleCount, PTL
    <3> QED
      BY <1>6, <3>1 DEF ApprovalsArePeople
  <2>4. Phase(request'[r]) =
           IF Contract!Cardinality(approvers'[r]) >= quorum[r]
           THEN "approved" ELSE "open"
    <3>1. NewStatus(s) = IF session[s].tally >= quorum[r]
                         THEN "approved" ELSE "pending"
      BY <1>5, <1>8, <1>12 DEF NewStatus
    <3>2. Contract!Cardinality(approvers'[r]) = session[s].tally
      BY <2>2, <2>3, SameCount
    <3> QED
      BY <1>6, <3>1, <3>2, NoRowOK DEF Phase, Open
  <2>5. Contract!MayJudge(r, u)
    BY <1>5, <1>8, <1>9 DEF Contract!MayJudge, phase, requester, approvers
  <2>6. Contract!Approve(r, u)
    BY <1>4, <1>7, <2>2, <2>4, <2>5
    DEF Contract!Approve, phase, requester, quorum, approvers
  <2> QED
    BY <2>6 DEF Contract!Next
<1> QED
  BY <1>4, <1>11, <1>12

LEMMA ContractNext ==
    ASSUME RowLocks, AtMostTwo, EnoughUsers, QInv, QInv', [Next]_vars
    PROVE  [Contract!Next]_(Contract!vars)
<1> SUFFICES Contract!Next \/ UNCHANGED <<phase, requester, quorum, approvers, executor>>
  BY DEF Contract!vars, phase, requester, quorum, approvers
<1>1. CASE UNCHANGED <<request, decisions, executor>>
  BY <1>1 DEF phase, requester, quorum, approvers, Created, Approvers, Approvals
<1>2. ASSUME NEW r \in Requests, DeadlinePasses(r)
      PROVE  UNCHANGED <<phase, requester, quorum, approvers, executor>>
  <2>1. TypeOK /\ TypeOK' /\ request[r] \in Row
    BY <1>2 DEF DeadlinePasses, Created, QInv, IInv, TypeInv, TypeOK
  <2>2. /\ UNCHANGED <<decisions, executor>>
        /\ \A q \in Requests \ {r} : request'[q] = request[q]
        /\ request'[r].status = request[r].status
        /\ request'[r].required = request[r].required
        /\ request'[r].requester = request[r].requester
        /\ request'[r] \in Row
    <3> DEFINE row == [request[r] EXCEPT !.deadline = "passed"]
    <3>1. /\ row \in Row /\ row.status = request[r].status
          /\ row.required = request[r].required
          /\ row.requester = request[r].requester
      BY <2>1, OneColumn DEF Row, Deadlines
    <3>2. /\ request'[r] = row
          /\ \A q \in Requests \ {r} : request'[q] = request[q]
      BY <1>2, <2>1 DEF DeadlinePasses, TypeOK
    <3> HIDE DEF row
    <3> QED
      BY <1>2, <3>1, <3>2 DEF DeadlinePasses
  <2>3. Phase(request'[r]) = Phase(request[r])
    BY <2>1, <2>2, NoRowOK DEF Phase, Open
  <2> QED
    BY <2>1, <2>2, <2>3, SeenElsewhere
<1>3. ASSUME NEW s \in Sessions, Step(s) \/ Crash(s)
      PROVE  Contract!Next \/ UNCHANGED <<phase, requester, quorum, approvers, executor>>
  <2>1. \/ Expire(s) \/ CommitDecision(s) \/ CommitConsume(s)
        \/ UNCHANGED <<request, decisions, executor>>
    BY <1>3 DEF Step, NotOverdue, Reload, CheckDecide, InsertDecision,
       CheckConsume, Refuse, Crash
  <2> QED
    BY <1>1, <2>1, ContractExpire, ContractConsume, ContractDecide
<1>4. CASE \E s \in Sessions, c \in Call : Load(s, c)
  BY <1>1, <1>4 DEF Load
<1> QED
  BY <1>1, <1>2, <1>3, <1>4, ContractCreate DEF Next, vars

(* Every handler, however it interleaves with others, expires or crashes,  *)
(* has the effect of the contract's steps: one approval, rejection, lapse  *)
(* or execution at a time, by the rules of ApprovalContract.               *)
THEOREM GateImplementsContract ==
    ASSUME RowLocks, AtMostTwo, EnoughUsers
    PROVE  Spec => ImplementsContract
<1>1. QInv /\ QInv' /\ [Next]_vars => [Contract!Next]_(Contract!vars)
  BY ContractNext
<1> QED
  BY <1>1, ContractInit, QInvariance, PTL DEF Spec, ImplementsContract, Contract!Spec
==============================================================================
