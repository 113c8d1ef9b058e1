---------------------------- MODULE GrantApproval ----------------------------
(***************************************************************************)
(* The approval gate of the grants domain:                                 *)
(* ngo_homesuite/grants/services/approval_impl.py over the tables          *)
(* GrantApprovalRequest and GrantApprovalDecision of grants/models.py.     *)
(*                                                                         *)
(* A handler runs in a database session of one web worker thread.  Between *)
(* its statements the handlers of other workers run, so a handler is       *)
(* modelled statement by statement: the locking read of the request, the   *)
(* commit of an expiry, the reload that follows that commit, the checks,   *)
(* the INSERT of the decision and the count, the final commit.             *)
(*                                                                         *)
(* RowLocks tells the two databases the program runs on apart.  TRUE is    *)
(* PostgreSQL: SELECT ... FOR UPDATE locks the row until the next commit,  *)
(* and the INSERT of a decision takes a share lock on its request through  *)
(* the foreign key.  FALSE is SQLite: FOR UPDATE is ignored and one writer *)
(* at a time holds the database from its first write to its commit.  On    *)
(* both, version_id makes an UPDATE fail when the row moved on meanwhile.  *)
(***************************************************************************)
EXTENDS Naturals, FiniteSets

CONSTANTS
    Requests,    \* identities of approval requests
    Users,       \* people who request, decide and execute
    Askers,      \* those of them who open requests
    Roles,       \* role names
    RoleOf,      \* the role each user acts in
    OrgAdmin,    \* the role requests escalate to when none is configured
    Targets,     \* (action type, resource) pairs a request can be about
    Policies,    \* what _resolve_request_policy may return
    Sessions,    \* concurrent database sessions
    RowLocks,    \* does the database honour SELECT ... FOR UPDATE?
    NoRow,       \* a request that was not created
    NoRole,      \* escalation_role is NULL
    NoUser       \* nobody

Deadlines == {"none", "ahead", "passed"}   \* expires_at: NULL, > now, <= now
Verdicts  == {"approved", "rejected"}
Statuses  == {"pending", "escalated", "approved", "rejected", "expired",
              "executed"}

(* A policy always asks for one approval or more and names a role, and a   *)
(* deadline it sets is in the future.                                      *)
Policy == [required : Nat \ {0}, roles : (SUBSET Roles) \ {{}},
           escRole : Roles \cup {NoRole}, deadline : {"none", "ahead"}]

ASSUME ConstantsOK ==
    /\ RoleOf \in [Users -> Roles]
    /\ Askers \subseteq Users
    /\ OrgAdmin \in Roles
    /\ NoRole \notin Roles
    /\ NoUser \notin Users
    /\ Policies \subseteq Policy
    /\ RowLocks \in BOOLEAN

Row == [status    : Statuses,
        requester : Users,
        target    : Targets,
        required  : Nat \ {0},
        roles     : (SUBSET Roles) \ {{}},
        escRole   : Roles \cup {NoRole},
        deadline  : Deadlines,
        version   : Nat]

ASSUME NoRowOK == NoRow \notin Row

Decision == [id : Nat, user : Users, verdict : Verdicts]

Call ==
    [op : {"decide"}, req : Requests, user : Users, verdict : Verdicts]
        \cup [op : {"consume"}, req : Requests, user : Users, target : Targets]
        \cup [op : {"sweep"}, req : Requests]

VARIABLES
    request,    \* the rows of grant_approval_requests
    decisions,  \* the committed rows of grant_approval_decisions
    executor,   \* who executed each request, as the audit entry records it
    session     \* what each database session is doing

vars == <<request, decisions, executor, session>>

Idle == [pc |-> "idle"]

(* view is the request as the session's ORM object holds it, locked tells  *)
(* whether the session holds the row lock, tally is the number of          *)
(* approvals counted after the INSERT.                                     *)
Busy == [pc : {"loaded", "reload", "checking", "inserting", "committing"},
         call : Call, view : Row, locked : BOOLEAN, tally : Nat]

TypeOK ==
    /\ request \in [Requests -> Row \cup {NoRow}]
    /\ decisions \in [Requests -> SUBSET Decision]
    /\ executor \in [Requests -> Users \cup {NoUser}]
    /\ session \in [Sessions -> Busy \cup {Idle}]

Init ==
    /\ request = [r \in Requests |-> NoRow]
    /\ decisions = [r \in Requests |-> {}]
    /\ executor = [r \in Requests |-> NoUser]
    /\ session = [s \in Sessions |-> Idle]
------------------------------------------------------------------------------
(* Rows and locks.                                                         *)

Created(r) == request[r] # NoRow

Open(row) == row.status \in {"pending", "escalated"}

Deciders(r) == {d.user : d \in decisions[r]}

Approvals(r) == {d \in decisions[r] : d.verdict = "approved"}

On(s, r) == session[s] # Idle /\ session[s].call.req = r

HoldsLock(s, r) == On(s, r) /\ session[s].locked

(* An uncommitted decision: its INSERT share-locks the request it belongs  *)
(* to (PostgreSQL), or its transaction is the only writer (SQLite).        *)
HoldsInsert(s) ==
    /\ session[s] # Idle
    /\ session[s].pc = "committing"
    /\ session[s].call.op = "decide"

(* Mutant: the locking read is shared and waits for uncommitted inserts    *)
(* only, so that two readers upgrade against each other.                   *)
SharedLock(s, r) ==
    RowLocks => \A t \in Sessions \ {s} : ~(On(t, r) /\ HoldsInsert(t))

MayLock(s, r) ==
    RowLocks => \A t \in Sessions \ {s} :
                    ~HoldsLock(t, r) /\ ~(On(t, r) /\ HoldsInsert(t))

(* Mutant: writers are not serialized.                                     *)
InsertAtWill(s, r) == TRUE

MayInsert(s, r) ==
    \A t \in Sessions \ {s} :
        IF RowLocks THEN ~HoldsLock(t, r) ELSE ~HoldsInsert(t)

MayUpdate(s, r) == MayInsert(s, r)

(* Mutant: the mapper has no version_id column.                            *)
NoVersionTest(s) == TRUE

Fresh(s) == request[session[s].call.req].version = session[s].view.version

Finish(s) == session' = [session EXCEPT ![s] = Idle]
------------------------------------------------------------------------------
(* create_approval_request: one INSERT with the policy resolved at that    *)
(* moment.  An explicit argument overrides the chain configuration, which  *)
(* overrides the defaults; the policy is whatever came out.                *)
Create(r, u, tgt, p) ==
    /\ ~Created(r)
    /\ request' = [request EXCEPT ![r] =
          [status |-> "pending", requester |-> u, target |-> tgt,
           required |-> p.required, roles |-> p.roles, escRole |-> p.escRole,
           deadline |-> p.deadline, version |-> 0]]
    /\ UNCHANGED <<decisions, executor, session>>

(* Time passes the expires_at of a request.                                *)
DeadlinePasses(r) ==
    /\ Created(r)
    /\ request[r].deadline = "ahead"
    /\ request' = [request EXCEPT ![r].deadline = "passed"]
    /\ UNCHANGED <<decisions, executor, session>>

(* _get_approval_request: the locking read every handler starts with.      *)
Load(s, c) ==
    /\ session[s] = Idle
    /\ Created(c.req)
    /\ MayLock(s, c.req)
    /\ session' = [session EXCEPT ![s] =
          [pc |-> "loaded", call |-> c, view |-> request[c.req],
           locked |-> RowLocks, tally |-> 0]]
    /\ UNCHANGED <<request, decisions, executor>>

Escalated(row) ==
    [row EXCEPT !.status = "escalated", !.deadline = "ahead",
                !.escRole = IF @ = NoRole THEN OrgAdmin ELSE @,
                !.version = @ + 1]

(* Mutant: expiry writes a status no other handler knows.                  *)
ExpiredUnknown(row) == [row EXCEPT !.status = "lapsed", !.version = @ + 1]

Expired(row) == [row EXCEPT !.status = "expired", !.version = @ + 1]

Lapsed(row) == IF row.status = "pending" THEN Escalated(row) ELSE Expired(row)

(* Mutant: the test that the request is still open is dropped.             *)
OverdueEvenIfClosed(row) == row.deadline = "passed"

Overdue(row) == row.deadline = "passed" /\ Open(row)

(* _expire_if_needed.  The expiry is committed by itself, which ends the   *)
(* transaction and with it the row lock; the handler goes on.  A sweep     *)
(* (escalate_expired_requests, process_escalation_sla_queue) has no more   *)
(* to do with this request.                                                *)
NotOverdue(s) ==
    /\ session[s].pc = "loaded"
    /\ ~Overdue(session[s].view)
    /\ IF session[s].call.op = "sweep"
       THEN Finish(s)
       ELSE session' = [session EXCEPT ![s].pc = "checking"]
    /\ UNCHANGED <<request, decisions, executor>>

Expire(s) ==
    LET r == session[s].call.req IN
    /\ session[s].pc = "loaded"
    /\ Overdue(session[s].view)
    /\ MayUpdate(s, r)
    /\ Fresh(s)
    /\ request' = [request EXCEPT ![r] = Lapsed(session[s].view)]
    /\ IF session[s].call.op = "sweep"
       THEN Finish(s)
       ELSE session' = [session EXCEPT ![s].pc = "reload", ![s].locked = FALSE]
    /\ UNCHANGED <<decisions, executor>>

(* The commit expired the ORM object: the next attribute access reads the  *)
(* row again, this time without a lock.                                    *)
Reload(s) ==
    /\ session[s].pc = "reload"
    /\ session' = [session EXCEPT ![s].pc = "checking",
                                  ![s].view = request[session[s].call.req]]
    /\ UNCHANGED <<request, decisions, executor>>
------------------------------------------------------------------------------
(* decide_approval_request.                                                *)

AllowedRoles(row) ==
    row.roles \cup (IF row.status = "escalated" THEN {row.escRole} ELSE {})

(* Mutants: each drops one check of decide_approval_request.               *)
DecideTwice(s) ==
    LET row == session[s].view  u == session[s].call.user IN
    /\ Open(row)
    /\ u # row.requester
    /\ RoleOf[u] \in AllowedRoles(row)

DecideForOneself(s) ==
    LET row == session[s].view  u == session[s].call.user IN
    /\ Open(row)
    /\ RoleOf[u] \in AllowedRoles(row)
    /\ u \notin Deciders(session[s].call.req)

MayDecide(s) ==
    LET row == session[s].view  u == session[s].call.user IN
    /\ Open(row)
    /\ u # row.requester
    /\ RoleOf[u] \in AllowedRoles(row)
    /\ u \notin Deciders(session[s].call.req)

CheckDecide(s) ==
    /\ session[s].pc = "checking"
    /\ session[s].call.op = "decide"
    /\ MayDecide(s)
    /\ session' = [session EXCEPT ![s].pc = "inserting"]
    /\ UNCHANGED <<request, decisions, executor>>

(* Mutant: the count is taken before the flush and misses the own decision. *)
CountThenInsert(s) ==
    LET r == session[s].call.req IN
    /\ session[s].pc = "inserting"
    /\ MayInsert(s, r)
    /\ session' = [session EXCEPT ![s].pc = "committing",
                                  ![s].tally = Cardinality(Approvals(r))]
    /\ UNCHANGED <<request, decisions, executor>>

(* flush() sends the INSERT; the count that follows sees the committed     *)
(* decisions and the session's own.                                        *)
InsertDecision(s) ==
    LET r == session[s].call.req
        own == IF session[s].call.verdict = "approved" THEN 1 ELSE 0
    IN
    /\ session[s].pc = "inserting"
    /\ MayInsert(s, r)
    /\ session' = [session EXCEPT ![s].pc = "committing",
                                  ![s].tally = Cardinality(Approvals(r)) + own]
    /\ UNCHANGED <<request, decisions, executor>>

NewStatus(s) ==
    IF session[s].call.verdict = "rejected" THEN "rejected"
    ELSE IF session[s].tally >= session[s].view.required THEN "approved"
    ELSE "pending"

NewDecision(s) ==
    [id |-> Cardinality(decisions[session[s].call.req]),
     user |-> session[s].call.user, verdict |-> session[s].call.verdict]

(* The ORM sends an UPDATE, which tests version_id, only when the status   *)
(* it assigns differs from the one it loaded.                              *)
CommitDecision(s) ==
    LET r == session[s].call.req IN
    /\ session[s].pc = "committing"
    /\ session[s].call.op = "decide"
    /\ \/ /\ NewStatus(s) = session[s].view.status
          /\ UNCHANGED request
       \/ /\ NewStatus(s) # session[s].view.status
          /\ MayUpdate(s, r)
          /\ Fresh(s)
          /\ request' = [request EXCEPT ![r].status = NewStatus(s),
                                        ![r].version = @ + 1]
    /\ decisions' = [decisions EXCEPT ![r] = @ \cup {NewDecision(s)}]
    /\ Finish(s)
    /\ UNCHANGED executor
------------------------------------------------------------------------------
(* consume_approved_request.                                               *)

(* Mutant: an approver may execute.                                        *)
ApproverExecutes(s) ==
    LET row == session[s].view  c == session[s].call IN
    /\ row.status = "approved"
    /\ row.target = c.target
    /\ c.user # row.requester

MayConsume(s) ==
    LET row == session[s].view  c == session[s].call IN
    /\ row.status = "approved"
    /\ row.target = c.target
    /\ c.user # row.requester
    /\ c.user \notin Deciders(c.req)

CheckConsume(s) ==
    /\ session[s].pc = "checking"
    /\ session[s].call.op = "consume"
    /\ MayConsume(s)
    /\ session' = [session EXCEPT ![s].pc = "committing"]
    /\ UNCHANGED <<request, decisions, executor>>

CommitConsume(s) ==
    LET r == session[s].call.req IN
    /\ session[s].pc = "committing"
    /\ session[s].call.op = "consume"
    /\ MayUpdate(s, r)
    /\ Fresh(s)
    /\ request' = [request EXCEPT ![r].status = "executed",
                                  ![r].version = @ + 1]
    /\ executor' = [executor EXCEPT ![r] = session[s].call.user]
    /\ Finish(s)
    /\ UNCHANGED decisions

(* A failed check raises GrantApprovalError, a stale version_id raises     *)
(* StaleDataError: the transaction is rolled back, and what the handler    *)
(* committed before, its expiry, stays.                                    *)
Stale(s) ==
    /\ ~Fresh(s)
    /\ MayUpdate(s, session[s].call.req)
    /\ \/ session[s].pc = "loaded" /\ Overdue(session[s].view)
       \/ /\ session[s].pc = "committing"
          /\ session[s].call.op = "decide" =>
                NewStatus(s) # session[s].view.status

Refuse(s) ==
    /\ \/ /\ session[s].pc = "checking"
          /\ IF session[s].call.op = "decide" THEN ~MayDecide(s)
                                              ELSE ~MayConsume(s)
       \/ session[s] # Idle /\ Stale(s)
    /\ Finish(s)
    /\ UNCHANGED <<request, decisions, executor>>

(* The worker is killed or loses its connection.                           *)
Crash(s) ==
    /\ session[s] # Idle
    /\ Finish(s)
    /\ UNCHANGED <<request, decisions, executor>>

Step(s) ==
    \/ NotOverdue(s) \/ Expire(s) \/ Reload(s)
    \/ CheckDecide(s) \/ InsertDecision(s) \/ CommitDecision(s)
    \/ CheckConsume(s) \/ CommitConsume(s)
    \/ Refuse(s)

Next ==
    \/ \E r \in Requests, u \in Askers, tgt \in Targets, p \in Policies :
          Create(r, u, tgt, p)
    \/ \E r \in Requests : DeadlinePasses(r)
    \/ \E s \in Sessions :
          \/ \E c \in Call : Load(s, c)
          \/ Step(s)
          \/ Crash(s)

Spec == Init /\ [][Next]_vars

(* A worker thread runs its handler to the end, and the database grants    *)
(* row locks in the order they were asked for, also to a statement that    *)
(* then finds its version stale.                                           *)
Fairness ==
    \A s \in Sessions :
        /\ WF_vars(Step(s))
        /\ SF_vars(Expire(s) \/ InsertDecision(s)
                     \/ CommitDecision(s) \/ CommitConsume(s) \/ Refuse(s))

FairSpec == Spec /\ Fairness
------------------------------------------------------------------------------
(* Properties.                                                             *)

Granted(row) == row.status \in {"approved", "executed"}

Approvers(r) == {d.user : d \in Approvals(r)}

(* A request counts as approved only when as many different people as it   *)
(* requires, the requester not among them, approved it: no two requests of *)
(* one approver, however they interleave, count twice towards the quorum.  *)
QuorumOfDistinctApprovers ==
    \A r \in Requests : Created(r) /\ Granted(request[r]) =>
        Cardinality(Approvers(r) \ {request[r].requester})
            >= request[r].required

(* Once enough people have approved and nobody rejected, the request does  *)
(* not stay open: an approval is never lost between the count of one       *)
(* session and the count of another.                                       *)
NoLostApproval ==
    \A r \in Requests : Created(r) /\ Open(request[r]) =>
        Cardinality(Approvals(r)) < request[r].required

(* Separation of duties: who executed neither requested nor decided.       *)
SeparationOfDuties ==
    \A r \in Requests : executor[r] # NoUser =>
        executor[r] \notin Deciders(r) \cup {request[r].requester}

(* One rejection decides: a request some approver rejected is rejected,    *)
(* whatever other sessions were about to commit.                           *)
RejectionIsFinal ==
    \A r \in Requests :
        (\E d \in decisions[r] : d.verdict = "rejected")
            <=> Created(r) /\ request[r].status = "rejected"

(* The version test is sound: a session whose object still carries the     *)
(* current version_id holds the current row, the deadline apart (time is   *)
(* not a write), so an UPDATE that passes it overwrites nothing unseen.    *)
SameButDeadline(row, view) ==
    /\ row.status = view.status
    /\ row.requester = view.requester
    /\ row.target = view.target
    /\ row.required = view.required
    /\ row.roles = view.roles
    /\ row.escRole = view.escRole

SnapshotsAreCurrent ==
    \A s \in Sessions : session[s] # Idle =>
        LET row == request[session[s].call.req]  view == session[s].view IN
        /\ view.version <= row.version
        /\ view.version = row.version => SameButDeadline(row, view)

(* What is closed stays closed and what is approved can only be executed.  *)
ClosedStaysClosed ==
    [][\A r \in Requests : Created(r) =>
          /\ request[r].status \in {"rejected", "expired", "executed"} =>
                request'[r].status = request[r].status
          /\ request[r].status = "approved" =>
                request'[r].status \in {"approved", "executed"}]_vars

(* Locks are never waited for in a circle: every handler that got as far   *)
(* as loading its request ends, though it reads without a lock after an    *)
(* expiry and may then have to wait for the lock of another handler.       *)
HandlersFinish ==
    \A s \in Sessions : session[s] # Idle ~> session[s] = Idle

(* The handlers implement the contract: each committed decision, expiry    *)
(* or execution is one step of it and everything else leaves it alone.     *)
Phase(row) ==
    CASE row = NoRow -> "none" [] row # NoRow /\ Open(row) -> "open"
      [] OTHER -> row.status

Contract == INSTANCE ApprovalContract WITH
    phase     <- [r \in Requests |-> Phase(request[r])],
    requester <- [r \in Requests |->
                    IF Created(r) THEN request[r].requester ELSE NoUser],
    quorum    <- [r \in Requests |->
                    IF Created(r) THEN request[r].required ELSE 0],
    approvers <- [r \in Requests |-> Approvers(r)]

ImplementsContract == Contract!Spec
==============================================================================
