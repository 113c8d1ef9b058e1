----------------------------- MODULE GrantBudget -----------------------------
(***************************************************************************)
(* The money of one grant: its status and award, its disbursements, its    *)
(* budget lines and the expenses allocated to them.  The handlers are      *)
(* those of ngo_homesuite/grants/services/lifecycle.py (service), of       *)
(* web/admin_grants_routes.py (admin_...) and of                           *)
(* web/budget_transactions_routes.py (pledge and confirm, the code's       *)
(* "commit" and "reconcile").                                              *)
(*                                                                         *)
(* The database is PostgreSQL at READ COMMITTED.  A handler reads (Load),  *)
(* checks what it read and the totals (Pass), and writes (the Commit       *)
(* actions); other workers' transactions commit in between unless a row    *)
(* lock keeps them out.  SELECT ... FOR UPDATE conflicts with every other  *)
(* lock on the row, the share lock of an INSERT that refers to it          *)
(* included; budget lines also carry a version_id.                         *)
(***************************************************************************)
EXTENDS Naturals, FiniteSets, FiniteSetsExt

CONSTANTS
    Lines,          \* identities of budget lines, never reused
    Categories,     \* budget categories
    Expenses,       \* expenses of the organization
    Cost,           \* the amount of each expense
    Amounts,        \* amounts a caller may name
    Sessions,       \* database sessions
    Deployments,    \* how the program is used: see Deployment
    NoAward,        \* amount_awarded is NULL
    NoLine,         \* a budget line that was not created
    Gone,           \* a budget line that was deleted
    NoAlloc         \* an expense that is not allocated

Statuses == {"prospect", "in_progress", "submitted", "awarded", "active",
             "reporting", "declined", "closed"}

LineOps == {"update", "delete", "admin_update", "admin_delete", "pledge",
            "confirm"}
AllOps == LineOps \cup {"create", "admin_create", "allocate", "resize",
                        "release", "disburse", "advance", "edit"}

Grant == [status : Statuses, awarded : Nat \cup {NoAward}]

Line == [category : Categories, allocated : Nat, committed : Nat,
         reconciled : Nat, version : Nat]

Alloc == [line : Lines, amount : Nat]

(* workers says how many sessions are open at once, ops the handlers in    *)
(* use, statuses those a caller may name, grants what the grant may look   *)
(* like at first.  The rest are bounds: a line updated maxVersion times is *)
(* not touched again, no more than maxLines are created, no disbursement   *)
(* beyond maxDisbursed is tried.                                           *)
Deployment ==
    [workers : Nat \ {0}, ops : SUBSET AllOps,
     statuses : SUBSET Statuses, grants : SUBSET Grant,
     maxLines : Nat, maxVersion : Nat, maxDisbursed : Nat]

ASSUME ConstantsOK ==
    /\ Cost \in [Expenses -> Nat \ {0}]
    /\ Amounts \subseteq Nat \ {0}
    /\ NoAward \notin Nat
    /\ Deployments \subseteq Deployment

Call ==
    [op : {"disburse"}, amount : Amounts]
        \cup [op : {"create", "admin_create"}, category : Categories,
              amount : Amounts]
        \cup [op : {"update", "admin_update", "pledge", "confirm"},
              line : Lines, amount : Amounts]
        \cup [op : {"delete", "admin_delete"}, line : Lines]
        \cup [op : {"allocate"}, expense : Expenses, category : Categories]
        \cup [op : {"resize"}, expense : Expenses, amount : Amounts]
        \cup [op : {"release"}, expense : Expenses]
        \cup [op : {"advance", "edit"}, status : Statuses,
              award : Amounts \cup {NoAward}]

(* No row is a null, and rows of different tables have different names.    *)
ASSUME NullsApart ==
    /\ {NoLine, Gone} \cap Line = {} /\ NoLine # Gone /\ NoLine \notin Lines
    /\ NoAlloc \notin Alloc

ASSUME LocksApart ==
    /\ "grant" \notin Lines \cup Expenses
    /\ Lines \cap Expenses = {}

VARIABLES
    deployment, \* how the program is used; never changes
    grant,      \* the row of grants
    disbursed,  \* the sum of grant_disbursements
    lines,      \* the rows of grant_budget_lines
    alloc,      \* the rows of grant_expense_allocations, by expense
    ledger,     \* the sums of grant_budget_transactions, by line and type
    session     \* what each database session is doing

vars == <<deployment, grant, disbursed, lines, alloc, ledger, session>>

money == <<grant, disbursed, lines, alloc, ledger>>

Idle == [pc |-> "idle", holds |-> {}]

Lock == {"grant"} \cup Lines \cup Expenses

(* row is the budget line the session works on, view the grant and the     *)
(* line as its ORM objects hold them, holds its FOR UPDATE locks.          *)
Busy == [pc : {"loaded", "locked", "ready", "flushed"}, call : Call,
         holds : SUBSET Lock, row : Lines \cup {NoLine},
         view : [grant : Grant, line : Line \cup {NoLine}]]

TypeOK ==
    /\ deployment \in Deployments
    /\ grant \in Grant
    /\ disbursed \in Nat
    /\ lines \in [Lines -> Line \cup {NoLine, Gone}]
    /\ alloc \in [Expenses -> Alloc \cup {NoAlloc}]
    /\ ledger \in [Lines -> [commit : Nat, reconcile : Nat]]
    /\ session \in [Sessions -> Busy \cup {Idle}]

Init ==
    /\ deployment \in Deployments
    /\ grant \in deployment.grants
    /\ disbursed = 0
    /\ lines = [l \in Lines |-> NoLine]
    /\ alloc = [e \in Expenses |-> NoAlloc]
    /\ ledger = [l \in Lines |-> [commit |-> 0, reconcile |-> 0]]
    /\ session = [s \in Sessions |-> Idle]
------------------------------------------------------------------------------
(* Totals, as the SELECT coalesce(sum(...), 0) queries compute them.       *)

Live == {l \in Lines : lines[l] \notin {NoLine, Gone}}

Allocated == {e \in Expenses : alloc[e] # NoAlloc}

On(l) == {e \in Allocated : alloc[e].line = l}

SpentOn(E) == MapThenSumSet(LAMBDA e : alloc[e].amount, E)

BudgetOf(L) == MapThenSumSet(LAMBDA l : lines[l].allocated, L)

Within(total, award) == award # NoAward => total <= award

(* amount_awarded is neither NULL nor zero.                                *)
HasAward(g) == g.awarded # NoAward /\ g.awarded > 0

Settled(g) ==
    HasAward(g) =>
        IF Live # {} THEN BudgetOf(Live) <= SpentOn(Allocated)
                     ELSE disbursed >= g.awarded

Transitions ==
    ({"prospect"} \X {"in_progress", "submitted", "awarded", "declined", "closed"})
        \cup ({"in_progress"} \X {"submitted", "awarded", "declined", "closed"})
        \cup ({"submitted"} \X {"awarded", "declined", "closed"})
        \cup ({"awarded"} \X {"active", "reporting", "closed"})
        \cup ({"active"} \X {"reporting", "closed"})
        \cup ({"reporting"} \X {"closed"})
------------------------------------------------------------------------------
(* Locks.                                                                  *)

Free(s, locks) == \A t \in Sessions \ {s} : session[t].holds \cap locks = {}

(* Mutants: allocation does not lock the grant; delete_budget_line does    *)
(* not lock the line.                                                      *)
GrantNotLocked(c) ==
    CASE c.op \in {"update", "delete"}  -> {c.line}
      [] c.op \in {"resize", "release"} -> {c.expense}
      [] OTHER                          -> {}

LineNotLocked(c) ==
    CASE c.op = "allocate"              -> {"grant"}
      [] c.op = "update"                -> {c.line}
      [] c.op \in {"resize", "release"} -> {c.expense}
      [] OTHER                          -> {}

(* The locking reads: allocation of an expense starts with the grant, the  *)
(* service's line handlers with the line, the others lock nothing.         *)
FirstLock(c) ==
    CASE c.op = "allocate"             -> {"grant"}
      [] c.op \in {"update", "delete"} -> {c.line}
      [] c.op \in {"resize", "release"} -> {c.expense}
      [] OTHER                         -> {}

(* Mutant: update_budget_line locks the grant after the line.              *)
GrantAfterLine(s) ==
    LET c == session[s].call IN
    CASE session[s].pc = "loaded" /\ c.op = "allocate" ->
            {k \in Live : lines[k].category = c.category}
      [] session[s].pc = "ready" /\ c.op = "update" -> {"grant"}
      [] OTHER -> {}

(* The rows the next statement of a session has to lock or to share: the   *)
(* row it updates or deletes, or the parent of the row it inserts.         *)
Needs(s) ==
    LET c == session[s].call  l == session[s].row IN
    CASE session[s].pc = "loaded" /\ c.op = "allocate" ->
            {k \in Live : lines[k].category = c.category}
      [] session[s].pc = "ready" /\ c.op \in {"update", "admin_update", "pledge", "confirm"} ->
            {l}
      [] session[s].pc = "ready" /\ c.op \in {"delete", "admin_delete"} ->
            {l} \cup On(l)
      [] session[s].pc = "ready" /\ c.op \in {"disburse", "create", "admin_create", "advance", "edit"} ->
            {"grant"}
      [] session[s].pc = "flushed" -> {"grant"}
      [] OTHER -> {}

At(s, pc, ops) ==
    /\ session[s].pc = pc
    /\ session[s].call.op \in ops
    /\ Free(s, Needs(s))

Finish(s) == session' = [session EXCEPT ![s] = Idle]

(* Mutant: GrantBudgetLine has no version_id_col.                          *)
NoVersionTest(s) == session[s].row \in Live

(* The version_id test of an UPDATE or DELETE.                             *)
Fresh(s) ==
    /\ session[s].row \in Live
    /\ lines[session[s].row].version = session[s].view.line.version
------------------------------------------------------------------------------
(* Reading.                                                                *)

RowOf(c) ==
    CASE c.op \in LineOps  -> c.line
      [] c.op = "resize"   -> alloc[c.expense].line
      [] OTHER             -> NoLine

Found(c) ==
    /\ c.op \in LineOps => c.line \in Live
    /\ c.op \in {"resize", "release"} => c.expense \in Allocated

(* The bounds of the model.                                                *)
InBounds(c) ==
    /\ c.op \in LineOps => lines[c.line].version < deployment.maxVersion
    /\ c.op = "disburse" => disbursed + c.amount <= deployment.maxDisbursed

(* What is asked of the program in this deployment.                        *)
Asked(c) ==
    /\ c.op \in deployment.ops
    /\ c.op \in {"advance", "edit"} => c.status \in deployment.statuses
    /\ Cardinality({s \in Sessions : session[s] # Idle}) < deployment.workers

Load(s, c) ==
    /\ session[s] = Idle
    /\ Asked(c)
    /\ Found(c) /\ InBounds(c)
    /\ Free(s, FirstLock(c))
    /\ session' = [session EXCEPT ![s] =
          [pc |-> "loaded", call |-> c, holds |-> FirstLock(c), row |-> RowOf(c),
           view |-> [grant |-> grant,
                     line |-> IF RowOf(c) = NoLine THEN NoLine
                                                   ELSE lines[RowOf(c)]]]]
    /\ UNCHANGED money

(* The session once it has read line l, with the locks it then holds.      *)
AtLine(q, l, holds) ==
    [pc |-> "locked", call |-> q.call, holds |-> holds, row |-> l,
     view |-> [grant |-> q.view.grant, line |-> lines[l]]]

(* Mutant: the line is read without FOR UPDATE.                            *)
ReadLine(s) ==
    LET q == session[s] IN
    /\ At(s, "loaded", {"allocate"})
    /\ \E l \in Needs(s) :
          session' = [session EXCEPT ![s] = AtLine(q, l, q.holds)]
    /\ UNCHANGED money

(* allocate_expense_to_budget_line locks the line of the category second.  *)
LockLine(s) ==
    LET q == session[s] IN
    /\ At(s, "loaded", {"allocate"})
    /\ \E l \in Needs(s) :
          session' = [session EXCEPT ![s] = AtLine(q, l, q.holds \cup {l})]
    /\ UNCHANGED money
------------------------------------------------------------------------------
(* The checks of each handler, on its view and on the totals of the moment. *)

MayDisburse(v, c) ==
    /\ v.grant.status \in {"awarded", "active", "reporting"}
    /\ Within(disbursed + c.amount, v.grant.awarded)

MayCreate(v, c) ==
    /\ \A l \in Live : lines[l].category # c.category
    /\ IF c.op = "admin_create" /\ v.grant.awarded = NoAward
       THEN FALSE
       ELSE Within(BudgetOf(Live) + c.amount, v.grant.awarded)

(* Mutant: the new amount is compared with the award on its own.           *)
UpdateAlone(c) ==
    /\ SpentOn(On(c.line)) <= c.amount
    /\ Within(c.amount, grant.awarded)

MayUpdate(c) ==
    /\ SpentOn(On(c.line)) <= c.amount
    /\ Within(BudgetOf(Live \ {c.line}) + c.amount, grant.awarded)

MayAllocate(v, c, l) ==
    /\ alloc[c.expense] = NoAlloc
    /\ SpentOn(On(l)) + Cost[c.expense] <= v.line.allocated
    /\ Within(SpentOn(Allocated) + Cost[c.expense], v.grant.awarded)

MayResize(c, l) ==
    /\ c.amount <= Cost[c.expense]
    /\ SpentOn(On(l) \ {c.expense}) + c.amount <= lines[l].allocated
    /\ Within(SpentOn(Allocated \ {c.expense}) + c.amount, grant.awarded)

MayAdvance(v, c) ==
    /\ <<v.grant.status, c.status>> \in Transitions
    /\ c.status \in {"awarded", "active"} => c.award # NoAward \/ HasAward(v.grant)
    /\ c.status = "closed" => Settled(v.grant)

Edited(g, c) ==
    [status |-> c.status,
     awarded |-> IF c.award = NoAward THEN g.awarded ELSE c.award]

MayEdit(v, c) ==
    LET new == Edited(v.grant, c) IN
    new.status = "closed" /\ HasAward(new) => disbursed >= new.awarded

May(s) ==
    LET v == session[s].view  c == session[s].call  l == session[s].row IN
    CASE c.op = "disburse"                   -> MayDisburse(v, c)
      [] c.op \in {"create", "admin_create"} -> MayCreate(v, c)
      [] c.op = "update"                     -> MayUpdate(c)
      [] c.op \in {"delete", "admin_delete"} -> On(l) = {}
      [] c.op = "allocate"                   -> MayAllocate(v, c, l)
      [] c.op = "resize"                     -> MayResize(c, l)
      [] c.op = "pledge"  -> v.line.committed + c.amount <= v.line.allocated
      [] c.op = "confirm" -> v.line.reconciled + c.amount <= v.line.allocated
      [] c.op = "advance"                    -> MayAdvance(v, c)
      [] c.op = "edit"                       -> MayEdit(v, c)
      [] c.op \in {"admin_update", "release"} -> TRUE

Checking(s) ==
    session[s].pc = (IF session[s].call.op = "allocate" THEN "locked" ELSE "loaded")

Pass(s) ==
    /\ session[s] # Idle
    /\ Checking(s)
    /\ May(s)
    /\ session' = [session EXCEPT ![s].pc = "ready"]
    /\ UNCHANGED money
------------------------------------------------------------------------------
(* Writing.                                                                *)

CommitDisburse(s) ==
    /\ At(s, "ready", {"disburse"})
    /\ disbursed' = disbursed + session[s].call.amount
    /\ Finish(s)
    /\ UNCHANGED <<grant, lines, alloc, ledger>>

(* uq_grant_budget_line_grant_category.                                    *)
Duplicate(c) == \E l \in Live : lines[l].category = c.category

CommitCreate(s) ==
    LET c == session[s].call IN
    /\ At(s, "ready", {"create", "admin_create"})
    /\ ~Duplicate(c)
    /\ Cardinality({l \in Lines : lines[l] # NoLine}) < deployment.maxLines
    /\ \E l \in Lines :
          /\ lines[l] = NoLine
          /\ lines' = [lines EXCEPT ![l] =
                [category |-> c.category, allocated |-> c.amount,
                 committed |-> 0, reconciled |-> 0, version |-> 0]]
    /\ Finish(s)
    /\ UNCHANGED <<grant, disbursed, alloc, ledger>>

(* An amount that equals the loaded one sends no UPDATE.                   *)
CommitUpdate(s) ==
    LET c == session[s].call  l == c.line IN
    /\ At(s, "ready", {"update", "admin_update"})
    /\ \/ c.amount = session[s].view.line.allocated /\ UNCHANGED lines
       \/ /\ c.amount # session[s].view.line.allocated
          /\ Fresh(s)
          /\ lines' = [lines EXCEPT ![l].allocated = c.amount,
                                    ![l].version = @ + 1]
    /\ Finish(s)
    /\ UNCHANGED <<grant, disbursed, alloc, ledger>>

(* The delete-orphan cascade takes the allocations and the transactions    *)
(* that are there when session.delete loads them.                          *)
CommitDelete(s) ==
    LET l == session[s].row IN
    /\ At(s, "ready", {"delete", "admin_delete"})
    /\ Fresh(s)
    /\ lines' = [lines EXCEPT ![l] = Gone]
    /\ alloc' = [e \in Expenses |-> IF e \in On(l) THEN NoAlloc ELSE alloc[e]]
    /\ ledger' = [ledger EXCEPT ![l] = [commit |-> 0, reconcile |-> 0]]
    /\ Finish(s)
    /\ UNCHANGED <<grant, disbursed>>

CommitAllocate(s) ==
    LET c == session[s].call IN
    /\ At(s, "ready", {"allocate"})
    /\ alloc[c.expense] = NoAlloc
    /\ session[s].row \in Live
    /\ alloc' = [alloc EXCEPT ![c.expense] =
          [line |-> session[s].row, amount |-> Cost[c.expense]]]
    /\ Finish(s)
    /\ UNCHANGED <<grant, disbursed, lines, ledger>>

CommitResize(s) ==
    /\ At(s, "ready", {"resize"})
    /\ alloc' = [alloc EXCEPT ![session[s].call.expense].amount =
                    session[s].call.amount]
    /\ Finish(s)
    /\ UNCHANGED <<grant, disbursed, lines, ledger>>

(* Mutant: the allocation is detached from its line instead of deleted.    *)
DetachAllocation(s) ==
    /\ At(s, "ready", {"release"})
    /\ alloc' = [alloc EXCEPT ![session[s].call.expense].line = NoLine]
    /\ Finish(s)
    /\ UNCHANGED <<grant, disbursed, lines, ledger>>

CommitRelease(s) ==
    /\ At(s, "ready", {"release"})
    /\ alloc' = [alloc EXCEPT ![session[s].call.expense] = NoAlloc]
    /\ Finish(s)
    /\ UNCHANGED <<grant, disbursed, lines, ledger>>

(* The flush of a pledge or a confirmation updates the line first; the     *)
(* INSERT of the transaction then shares the lock on the grant.            *)
FlushLine(s) ==
    /\ At(s, "ready", {"pledge", "confirm"})
    /\ Fresh(s)
    /\ session' = [session EXCEPT ![s].pc = "flushed",
                                  ![s].holds = @ \cup {session[s].row}]
    /\ UNCHANGED money

CommitPledge(s) ==
    LET l == session[s].row  n == session[s].call.amount IN
    /\ At(s, "flushed", {"pledge"})
    /\ lines' = [lines EXCEPT ![l].committed = session[s].view.line.committed + n,
                              ![l].version = @ + 1]
    /\ ledger' = [ledger EXCEPT ![l].commit = @ + n]
    /\ Finish(s)
    /\ UNCHANGED <<grant, disbursed, alloc>>

CommitConfirm(s) ==
    LET l == session[s].row  n == session[s].call.amount IN
    /\ At(s, "flushed", {"confirm"})
    /\ lines' = [lines EXCEPT ![l].reconciled = session[s].view.line.reconciled + n,
                              ![l].version = @ + 1]
    /\ ledger' = [ledger EXCEPT ![l].reconcile = @ + n]
    /\ Finish(s)
    /\ UNCHANGED <<grant, disbursed, alloc>>

(* The grant has no version_id: whoever commits last wins.                 *)
CommitAdvance(s) ==
    LET c == session[s].call IN
    /\ At(s, "ready", {"advance"})
    /\ grant' = [status |-> c.status,
                 awarded |-> IF c.status = "awarded" /\ c.award # NoAward
                             THEN c.award ELSE grant.awarded]
    /\ Finish(s)
    /\ UNCHANGED <<disbursed, lines, alloc, ledger>>

(* update_grant writes the columns that differ from what it loaded.        *)
CommitEdit(s) ==
    LET old == session[s].view.grant  new == Edited(old, session[s].call) IN
    /\ At(s, "ready", {"edit"})
    /\ grant' = [status |-> IF new.status # old.status THEN new.status
                                                        ELSE grant.status,
                 awarded |-> IF new.awarded # old.awarded THEN new.awarded
                                                          ELSE grant.awarded]
    /\ Finish(s)
    /\ UNCHANGED <<disbursed, lines, alloc, ledger>>

(* Errors: a failed check, a stale version, a broken unique or foreign     *)
(* key, a line that is not there.  The transaction is rolled back.         *)
Fails(s) ==
    LET c == session[s].call IN
    \/ Checking(s) /\ ~May(s)
    \/ At(s, "loaded", {"allocate"}) /\ Needs(s) = {}
    \/ At(s, "ready", {"create", "admin_create"}) /\ Duplicate(c)
    \/ At(s, "ready", {"allocate"}) /\ alloc[c.expense] # NoAlloc
    \/ At(s, "ready", {"update", "admin_update"}) /\ ~Fresh(s)
          /\ c.amount # session[s].view.line.allocated
    \/ At(s, "ready", {"delete", "admin_delete", "pledge", "confirm"}) /\ ~Fresh(s)

Refuse(s) ==
    /\ session[s] # Idle
    /\ Fails(s)
    /\ Finish(s)
    /\ UNCHANGED money

(* The worker dies, or the database picks it as the victim of a deadlock.  *)
Crash(s) ==
    /\ session[s] # Idle
    /\ Finish(s)
    /\ UNCHANGED money

Step(s) ==
    \/ LockLine(s) \/ Pass(s) \/ FlushLine(s)
    \/ CommitDisburse(s) \/ CommitCreate(s) \/ CommitUpdate(s) \/ CommitDelete(s)
    \/ CommitAllocate(s) \/ CommitResize(s) \/ CommitRelease(s)
    \/ CommitPledge(s) \/ CommitConfirm(s) \/ CommitAdvance(s) \/ CommitEdit(s)
    \/ Refuse(s)

Next ==
    /\ UNCHANGED deployment
    /\ \E s \in Sessions :
          \/ \E c \in Call : Load(s, c)
          \/ Step(s)
          \/ Crash(s)

Spec == Init /\ [][Next]_vars
------------------------------------------------------------------------------
(* Properties.  What row locks and version tests protect holds between     *)
(* workers; what a handler merely checks holds where handlers take turns.  *)

Serial == deployment.workers = 1

(* The award of a grant that is past the decision stands, unless           *)
(* update_grant edits it: no transition leads back to "awarded".           *)
Early == {"prospect", "in_progress", "submitted"}

Standing(d) == "edit" \notin d.ops /\ \A g \in d.grants : g.status \notin Early

(* A budget line is never overspent by the handlers that lock the line:    *)
(* what is allocated to it fits whatever is allocated, updated, deleted    *)
(* and released at once.  A resize locks its allocation and no line, so    *)
(* two of them may spend the same rest of a line: it takes part only where *)
(* handlers take turns.  The PUT of a line compares nothing and stays out. *)
SpentFitsLine == \A l \in Live : SpentOn(On(l)) <= lines[l].allocated

(* The expenses charged to the grant never exceed its award, though each   *)
(* goes to a line of its own: allocation locks the grant.  A resize, which *)
(* locks it not, takes part only where handlers take turns.                *)
SpentFitsAward == Within(SpentOn(Allocated), grant.awarded)

(* create_budget_line, update_budget_line and record_disbursement compare  *)
(* with totals they do not lock, so that handlers at once may each spend   *)
(* the same rest of the award.  They overrun it at most once each: the     *)
(* lines together, and the disbursements, stay within as many awards as    *)
(* there are workers, and within the award where handlers take turns.      *)
(* This is while the award stands and the PUT of a line, which compares    *)
(* nothing, is not used.                                                   *)
BudgetFitsAward ==
    Standing(deployment) /\ "admin_update" \notin deployment.ops
        /\ grant.awarded # NoAward =>
            /\ BudgetOf(Live) <= deployment.workers * grant.awarded
            /\ disbursed <= deployment.workers * grant.awarded

(* The running totals kept on a line equal the sums of its transactions:   *)
(* no concurrent pledge or confirmation is lost.                           *)
LedgerBalances ==
    \A l \in Live : /\ lines[l].committed = ledger[l].commit
                    /\ lines[l].reconciled = ledger[l].reconcile

(* No two handlers of the service layer wait for each other's row locks;   *)
(* a pledge or confirmation locks in the opposite order.                   *)
NoCircularWait ==
    deployment.ops \cap {"pledge", "confirm"} = {} =>
        \A s, t \in Sessions : s # t /\ session[s] # Idle /\ session[t] # Idle =>
            \/ Needs(s) \cap session[t].holds = {}
            \/ Needs(t) \cap session[s].holds = {}

(* A budget line is deleted only while no expense is allocated to it: the  *)
(* service locks the line before it looks.  The admin page does not, and   *)
(* takes part only where handlers take turns.                              *)
OnlyUnusedLinesGo ==
    [][\A l \in Live : lines'[l] = Gone => On(l) = {}]_vars
==============================================================================
