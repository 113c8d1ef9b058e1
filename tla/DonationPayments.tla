-------------------------- MODULE DonationPayments --------------------------
(***************************************************************************)
(* One-off donations to one campaign and the Stripe events about them:     *)
(* services/donation_service.py, the webhook handlers of                   *)
(* services/payment_service.py, the route and the replay guard in front of *)
(* them (web/integrations_routes.py, utils/payment_webhooks.py) and the    *)
(* listeners that keep the campaign's total (services/campaign_service.py).*)
(*                                                                         *)
(* Every change of a donation is one transaction of one session, in the    *)
(* order of its statements: the read and the checks, the flush with its    *)
(* version test (Flush), the listener's UPDATE of the campaign from a sum  *)
(* over the donations (SumTotal), the commit (Commit).  Any of them can    *)
(* fail, and Stripe then sends its event again.                            *)
(*                                                                         *)
(* The stored total is modelled as the set of donations it sums.  A        *)
(* donation gets its id when its INSERT is flushed; SQLite gives the id of *)
(* a deleted donation again (NextId).                                      *)
(***************************************************************************)
EXTENDS Naturals, FiniteSets

CONSTANTS
    Donations,   \* ids of the table donations
    Payments,    \* Stripe payments: payment_intent ids
    Sessions,    \* worker threads and their database sessions
    Workers,     \* worker processes, each with a replay guard of its own
    WorkerOf,    \* the process a session belongs to
    Deployments, \* databases and what people do: see Deployment
    NoDonation,  \* no donation_id: in a checkout's metadata, before an INSERT
    NoPayment,   \* reference_number is NULL
    NoRow,       \* an id never given
    Deleted,     \* the id of a donation that was deleted
    NoEvent      \* a session that works for a person

AllStaffOps == {"open", "record", "status", "edit", "delete", "receipt",
                "followup"}

Deployment == [database : {"postgresql", "sqlite"}, ops : SUBSET AllStaffOps]

ASSUME ConstantsOK ==
    /\ WorkerOf \in [Sessions -> Workers]
    /\ Deployments \subseteq Deployment
    /\ Donations \subseteq Nat \ {0}
    /\ NoDonation \notin Donations
    /\ NoPayment \notin Payments

Transitions ==
    [pending   |-> {"received", "failed"},
     received  |-> {"processed", "refunded"},
     processed |-> {"receipted", "refunded"},
     receipted |-> {"refunded"},
     failed    |-> {"pending"},
     refunded  |-> {}]

Statuses == DOMAIN Transitions

Recorded == {"received", "processed", "receipted", "refunded"}

Completed == {"received", "processed", "receipted"}

Row == [status : Statuses, ref : Payments \cup {NoPayment}]

Event == [kind : {"paid", "refunded", "failed"}, payment : Payments]

ASSUME NullsOK ==
    /\ NoRow # Deleted
    /\ {NoRow, Deleted} \cap Row = {}
    /\ NoEvent \notin Event

VARIABLES
    deployment, \* the database and the operations in use; never changes
    rows,       \* the table donations
    receipts,   \* the donations with a row in donation_receipts
    raised,     \* the donations that campaigns.raised_amount sums
    checkout,   \* the donation_id in the metadata of a payment's checkout
    sent,       \* events that Stripe sends, until they are acknowledged
    processed,  \* events answered 200 "processed"
    acked,      \* events answered 200
    seen,       \* the event ids each worker's replay guard remembers
    session     \* what each session is doing

table == <<rows, receipts, raised, checkout>>
stripe == <<sent, processed, acked>>
vars == <<deployment, table, stripe, seen, session>>

Idle == [pc |-> "idle"]

Checked == [pc : {"checked"}, event : Event]

(* A transaction: id, read and row are the donation it writes, the state   *)
(* it has read (NoRow for an INSERT) and the state it writes; dirty, does  *)
(* it write that row at all; receipt, does it insert a receipt; audited,   *)
(* does it write the audit log; copy, is what it has read the row as it is *)
(* ("current"), an earlier state of it ("stale"), or a donation deleted    *)
(* before the one that has the id now ("former"); locked, does it hold the *)
(* row (PostgreSQL) or the database (SQLite); sum, the total it read.      *)
Transaction ==
    [pc : {"loaded", "flushed", "summed"}, event : Event \cup {NoEvent},
     opens : Payments \cup {NoPayment}, id : Donations \cup {NoDonation},
     read : Row \cup {NoRow}, row : Row \cup {Deleted}, dirty : BOOLEAN,
     receipt : BOOLEAN, audited : BOOLEAN,
     copy : {"current", "stale", "former"}, locked : BOOLEAN,
     sum : SUBSET Donations]

TypeOK ==
    /\ deployment \in Deployments
    /\ rows \in [Donations -> Row \cup {NoRow, Deleted}]
    /\ receipts \subseteq Donations
    /\ raised \subseteq Donations
    /\ checkout \in [Payments -> Donations \cup {NoDonation}]
    /\ sent \subseteq Event
    /\ processed \subseteq acked
    /\ acked \subseteq sent
    /\ seen \in [Workers -> SUBSET Event]
    /\ session \in [Sessions -> Transaction \cup Checked \cup {Idle}]

Init ==
    /\ deployment \in Deployments
    /\ rows = [d \in Donations |-> NoRow]
    /\ receipts = {}
    /\ raised = {}
    /\ checkout = [p \in Payments |-> NoDonation]
    /\ sent = {}
    /\ processed = {}
    /\ acked = {}
    /\ seen = [w \in Workers |-> {}]
    /\ session = [s \in Sessions |-> Idle]
-----------------------------------------------------------------------------
Exists(d) == rows[d] \notin {NoRow, Deleted}

InTransaction(s) == session[s].pc \in {"loaded", "flushed", "summed"}

Inserts(s) == session[s].read = NoRow

Taken(d) ==
    \/ rows[d] # NoRow
    \/ \E s \in Sessions : InTransaction(s) /\ session[s].id = d

(* The id that an INSERT gets.  PostgreSQL takes the next one of a         *)
(* sequence; SQLite, where the column has no AUTOINCREMENT, one more than  *)
(* the largest in the table, be it that of a deleted donation.             *)
NextId(d) ==
    IF deployment.database = "postgresql"
    THEN ~Taken(d) /\ \A k \in Donations : k < d => Taken(k)
    ELSE LET used == {k \in Donations : Exists(k)}
         IN  d \in {1} \cup {k + 1 : k \in used} /\ \A k \in used : k < d

(* Is an id that was shown to somebody never given to another donation?    *)
IdsAreUnique ==
    deployment.database = "postgresql" \/ "delete" \notin deployment.ops

(* No session is opening a checkout for p.                                 *)
NotOpening(p) ==
    \A s \in Sessions : InTransaction(s) => session[s].opens # p

StatusIn(table_, d, set) ==
    table_[d] \notin {NoRow, Deleted} /\ table_[d].status \in set

(* An UPDATE sets the columns that differ from what was read.              *)
Result(s) ==
    LET job == session[s]
    IN  IF Inserts(s) \/ job.row = Deleted THEN job.row
        ELSE [status |-> IF job.row.status = job.read.status
                         THEN rows[job.id].status ELSE job.row.status,
              ref    |-> IF job.row.ref = job.read.ref
                         THEN rows[job.id].ref ELSE job.row.ref]

Written(s) == [rows EXCEPT ![session[s].id] = Result(s)]

CompletedIn(table_) == {d \in Donations : StatusIn(table_, d, Completed)}

WithReference(p) ==
    {d \in Donations : Exists(d) /\ rows[d].ref = p /\ p # NoPayment}

(* May s lock what it writes?  PostgreSQL locks rows, SQLite has one       *)
(* writer at a time.  Two transactions that only insert a receipt meet at  *)
(* its unique index.                                                       *)
MayLock(s, d, dirty) ==
    \A t \in Sessions \ {s} :
        InTransaction(t) /\ session[t].locked =>
            /\ deployment.database = "postgresql"
            /\ session[t].id # d \/ session[t].dirty # dirty

(* Two uncommitted inserts of one reference wait for each other too.       *)
InsertingReference(p) ==
    \E t \in Sessions : /\ InTransaction(t) /\ session[t].locked
                        /\ session[t].row # Deleted
                        /\ session[t].row.ref = p
                        /\ p # NoPayment

(* Mutant of Fresh: donations have no version_id; a row must still match.  *)
NoVersionTest(s) == ~Inserts(s) => Exists(session[s].id)

(* The version test.  The version_id of a former donation may be equal to  *)
(* that of the present one: both count from the same number.               *)
Fresh(s) ==
    \/ session[s].copy = "current"
    \/ session[s].copy = "former" /\ Exists(session[s].id)

(* What a session is about to commit to donation d, or as a new one.       *)
Writing(d, read, row) ==
    [pc |-> "loaded", event |-> NoEvent, opens |-> NoPayment, id |-> d,
     read |-> read, row |-> row, dirty |-> TRUE, receipt |-> FALSE,
     audited |-> TRUE, copy |-> "current", locked |-> FALSE, sum |-> {}]

Change(d, row) == Writing(d, rows[d], row)

Insert(row) == Writing(NoDonation, NoRow, row)

Begin(s, change) == session' = [session EXCEPT ![s] = change]
-----------------------------------------------------------------------------
(* What people do.                                                         *)

(* The public donate page creates a pending donation and then a Stripe     *)
(* checkout that carries its id.                                           *)
OpenPending(s, p) ==
    /\ "open" \in deployment.ops
    /\ session[s] = Idle
    /\ checkout[p] = NoDonation
    /\ \A e \in sent : e.payment # p
    /\ NotOpening(p)
    /\ Begin(s, [Insert([status |-> "pending", ref |-> NoPayment])
                    EXCEPT !.opens = p])
    /\ UNCHANGED <<deployment, table, stripe, seen>>

(* A donation that staff enters: create_donation with no reference.        *)
RecordGift(s) ==
    /\ "record" \in deployment.ops
    /\ session[s] = Idle
    /\ Begin(s, Insert([status |-> "received", ref |-> NoPayment]))
    /\ UNCHANGED <<deployment, table, stripe, seen>>

UpdateStatus(s, d, new) ==
    /\ "status" \in deployment.ops
    /\ session[s] = Idle
    /\ Exists(d)
    /\ new \in Transitions[rows[d].status]
    /\ Begin(s, Change(d, [rows[d] EXCEPT !.status = new]))
    /\ UNCHANGED <<deployment, table, stripe, seen>>

(* update_donation: another column changes, and so does version_id.        *)
UpdateDonation(s, d) ==
    /\ "edit" \in deployment.ops
    /\ session[s] = Idle
    /\ Exists(d)
    /\ Begin(s, Change(d, rows[d]))
    /\ UNCHANGED <<deployment, table, stripe, seen>>

DeleteDonation(s, d) ==
    /\ "delete" \in deployment.ops
    /\ session[s] = Idle
    /\ StatusIn(rows, d, {"pending", "failed"})
    /\ Begin(s, Change(d, Deleted))
    /\ UNCHANGED <<deployment, table, stripe, seen>>

(* Mutant of Receipted: the receipt's status is given to the donation.     *)
ReceiptsStatus(d) == [rows[d] EXCEPT !.status = "generated"]

Receipted(d) == [rows[d] EXCEPT !.status = "receipted"]

(* The donation's own row is written only when its status changes.         *)
GenerateReceipt(s, d) ==
    /\ "receipt" \in deployment.ops
    /\ session[s] = Idle
    /\ StatusIn(rows, d, {"processed", "receipted"})
    /\ d \notin receipts
    /\ Begin(s, [Change(d, Receipted(d))
                    EXCEPT !.receipt = TRUE,
                           !.dirty = rows[d].status = "processed"])
    /\ UNCHANGED <<deployment, table, stripe, seen>>

(* run_donation_receipt_followup_workflow: any status becomes "receipted", *)
(* and no audit event is written.                                          *)
FollowUp(s, d) ==
    /\ "followup" \in deployment.ops
    /\ session[s] = Idle
    /\ Exists(d)
    /\ d \notin receipts
    /\ Begin(s, [Change(d, Receipted(d))
                    EXCEPT !.receipt = TRUE,
                           !.audited = FALSE,
                           !.dirty = rows[d].status # "receipted"])
    /\ UNCHANGED <<deployment, table, stripe, seen>>
-----------------------------------------------------------------------------
(* Stripe: a payment may be declined until it is paid, and refunded after. *)

Emit(kind, p) ==
    /\ [kind |-> kind, payment |-> p] \notin sent
    /\ sent' = sent \cup {[kind |-> kind, payment |-> p]}
    /\ UNCHANGED <<deployment, table, processed, acked, seen, session>>

IsPaid(p) == [kind |-> "paid", payment |-> p] \in sent

Decline(p) == NotOpening(p) /\ ~IsPaid(p) /\ Emit("failed", p)

Pay(p) == NotOpening(p) /\ Emit("paid", p)

Refund(p) == IsPaid(p) /\ Emit("refunded", p)
-----------------------------------------------------------------------------
(* The webhook route.                                                      *)

(* The event is in this worker's memory: 200, "duplicate".                 *)
Duplicate(w, e) ==
    /\ e \in seen[w] \cap sent
    /\ acked' = acked \cup {e}
    /\ UNCHANGED <<deployment, table, sent, processed, seen, session>>

(* is_replay does not find the event ...                                   *)
Receive(s, e) ==
    /\ session[s] = Idle
    /\ e \in sent \ seen[WorkerOf[s]]
    /\ session' = [session EXCEPT ![s] = [pc |-> "checked", event |-> e]]
    /\ UNCHANGED <<deployment, table, stripe, seen>>

(* ... and enters it, before the event is processed.                       *)
Mark(s) ==
    seen' = [seen EXCEPT ![WorkerOf[s]] = @ \cup {session[s].event}]

(* 200, "processed".                                                       *)
Accept(s) ==
    /\ processed' = processed \cup {session[s].event}
    /\ acked' = acked \cup {session[s].event}
    /\ session' = [session EXCEPT ![s] = Idle]
    /\ UNCHANGED <<deployment, table, sent>>

(* 422, or 500 for an exception that nothing catches.                      *)
Refuse(s) ==
    /\ session' = [session EXCEPT ![s] = Idle]
    /\ UNCHANGED <<deployment, table, stripe>>

(* _replay: the reference is on record.  It compares the request with that *)
(* of the audit log under the donation's id, which may be the request of a *)
(* donation that had the id before; then the event is refused.             *)
Replay(s) == Accept(s) \/ (~IdsAreUnique /\ Refuse(s))

(* Go on to write a donation; a row read FOR UPDATE is locked already.     *)
Write(s, change, locked) ==
    /\ Begin(s, [change EXCEPT !.event = session[s].event,
                               !.locked = locked])
    /\ UNCHANGED <<deployment, table, stripe>>

Processing(s, kind) ==
    /\ session[s].pc = "checked"
    /\ session[s].event.kind = kind
    /\ Mark(s)

AlreadyPaid(d, p) == StatusIn(rows, d, Recorded) /\ rows[d].ref = p

(* Mutant of MayFinalize: any donation without a reference is completed.   *)
FinalizeAny(d, p) == Exists(d) /\ rows[d].ref \in {NoPayment, p}

MayFinalize(d, p) ==
    StatusIn(rows, d, {"pending"}) /\ rows[d].ref \in {NoPayment, p}

(* checkout.session.completed with a donation_id: finalize_payment.        *)
FinalizePayment(s) ==
    LET p == session[s].event.payment
        d == checkout[p]
    IN  /\ Processing(s, "paid")
        /\ d # NoDonation
        /\ MayLock(s, d, TRUE) \/ deployment.database = "sqlite"
        /\ \/ AlreadyPaid(d, p) /\ Accept(s)
           \/ /\ MayFinalize(d, p)
              /\ Write(s, Change(d, [status |-> "received", ref |-> p]),
                       deployment.database = "postgresql")
           \/ ~AlreadyPaid(d, p) /\ ~MayFinalize(d, p) /\ Refuse(s)

(* checkout.session.completed without one: create_donation, which looks    *)
(* for the reference first.                                                *)
CreatePaid(s) ==
    LET p == session[s].event.payment
    IN  /\ Processing(s, "paid")
        /\ checkout[p] = NoDonation
        /\ IF WithReference(p) # {}
           THEN Replay(s)
           ELSE Write(s, Insert([status |-> "received", ref |-> p]), FALSE)

(* charge.refunded.  A payment with no donation yet, or one that cannot be *)
(* refunded any more, is acknowledged all the same.                        *)
ChargeRefunded(s) ==
    LET p == session[s].event.payment
        refundable == {d \in WithReference(p) : rows[d].status \in Completed}
    IN  /\ Processing(s, "refunded")
        /\ IF refundable = {}
           THEN Accept(s)
           ELSE \E d \in refundable :
                    Write(s, Change(d, [rows[d] EXCEPT !.status = "refunded"]),
                          FALSE)

(* payment_intent.payment_failed.  From "received" the table allows no     *)
(* "failed", and the event is refused.                                     *)
PaymentFailed(s) ==
    LET p == session[s].event.payment
        open == {d \in WithReference(p) :
                     rows[d].status \in {"pending", "received"}}
    IN  /\ Processing(s, "failed")
        /\ \/ open = {} /\ Accept(s)
           \/ \E d \in open :
                IF "failed" \in Transitions[rows[d].status]
                THEN Write(s, Change(d, [rows[d] EXCEPT !.status = "failed"]),
                           FALSE)
                ELSE Refuse(s)
-----------------------------------------------------------------------------
(* The transaction.                                                        *)

(* Mutant of ReferenceFree: reference_number is not unique.                *)
ReferenceUnchecked(s) == TRUE

ReferenceFree(s) ==
    Result(s) # Deleted =>
        WithReference(Result(s).ref) \subseteq {session[s].id}

AtFlush(s) ==
    /\ session[s].pc = "loaded"
    /\ MayLock(s, session[s].id, session[s].dirty)
    /\ Inserts(s) => ~InsertingReference(session[s].row.ref)

(* The version read, no row with the reference, no receipt yet.            *)
FlushSucceeds(s) ==
    /\ session[s].dirty => Fresh(s) /\ ReferenceFree(s)
    /\ session[s].receipt \/ session[s].row = Deleted =>
          session[s].id \notin receipts

Flush(s) ==
    /\ AtFlush(s)
    /\ FlushSucceeds(s)
    /\ \E d \in Donations :
          /\ IF Inserts(s) THEN NextId(d) ELSE d = session[s].id
          /\ session' = [session EXCEPT
                 ![s].pc = IF session[s].dirty THEN "flushed" ELSE "summed",
                 ![s].id = d,
                 ![s].locked = TRUE]
    /\ UNCHANGED <<deployment, table, stripe, seen>>

(* IntegrityError on the reference of a new donation: the webhook answers  *)
(* with the donation that has it.                                          *)
FlushReplays(s) ==
    /\ AtFlush(s)
    /\ Inserts(s)
    /\ ~ReferenceFree(s)
    /\ Replay(s)
    /\ UNCHANGED seen

(* StaleDataError, a second receipt, or a donation that has one deleted.   *)
FlushFails(s) ==
    /\ AtFlush(s)
    /\ ~FlushSucceeds(s)
    /\ Inserts(s) => ReferenceFree(s)
    /\ Refuse(s)
    /\ UNCHANGED seen

(* Mutant of SumTotal: the listener runs before the flush.                 *)
SumBeforeFlush(s) ==
    /\ session[s].pc = "flushed"
    /\ session' = [session EXCEPT ![s].pc = "summed",
                                  ![s].sum = CompletedIn(rows)]
    /\ UNCHANGED <<deployment, table, stripe, seen>>

(* The listener's statement reads what is committed, and its own change.   *)
SumTotal(s) ==
    /\ session[s].pc = "flushed"
    /\ session' = [session EXCEPT ![s].pc = "summed",
                                  ![s].sum = CompletedIn(Written(s))]
    /\ UNCHANGED <<deployment, table, stripe, seen>>

(* The audit event takes the organization's row FOR UPDATE.  The INSERT of *)
(* another donation, until it commits, shares that row by its foreign key: *)
(* two donations created at once wait for each other until one fails.      *)
MayAudit(s) ==
    session[s].audited =>
        \A t \in Sessions \ {s} :
            InTransaction(t) /\ session[t].locked => ~Inserts(t)

(* What a commit of job makes of a copy of the same donation.              *)
Aged(copy, job) ==
    IF job.read = NoRow \/ (copy = "former" /\ job.row # Deleted)
    THEN "former" ELSE "stale"

(* The locks on the rows of the campaign and the organization are taken    *)
(* here: the one who commits first had them first.                         *)
Commit(s) ==
    LET job == session[s]
    IN  /\ job.pc = "summed"
        /\ MayAudit(s)
        /\ rows' = IF job.dirty THEN Written(s) ELSE rows
        /\ raised' = IF job.dirty THEN job.sum ELSE raised
        /\ receipts' = IF job.receipt THEN receipts \cup {job.id} ELSE receipts
        /\ checkout' = IF job.opens = NoPayment THEN checkout
                       ELSE [checkout EXCEPT ![job.opens] = job.id]
        /\ IF job.event = NoEvent
           THEN UNCHANGED <<processed, acked>>
           ELSE /\ processed' = processed \cup {job.event}
                /\ acked' = acked \cup {job.event}
        /\ session' = [t \in Sessions |->
             IF t = s THEN Idle
             ELSE IF InTransaction(t) /\ session[t].id = job.id /\ job.dirty
             THEN [session[t] EXCEPT !.copy = Aged(@, job)]
             ELSE session[t]]
        /\ UNCHANGED <<deployment, sent, seen>>
-----------------------------------------------------------------------------
(* What may go wrong.                                                      *)

(* An exception rolls the transaction back; Stripe gets no 200.            *)
Fail(s) ==
    /\ session[s] # Idle
    /\ session' = [session EXCEPT ![s] = Idle]
    /\ UNCHANGED <<deployment, table, stripe, seen>>

(* A worker dies and starts again, with an empty replay guard.             *)
Restart(w) ==
    /\ seen[w] # {} \/ \E s \in Sessions :
                           WorkerOf[s] = w /\ session[s] # Idle
    /\ seen' = [seen EXCEPT ![w] = {}]
    /\ session' = [s \in Sessions |->
                      IF WorkerOf[s] = w THEN Idle ELSE session[s]]
    /\ UNCHANGED <<deployment, table, stripe>>

(* An event id is older than the guard's hour.                             *)
Forget(w, e) ==
    /\ e \in seen[w]
    /\ seen' = [seen EXCEPT ![w] = @ \ {e}]
    /\ UNCHANGED <<deployment, table, stripe, session>>
-----------------------------------------------------------------------------
Staff(s) ==
    \/ \E p \in Payments : OpenPending(s, p)
    \/ RecordGift(s)
    \/ \E d \in Donations :
        \/ \E new \in Statuses : UpdateStatus(s, d, new)
        \/ UpdateDonation(s, d)
        \/ DeleteDonation(s, d)
        \/ GenerateReceipt(s, d)
        \/ FollowUp(s, d)

StripeActs ==
    \/ \E p \in Payments : Decline(p) \/ Pay(p) \/ Refund(p)
    \/ \E w \in Workers, e \in Event : Duplicate(w, e)

Webhook(s) ==
    \/ \E e \in Event : Receive(s, e)
    \/ FinalizePayment(s)
    \/ CreatePaid(s)
    \/ ChargeRefunded(s)
    \/ PaymentFailed(s)

Statement(s) ==
    Flush(s) \/ FlushReplays(s) \/ FlushFails(s) \/ SumTotal(s) \/ Commit(s)

Fault ==
    \/ \E s \in Sessions : Fail(s)
    \/ \E w \in Workers : Restart(w)
    \/ \E w \in Workers, e \in Event : Forget(w, e)

Next ==
    \/ \E s \in Sessions : Staff(s) \/ Webhook(s) \/ Statement(s)
    \/ StripeActs
    \/ Fault

Spec == Init /\ [][Next]_vars
-----------------------------------------------------------------------------
(* A payment is recorded once: no two donations carry its reference,       *)
(* however often and wherever its event is delivered.                      *)
OneRecordPerPayment ==
    \A d1, d2 \in Donations :
        Exists(d1) /\ Exists(d2) /\ d1 # d2 =>
            rows[d1].ref = NoPayment \/ rows[d1].ref # rows[d2].ref

(* A checkout answered "processed" is on record for good: there is a       *)
(* donation with its reference, and it counts as paid or refunded, though  *)
(* staff may have loaded it to edit, fail or, on PostgreSQL, delete it     *)
(* meanwhile.  Where donations are deleted on SQLite it does not hold:     *)
(* staff has a pending donation open that somebody else deletes, the next  *)
(* donation gets its id and its first version, and is deleted in its       *)
(* place, paid for or not.                                                 *)
ProcessedIsRecorded ==
    IdsAreUnique =>
        \A p \in Payments :
            [kind |-> "paid", payment |-> p] \in processed =>
                \E d \in Donations :
                    Exists(d) /\ rows[d].ref = p /\ rows[d].status \in Recorded

(* The committed status of a donation moves along _VALID_TRANSITIONS only, *)
(* and only a pending or failed donation is deleted, whoever else had      *)
(* loaded it: a late checkout never brings back a refunded donation.  It   *)
(* is said of ids that are not given twice; and the follow-up workflow     *)
(* does not ask the table.                                                 *)
FollowsTransitions ==
    [][\A d \in Donations :
         Exists(d) /\ IdsAreUnique /\ "followup" \notin deployment.ops =>
           \/ rows'[d] = Deleted /\ rows[d].status \in {"pending", "failed"}
           \/ /\ rows'[d] \in Row
              /\ \/ rows'[d].status = rows[d].status
                 \/ rows'[d].status \in Transitions[rows[d].status]]_vars

(* The campaign's stored total sums exactly the committed donations that   *)
(* are received, processed or receipted.                                   *)
RaisedIsExact == raised = CompletedIn(rows)

(* The listeners keep it so where writers take turns, and not where one of *)
(* them changes a donation and waits for the campaign's row with a sum     *)
(* already read (PostgreSQL).                                              *)
RaisedIsExactOnSQLite ==
    deployment.database = "sqlite" => RaisedIsExact

(* A checkout acknowledged with a 200, which Stripe never sends again, is  *)
(* on record, or a session still works on it.                              *)
AcknowledgedIsRecorded ==
    \A p \in Payments :
        LET paid == [kind |-> "paid", payment |-> p]
        IN  paid \in acked =>
                \/ \E s \in Sessions :
                       session[s] # Idle /\ session[s].event = paid
                \/ \E d \in Donations :
                       /\ Exists(d)
                       /\ rows[d].ref = p
                       /\ rows[d].status \in Recorded
=============================================================================
