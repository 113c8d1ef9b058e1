----------------------- MODULE DonationPayments_proofs -----------------------
(***************************************************************************)
(* Theorems about DonationPayments for every set of donations, payments,   *)
(* sessions and workers, both databases and any operations of staff.       *)
(*                                                                         *)
(* The inductive invariant IInv says what a transaction knows (Sound) and  *)
(* what keeps two of them from spoiling each other (Apart); a commit then  *)
(* keeps the properties of the tables.                                     *)
(***************************************************************************)
EXTENDS DonationPayments, TLAPS

(* A session in a transaction, and one whose changes have been sent.       *)
Busy(x) == x.pc \in {"loaded", "flushed", "summed"}

Flushed(x) == x.pc \in {"flushed", "summed"}

Paid(p) == [kind |-> "paid", payment |-> p]

(* Result, of a transaction whoever's it is.                               *)
ResultOf(x) ==
    IF x.read = NoRow \/ x.row = Deleted THEN x.row
    ELSE [status |-> IF x.row.status = x.read.status
                     THEN rows[x.id].status ELSE x.row.status,
          ref    |-> IF x.row.ref = x.read.ref
                     THEN rows[x.id].ref ELSE x.row.ref]

(* The reference that a transaction is about to commit, if any.            *)
Writes(x, p) ==
    x.dirty /\ ResultOf(x) # Deleted /\ ResultOf(x).ref = p /\ p # NoPayment

(* What an INSERT is known to be: a payment's comes from its event, and    *)
(* the payment's checkout named no donation.  Its id is free.              *)
InsertIsKnown(x) ==
    /\ x.dirty
    /\ x.row # Deleted
    /\ x.row.ref # NoPayment =>
          /\ x.event = Paid(x.row.ref)
          /\ checkout[x.row.ref] = NoDonation
    /\ ~Flushed(x) => x.id = NoDonation
    /\ Flushed(x) =>
          /\ x.id \in Donations
          /\ ~Exists(x.id)
          /\ IdsAreUnique => rows[x.id] = NoRow

(* What a change of a row is known to be, from the state that was read.    *)
ChangeIsKnown(x) ==
    LET old == x.read
    IN  /\ x.id \in Donations
        /\ rows[x.id] # NoRow
        /\ x.copy = "current" => rows[x.id] = old
        /\ IdsAreUnique => x.copy # "former"
        /\ x.row = Deleted =>
              old.status \in {"pending", "failed"} /\ "delete" \in deployment.ops
        /\ x.row # Deleted =>
              /\ \/ x.row.ref = old.ref
                 \/ /\ old.ref = NoPayment
                    /\ x.row.ref \in Payments
                    /\ checkout[x.row.ref] = x.id
                    /\ Paid(x.row.ref) \in sent
              /\ x.dirty => \/ "followup" \in deployment.ops
                            \/ x.row.status = old.status
                            \/ x.row.status \in Transitions[old.status]

(* A transaction works for an event that was sent, or opens a checkout     *)
(* that no event is about.                                                 *)
EventIsSent(x) ==
    /\ x.event # NoEvent => x.event \in sent
    /\ x.opens # NoPayment => \A e \in sent : e.payment # x.opens
    /\ \A p \in Payments :
          x.event = Paid(p) =>
              x.dirty /\ x.row = [status |-> "received", ref |-> p]

(* What is written is sound: a row with a reference counts as paid or      *)
(* refunded, where no id is given twice.                                   *)
RowIsSound(x) ==
    /\ IdsAreUnique /\ x.row # Deleted /\ x.row.ref # NoPayment =>
          x.row.status \in Recorded
    /\ x.read = NoRow => InsertIsKnown(x)
    /\ x.read # NoRow => ChangeIsKnown(x)

(* What the flush has established and locks keep.                          *)
FlushHolds(x) ==
    Flushed(x) =>
        /\ x.locked
        /\ x.dirty /\ x.read # NoRow =>
              Exists(x.id) /\ (IdsAreUnique => x.copy = "current")
        /\ \A p \in Payments : Writes(x, p) => WithReference(p) \subseteq {x.id}

(* On SQLite a total once read stays exact until it is committed.          *)
SumIsExact(x) ==
    /\ x.pc = "flushed" => x.dirty
    /\ x.pc = "summed" /\ x.dirty /\ deployment.database = "sqlite" =>
          x.sum = CompletedIn([rows EXCEPT ![x.id] = ResultOf(x)])

Sound(x) == EventIsSent(x) /\ RowIsSound(x) /\ FlushHolds(x) /\ SumIsExact(x)

(* Two transactions: a lock is given to one writer, and a reference to one *)
(* of those that are about to commit.                                      *)
Apart(x, y) ==
    /\ x.locked /\ y.locked =>
          /\ deployment.database = "postgresql"
          /\ x.id # y.id \/ x.dirty # y.dirty
    /\ Flushed(x) /\ Flushed(y) /\ x.id # y.id =>
          \A p \in Payments : ~(Writes(x, p) /\ Writes(y, p))

(* A donation with a reference has been paid, where no id is given twice.  *)
ReferredIsRecorded ==
    IdsAreUnique =>
        \A d \in Donations :
            Exists(d) /\ rows[d].ref # NoPayment => rows[d].status \in Recorded

DeletedByStaff ==
    "delete" \notin deployment.ops => \A d \in Donations : rows[d] # Deleted

CheckedIsSent ==
    \A s \in Sessions : session[s].pc = "checked" => session[s].event \in sent

SessionsSound ==
    \A s \in Sessions : Busy(session[s]) => Sound(session[s])

SessionsApart ==
    \A s, t \in Sessions :
        Busy(session[s]) /\ Busy(session[t]) /\ s # t =>
            Apart(session[s], session[t])

IInv ==
    /\ TypeOK
    /\ CheckedIsSent
    /\ SessionsSound
    /\ SessionsApart
    /\ ReferredIsRecorded
    /\ DeletedByStaff
    /\ OneRecordPerPayment
    /\ ProcessedIsRecorded
    /\ RaisedIsExactOnSQLite
-----------------------------------------------------------------------------
LEMMA StatusFacts ==
    /\ Statuses = {"pending", "received", "processed", "receipted", "failed",
                   "refunded"}
    /\ \A st \in Statuses : Transitions[st] \subseteq Statuses
    /\ \A st \in Recorded : Transitions[st] \subseteq Recorded
    /\ Recorded \subseteq Statuses
    /\ Recorded \cap {"pending", "failed"} = {}
    /\ "received" \in Transitions["pending"]
    /\ "refunded" \in Transitions["received"]
    /\ "refunded" \in Transitions["processed"]
    /\ "refunded" \in Transitions["receipted"]
    /\ "receipted" \in Transitions["processed"]
    /\ "received" \in Recorded
    /\ "receipted" \in Recorded
    /\ "refunded" \in Recorded
BY DEF Statuses, Transitions, Recorded

LEMMA SessionTypes ==
    ASSUME TypeOK, NEW s \in Sessions
    PROVE  /\ Busy(session[s]) => session[s] \in Transaction
           /\ session[s].pc = "checked" => session[s] \in Checked
           /\ session[s].pc \in {"idle", "checked", "loaded", "flushed", "summed"}
           /\ session[s] = Idle \/ session[s] \in Checked \/ session[s] \in Transaction
           /\ InTransaction(s) <=> Busy(session[s])
BY DEF TypeOK, Busy, Transaction, Checked, Idle, InTransaction

LEMMA TransactionFields ==
    ASSUME NEW x \in Transaction
    PROVE  /\ Busy(x)
           /\ x.event \in Event \cup {NoEvent}
           /\ x.opens \in Payments \cup {NoPayment}
           /\ x.id \in Donations \cup {NoDonation}
           /\ x.read \in Row \cup {NoRow}
           /\ x.row \in Row \cup {Deleted}
           /\ x.dirty \in BOOLEAN
           /\ x.receipt \in BOOLEAN
           /\ x.audited \in BOOLEAN
           /\ x.copy \in {"current", "stale", "former"}
           /\ x.locked \in BOOLEAN
           /\ x.sum \subseteq Donations
BY DEF Transaction, Busy

LEMMA Nulls ==
    /\ NoRow # Deleted
    /\ NoRow \notin Row
    /\ Deleted \notin Row
    /\ NoEvent \notin Event
BY NullsOK

LEMMA RowFields ==
    /\ \A row \in Row : row.status \in Statuses /\ row.ref \in Payments \cup {NoPayment}
    /\ \A st \in Statuses, p \in Payments \cup {NoPayment} :
          [status |-> st, ref |-> p] \in Row
    /\ \A row \in Row, st \in Statuses :
          /\ [row EXCEPT !.status = st] \in Row
          /\ [row EXCEPT !.status = st].status = st
          /\ [row EXCEPT !.status = st].ref = row.ref
BY DEF Row

LEMMA ExistingRow ==
    ASSUME TypeOK, NEW d \in Donations
    PROVE  Exists(d) <=> rows[d] \in Row
BY Nulls DEF TypeOK, Exists

LEMMA EventFields ==
    /\ \A e \in Event : e.kind \in {"paid", "refunded", "failed"} /\ e.payment \in Payments
    /\ \A e \in Event : e.kind = "paid" => e = Paid(e.payment)
    /\ \A p \in Payments : Paid(p) \in Event /\ Paid(p) # NoEvent
    /\ \A p \in Payments : Paid(p).kind = "paid" /\ Paid(p).payment = p
<1>1. ASSUME NEW e \in Event, e.kind = "paid" PROVE e = Paid(e.payment)
  BY <1>1 DEF Event, Paid
<1> QED
  BY <1>1, Nulls DEF Event, Paid

LEMMA RowTypes ==
    ASSUME TypeOK, NEW d \in Donations, Exists(d)
    PROVE  /\ rows[d] \in Row
           /\ rows[d].status \in Statuses
           /\ rows[d].ref \in Payments \cup {NoPayment}
BY ExistingRow, RowFields

LEMMA IInvInit == Init => IInv
<1> SUFFICES ASSUME Init PROVE IInv
  OBVIOUS
<1>1. TypeOK
  BY DEF Init, TypeOK
<1>2. \A s \in Sessions : session[s].pc = "idle"
  BY DEF Init, Idle
<1>3. \A d \in Donations : ~Exists(d)
  BY DEF Init, Exists
<1>4. CompletedIn(rows) = {} /\ DeletedByStaff
  BY Nulls DEF CompletedIn, StatusIn, Init, DeletedByStaff
<1>5. ProcessedIsRecorded /\ RaisedIsExactOnSQLite
  BY <1>4 DEF ProcessedIsRecorded, RaisedIsExactOnSQLite, RaisedIsExact, Init
<1> QED
  BY <1>1, <1>2, <1>3, <1>4, <1>5
  DEF IInv, CheckedIsSent, SessionsSound, SessionsApart, ReferredIsRecorded,
      OneRecordPerPayment, Busy

(* A step that leaves the tables alone, and each session as it is or not   *)
(* in a transaction.                                                       *)
LEMMA QuietStep ==
    ASSUME IInv, TypeOK', CheckedIsSent', ProcessedIsRecorded',
           UNCHANGED <<deployment, rows, raised, checkout>>,
           sent \subseteq sent',
           \A t \in Sessions :
               Busy(session[t]) /\ session[t].opens # NoPayment =>
                   \A e \in sent' : e.payment # session[t].opens,
           \A t \in Sessions :
               session'[t] = session[t] \/ ~Busy(session'[t])
    PROVE  IInv'
<1>1. ASSUME NEW t \in Sessions, Busy(session'[t])
      PROVE  Sound(session[t])'
  <2> DEFINE x == session[t]
  <2>1. x' = x /\ Busy(x) /\ Sound(x)
    BY <1>1 DEF IInv, SessionsSound
  <2>2. EventIsSent(x)'
    BY <2>1 DEF Sound, EventIsSent
  <2>3. RowIsSound(x)'
    BY <2>1 DEF Sound, RowIsSound, InsertIsKnown, ChangeIsKnown, Exists,
       IdsAreUnique, Flushed
  <2>4. FlushHolds(x)' /\ SumIsExact(x)'
    BY <2>1 DEF Sound, FlushHolds, SumIsExact, CompletedIn, StatusIn,
       WithReference, Exists, Flushed, Writes, ResultOf, IdsAreUnique
  <2> QED
    BY <2>2, <2>3, <2>4 DEF Sound
<1>2. SessionsSound'
  BY <1>1 DEF SessionsSound, Busy
<1>3. SessionsApart'
  BY DEF IInv, SessionsApart, Apart, Busy, Flushed, Writes, ResultOf
<1>4. /\ ReferredIsRecorded' /\ DeletedByStaff'
      /\ OneRecordPerPayment' /\ RaisedIsExactOnSQLite'
  BY DEF IInv, ReferredIsRecorded, DeletedByStaff, OneRecordPerPayment,
     RaisedIsExactOnSQLite, RaisedIsExact, CompletedIn, StatusIn, Exists,
     IdsAreUnique
<1> QED
  BY <1>2, <1>3, <1>4 DEF IInv

(* A step of one session, in a transaction after it, that leaves the       *)
(* tables alone.                                                           *)
LEMMA SessionStep ==
    ASSUME IInv, TypeOK', ProcessedIsRecorded', NEW s \in Sessions, NEW y,
           UNCHANGED <<deployment, rows, raised, checkout, sent>>,
           session'[s] = y, \A t \in Sessions \ {s} : session'[t] = session[t],
           Busy(y), Sound(y),
           \A t \in Sessions \ {s} :
               Busy(session[t]) => Apart(y, session[t]) /\ Apart(session[t], y)
    PROVE  IInv'
<1>1. session'[s] = y /\ \A t \in Sessions \ {s} : session'[t] = session[t]
  OBVIOUS
<1>2. \A t \in Sessions : Busy(session'[t]) => Sound(session'[t])
  BY <1>1 DEF IInv, SessionsSound
<1>3. ASSUME NEW t \in Sessions, Busy(session'[t])
      PROVE  Sound(session[t])'
  <2> DEFINE x == session'[t]
  <2>1. Sound(x)
    BY <1>2, <1>3
  <2>2. EventIsSent(session[t])'
    BY <2>1 DEF Sound, EventIsSent
  <2>3. RowIsSound(session[t])'
    BY <2>1 DEF Sound, RowIsSound, InsertIsKnown, ChangeIsKnown, Exists,
       IdsAreUnique, Flushed
  <2>4. FlushHolds(session[t])' /\ SumIsExact(session[t])'
    BY <2>1 DEF Sound, FlushHolds, SumIsExact, CompletedIn, StatusIn,
       WithReference, Exists, Flushed, Writes, ResultOf, IdsAreUnique
  <2> QED
    BY <2>2, <2>3, <2>4 DEF Sound
<1>4. SessionsSound'
  BY <1>3 DEF SessionsSound, Busy
<1>5. \A t, u \in Sessions :
        Busy(session'[t]) /\ Busy(session'[u]) /\ t # u =>
            Apart(session'[t], session'[u])
  BY <1>1 DEF IInv, SessionsApart
<1>6. SessionsApart'
  BY <1>5 DEF SessionsApart, Apart, Busy, Flushed, Writes, ResultOf
<1>7. CheckedIsSent'
  BY <1>1 DEF IInv, CheckedIsSent, Busy
<1>8. /\ ReferredIsRecorded' /\ DeletedByStaff'
      /\ OneRecordPerPayment' /\ RaisedIsExactOnSQLite'
  BY DEF IInv, ReferredIsRecorded, DeletedByStaff, OneRecordPerPayment,
     RaisedIsExactOnSQLite, RaisedIsExact, CompletedIn, StatusIn, Exists,
     IdsAreUnique
<1> QED
  BY <1>4, <1>6, <1>7, <1>8 DEF IInv

(* The first statement of a transaction.                                   *)
LEMMA BeginStep ==
    ASSUME IInv, TypeOK', ProcessedIsRecorded', NEW s \in Sessions,
           NEW y \in Transaction,
           UNCHANGED <<deployment, rows, raised, checkout, sent>>,
           session' = [session EXCEPT ![s] = y],
           ~Busy(session[s]),
           y.pc = "loaded", EventIsSent(y), RowIsSound(y),
           y.locked => /\ MayLock(s, y.id, y.dirty)
                       /\ deployment.database = "postgresql"
    PROVE  IInv'
<1>1. Busy(y) /\ ~Flushed(y)
  BY DEF Busy, Flushed
<1>2. Sound(y)
  BY <1>1 DEF Sound, FlushHolds, SumIsExact
<1>3. ASSUME NEW t \in Sessions \ {s}, Busy(session[t])
      PROVE  Apart(y, session[t]) /\ Apart(session[t], y)
  <2>1. InTransaction(t) /\ session[t] \in Transaction /\ TypeOK
    BY <1>3, SessionTypes DEF IInv
  <2>2. y.locked /\ session[t].locked =>
           /\ deployment.database = "postgresql"
           /\ session[t].id # y.id \/ session[t].dirty # y.dirty
    BY <2>1 DEF MayLock
  <2> QED
    BY <1>1, <2>2 DEF Apart
<1>4. session'[s] = y /\ \A t \in Sessions \ {s} : session'[t] = session[t]
  BY DEF IInv, TypeOK
<1> QED
  BY <1>1, <1>2, <1>3, <1>4, SessionStep
-----------------------------------------------------------------------------
(* The record that a first statement makes, and what it changes in it.     *)
LEMMA InsertFields ==
    ASSUME NEW row \in Row \cup {Deleted}
    PROVE  LET y == Insert(row)
           IN  /\ y \in Transaction
               /\ y.pc = "loaded" /\ y.event = NoEvent /\ y.opens = NoPayment
               /\ y.id = NoDonation /\ y.read = NoRow /\ y.row = row
               /\ y.dirty /\ y.copy = "current" /\ ~y.locked
BY DEF Insert, Writing, Transaction

LEMMA ChangeFields ==
    ASSUME NEW d \in Donations, rows[d] \in Row, NEW row \in Row \cup {Deleted}
    PROVE  LET y == Change(d, row)
           IN  /\ y \in Transaction
               /\ y.pc = "loaded" /\ y.event = NoEvent /\ y.opens = NoPayment
               /\ y.id = d /\ y.read = rows[d] /\ y.row = row
               /\ y.dirty /\ y.copy = "current" /\ ~y.locked
BY DEF Change, Writing, Transaction

SameFields(y, x) ==
    /\ y.pc = x.pc /\ y.id = x.id /\ y.read = x.read /\ y.row = x.row
    /\ y.copy = x.copy

LEMMA WithOpens ==
    ASSUME NEW x \in Transaction, NEW p \in Payments \cup {NoPayment}
    PROVE  LET y == [x EXCEPT !.opens = p]
           IN  /\ y \in Transaction
               /\ SameFields(y, x)
               /\ y.opens = p /\ y.event = x.event /\ y.dirty = x.dirty
               /\ y.locked = x.locked
BY DEF Transaction, SameFields

LEMMA WithEvent ==
    ASSUME NEW x \in Transaction, NEW e \in Event, NEW b \in BOOLEAN
    PROVE  LET y == [x EXCEPT !.event = e, !.locked = b]
           IN  /\ y \in Transaction
               /\ SameFields(y, x)
               /\ y.event = e /\ y.locked = b /\ y.opens = x.opens
               /\ y.dirty = x.dirty
BY DEF Transaction, SameFields

LEMMA BeginType ==
    ASSUME TypeOK, NEW s \in Sessions, NEW y \in Transaction,
           UNCHANGED <<deployment, table, stripe, seen>>,
           session' = [session EXCEPT ![s] = y]
    PROVE  TypeOK'
BY DEF TypeOK, table, stripe

LEMMA ProcessedStays ==
    ASSUME ProcessedIsRecorded, UNCHANGED <<deployment, rows, processed>>
    PROVE  ProcessedIsRecorded'
BY DEF ProcessedIsRecorded, Exists, IdsAreUnique

(* A transaction that staff begins: on a new donation without a reference, *)
(* or on one that exists.                                                  *)
LEMMA StaffBegins ==
    ASSUME IInv, NEW s \in Sessions, NEW y \in Transaction,
           session[s] = Idle,
           session' = [session EXCEPT ![s] = y],
           UNCHANGED <<deployment, table, stripe, seen>>,
           y.pc = "loaded", y.event = NoEvent, ~y.locked,
           y.opens # NoPayment => \A e \in sent : e.payment # y.opens,
           IdsAreUnique /\ y.row # Deleted /\ y.row.ref # NoPayment =>
               y.row.status \in Recorded,
           y.copy = "current",
           \/ /\ y.read = NoRow /\ y.id = NoDonation
              /\ y.dirty
              /\ y.row # Deleted
              /\ y.row.ref = NoPayment
           \/ /\ y.id \in Donations
              /\ Exists(y.id)
              /\ y.read = rows[y.id]
              /\ y.row = Deleted => /\ rows[y.id].status \in {"pending", "failed"}
                                   /\ "delete" \in deployment.ops
              /\ y.row # Deleted =>
                    /\ y.row.ref = rows[y.id].ref
                    /\ y.dirty => \/ "followup" \in deployment.ops
                                 \/ y.row.status = rows[y.id].status
                                 \/ y.row.status \in Transitions[rows[y.id].status]
    PROVE  IInv'
<1>1. TypeOK'
  BY BeginType DEF IInv
<1>2. ~Busy(session[s])
  BY DEF Busy, Idle
<1>3. EventIsSent(y)
  BY EventFields DEF EventIsSent
<1>4. ~Flushed(y)
  BY DEF Flushed
<1>6. RowIsSound(y)
  <2>1. CASE y.read = NoRow
    BY <1>4, <2>1 DEF RowIsSound, InsertIsKnown, Exists
  <2>2. CASE y.read # NoRow
    BY <2>2 DEF RowIsSound, ChangeIsKnown, Exists
  <2> QED
    BY <2>1, <2>2
<1>7. ProcessedIsRecorded'
  BY ProcessedStays DEF IInv, table, stripe
<1>8. UNCHANGED <<deployment, rows, raised, checkout, sent>>
  BY DEF table, stripe
<1> QED
  BY <1>1, <1>2, <1>3, <1>6, <1>7, <1>8, BeginStep

(* Staff enters a new donation, or opens a checkout for one.               *)
LEMMA InsertBegins ==
    ASSUME IInv, NEW s \in Sessions, session[s] = Idle,
           NEW st \in {"pending", "received"},
           NEW opens \in Payments \cup {NoPayment},
           opens # NoPayment => \A e \in sent : e.payment # opens,
           session' = [session EXCEPT ![s] =
               [Insert([status |-> st, ref |-> NoPayment]) EXCEPT !.opens = opens]],
           UNCHANGED <<deployment, table, stripe, seen>>
    PROVE  IInv'
<1> DEFINE row == [status |-> st, ref |-> NoPayment]
           x == Insert(row)
           y == [x EXCEPT !.opens = opens]
<1>1. row \in Row /\ row # Deleted
  BY RowFields, StatusFacts, Nulls
<1>2. row.ref = NoPayment
  OBVIOUS
<1>3. session' = [session EXCEPT ![s] = y]
  OBVIOUS
<1> HIDE DEF row
<1>4. /\ x \in Transaction /\ x.pc = "loaded" /\ x.event = NoEvent
      /\ x.read = NoRow /\ x.row = row /\ x.dirty /\ ~x.locked
      /\ x.copy = "current" /\ x.id = NoDonation
  <2>1. row \in Row \cup {Deleted}
    BY <1>1
  <2> QED
    BY <2>1, InsertFields
<1> HIDE DEF x
<1>5. /\ y \in Transaction /\ y.pc = "loaded" /\ y.event = NoEvent
      /\ y.opens = opens /\ y.read = NoRow /\ y.row = row /\ y.dirty
      /\ ~y.locked /\ y.copy = "current" /\ y.id = NoDonation
  BY <1>4, WithOpens DEF SameFields
<1> HIDE DEF y
<1> QED
  BY <1>1, <1>2, <1>3, <1>5, StaffBegins

LEMMA StaffStep ==
    ASSUME IInv, NEW s \in Sessions, Staff(s)
    PROVE  IInv'
<1>1. TypeOK /\ ReferredIsRecorded
  BY DEF IInv
<1>2. \A d \in Donations :
        Exists(d) => /\ rows[d] \in Row
                     /\ rows[d].status \in Statuses
                     /\ IdsAreUnique /\ rows[d].ref # NoPayment =>
                           rows[d].status \in Recorded
                     /\ rows[d] # Deleted
  BY <1>1, RowTypes, Nulls DEF ReferredIsRecorded
<1>3. ASSUME NEW p \in Payments, OpenPending(s, p) PROVE IInv'
  BY <1>3, InsertBegins DEF OpenPending, Begin
<1>4. CASE RecordGift(s)
  <2> DEFINE row == [status |-> "received", ref |-> NoPayment]
             y == Insert(row)
  <2>1. session' = [session EXCEPT ![s] = y]
    BY <1>4 DEF RecordGift, Begin
  <2>2. row \in Row /\ row # Deleted /\ row.ref = NoPayment
    BY RowFields, StatusFacts, Nulls
  <2> HIDE DEF row
  <2>3. row \in Row \cup {Deleted}
    BY <2>2
  <2>4. /\ y \in Transaction /\ y.pc = "loaded" /\ y.event = NoEvent
        /\ y.opens = NoPayment /\ y.id = NoDonation /\ y.read = NoRow
        /\ y.row = row /\ y.dirty /\ y.copy = "current" /\ ~y.locked
    BY <2>3, InsertFields
  <2> HIDE DEF y
  <2>5. session[s] = Idle /\ UNCHANGED <<deployment, table, stripe, seen>>
    BY <1>4 DEF RecordGift
  <2> QED
    BY <2>1, <2>2, <2>4, <2>5, StaffBegins
<1>5. ASSUME NEW d \in Donations, NEW row \in Row \cup {Deleted},
             session[s] = Idle, Exists(d),
             session' = [session EXCEPT ![s] = Change(d, row)],
             UNCHANGED <<deployment, table, stripe, seen>>,
             row = Deleted => /\ rows[d].status \in {"pending", "failed"}
                              /\ "delete" \in deployment.ops,
             row # Deleted =>
                 /\ row.ref = rows[d].ref
                 /\ row.status \in Transitions[rows[d].status] \cup {rows[d].status}
      PROVE  IInv'
  <2> DEFINE y == Change(d, row)
  <2>1. /\ y \in Transaction /\ y.pc = "loaded" /\ y.event = NoEvent
        /\ y.opens = NoPayment /\ y.id = d /\ y.row = row /\ y.dirty
        /\ ~y.locked /\ y.copy = "current" /\ y.read = rows[d]
    <3>1. rows[d] \in Row
      BY <1>2, <1>5
    <3> QED
      BY <3>1, ChangeFields
  <2>2. IdsAreUnique /\ row # Deleted /\ row.ref # NoPayment => row.status \in Recorded
    BY <1>2, <1>5, StatusFacts
  <2>3. session' = [session EXCEPT ![s] = y]
    BY <1>5
  <2> HIDE DEF y
  <2> QED
    BY <1>5, <2>1, <2>2, <2>3, StaffBegins
<1>6. ASSUME NEW d \in Donations, NEW new \in Statuses, UpdateStatus(s, d, new)
      PROVE  IInv'
  <2> DEFINE row == [rows[d] EXCEPT !.status = new]
  <2>1. Exists(d) /\ new \in Transitions[rows[d].status]
    BY <1>6 DEF UpdateStatus
  <2>2. row \in Row /\ row # Deleted /\ row.status = new /\ row.ref = rows[d].ref
    BY <1>2, <2>1, RowFields, Nulls
  <2>3. session' = [session EXCEPT ![s] = Change(d, row)]
    BY <1>6 DEF UpdateStatus, Begin
  <2> HIDE DEF row
  <2> QED
    BY <1>5, <1>6, <2>1, <2>2, <2>3 DEF UpdateStatus
<1>7. ASSUME NEW d \in Donations, UpdateDonation(s, d) PROVE IInv'
  BY <1>2, <1>5, <1>7 DEF UpdateDonation, Begin
<1>8. ASSUME NEW d \in Donations, DeleteDonation(s, d) PROVE IInv'
  BY <1>5, <1>8 DEF DeleteDonation, Begin, StatusIn, Exists
<1>9. ASSUME NEW d \in Donations, GenerateReceipt(s, d) \/ FollowUp(s, d)
      PROVE  IInv'
  <2> DEFINE row == Receipted(d)
             x == Change(d, row)
             processed_ == rows[d].status = "processed"
             written == rows[d].status # "receipted"
  <2>1. Exists(d)
    BY <1>9 DEF GenerateReceipt, FollowUp, StatusIn, Exists
  <2>2. row \in Row /\ row # Deleted /\ row.status = "receipted" /\ row.ref = rows[d].ref
    <3>1. "receipted" \in Statuses
      BY StatusFacts
    <3> QED
      BY <1>2, <2>1, <3>1, RowFields, Nulls DEF Receipted
  <2>3. row.status \in Recorded
    BY <2>2, StatusFacts
  <2>4. GenerateReceipt(s, d) =>
           session' = [session EXCEPT ![s] =
               [x EXCEPT !.receipt = TRUE, !.dirty = processed_]]
    BY DEF GenerateReceipt, Begin
  <2>5. FollowUp(s, d) =>
           session' = [session EXCEPT ![s] =
               [x EXCEPT !.receipt = TRUE, !.audited = FALSE, !.dirty = written]]
    BY DEF FollowUp, Begin
  <2>6. processed_ \in BOOLEAN /\ written \in BOOLEAN
    OBVIOUS
  <2>7. processed_ => row.status \in Transitions[rows[d].status]
    BY <2>2, StatusFacts
  <2>8. /\ x \in Transaction /\ x.pc = "loaded" /\ x.event = NoEvent
        /\ x.opens = NoPayment /\ x.id = d /\ x.row = row /\ ~x.locked
        /\ x.copy = "current" /\ x.read = rows[d]
    <3>1. row \in Row \cup {Deleted} /\ rows[d] \in Row
      BY <1>2, <2>1, <2>2
    <3> HIDE DEF row, processed_, written
    <3> QED
      BY <3>1, ChangeFields
  <2> HIDE DEF x, row, processed_, written
  <2>9. PICK y \in Transaction, b \in BOOLEAN :
          /\ session' = [session EXCEPT ![s] = y]
          /\ y.pc = "loaded" /\ y.event = NoEvent /\ y.opens = NoPayment
          /\ y.id = d /\ y.row = row /\ ~y.locked /\ y.dirty = b
          /\ y.copy = "current" /\ y.read = rows[d]
          /\ b => processed_ \/ FollowUp(s, d)
    <3>1. CASE GenerateReceipt(s, d)
      <4> DEFINE y == [x EXCEPT !.receipt = TRUE, !.dirty = processed_]
      <4>0. y = [x EXCEPT !.receipt = TRUE, !.dirty = processed_]
        OBVIOUS
      <4> HIDE DEF y
      <4>1. /\ y \in Transaction /\ y.pc = "loaded" /\ y.event = NoEvent
            /\ y.opens = NoPayment /\ y.id = d /\ y.row = row /\ ~y.locked
            /\ y.dirty = processed_ /\ y.copy = "current" /\ y.read = rows[d]
        <5>1. /\ y \in Transaction /\ SameFields(y, x) /\ y.dirty = processed_
              /\ y.opens = x.opens /\ y.event = x.event /\ y.locked = x.locked
          BY <2>6, <2>8, <4>0 DEF Transaction, SameFields
        <5> QED
          BY <2>8, <5>1 DEF SameFields
      <4>2. session' = [session EXCEPT ![s] = y]
        BY <2>4, <3>1 DEF y
      <4> QED
        BY <2>6, <4>1, <4>2
    <3>2. CASE FollowUp(s, d)
      <4> DEFINE y == [x EXCEPT !.receipt = TRUE, !.audited = FALSE, !.dirty = written]
      <4>0. y = [x EXCEPT !.receipt = TRUE, !.audited = FALSE, !.dirty = written]
        OBVIOUS
      <4> HIDE DEF y
      <4>1. /\ y \in Transaction /\ y.pc = "loaded" /\ y.event = NoEvent
            /\ y.opens = NoPayment /\ y.id = d /\ y.row = row /\ ~y.locked
            /\ y.dirty = written /\ y.copy = "current" /\ y.read = rows[d]
        <5>1. /\ y \in Transaction /\ SameFields(y, x) /\ y.dirty = written
              /\ y.opens = x.opens /\ y.event = x.event /\ y.locked = x.locked
          BY <2>6, <2>8, <4>0 DEF Transaction, SameFields
        <5> QED
          BY <2>8, <5>1 DEF SameFields
      <4>2. session' = [session EXCEPT ![s] = y]
        BY <2>5, <3>2 DEF y
      <4> QED
        BY <2>6, <3>2, <4>1, <4>2
    <3> QED
      BY <1>9, <3>1, <3>2
  <2>10. y.dirty => "followup" \in deployment.ops
                       \/ row.status \in Transitions[rows[d].status]
    BY <2>7, <2>9 DEF FollowUp
  <2>11. session[s] = Idle /\ UNCHANGED <<deployment, table, stripe, seen>>
    BY <1>9 DEF GenerateReceipt, FollowUp
  <2> QED
    BY <2>1, <2>2, <2>3, <2>9, <2>10, <2>11, StaffBegins
<1> QED
  BY <1>3, <1>4, <1>6, <1>7, <1>8, <1>9 DEF Staff
-----------------------------------------------------------------------------
LEMMA MarkType ==
    ASSUME TypeOK, NEW s \in Sessions, session[s].pc = "checked", Mark(s)
    PROVE  seen' \in [Workers -> SUBSET Event]
<1>1. session[s].event \in Event
  BY SessionTypes DEF Checked
<1>2. WorkerOf[s] \in Workers /\ seen \in [Workers -> SUBSET Event]
  BY ConstantsOK DEF TypeOK
<1> QED
  BY <1>1, <1>2 DEF Mark

(* A session ends its work without a commit.                               *)
LEMMA GoesIdle ==
    ASSUME IInv, NEW s \in Sessions,
           session' = [session EXCEPT ![s] = Idle],
           UNCHANGED <<deployment, table, sent>>,
           seen' \in [Workers -> SUBSET Event],
           processed' \subseteq acked', acked' \subseteq sent,
           ProcessedIsRecorded'
    PROVE  IInv'
<1>1. TypeOK
  BY DEF IInv
<1>2. TypeOK'
  BY <1>1 DEF TypeOK, table
<1>3. /\ session'[s] = Idle
      /\ \A t \in Sessions \ {s} : session'[t] = session[t]
  BY <1>1 DEF TypeOK
<1>4. Idle.pc = "idle" /\ ~Busy(Idle)
  BY DEF Idle, Busy
<1>5. CheckedIsSent'
  BY <1>3, <1>4 DEF IInv, CheckedIsSent
<1>6. \A t \in Sessions : session'[t] = session[t] \/ ~Busy(session'[t])
  BY <1>3, <1>4
<1>7. ASSUME NEW t \in Sessions, Busy(session[t]), session[t].opens # NoPayment
      PROVE  \A e \in sent' : e.payment # session[t].opens
  BY <1>7 DEF IInv, SessionsSound, Sound, EventIsSent
<1>8. UNCHANGED <<deployment, rows, raised, checkout>> /\ sent \subseteq sent'
  BY DEF table
<1> QED
  BY <1>2, <1>5, <1>6, <1>7, <1>8, QuietStep

LEMMA RefuseStep ==
    ASSUME IInv, NEW s \in Sessions, Refuse(s),
           seen' \in [Workers -> SUBSET Event]
    PROVE  IInv'
<1>1. ProcessedIsRecorded'
  BY ProcessedStays DEF IInv, Refuse, table, stripe
<1> QED
  BY <1>1, GoesIdle DEF IInv, TypeOK, Refuse, stripe

RecordedPayment(p) ==
    \E d \in Donations :
        Exists(d) /\ rows[d].ref = p /\ rows[d].status \in Recorded

LEMMA AcceptStep ==
    ASSUME IInv, NEW s \in Sessions, Accept(s),
           seen' \in [Workers -> SUBSET Event],
           session[s].event \in sent,
           IdsAreUnique =>
               \A p \in Payments : session[s].event = Paid(p) => RecordedPayment(p)
    PROVE  IInv'
<1>1. ProcessedIsRecorded'
  BY DEF IInv, ProcessedIsRecorded, RecordedPayment, Paid, Exists, Accept, table,
     IdsAreUnique
<1> QED
  BY <1>1, GoesIdle DEF IInv, TypeOK, Accept

WebhookWrites(d, read, row, e, b) ==
    [Writing(d, read, row) EXCEPT !.event = e, !.locked = b]

LEMMA WrittenFields ==
    ASSUME NEW d \in Donations \cup {NoDonation}, NEW read \in Row \cup {NoRow},
           NEW row \in Row \cup {Deleted}, NEW e \in Event, NEW b \in BOOLEAN
    PROVE  LET y == WebhookWrites(d, read, row, e, b)
           IN  /\ y \in Transaction
               /\ y.pc = "loaded" /\ y.event = e /\ y.opens = NoPayment
               /\ y.id = d /\ y.read = read /\ y.row = row /\ y.dirty
               /\ y.copy = "current"
               /\ y.locked <=> b
BY DEF Writing, Transaction, WebhookWrites

(* A transaction that the webhook begins.                                  *)
LEMMA WriteStep ==
    ASSUME IInv, NEW s \in Sessions, session[s].pc = "checked",
           NEW d \in Donations \cup {NoDonation}, NEW read \in Row \cup {NoRow},
           NEW row \in Row, NEW b \in BOOLEAN,
           Write(s, Writing(d, read, row), b), seen' \in [Workers -> SUBSET Event],
           b => MayLock(s, d, TRUE) /\ deployment.database = "postgresql",
           IdsAreUnique /\ row.ref # NoPayment => row.status \in Recorded,
           \A p \in Payments : session[s].event = Paid(p) =>
               row = [status |-> "received", ref |-> p],
           \/ /\ read = NoRow /\ d = NoDonation
              /\ session[s].event = Paid(row.ref)
              /\ checkout[row.ref] = NoDonation
           \/ /\ d \in Donations
              /\ Exists(d)
              /\ read = rows[d]
              /\ row.status \in Transitions[rows[d].status]
              /\ \/ row.ref = rows[d].ref
                 \/ /\ rows[d].ref = NoPayment
                    /\ row.ref \in Payments
                    /\ checkout[row.ref] = d
                    /\ session[s].event = Paid(row.ref)
    PROVE  IInv'
<1> DEFINE e == session[s].event
           y == WebhookWrites(d, read, row, e, b)
<1>1. TypeOK
  BY DEF IInv
<1>2. e \in Event /\ e \in sent
  BY <1>1, SessionTypes DEF Checked, IInv, CheckedIsSent
<1>3. row \in Row \cup {Deleted} /\ row # Deleted
  BY Nulls
<1>4. session' = [session EXCEPT ![s] = y]
  BY DEF Write, Begin, WebhookWrites
<1>6. /\ y \in Transaction /\ y.pc = "loaded" /\ y.opens = NoPayment
      /\ y.id = d /\ y.read = read /\ y.row = row /\ y.dirty
      /\ y.copy = "current" /\ y.event = e /\ (y.locked <=> b)
  <2>1. e \in Event /\ row \in Row \cup {Deleted}
    BY <1>2, <1>3
  <2> HIDE DEF e
  <2> QED
    BY <2>1, WrittenFields
<1> HIDE DEF y, e
<1>7. UNCHANGED <<deployment, rows, raised, checkout, sent, receipts, processed, acked>>
  BY DEF Write, table, stripe
<1>8. TypeOK'
  BY <1>1, <1>4, <1>6, <1>7 DEF TypeOK
<1>9. ProcessedIsRecorded'
  BY <1>7, ProcessedStays DEF IInv
<1>10. EventIsSent(y)
  BY <1>2, <1>6 DEF EventIsSent, e
<1>11. ~Flushed(y)
  BY <1>6 DEF Flushed
<1>12. RowIsSound(y)
  <2>1. IdsAreUnique /\ y.row # Deleted /\ y.row.ref # NoPayment =>
           y.row.status \in Recorded
    BY <1>6
  <2>2. CASE read = NoRow
    <3>1. ~Exists(d) \/ read # rows[d]
      BY <2>2 DEF Exists
    <3> QED
      BY <1>3, <1>6, <1>11, <2>1, <2>2, <3>1 DEF RowIsSound, InsertIsKnown, e
  <2>3. CASE read # NoRow
    BY <1>2, <1>3, <1>6, <2>1, <2>3 DEF RowIsSound, ChangeIsKnown, e
  <2> QED
    BY <2>2, <2>3
<1>13. ~Busy(session[s])
  BY DEF Busy
<1>14. y.locked => /\ MayLock(s, y.id, y.dirty)
                   /\ deployment.database = "postgresql"
  BY <1>6
<1> QED
  BY <1>4, <1>6, <1>7, <1>8, <1>9, <1>10, <1>12, <1>13, <1>14, BeginStep

LEMMA ProcessingFacts ==
    ASSUME IInv, NEW s \in Sessions, NEW kind, Processing(s, kind)
    PROVE  /\ TypeOK /\ ReferredIsRecorded
           /\ session[s].pc = "checked"
           /\ session[s].event \in sent
           /\ session[s].event.kind = kind
           /\ session[s].event.payment \in Payments
           /\ session[s].event.payment # NoPayment
           /\ kind = "paid" => session[s].event = Paid(session[s].event.payment)
           /\ seen' \in [Workers -> SUBSET Event]
<1>1. TypeOK /\ ReferredIsRecorded /\ CheckedIsSent
  BY DEF IInv
<1>2. session[s].pc = "checked" /\ session[s].event.kind = kind /\ Mark(s)
  BY DEF Processing
<1>3. session[s].event \in Event /\ session[s].event \in sent
  BY <1>1, <1>2, SessionTypes DEF Checked, CheckedIsSent
<1>4. seen' \in [Workers -> SUBSET Event]
  BY <1>1, <1>2, MarkType
<1> QED
  BY <1>1, <1>2, <1>3, <1>4, EventFields, ConstantsOK

LEMMA FinalizeStep ==
    ASSUME IInv, NEW s \in Sessions, FinalizePayment(s)
    PROVE  IInv'
<1> DEFINE p == session[s].event.payment
           d == checkout[p]
           b == deployment.database = "postgresql"
           row == [status |-> "received", ref |-> p]
<1>1. /\ TypeOK /\ session[s].pc = "checked" /\ session[s].event \in sent
      /\ p \in Payments /\ p # NoPayment /\ session[s].event = Paid(p)
      /\ seen' \in [Workers -> SUBSET Event]
  BY ProcessingFacts DEF FinalizePayment
<1>2. d \in Donations
  BY <1>1 DEF FinalizePayment, TypeOK
<1>3. \A q \in Payments : session[s].event = Paid(q) => q = p
  BY <1>1, EventFields
<1>4. CASE AlreadyPaid(d, p) /\ Accept(s)
  <2>1. RecordedPayment(p)
    BY <1>2, <1>4 DEF RecordedPayment, AlreadyPaid, StatusIn, Exists
  <2> HIDE DEF p
  <2> QED
    BY <1>1, <1>3, <1>4, <2>1, AcceptStep
<1>5. CASE MayFinalize(d, p) /\ Write(s, Change(d, row), b)
  <2>1. b \in BOOLEAN /\ (b => MayLock(s, d, TRUE) /\ deployment.database = "postgresql")
    BY DEF FinalizePayment
  <2>2. row \in Row /\ row.ref = p /\ row.status = "received" /\ row.status \in Recorded
    BY <1>1, RowFields, StatusFacts
  <2>3. /\ Exists(d) /\ rows[d].status = "pending"
        /\ rows[d].ref = NoPayment \/ row.ref = rows[d].ref
    BY <1>5 DEF MayFinalize, StatusIn, Exists
  <2>4. row.status \in Transitions[rows[d].status]
    BY <2>2, <2>3, StatusFacts
  <2>5. \A q \in Payments : session[s].event = Paid(q) =>
           row = [status |-> "received", ref |-> q]
    BY <1>3
  <2>6. row.ref \in Payments /\ checkout[row.ref] = d /\ session[s].event = Paid(row.ref)
    BY <1>1, <2>2
  <2>7. session[s].pc = "checked" /\ seen' \in [Workers -> SUBSET Event]
    BY <1>1
  <2>8. rows[d] \in Row /\ Write(s, Writing(d, rows[d], row), b)
    BY <1>1, <1>2, <1>5, <2>3, RowTypes DEF Change
  <2> HIDE DEF p, d, b, row
  <2> QED
    BY <1>2, <2>1, <2>2, <2>3, <2>4, <2>5, <2>6, <2>7, <2>8, WriteStep
<1>6. CASE Refuse(s)
  BY <1>1, <1>6, RefuseStep
<1> QED
  BY <1>4, <1>5, <1>6 DEF FinalizePayment

LEMMA CreateStep ==
    ASSUME IInv, NEW s \in Sessions, CreatePaid(s)
    PROVE  IInv'
<1> DEFINE p == session[s].event.payment
           row == [status |-> "received", ref |-> p]
<1>1. /\ TypeOK /\ ReferredIsRecorded /\ session[s].pc = "checked"
      /\ session[s].event \in sent
      /\ p \in Payments /\ p # NoPayment /\ session[s].event = Paid(p)
      /\ seen' \in [Workers -> SUBSET Event] /\ checkout[p] = NoDonation
  BY ProcessingFacts DEF CreatePaid
<1>2. \A q \in Payments : session[s].event = Paid(q) => q = p
  BY <1>1, EventFields
<1>3. CASE WithReference(p) # {} /\ Accept(s)
  <2>1. IdsAreUnique => RecordedPayment(p)
    BY <1>1, <1>3 DEF RecordedPayment, WithReference, ReferredIsRecorded
  <2> HIDE DEF p
  <2> QED
    BY <1>1, <1>2, <1>3, <2>1, AcceptStep
<1>4. CASE Write(s, Insert(row), FALSE)
  <2>1. row \in Row /\ row.ref = p /\ row.status \in Recorded
    BY <1>1, RowFields, StatusFacts
  <2>2. \A q \in Payments : session[s].event = Paid(q) =>
           row = [status |-> "received", ref |-> q]
    BY <1>2
  <2>3. session[s].event = Paid(row.ref) /\ checkout[row.ref] = NoDonation
    BY <1>1, <2>1
  <2>4. session[s].pc = "checked" /\ seen' \in [Workers -> SUBSET Event]
    BY <1>1
  <2>5. Write(s, Writing(NoDonation, NoRow, row), FALSE)
    BY <1>4 DEF Insert
  <2> HIDE DEF p, row
  <2> QED
    BY <2>1, <2>2, <2>3, <2>4, <2>5, WriteStep
<1>5. CASE Refuse(s)
  BY <1>1, <1>5, RefuseStep
<1> QED
  BY <1>3, <1>4, <1>5 DEF CreatePaid, Replay

LEMMA ChangeStatusStep ==
    ASSUME IInv, NEW s \in Sessions, session[s].pc = "checked",
           seen' \in [Workers -> SUBSET Event],
           session[s].event.kind # "paid",
           NEW d \in Donations, Exists(d), NEW st \in Transitions[rows[d].status],
           Write(s, Change(d, [rows[d] EXCEPT !.status = st]), FALSE)
    PROVE  IInv'
<1> DEFINE row == [rows[d] EXCEPT !.status = st]
<1>1. rows[d] \in Row /\ rows[d].status \in Statuses
  BY RowTypes DEF IInv
<1>2. st \in Statuses
  BY <1>1, StatusFacts
<1>3. row \in Row /\ row.status = st /\ row.ref = rows[d].ref
  BY <1>1, <1>2, RowFields
<1>4. IdsAreUnique /\ row.ref # NoPayment => row.status \in Recorded
  BY <1>3, StatusFacts DEF IInv, ReferredIsRecorded
<1>5. \A q \in Payments : session[s].event # Paid(q)
  BY EventFields
<1>6. Write(s, Writing(d, rows[d], row), FALSE)
  BY DEF Change
<1> HIDE DEF row
<1> QED
  BY <1>1, <1>3, <1>4, <1>5, <1>6, WriteStep

LEMMA RefundedStep ==
    ASSUME IInv, NEW s \in Sessions, ChargeRefunded(s)
    PROVE  IInv'
<1> DEFINE p == session[s].event.payment
           refundable == {d \in WithReference(p) : rows[d].status \in Completed}
<1>1. /\ session[s].pc = "checked" /\ session[s].event \in sent
      /\ session[s].event.kind = "refunded"
      /\ seen' \in [Workers -> SUBSET Event]
  BY ProcessingFacts DEF ChargeRefunded
<1>2. \A q \in Payments : session[s].event # Paid(q)
  BY <1>1, EventFields
<1>3. CASE Accept(s)
  BY <1>1, <1>2, <1>3, AcceptStep
<1>4. ASSUME NEW d \in refundable,
             Write(s, Change(d, [rows[d] EXCEPT !.status = "refunded"]), FALSE)
      PROVE  IInv'
  <2>1. d \in Donations /\ Exists(d) /\ rows[d].status \in Completed
    BY DEF WithReference
  <2>2. "refunded" \in Transitions[rows[d].status]
    BY <2>1, StatusFacts DEF Completed
  <2>3. session[s].event.kind # "paid"
    BY <1>1
  <2> HIDE DEF p, refundable
  <2> QED
    BY <1>1, <1>4, <2>1, <2>2, <2>3, ChangeStatusStep
<1> QED
  BY <1>3, <1>4 DEF ChargeRefunded

LEMMA FailedStep ==
    ASSUME IInv, NEW s \in Sessions, PaymentFailed(s)
    PROVE  IInv'
<1> DEFINE p == session[s].event.payment
           open == {d \in WithReference(p) :
                        rows[d].status \in {"pending", "received"}}
<1>1. /\ session[s].pc = "checked" /\ session[s].event \in sent
      /\ session[s].event.kind = "failed"
      /\ seen' \in [Workers -> SUBSET Event]
  BY ProcessingFacts DEF PaymentFailed
<1>2. \A q \in Payments : session[s].event # Paid(q)
  BY <1>1, EventFields
<1>3. CASE Accept(s)
  BY <1>1, <1>2, <1>3, AcceptStep
<1>4. CASE Refuse(s)
  BY <1>1, <1>4, RefuseStep
<1>5. ASSUME NEW d \in open, "failed" \in Transitions[rows[d].status],
             Write(s, Change(d, [rows[d] EXCEPT !.status = "failed"]), FALSE)
      PROVE  IInv'
  <2>1. d \in Donations /\ Exists(d)
    BY DEF WithReference
  <2>2. session[s].event.kind # "paid"
    BY <1>1
  <2> HIDE DEF p, open
  <2> QED
    BY <1>1, <1>5, <2>1, <2>2, ChangeStatusStep
<1> QED
  BY <1>3, <1>4, <1>5 DEF PaymentFailed

LEMMA ReceiveStep ==
    ASSUME IInv, NEW s \in Sessions, NEW e \in Event, Receive(s, e)
    PROVE  IInv'
<1> DEFINE x == [pc |-> "checked", event |-> e]
<1>1. TypeOK /\ ProcessedIsRecorded
  BY DEF IInv
<1>2. x \in Checked /\ ~Busy(x) /\ e \in sent /\ x.event = e
  BY DEF Checked, Busy, Receive
<1>3. session' = [session EXCEPT ![s] = x]
  BY DEF Receive
<1> HIDE DEF x
<1>4. session'[s] = x /\ \A t \in Sessions \ {s} : session'[t] = session[t]
  BY <1>1, <1>3 DEF TypeOK
<1>5. TypeOK'
  BY <1>1, <1>2, <1>3 DEF TypeOK, Receive, table, stripe
<1>6. CheckedIsSent'
  BY <1>2, <1>4 DEF IInv, CheckedIsSent, Receive, stripe
<1>7. ProcessedIsRecorded'
  BY <1>1, ProcessedStays DEF Receive, table, stripe
<1>8. \A t \in Sessions : session'[t] = session[t] \/ ~Busy(session'[t])
  BY <1>2, <1>4
<1>9. UNCHANGED <<deployment, rows, raised, checkout, sent>>
  BY DEF Receive, table, stripe
<1>10. ASSUME NEW t \in Sessions, Busy(session[t]), session[t].opens # NoPayment
       PROVE  \A f \in sent' : f.payment # session[t].opens
  BY <1>9, <1>10 DEF IInv, SessionsSound, Sound, EventIsSent
<1> QED
  BY <1>5, <1>6, <1>7, <1>8, <1>9, <1>10, QuietStep

LEMMA WebhookStep ==
    ASSUME IInv, NEW s \in Sessions, Webhook(s)
    PROVE  IInv'
BY ReceiveStep, FinalizeStep, CreateStep, RefundedStep, FailedStep DEF Webhook
-----------------------------------------------------------------------------
(* An event is sent about a payment whose checkout nobody is opening.      *)
LEMMA EmitStep ==
    ASSUME IInv, NEW p \in Payments, NEW kind \in {"paid", "refunded", "failed"},
           Emit(kind, p), NotOpening(p) \/ IsPaid(p)
    PROVE  IInv'
<1> DEFINE e == [kind |-> kind, payment |-> p]
<1>1. TypeOK /\ ProcessedIsRecorded /\ CheckedIsSent
  BY DEF IInv
<1>2. e \in Event /\ e.payment = p
  BY DEF Event
<1>3. sent' = sent \cup {e}
  BY DEF Emit
<1>4. UNCHANGED <<deployment, rows, raised, receipts, checkout, processed, acked, seen, session>>
  BY DEF Emit, table
<1> HIDE DEF e
<1>5. TypeOK'
  BY <1>1, <1>2, <1>3, <1>4 DEF TypeOK
<1>6. CheckedIsSent'
  BY <1>1, <1>3, <1>4 DEF CheckedIsSent
<1>7. ProcessedIsRecorded'
  BY <1>1, <1>4, ProcessedStays
<1>8. ASSUME NEW t \in Sessions, Busy(session[t]), session[t].opens # NoPayment
      PROVE  \A f \in sent' : f.payment # session[t].opens
  <2>1. \A f \in sent : f.payment # session[t].opens
    BY <1>8 DEF IInv, SessionsSound, Sound, EventIsSent
  <2>2. p # session[t].opens
    <3>1. CASE NotOpening(p)
      BY <1>1, <1>8, <3>1, SessionTypes DEF NotOpening
    <3>2. CASE IsPaid(p)
      BY <2>1, <3>2, EventFields DEF IsPaid, Paid
    <3> QED
      BY <3>1, <3>2
  <2> QED
    BY <1>2, <1>3, <2>1, <2>2
<1> QED
  BY <1>3, <1>4, <1>5, <1>6, <1>7, <1>8, QuietStep

LEMMA StripeStep ==
    ASSUME IInv, StripeActs
    PROVE  IInv'
<1>1. ASSUME NEW p \in Payments, Decline(p) \/ Pay(p) \/ Refund(p)
      PROVE  IInv'
  BY <1>1, EmitStep DEF Decline, Pay, Refund
<1>2. ASSUME NEW w \in Workers, NEW e \in Event, Duplicate(w, e)
      PROVE  IInv'
  <2>1. UNCHANGED <<deployment, rows, raised, receipts, checkout, sent, processed, seen, session>>
    BY <1>2 DEF Duplicate, table
  <2>2. TypeOK'
    BY <1>2, <2>1 DEF IInv, TypeOK, Duplicate
  <2>3. CheckedIsSent'
    BY <2>1 DEF IInv, CheckedIsSent
  <2>4. ProcessedIsRecorded'
    BY <2>1, ProcessedStays DEF IInv
  <2>5. ASSUME NEW t \in Sessions, Busy(session[t]), session[t].opens # NoPayment
        PROVE  \A f \in sent' : f.payment # session[t].opens
    BY <2>1, <2>5 DEF IInv, SessionsSound, Sound, EventIsSent
  <2> QED
    BY <2>1, <2>2, <2>3, <2>4, <2>5, QuietStep
<1> QED
  BY <1>1, <1>2 DEF StripeActs

LEMMA FaultStep ==
    ASSUME IInv, Fault
    PROVE  IInv'
<1>1. ASSUME NEW s \in Sessions, Fail(s) PROVE IInv'
  <2>1. ProcessedIsRecorded'
    BY <1>1, ProcessedStays DEF IInv, Fail, table, stripe
  <2> QED
    BY <1>1, <2>1, GoesIdle DEF IInv, TypeOK, Fail, stripe
<1>2. CASE \/ \E w \in Workers : Restart(w)
           \/ \E w \in Workers, e \in Event : Forget(w, e)
  <2>1. UNCHANGED <<deployment, rows, raised, receipts, checkout, sent, processed, acked>>
    BY <1>2 DEF Restart, Forget, table, stripe
  <2>2. seen' \in [Workers -> SUBSET Event]
    BY <1>2 DEF IInv, TypeOK, Restart, Forget
  <2>3. \A t \in Sessions : session'[t] = session[t] \/ session'[t] = Idle
    BY <1>2 DEF Restart, Forget
  <2>4. session' \in [Sessions -> Transaction \cup Checked \cup {Idle}]
    BY <1>2 DEF IInv, TypeOK, Restart, Forget
  <2>5. TypeOK'
    BY <2>1, <2>2, <2>4 DEF IInv, TypeOK
  <2>6. Idle.pc = "idle" /\ ~Busy(Idle)
    BY DEF Idle, Busy
  <2>7. CheckedIsSent'
    BY <2>1, <2>3, <2>6 DEF IInv, CheckedIsSent
  <2>8. ProcessedIsRecorded'
    BY <2>1, ProcessedStays DEF IInv
  <2>9. ASSUME NEW t \in Sessions, Busy(session[t]), session[t].opens # NoPayment
        PROVE  \A f \in sent' : f.payment # session[t].opens
    BY <2>1, <2>9 DEF IInv, SessionsSound, Sound, EventIsSent
  <2>10. \A t \in Sessions : session'[t] = session[t] \/ ~Busy(session'[t])
    BY <2>3, <2>6
  <2> QED
    BY <2>1, <2>5, <2>7, <2>8, <2>9, <2>10, QuietStep
<1>3. CASE \E s \in Sessions : Fail(s)
  BY <1>1, <1>3
<1> QED
  BY <1>2, <1>3 DEF Fault
-----------------------------------------------------------------------------
(* The statements of a transaction.                                        *)
LEMMA TransactionFacts ==
    ASSUME IInv, NEW s \in Sessions, InTransaction(s)
    PROVE  /\ TypeOK
           /\ session[s] \in Transaction
           /\ Busy(session[s])
           /\ Sound(session[s])
BY SessionTypes DEF IInv, SessionsSound

LEMMA FlushReplaysStep ==
    ASSUME IInv, NEW s \in Sessions, FlushReplays(s)
    PROVE  IInv'
<1> DEFINE x == session[s]
<1>1. InTransaction(s)
  BY DEF FlushReplays, AtFlush, InTransaction
<1>2. TypeOK /\ x \in Transaction /\ Sound(x)
  BY <1>1, TransactionFacts
<1>3. x.row # Deleted /\ ~(WithReference(x.row.ref) \subseteq {x.id})
  BY DEF FlushReplays, ReferenceFree, Result, Inserts
<1>4. PICK d \in Donations : Exists(d) /\ rows[d].ref = x.row.ref /\ x.row.ref # NoPayment
  BY <1>3 DEF WithReference
<1>5. IdsAreUnique => RecordedPayment(x.row.ref)
  BY <1>4 DEF IInv, ReferredIsRecorded, RecordedPayment
<1>6. x.event = Paid(x.row.ref)
  BY <1>2, <1>4 DEF Sound, RowIsSound, InsertIsKnown, FlushReplays, Inserts
<1>7. x.event \in sent
  BY <1>2, <1>6, TransactionFields, EventFields, RowFields, <1>3, <1>4
  DEF Sound, EventIsSent
<1>8. \A q \in Payments : x.event = Paid(q) => q = x.row.ref
  BY <1>6 DEF Paid
<1>9. seen' \in [Workers -> SUBSET Event]
  BY <1>2 DEF FlushReplays, TypeOK
<1>10. CASE Accept(s)
  BY <1>5, <1>7, <1>8, <1>9, <1>10, AcceptStep
<1>11. CASE Refuse(s)
  BY <1>9, <1>11, RefuseStep
<1> QED
  BY <1>10, <1>11 DEF FlushReplays, Replay

LEMMA FlushFailsStep ==
    ASSUME IInv, NEW s \in Sessions, FlushFails(s)
    PROVE  IInv'
<1>1. seen' \in [Workers -> SUBSET Event]
  BY DEF FlushFails, IInv, TypeOK
<1> QED
  BY <1>1, RefuseStep DEF FlushFails

(* A statement changes the progress, the lock or the sum of a transaction, *)
(* and an INSERT gives it an id.                                           *)
SameChange(y, x) ==
    /\ y.event = x.event /\ y.opens = x.opens /\ y.read = x.read /\ y.row = x.row
    /\ y.dirty = x.dirty /\ y.copy = x.copy

LEMMA ResultType ==
    ASSUME TypeOK, NEW x \in Transaction,
           x.read # NoRow => x.id \in Donations /\ Exists(x.id)
    PROVE  ResultOf(x) \in Row \cup {Deleted}
<1>1. x.row \in Row \cup {Deleted}
  BY TransactionFields
<1>2. CASE x.read = NoRow \/ x.row = Deleted
  BY <1>1, <1>2 DEF ResultOf
<1>3. CASE x.read # NoRow /\ x.row # Deleted
  <2>1. /\ x.row.status \in Statuses /\ x.row.ref \in Payments \cup {NoPayment}
        /\ rows[x.id].status \in Statuses
        /\ rows[x.id].ref \in Payments \cup {NoPayment}
    BY <1>1, <1>3, RowFields, RowTypes
  <2> QED
    BY <1>3, <2>1, RowFields DEF ResultOf
<1> QED
  BY <1>2, <1>3

(* Over the row that was read, the whole new row is written.               *)
LEMMA ResultIsRow ==
    ASSUME NEW x \in Transaction,
           x.read = NoRow \/ x.row = Deleted \/ rows[x.id] = x.read
    PROVE  ResultOf(x) = x.row
<1>1. CASE x.read = NoRow \/ x.row = Deleted
  BY <1>1 DEF ResultOf
<1>2. CASE x.row # Deleted /\ rows[x.id] = x.read
  <2>1. x.row \in Row
    BY <1>2, TransactionFields
  <2>2. x.row = [status |-> x.row.status, ref |-> x.row.ref]
    BY <2>1 DEF Row
  <2> QED
    BY <1>2, <2>2 DEF ResultOf
<1> QED
  BY <1>1, <1>2

LEMMA WithSum ==
    ASSUME NEW x \in Transaction, NEW set \in SUBSET Donations
    PROVE  LET y == [x EXCEPT !.pc = "summed", !.sum = set]
           IN  /\ y \in Transaction
               /\ SameChange(y, x) /\ y.id = x.id
               /\ y.pc = "summed" /\ y.sum = set /\ y.locked = x.locked
BY DEF Transaction, SameChange

LEMMA SumTotalStep ==
    ASSUME IInv, NEW s \in Sessions, SumTotal(s)
    PROVE  IInv'
<1> DEFINE x == session[s]
           set == CompletedIn(Written(s))
           y == [x EXCEPT !.pc = "summed", !.sum = set]
<1>1. InTransaction(s) /\ x.pc = "flushed"
  BY DEF SumTotal, InTransaction
<1>2. TypeOK /\ x \in Transaction /\ Busy(x) /\ Sound(x)
  BY <1>1, TransactionFacts
<1>3. set \in SUBSET Donations /\ set = CompletedIn([rows EXCEPT ![x.id] = ResultOf(x)])
  BY DEF CompletedIn, Written, Result, ResultOf, Inserts
<1>4. session'[s] = y /\ \A t \in Sessions \ {s} : session'[t] = session[t]
  BY <1>2 DEF SumTotal, TypeOK
<1>5. session' \in [Sessions -> Transaction \cup Checked \cup {Idle}]
  <2>1. session' = [session EXCEPT ![s] = y]
    BY DEF SumTotal
  <2>2. y \in Transaction
    BY <1>2, <1>3, WithSum
  <2> QED
    BY <1>2, <2>1, <2>2 DEF TypeOK
<1> HIDE DEF set
<1>6. y \in Transaction /\ SameChange(y, x) /\ y.pc = "summed" /\ y.sum = set
      /\ y.locked = x.locked /\ y.id = x.id
  BY <1>2, <1>3, WithSum
<1> HIDE DEF y
<1>7. UNCHANGED <<deployment, rows, receipts, raised, checkout, sent, processed, acked, seen>>
  BY DEF SumTotal, table, stripe
<1>8. TypeOK'
  BY <1>2, <1>5, <1>7 DEF TypeOK
<1>9. ProcessedIsRecorded'
  BY <1>7, ProcessedStays DEF IInv
<1>10. Flushed(x) /\ Flushed(y) /\ Busy(y)
  BY <1>1, <1>6 DEF Flushed, Busy
<1>11. Sound(y)
  <2>1. EventIsSent(y) /\ RowIsSound(y)
    BY <1>2, <1>6, <1>10 DEF Sound, SameChange, EventIsSent, RowIsSound, InsertIsKnown, ChangeIsKnown
  <2>2. FlushHolds(y)
    BY <1>2, <1>6, <1>10 DEF Sound, SameChange, FlushHolds, Writes, ResultOf
  <2>3. SumIsExact(y)
    BY <1>3, <1>6 DEF SameChange, SumIsExact, ResultOf
  <2> QED
    BY <2>1, <2>2, <2>3 DEF Sound
<1>12. ASSUME NEW t \in Sessions \ {s}, Busy(session[t])
       PROVE  Apart(y, session[t]) /\ Apart(session[t], y)
  <2>1. Apart(x, session[t]) /\ Apart(session[t], x)
    BY <1>2, <1>12 DEF IInv, SessionsApart
  <2> QED
    BY <1>6, <1>10, <2>1 DEF Apart, SameChange, Writes, ResultOf
<1> QED
  BY <1>4, <1>7, <1>8, <1>9, <1>10, <1>11, <1>12, SessionStep

(* No two transactions that have flushed carry one reference.  The lock on *)
(* the reference parts two INSERTs, the checkout an INSERT from a donation *)
(* that its checkout completes, and two of those are one donation.  SQLite *)
(* has only one writer.                                                    *)
LEMMA ReferencesApart ==
    ASSUME IInv, deployment.database = "postgresql",
           NEW s \in Sessions, AtFlush(s), FlushSucceeds(s),
           NEW t \in Sessions \ {s}, Busy(session[t]), Flushed(session[t]),
           session[s].read # NoRow => session[t].id # session[s].id,
           NEW p \in Payments, Writes(session[s], p), Writes(session[t], p)
    PROVE  FALSE
<1> DEFINE x == session[s]
           z == session[t]
<1>1. InTransaction(s) /\ InTransaction(t)
  BY SessionTypes DEF AtFlush, InTransaction, Busy, IInv
<1>2. TypeOK /\ x \in Transaction /\ z \in Transaction /\ Sound(x) /\ Sound(z)
  BY <1>1, TransactionFacts
<1>3. IdsAreUnique /\ p # NoPayment /\ x.dirty /\ z.dirty
  BY DEF IdsAreUnique, Writes
<1>4. z.locked /\ WithReference(p) \subseteq {z.id}
  BY <1>2 DEF Sound, FlushHolds
<1>5. z.read # NoRow => ChangeIsKnown(z) /\ rows[z.id] = z.read /\ Exists(z.id)
  BY <1>2, <1>3 DEF Sound, RowIsSound, FlushHolds, ChangeIsKnown
<1>6. ResultOf(z) = z.row /\ z.row # Deleted /\ z.row.ref = p
  BY <1>2, <1>5, ResultIsRow DEF Writes
<1>7. x.read # NoRow
  <2>1. CASE x.read = NoRow
    <3>1. x.row # Deleted /\ x.row.ref = p
      BY <2>1 DEF Writes, ResultOf
    <3> QED
      BY <1>1, <1>3, <1>4, <1>6, <2>1, <3>1 DEF AtFlush, InsertingReference, Inserts
  <2> QED
    BY <2>1
<1>8. ChangeIsKnown(x) /\ x.copy = "current" /\ rows[x.id] = x.read
  BY <1>2, <1>3, <1>7 DEF Sound, RowIsSound, ChangeIsKnown, FlushSucceeds, Fresh
<1>9. x.row # Deleted /\ x.row.ref = p /\ x.id \in Donations /\ Exists(x.id)
  <2>1. ResultOf(x) = x.row /\ x.read \in Row
    BY <1>2, <1>7, <1>8, ResultIsRow, TransactionFields
  <2> QED
    BY <1>8, <2>1, Nulls DEF Writes, ChangeIsKnown, Exists
<1>10. rows[x.id].ref # p
  BY <1>3, <1>4, <1>7, <1>9 DEF WithReference
<1>11. checkout[p] = x.id /\ x.id # NoDonation
  BY <1>8, <1>9, <1>10, ConstantsOK DEF ChangeIsKnown
<1>12. CASE z.read = NoRow
  BY <1>2, <1>3, <1>6, <1>11, <1>12 DEF Sound, RowIsSound, InsertIsKnown
<1>13. CASE z.read # NoRow
  <2>1. WithReference(p) \subseteq {x.id}
    <3>1. ResultOf(x) = x.row
      BY <1>2, <1>8, ResultIsRow
    <3>2. Result(s) = ResultOf(x)
      BY DEF Result, ResultOf, Inserts
    <3> QED
      BY <1>3, <1>9, <3>1, <3>2 DEF FlushSucceeds, ReferenceFree
  <2>2. z.id \in Donations /\ rows[z.id].ref # p
    BY <1>3, <1>5, <1>7, <1>13, <2>1 DEF WithReference, ChangeIsKnown
  <2>3. checkout[p] = z.id
    BY <1>5, <1>6, <1>13, <2>2 DEF ChangeIsKnown
  <2> QED
    BY <1>7, <1>11, <2>3
<1> QED
  BY <1>12, <1>13

(* The id that a flush writes to: that of the row, or a free one that no   *)
(* transaction has.                                                        *)
LEMMA FlushedId ==
    ASSUME IInv, NEW s \in Sessions, InTransaction(s), NEW d \in Donations,
           IF Inserts(s) THEN NextId(d) ELSE d = session[s].id
    PROVE  /\ session[s].read # NoRow => d = session[s].id
           /\ session[s].read = NoRow =>
                 /\ ~Exists(d)
                 /\ IdsAreUnique => rows[d] = NoRow
                 /\ deployment.database = "postgresql" =>
                       \A t \in Sessions : Busy(session[t]) => session[t].id # d
<1>1. TypeOK /\ DeletedByStaff
  BY DEF IInv
<1>2. CASE session[s].read # NoRow
  BY <1>2 DEF Inserts
<1>3. CASE session[s].read = NoRow /\ deployment.database = "postgresql"
  <2>1. ~Taken(d)
    BY <1>3 DEF Inserts, NextId
  <2> QED
    BY <1>1, <1>3, <2>1, SessionTypes DEF Taken, Exists
<1>4. CASE session[s].read = NoRow /\ deployment.database # "postgresql"
  <2>1. ~Exists(d)
    <3>1. Exists(d) => d < d
      BY <1>4 DEF Inserts, NextId
    <3>2. d \in Nat
      BY ConstantsOK
    <3> QED
      BY <3>1, <3>2
  <2> QED
    BY <1>1, <1>4, <2>1 DEF Exists, DeletedByStaff, IdsAreUnique
<1> QED
  BY <1>2, <1>3, <1>4

LEMMA FlushStep ==
    ASSUME IInv, NEW s \in Sessions, Flush(s)
    PROVE  IInv'
<1> DEFINE x == session[s]
           pc == IF x.dirty THEN "flushed" ELSE "summed"
<1>1. InTransaction(s) /\ x.pc = "loaded" /\ AtFlush(s) /\ FlushSucceeds(s)
  BY DEF Flush, AtFlush, InTransaction
<1>2. TypeOK /\ x \in Transaction /\ Busy(x) /\ Sound(x)
  BY <1>1, TransactionFacts
<1>3. PICK d \in Donations :
         /\ IF Inserts(s) THEN NextId(d) ELSE d = x.id
         /\ session' = [session EXCEPT ![s].pc = pc, ![s].id = d, ![s].locked = TRUE]
  BY DEF Flush
<1> DEFINE y == [x EXCEPT !.pc = pc, !.id = d, !.locked = TRUE]
<1>4. pc \in {"flushed", "summed"} /\ (pc = "flushed" <=> x.dirty)
  OBVIOUS
<1>5. session' = [session EXCEPT ![s] = y]
  BY <1>2, <1>3 DEF TypeOK
<1> HIDE DEF pc
<1>6. y \in Transaction /\ SameChange(y, x) /\ y.pc = pc /\ y.id = d /\ y.locked
  <2>1. y = [x EXCEPT !.pc = pc, !.id = d, !.locked = TRUE]
    OBVIOUS
  <2>2. x \in Transaction /\ pc \in {"flushed", "summed"}
    BY <1>2, <1>4
  <2> HIDE DEF x, y
  <2> QED
    BY <2>1, <2>2 DEF Transaction, SameChange
<1> HIDE DEF y
<1>7. UNCHANGED <<deployment, rows, receipts, raised, checkout, sent, processed, acked, seen>>
  BY DEF Flush, table, stripe
<1>8. TypeOK'
  BY <1>2, <1>5, <1>6, <1>7 DEF TypeOK
<1>9. ProcessedIsRecorded'
  BY <1>7, ProcessedStays DEF IInv
<1>10. Flushed(y) /\ Busy(y)
  BY <1>4, <1>6 DEF Flushed, Busy
<1>11. /\ x.read # NoRow => d = x.id
       /\ x.read = NoRow =>
             /\ ~Exists(d)
             /\ IdsAreUnique => rows[d] = NoRow
             /\ deployment.database = "postgresql" =>
                   \A t \in Sessions : Busy(session[t]) => session[t].id # d
  BY <1>1, <1>3, FlushedId
<1>12. ResultOf(y) = ResultOf(x) /\ Result(s) = ResultOf(x)
       /\ \A p \in Payments : Writes(y, p) <=> Writes(x, p)
  BY <1>6, <1>11 DEF SameChange, ResultOf, Result, Inserts, Writes
<1>13. Sound(y)
  <2>1. EventIsSent(y)
    BY <1>2, <1>6 DEF Sound, SameChange, EventIsSent
  <2>2. RowIsSound(y)
    <3>1. CASE x.read = NoRow
      BY <1>2, <1>6, <1>10, <1>11, <3>1
      DEF Sound, SameChange, RowIsSound, InsertIsKnown
    <3>2. CASE x.read # NoRow
      BY <1>2, <1>6, <1>11, <3>2 DEF Sound, SameChange, RowIsSound, ChangeIsKnown
    <3> QED
      BY <3>1, <3>2
  <2>3. ASSUME y.dirty, y.read # NoRow
        PROVE  Exists(y.id) /\ (IdsAreUnique => y.copy = "current")
    <3>1. ChangeIsKnown(x) /\ Fresh(s) /\ x.read \in Row /\ y.id = x.id
          /\ y.copy = x.copy
      BY <1>1, <1>2, <1>6, <1>11, <2>3, TransactionFields
      DEF Sound, RowIsSound, SameChange, FlushSucceeds
    <3> QED
      BY <3>1, Nulls DEF ChangeIsKnown, Fresh, Exists
  <2>4. ASSUME NEW p \in Payments, Writes(y, p)
        PROVE  WithReference(p) \subseteq {y.id}
    <3>1. x.dirty /\ Result(s) # Deleted /\ Result(s).ref = p
      BY <1>12, <2>4 DEF Writes
    <3>2. WithReference(p) \subseteq {x.id}
      BY <1>1, <3>1 DEF FlushSucceeds, ReferenceFree
    <3>3. CASE x.read # NoRow
      BY <1>6, <1>11, <3>2, <3>3
    <3>4. CASE x.read = NoRow
      <4>1. x.id = NoDonation
        BY <1>1, <1>2, <3>4 DEF Sound, RowIsSound, InsertIsKnown, Flushed
      <4> QED
        BY <3>2, <4>1, ConstantsOK DEF WithReference
    <3> QED
      BY <3>3, <3>4
  <2>5. FlushHolds(y)
    BY <1>6, <2>3, <2>4 DEF FlushHolds
  <2>6. SumIsExact(y)
    BY <1>4, <1>6 DEF SameChange, SumIsExact
  <2> QED
    BY <2>1, <2>2, <2>5, <2>6 DEF Sound
<1>14. ASSUME NEW t \in Sessions \ {s}, Busy(session[t])
       PROVE  Apart(y, session[t]) /\ Apart(session[t], y)
  <2> DEFINE z == session[t]
  <2>1. z.locked => /\ deployment.database = "postgresql"
                    /\ z.id # x.id \/ z.dirty # x.dirty
    BY <1>1, <1>2, <1>14, SessionTypes DEF AtFlush, MayLock
  <2>2. z.locked => z.id # y.id \/ z.dirty # y.dirty
    BY <1>6, <1>11, <1>14, <2>1 DEF SameChange
  <2>3. Flushed(z) => z.locked
    BY <1>14 DEF IInv, SessionsSound, Sound, FlushHolds
  <2>4. Flushed(z) /\ z.id # y.id =>
           \A p \in Payments : ~(Writes(y, p) /\ Writes(z, p))
    BY <1>1, <1>6, <1>11, <1>12, <1>14, <2>1, <2>3, ReferencesApart
  <2> QED
    BY <1>6, <2>1, <2>2, <2>4 DEF Apart
<1>15. session'[s] = y /\ \A t \in Sessions \ {s} : session'[t] = session[t]
  BY <1>2, <1>5 DEF TypeOK
<1> QED
  BY <1>7, <1>8, <1>9, <1>10, <1>13, <1>14, <1>15, SessionStep
-----------------------------------------------------------------------------
(* A commit.                                                               *)
LEMMA WithCopy ==
    ASSUME NEW x \in Transaction, NEW copy \in {"stale", "former"},
           NEW y, y = [x EXCEPT !.copy = copy]
    PROVE  /\ y \in Transaction
           /\ y.pc = x.pc /\ y.event = x.event /\ y.opens = x.opens
           /\ y.id = x.id /\ y.read = x.read /\ y.row = x.row
           /\ y.dirty = x.dirty /\ y.locked = x.locked /\ y.sum = x.sum
           /\ y.copy = copy
BY DEF Transaction

(* What is left of another transaction: if the commit has changed its row, *)
(* or given its id to a new one, what it has read is not the row any more. *)
After(y, z, x) ==
    /\ y.pc = z.pc /\ y.event = z.event /\ y.opens = z.opens
    /\ y.id = z.id /\ y.read = z.read /\ y.row = z.row
    /\ y.dirty = z.dirty /\ y.locked = z.locked /\ y.sum = z.sum
    /\ y.copy = IF x.dirty /\ z.id = x.id THEN Aged(z.copy, x) ELSE z.copy

LEMMA CommitSessions ==
    ASSUME IInv, NEW s \in Sessions, Commit(s)
    PROVE  /\ session' \in [Sessions -> Transaction \cup Checked \cup {Idle}]
           /\ ~Busy(session'[s]) /\ session'[s].pc # "checked"
           /\ \A t \in Sessions \ {s} :
                 \/ session'[t] = session[t] /\ ~Busy(session[t])
                 \/ /\ Busy(session[t]) /\ Busy(session'[t])
                    /\ After(session'[t], session[t], session[s])
<1> DEFINE x == session[s]
           changed(t) == InTransaction(t) /\ session[t].id = x.id /\ x.dirty
<1>1. TypeOK /\ Idle.pc = "idle"
  BY DEF IInv, Idle
<1>2. /\ session'[s] = Idle
      /\ \A t \in Sessions \ {s} :
            session'[t] = IF changed(t) THEN [session[t] EXCEPT !.copy = Aged(@, x)]
                          ELSE session[t]
      /\ DOMAIN session' = Sessions /\ session' = [t \in Sessions |-> session'[t]]
  BY DEF Commit
<1>3. ASSUME NEW t \in Sessions \ {s}
      PROVE  /\ \/ session'[t] = session[t] /\ ~Busy(session[t])
                \/ /\ Busy(session[t]) /\ Busy(session'[t])
                   /\ After(session'[t], session[t], session[s])
             /\ session'[t] \in Transaction \cup Checked \cup {Idle}
  <2>1. CASE changed(t)
    <3> DEFINE copy == Aged(session[t].copy, x)
               y == [session[t] EXCEPT !.copy = copy]
    <3>1. session[t] \in Transaction /\ Busy(session[t]) /\ session'[t] = y
      BY <1>1, <1>2, <2>1, SessionTypes
    <3>2. copy \in {"stale", "former"}
      BY DEF Aged
    <3>3. y \in Transaction /\ After(y, session[t], x)
      <4> DEFINE z == session[t]
      <4>1. copy = Aged(z.copy, x) /\ y = [z EXCEPT !.copy = copy] /\ z \in Transaction
        BY <3>1
      <4> HIDE DEF copy, y, z
      <4>2. /\ y \in Transaction
            /\ y.pc = z.pc /\ y.event = z.event /\ y.opens = z.opens
            /\ y.id = z.id /\ y.read = z.read /\ y.row = z.row
            /\ y.dirty = z.dirty /\ y.locked = z.locked /\ y.sum = z.sum
            /\ y.copy = copy
        BY <3>2, <4>1, WithCopy
      <4>3. x.dirty /\ z.id = x.id
        BY <2>1 DEF z
      <4>4. After(y, z, x)
        BY <4>1, <4>2, <4>3 DEF After
      <4> QED
        BY <4>2, <4>4 DEF z
    <3> HIDE DEF y
    <3> QED
      BY <3>1, <3>3, TransactionFields
  <2>2. CASE ~changed(t)
    <3>1. session'[t] = session[t]
      BY <1>2, <2>2
    <3>2. Busy(session[t]) => ~(x.dirty /\ session[t].id = x.id)
      BY <1>1, <2>2, SessionTypes
    <3> QED
      BY <1>1, <3>1, <3>2 DEF TypeOK, After
  <2> QED
    BY <2>1, <2>2
<1>4. session'[s] = Idle /\ ~Busy(Idle)
  BY <1>1, <1>2 DEF Busy
<1>5. \A t \in Sessions : session'[t] \in Transaction \cup Checked \cup {Idle}
  BY <1>3, <1>4
<1>6. session' \in [Sessions -> Transaction \cup Checked \cup {Idle}]
  BY <1>2, <1>5
<1> QED
  BY <1>1, <1>3, <1>4, <1>6

LEMMA CommitTables ==
    ASSUME IInv, NEW s \in Sessions, Commit(s)
    PROVE  LET x == session[s]
           IN  /\ TypeOK /\ x \in Transaction /\ Busy(x) /\ Sound(x)
               /\ Flushed(x) /\ x.locked /\ x.id \in Donations
               /\ x.dirty => ResultOf(x) \in Row \cup {Deleted}
               /\ x.dirty => /\ rows' = [rows EXCEPT ![x.id] = ResultOf(x)]
                             /\ raised' = x.sum
               /\ ~x.dirty => rows' = rows /\ raised' = raised
               /\ \A d \in Donations :
                     rows'[d] = IF x.dirty /\ d = x.id THEN ResultOf(x) ELSE rows[d]
               /\ rows' \in [Donations -> Row \cup {NoRow, Deleted}]
               /\ checkout' \in [Payments -> Donations \cup {NoDonation}]
               /\ \A p \in Payments : p # x.opens => checkout'[p] = checkout[p]
               /\ UNCHANGED <<deployment, sent, seen>>
<1> DEFINE x == session[s]
<1>1. InTransaction(s) /\ x.pc = "summed"
  BY DEF Commit, InTransaction
<1>2. TypeOK /\ x \in Transaction /\ Busy(x) /\ Sound(x)
  BY <1>1, TransactionFacts
<1>3. Flushed(x) /\ x.locked
  BY <1>1, <1>2 DEF Sound, FlushHolds, Flushed
<1>4. x.id \in Donations /\ x.opens \in Payments \cup {NoPayment}
  BY <1>2, <1>3, TransactionFields DEF Sound, RowIsSound, InsertIsKnown, ChangeIsKnown
<1>5. x.dirty => ResultOf(x) \in Row \cup {Deleted}
  BY <1>2, <1>3, <1>4, ResultType DEF Sound, FlushHolds
<1>6. Written(s) = [rows EXCEPT ![x.id] = ResultOf(x)]
  BY DEF Written, Result, ResultOf, Inserts
<1>7. /\ x.dirty => rows' = [rows EXCEPT ![x.id] = ResultOf(x)] /\ raised' = x.sum
      /\ ~x.dirty => rows' = rows /\ raised' = raised
  BY <1>6 DEF Commit
<1>8. /\ checkout' \in [Payments -> Donations \cup {NoDonation}]
      /\ \A p \in Payments : p # x.opens => checkout'[p] = checkout[p]
  BY <1>2, <1>4 DEF Commit, TypeOK
<1>9. UNCHANGED <<deployment, sent, seen>>
  BY DEF Commit
<1> HIDE DEF x
<1>10. \A d \in Donations :
         rows'[d] = IF x.dirty /\ d = x.id THEN ResultOf(x) ELSE rows[d]
  BY <1>2, <1>4, <1>7 DEF TypeOK
<1>11. rows' \in [Donations -> Row \cup {NoRow, Deleted}]
  BY <1>2, <1>4, <1>5, <1>7 DEF TypeOK
<1>12. /\ TypeOK /\ x \in Transaction /\ Busy(x) /\ Sound(x)
       /\ Flushed(x) /\ x.locked /\ x.id \in Donations
       /\ x.dirty => ResultOf(x) \in Row \cup {Deleted}
       /\ x.dirty => /\ rows' = [rows EXCEPT ![x.id] = ResultOf(x)]
                     /\ raised' = x.sum
       /\ ~x.dirty => rows' = rows /\ raised' = raised
       /\ \A d \in Donations :
             rows'[d] = IF x.dirty /\ d = x.id THEN ResultOf(x) ELSE rows[d]
       /\ rows' \in [Donations -> Row \cup {NoRow, Deleted}]
       /\ checkout' \in [Payments -> Donations \cup {NoDonation}]
       /\ \A p \in Payments : p # x.opens => checkout'[p] = checkout[p]
       /\ UNCHANGED <<deployment, sent, seen>>
  BY <1>2, <1>3, <1>4, <1>5, <1>7, <1>8, <1>9, <1>10, <1>11
<1> QED
  BY <1>12 DEF x

(* What a commit does to the row of a donation that exists, where no id is *)
(* given twice.                                                            *)
LEMMA CommitChange ==
    ASSUME IInv, IdsAreUnique, NEW s \in Sessions, Commit(s), NEW d \in Donations,
           Exists(d), rows'[d] # rows[d]
    PROVE  /\ session[s].dirty /\ d = session[s].id /\ rows'[d] = session[s].row
           /\ session[s].row \in Row \cup {Deleted}
           /\ session[s].read = rows[d]
           /\ ChangeIsKnown(session[s])
           /\ Sound(session[s])
<1> DEFINE x == session[s]
<1>1. /\ Sound(x) /\ Flushed(x) /\ x \in Transaction
      /\ rows'[d] = IF x.dirty /\ d = x.id THEN ResultOf(x) ELSE rows[d]
  BY CommitTables
<1>2. x.row \in Row \cup {Deleted}
  BY <1>1, TransactionFields
<1>3. x.dirty /\ d = x.id /\ rows'[d] = ResultOf(x)
  BY <1>1
<1>4. x.read # NoRow
  BY <1>1, <1>3 DEF Sound, RowIsSound, InsertIsKnown
<1>5. ChangeIsKnown(x) /\ rows[x.id] = x.read
  BY <1>1, <1>3, <1>4 DEF Sound, RowIsSound, FlushHolds, ChangeIsKnown
<1>6. ResultOf(x) = x.row
  BY <1>1, <1>5, ResultIsRow
<1> QED
  BY <1>1, <1>2, <1>3, <1>5, <1>6

LEMMA CommitTypes ==
    ASSUME IInv, NEW s \in Sessions, Commit(s)
    PROVE  TypeOK'
<1> DEFINE x == session[s]
<1>1. /\ TypeOK /\ x \in Transaction /\ Sound(x) /\ x.id \in Donations
      /\ x.dirty => raised' = x.sum
      /\ ~x.dirty => raised' = raised
      /\ rows' \in [Donations -> Row \cup {NoRow, Deleted}]
      /\ checkout' \in [Payments -> Donations \cup {NoDonation}]
      /\ UNCHANGED <<deployment, sent, seen>>
  BY CommitTables
<1>2. /\ x.sum \subseteq Donations /\ x.id \in Donations
      /\ x.event # NoEvent => x.event \in sent
  BY <1>1, TransactionFields DEF Sound, EventIsSent
<1>3. raised' \subseteq Donations
  BY <1>1, <1>2 DEF TypeOK
<1>4. receipts' \subseteq Donations
  BY <1>1, <1>2 DEF TypeOK, Commit
<1>5. processed' \subseteq acked' /\ acked' \subseteq sent'
  BY <1>1, <1>2 DEF TypeOK, Commit
<1>6. session' \in [Sessions -> Transaction \cup Checked \cup {Idle}]
  BY CommitSessions
<1> QED
  BY <1>1, <1>3, <1>4, <1>5, <1>6 DEF TypeOK

LEMMA CommitKeepsRecords ==
    ASSUME IInv, NEW s \in Sessions, Commit(s)
    PROVE  /\ ReferredIsRecorded' /\ DeletedByStaff' /\ OneRecordPerPayment'
           /\ ProcessedIsRecorded' /\ RaisedIsExactOnSQLite'
<1> DEFINE x == session[s]
<1>1. /\ TypeOK /\ x \in Transaction /\ Sound(x) /\ Flushed(x) /\ Busy(x)
      /\ x.dirty => /\ rows' = [rows EXCEPT ![x.id] = ResultOf(x)]
                    /\ raised' = x.sum
      /\ ~x.dirty => rows' = rows /\ raised' = raised
      /\ \A d \in Donations :
            rows'[d] = IF x.dirty /\ d = x.id THEN ResultOf(x) ELSE rows[d]
      /\ rows' \in [Donations -> Row \cup {NoRow, Deleted}]
      /\ deployment' = deployment
  BY CommitTables
<1>2. /\ x.id \in Donations /\ x.row \in Row \cup {Deleted}
      /\ x.dirty => ResultOf(x) \in Row \cup {Deleted}
  BY <1>1, CommitTables, TransactionFields
<1>3. ReferredIsRecorded' /\ DeletedByStaff'
  <2>1. ASSUME IdsAreUnique, x.dirty PROVE ResultOf(x) = x.row
    BY <1>1, <2>1, ResultIsRow DEF Sound, RowIsSound, FlushHolds, ChangeIsKnown
  <2>2. ReferredIsRecorded'
    BY <1>1, <1>2, <2>1 DEF IInv, ReferredIsRecorded, Sound, RowIsSound, Exists,
       IdsAreUnique
  <2>3. ASSUME "delete" \notin deployment.ops, x.dirty PROVE ResultOf(x) # Deleted
    <3>1. x.row # Deleted
      BY <1>1, <2>3 DEF Sound, RowIsSound, InsertIsKnown, ChangeIsKnown
    <3>2. IdsAreUnique
      BY <2>3 DEF IdsAreUnique
    <3> QED
      BY <2>1, <2>3, <3>1, <3>2
  <2>4. DeletedByStaff'
    BY <1>1, <2>3 DEF IInv, DeletedByStaff
  <2> QED
    BY <2>2, <2>4
<1>4. OneRecordPerPayment'
  <2> SUFFICES ASSUME NEW d1 \in Donations, NEW d2 \in Donations,
                      Exists(d1)', Exists(d2)', d1 # d2,
                      rows'[d1].ref # NoPayment, rows'[d1].ref = rows'[d2].ref
               PROVE  FALSE
    BY DEF OneRecordPerPayment
  <2> DEFINE p == rows'[d1].ref
  <2>1. p \in Payments
    <3>1. rows'[d1] \in Row
      BY <1>1 DEF Exists
    <3> QED
      BY <3>1, RowFields
  <2>2. CASE ~x.dirty \/ x.id \notin {d1, d2}
    BY <1>1, <2>2 DEF IInv, OneRecordPerPayment, Exists
  <2>3. ASSUME x.dirty, NEW d \in {d1, d2}, d # x.id,
               ResultOf(x) # Deleted, ResultOf(x).ref = p, rows[d] = rows'[d]
        PROVE  FALSE
    <3>1. Writes(x, p)
      BY <2>3 DEF Writes
    <3>2. WithReference(p) \subseteq {x.id}
      BY <1>1, <2>1, <3>1 DEF Sound, FlushHolds
    <3>3. d \in WithReference(p)
      BY <2>3 DEF WithReference, Exists
    <3> QED
      BY <2>3, <3>2, <3>3
  <2>4. CASE x.dirty /\ x.id = d1
    BY <1>1, <2>3, <2>4 DEF Exists
  <2>5. CASE x.dirty /\ x.id = d2
    BY <1>1, <2>3, <2>5 DEF Exists
  <2> QED
    BY <2>2, <2>4, <2>5
<1>5. ProcessedIsRecorded'
  <2> SUFFICES ASSUME IdsAreUnique, NEW p \in Payments, Paid(p) \in processed'
               PROVE  \E d \in Donations :
                         Exists(d)' /\ rows'[d].ref = p /\ rows'[d].status \in Recorded
    BY <1>1 DEF ProcessedIsRecorded, Paid, IdsAreUnique
  <2>1. CASE Paid(p) \in processed
    <3>1. PICK d \in Donations :
             Exists(d) /\ rows[d].ref = p /\ rows[d].status \in Recorded
      BY <2>1 DEF IInv, ProcessedIsRecorded, Paid
    <3>2. CASE rows'[d] = rows[d]
      BY <3>1, <3>2 DEF Exists
    <3>3. CASE rows'[d] # rows[d]
      <4>1. /\ d = x.id /\ rows'[d] = x.row /\ x.row \in Row \cup {Deleted}
            /\ ChangeIsKnown(x) /\ Sound(x) /\ x.read = rows[d]
        BY <3>1, <3>3, CommitChange
      <4>2. p # NoPayment
        BY ConstantsOK
      <4>3. x.row # Deleted
        BY <3>1, <4>1, StatusFacts DEF ChangeIsKnown
      <4>4. x.row.ref = p
        BY <3>1, <4>1, <4>2, <4>3 DEF ChangeIsKnown
      <4>5. x.row.status \in Recorded
        BY <4>1, <4>2, <4>3, <4>4 DEF Sound, RowIsSound
      <4>6. Exists(d)'
        BY <4>1, <4>3, Nulls DEF Exists
      <4> QED
        BY <4>1, <4>4, <4>5, <4>6
    <3> QED
      BY <3>2, <3>3
  <2>2. CASE Paid(p) \notin processed
    <3>1. x.event = Paid(p)
      BY <2>2 DEF Commit
    <3>2. x.dirty /\ x.row = [status |-> "received", ref |-> p]
      BY <1>1, <3>1 DEF Sound, EventIsSent
    <3>3. PICK d \in Donations :
             rows'[d] = x.row /\ x.row.status = "received" /\ x.row.ref = p
      <4>1. ResultOf(x) = x.row
        BY <1>1, <3>2, ResultIsRow DEF Sound, RowIsSound, FlushHolds, ChangeIsKnown
      <4> QED
        BY <1>1, <1>2, <3>2, <4>1
    <3>4. x.row \in Row
      <4>1. "received" \in Statuses
        BY StatusFacts
      <4> QED
        BY <3>2, <4>1, RowFields
    <3>5. Exists(d)'
      BY <3>3, <3>4, Nulls DEF Exists
    <3> QED
      BY <3>3, <3>5, StatusFacts
  <2> QED
    BY <2>1, <2>2
<1>6. RaisedIsExactOnSQLite'
  <2>1. CASE x.dirty
    <3>1. deployment.database = "sqlite" =>
             x.sum = CompletedIn([rows EXCEPT ![x.id] = ResultOf(x)])
      <4>1. x.pc = "summed"
        BY DEF Commit
      <4> QED
        BY <1>1, <2>1, <4>1 DEF Sound, SumIsExact
    <3>2. CompletedIn([rows EXCEPT ![x.id] = ResultOf(x)]) = CompletedIn(rows)'
      BY <1>1, <2>1 DEF CompletedIn, StatusIn
    <3> QED
      BY <1>1, <2>1, <3>1, <3>2 DEF RaisedIsExactOnSQLite, RaisedIsExact
  <2>2. CASE ~x.dirty
    BY <1>1, <2>2 DEF IInv, RaisedIsExactOnSQLite, RaisedIsExact, CompletedIn, StatusIn
  <2> QED
    BY <2>1, <2>2
<1> QED
  BY <1>3, <1>4, <1>5, <1>6

(* The lock keeps the row of another transaction that has flushed.         *)
LEMMA CommitLeavesFlushed ==
    ASSUME IInv, NEW s \in Sessions, Commit(s), NEW t \in Sessions \ {s},
           Busy(session[t]), Flushed(session[t]), session[t].dirty
    PROVE  /\ ResultOf(session[t])' = ResultOf(session[t])
           /\ rows'[session[t].id] = rows[session[t].id]
           /\ session'[t].copy = session[t].copy
<1> DEFINE x == session[s]
           z == session[t]
<1>1. After(session'[t], z, x)
  BY CommitSessions
<1>2. /\ TypeOK /\ Busy(x) /\ x.locked
      /\ \A d \in Donations :
            rows'[d] = IF x.dirty /\ d = x.id THEN ResultOf(x) ELSE rows[d]
  BY CommitTables
<1>3. Sound(z) /\ Apart(x, z)
  BY <1>2 DEF IInv, SessionsSound, SessionsApart
<1>4. z.locked /\ z.id \in Donations
  BY <1>3 DEF Sound, FlushHolds, RowIsSound, InsertIsKnown, ChangeIsKnown
<1>5. x.dirty => z.id # x.id
  BY <1>2, <1>3, <1>4 DEF Apart
<1>6. rows'[z.id] = rows[z.id]
  BY <1>2, <1>4, <1>5
<1> QED
  BY <1>1, <1>5, <1>6 DEF After, ResultOf

LEMMA CommitKeepsSound ==
    ASSUME IInv, NEW s \in Sessions, Commit(s),
           NEW t \in Sessions, Busy(session'[t])
    PROVE  Sound(session[t])'
<1> DEFINE x == session[s]
           z == session[t]
           y == session'[t]
<1>1. t # s /\ Busy(z) /\ After(y, z, x)
  BY CommitSessions
<1>2. /\ TypeOK /\ x \in Transaction /\ Sound(x) /\ Flushed(x) /\ Busy(x)
      /\ x.locked /\ x.id \in Donations
      /\ x.dirty => ResultOf(x) \in Row \cup {Deleted}
      /\ \A d \in Donations :
            rows'[d] = IF x.dirty /\ d = x.id THEN ResultOf(x) ELSE rows[d]
      /\ \A p \in Payments : p # x.opens => checkout'[p] = checkout[p]
      /\ UNCHANGED <<deployment, sent>>
  BY CommitTables
<1>3. Sound(z) /\ z \in Transaction
  BY <1>1, <1>2, SessionTypes DEF IInv, SessionsSound
<1>4. Apart(x, z) /\ Apart(z, x)
  BY <1>1, <1>2 DEF IInv, SessionsApart
<1>5. /\ x.dirty => ResultOf(x) # NoRow
      /\ z.row \in Row \cup {Deleted}
      /\ IdsAreUnique' <=> IdsAreUnique
  BY <1>2, <1>3, TransactionFields, Nulls DEF IdsAreUnique
<1>6. \A p \in Payments : Paid(p) \in sent => checkout'[p] = checkout[p]
  <2>1. \A p \in Payments : Paid(p) \in sent => p # x.opens
    BY <1>2, EventFields, ConstantsOK DEF Sound, EventIsSent
  <2> QED
    BY <1>2, <2>1
<1>7. z.row # Deleted => z.row.ref \in Payments \cup {NoPayment}
  BY <1>5, RowFields
<1>8. EventIsSent(session[t])'
  BY <1>1, <1>2, <1>3 DEF Sound, EventIsSent, After
<1>9. Flushed(z) => z.locked
  BY <1>3 DEF Sound, FlushHolds
<1>10. Flushed(z) /\ z.dirty /\ x.dirty => z.id # x.id
  BY <1>2, <1>4, <1>9 DEF Apart
<1>11. RowIsSound(session[t])'
  <2>1. IdsAreUnique /\ y.row # Deleted /\ y.row.ref # NoPayment =>
           y.row.status \in Recorded
    BY <1>1, <1>3 DEF After, Sound, RowIsSound
  <2>2. ASSUME y.read = NoRow PROVE InsertIsKnown(session[t])'
    <3>1. InsertIsKnown(z)
      BY <1>1, <1>3, <2>2 DEF After, Sound, RowIsSound
    <3>2. z.row.ref # NoPayment => Paid(z.row.ref) \in sent /\ z.row.ref \in Payments
      BY <1>3, <1>7, <3>1, EventFields DEF Sound, EventIsSent, InsertIsKnown
    <3>3. z.row.ref # NoPayment => checkout'[z.row.ref] = NoDonation
      BY <1>6, <3>1, <3>2 DEF InsertIsKnown
    <3>4. Flushed(z) => rows'[z.id] = rows[z.id]
      BY <1>2, <1>10, <3>1 DEF InsertIsKnown
    <3> QED
      BY <1>1, <1>5, <3>1, <3>3, <3>4 DEF InsertIsKnown, After, Flushed, Exists
  <2>3. ASSUME y.read # NoRow PROVE ChangeIsKnown(session[t])'
    <3>1. ChangeIsKnown(z)
      BY <1>1, <1>3, <2>3 DEF After, Sound, RowIsSound
    <3>2. z.id \in Donations /\ rows'[z.id] # NoRow
      BY <1>2, <1>5, <3>1 DEF ChangeIsKnown
    <3>3. y.copy = "current" => rows'[z.id] = z.read
      BY <1>1, <1>2, <3>1 DEF ChangeIsKnown, After, Aged
    <3>4. ASSUME IdsAreUnique, x.dirty, z.id = x.id PROVE x.read # NoRow
      BY <1>2, <3>1, <3>4 DEF ChangeIsKnown, Sound, RowIsSound, InsertIsKnown
    <3>5. IdsAreUnique => y.copy # "former"
      BY <1>1, <3>1, <3>4 DEF ChangeIsKnown, After, Aged
    <3>6. Paid(z.row.ref) \in sent /\ z.row.ref \in Payments =>
             checkout'[z.row.ref] = checkout[z.row.ref]
      BY <1>6
    <3> QED
      BY <1>1, <1>2, <1>5, <3>1, <3>2, <3>3, <3>5, <3>6 DEF ChangeIsKnown, After
  <2> QED
    BY <1>5, <2>1, <2>2, <2>3 DEF RowIsSound
<1>12. Flushed(z) /\ z.dirty =>
          /\ ResultOf(session[t])' = ResultOf(z)
          /\ rows'[z.id] = rows[z.id]
          /\ y.copy = z.copy
  BY <1>1, CommitLeavesFlushed
<1>13. FlushHolds(session[t])'
  <2> SUFFICES ASSUME Flushed(y)
               PROVE  /\ y.locked
                      /\ y.dirty /\ y.read # NoRow =>
                            /\ rows'[y.id] \notin {NoRow, Deleted}
                            /\ IdsAreUnique => y.copy = "current"
                      /\ \A p \in Payments : Writes(session[t], p)' =>
                            WithReference(p)' \subseteq {y.id}
    BY <1>5 DEF FlushHolds, Flushed, Exists
  <2>1. Flushed(z) /\ y.locked /\ (y.dirty <=> z.dirty) /\ y.id = z.id
    BY <1>1, <1>9 DEF Flushed, After
  <2>2. ASSUME y.dirty, y.read # NoRow
        PROVE  /\ rows'[y.id] \notin {NoRow, Deleted}
               /\ IdsAreUnique => y.copy = "current"
    BY <1>1, <1>3, <1>12, <2>1, <2>2 DEF Sound, FlushHolds, Exists, After
  <2>3. ASSUME NEW p \in Payments, Writes(session[t], p)'
        PROVE  WithReference(p)' \subseteq {y.id}
    <3>1. Writes(z, p) /\ WithReference(p) \subseteq {z.id}
      BY <1>3, <1>12, <2>1, <2>3 DEF Sound, FlushHolds, Writes
    <3>2. x.dirty => ~Writes(x, p)
      BY <1>2, <1>4, <1>10, <2>1, <3>1 DEF Apart, Writes
    <3>3. ASSUME NEW d \in Donations, d \in WithReference(p)', d # z.id
          PROVE  d \in WithReference(p)
      BY <1>2, <3>2, <3>3 DEF WithReference, Exists, Writes
    <3> QED
      BY <2>1, <3>1, <3>3 DEF WithReference
  <2> QED
    BY <2>1, <2>2, <2>3
<1>14. SumIsExact(session[t])'
  <2>1. y.pc = "flushed" => y.dirty
    BY <1>1, <1>3 DEF Sound, SumIsExact, After
  <2>2. ~(y.pc = "summed" /\ deployment.database = "sqlite")
    BY <1>1, <1>2, <1>4, <1>9 DEF Flushed, Apart, After
  <2> QED
    BY <1>2, <2>1, <2>2 DEF SumIsExact
<1> QED
  BY <1>8, <1>11, <1>13, <1>14 DEF Sound

LEMMA CommitKeepsApart ==
    ASSUME IInv, NEW s \in Sessions, Commit(s),
           NEW t \in Sessions, NEW u \in Sessions, t # u,
           Busy(session'[t]), Busy(session'[u])
    PROVE  Apart(session[t], session[u])'
<1>1. /\ Busy(session[t]) /\ After(session'[t], session[t], session[s])
      /\ Busy(session[u]) /\ After(session'[u], session[u], session[s])
      /\ t # s /\ u # s
  BY CommitSessions
<1>2. Apart(session[t], session[u]) /\ deployment' = deployment
  BY <1>1, CommitTables DEF IInv, SessionsApart
<1>3. ASSUME NEW v \in {t, u}, Flushed(session'[v]), NEW p \in Payments,
             Writes(session[v], p)'
      PROVE  Flushed(session[v]) /\ Writes(session[v], p)
  <2>1. Flushed(session[v]) /\ session[v].dirty
    BY <1>1, <1>3 DEF Flushed, Writes, After
  <2>2. ResultOf(session[v])' = ResultOf(session[v])
    BY <1>1, <2>1, CommitLeavesFlushed
  <2> QED
    BY <1>3, <2>1, <2>2 DEF Writes
<1>4. ASSUME Flushed(session'[t]), Flushed(session'[u]),
             session'[t].id # session'[u].id, NEW p \in Payments,
             Writes(session[t], p)', Writes(session[u], p)'
      PROVE  FALSE
  <2>1. /\ Flushed(session[t]) /\ Writes(session[t], p)
        /\ Flushed(session[u]) /\ Writes(session[u], p)
    BY <1>3, <1>4
  <2> QED
    BY <1>1, <1>2, <1>4, <2>1 DEF Apart, After
<1>5. session'[t].locked /\ session'[u].locked =>
         /\ deployment.database = "postgresql"
         /\ session'[t].id # session'[u].id \/ session'[t].dirty # session'[u].dirty
  BY <1>1, <1>2 DEF Apart, After
<1> QED
  BY <1>2, <1>4, <1>5 DEF Apart, Flushed

LEMMA CommitStep ==
    ASSUME IInv, NEW s \in Sessions, Commit(s)
    PROVE  IInv'
<1>1. CheckedIsSent'
  <2>1. sent' = sent
    BY DEF Commit
  <2>2. \A t \in Sessions : session'[t].pc = "checked" => session'[t] = session[t]
    BY CommitSessions DEF Busy
  <2> QED
    BY <2>1, <2>2 DEF IInv, CheckedIsSent
<1>2. SessionsSound'
  BY CommitKeepsSound DEF SessionsSound, Busy
<1>3. SessionsApart'
  BY CommitKeepsApart DEF SessionsApart, Busy
<1> QED
  BY <1>1, <1>2, <1>3, CommitTypes, CommitKeepsRecords DEF IInv
-----------------------------------------------------------------------------
LEMMA UnchangedStep ==
    ASSUME IInv, UNCHANGED vars
    PROVE  IInv'
<1>1. UNCHANGED <<deployment, rows, receipts, raised, checkout, sent, processed, acked, seen, session>>
  BY DEF vars, table, stripe
<1>2. TypeOK'
  BY <1>1 DEF IInv, TypeOK
<1>3. CheckedIsSent'
  BY <1>1 DEF IInv, CheckedIsSent
<1>4. ProcessedIsRecorded'
  BY <1>1, ProcessedStays DEF IInv
<1>5. ASSUME NEW t \in Sessions, Busy(session[t]), session[t].opens # NoPayment
      PROVE  \A f \in sent' : f.payment # session[t].opens
  BY <1>1, <1>5 DEF IInv, SessionsSound, Sound, EventIsSent
<1> QED
  BY <1>1, <1>2, <1>3, <1>4, <1>5, QuietStep

LEMMA IInvNext == IInv /\ [Next]_vars => IInv'
<1> SUFFICES ASSUME IInv, [Next]_vars PROVE IInv'
  OBVIOUS
<1>1. ASSUME NEW s \in Sessions, Staff(s) PROVE IInv'
  BY <1>1, StaffStep
<1>2. ASSUME NEW s \in Sessions, Webhook(s) PROVE IInv'
  BY <1>2, WebhookStep
<1>3. ASSUME NEW s \in Sessions, Statement(s) PROVE IInv'
  BY <1>3, FlushStep, FlushReplaysStep, FlushFailsStep, SumTotalStep, CommitStep
  DEF Statement
<1>4. CASE StripeActs
  BY <1>4, StripeStep
<1>5. CASE Fault
  BY <1>5, FaultStep
<1>6. CASE UNCHANGED vars
  BY <1>6, UnchangedStep
<1> QED
  BY <1>1, <1>2, <1>3, <1>4, <1>5, <1>6 DEF Next

LEMMA Invariance == Spec => []IInv
BY IInvInit, IInvNext, PTL DEF Spec
-----------------------------------------------------------------------------
(* Every reachable state is well typed.                                    *)
THEOREM TypeCorrect == Spec => []TypeOK
BY Invariance, PTL DEF IInv

(* finalize_payment and create_donation record a payment once, for any     *)
(* deliveries of its event to any number of processes on either database.  *)
THEOREM PaymentRecordedOnce == Spec => []OneRecordPerPayment
BY Invariance, PTL DEF IInv

(* What the webhook has answered "processed" stays on record, wherever no  *)
(* id of a donation is given twice: on PostgreSQL, and on SQLite if        *)
(* delete_donation is not used.  Without that restriction it is not so:    *)
(* a second deletion of one id can take another donation away.             *)
THEOREM ProcessedStaysOnRecord == Spec => []ProcessedIsRecorded
BY Invariance, PTL DEF IInv

(* With one writer at a time, the listeners keep the campaign's total      *)
(* exact after every commit.                                               *)
THEOREM TotalIsExactOnSQLite == Spec => []RaisedIsExactOnSQLite
BY Invariance, PTL DEF IInv

MovesAlongTable ==
    \A d \in Donations :
        Exists(d) /\ IdsAreUnique /\ "followup" \notin deployment.ops =>
          \/ rows'[d] = Deleted /\ rows[d].status \in {"pending", "failed"}
          \/ /\ rows'[d] \in Row
             /\ \/ rows'[d].status = rows[d].status
                \/ rows'[d].status \in Transitions[rows[d].status]

(* Only a commit changes the table donations.                              *)
LEMMA OnlyCommitsChange ==
    ASSUME [Next]_vars, \A s \in Sessions : ~Commit(s)
    PROVE  rows' = rows
<1>1. ASSUME NEW s \in Sessions, Staff(s) PROVE rows' = rows
  BY <1>1 DEF Staff, OpenPending, RecordGift, UpdateStatus, UpdateDonation,
     DeleteDonation, GenerateReceipt, FollowUp, table
<1>2. ASSUME NEW s \in Sessions, Webhook(s) PROVE rows' = rows
  BY <1>2 DEF Webhook, Receive, FinalizePayment, CreatePaid, ChargeRefunded,
     PaymentFailed, Replay, Accept, Refuse, Write, table
<1>3. ASSUME NEW s \in Sessions, Statement(s) PROVE rows' = rows
  BY <1>3 DEF Statement, Flush, FlushReplays, FlushFails, SumTotal, Replay, Accept,
     Refuse, table
<1>4. CASE StripeActs
  BY <1>4 DEF StripeActs, Decline, Pay, Refund, Emit, Duplicate, table
<1>5. CASE Fault
  BY <1>5 DEF Fault, Fail, Restart, Forget, table
<1> QED
  BY <1>1, <1>2, <1>3, <1>4, <1>5 DEF Next, vars, table

LEMMA TableStep == IInv /\ [Next]_vars => MovesAlongTable
<1> SUFFICES ASSUME IInv, [Next]_vars, NEW d \in Donations, Exists(d),
                    IdsAreUnique, "followup" \notin deployment.ops
             PROVE  \/ rows'[d] = Deleted /\ rows[d].status \in {"pending", "failed"}
                    \/ /\ rows'[d] \in Row
                       /\ \/ rows'[d].status = rows[d].status
                          \/ rows'[d].status \in Transitions[rows[d].status]
  BY DEF MovesAlongTable
<1>1. CASE rows'[d] = rows[d]
  BY <1>1, RowTypes DEF IInv
<1>2. CASE rows'[d] # rows[d]
  <2>1. PICK s \in Sessions : Commit(s)
    BY <1>2, OnlyCommitsChange
  <2>2. /\ rows'[d] = session[s].row /\ d = session[s].id
        /\ session[s].row \in Row \cup {Deleted} /\ ChangeIsKnown(session[s])
        /\ session[s].read = rows[d] /\ session[s].dirty
    BY <1>2, <2>1, CommitChange
  <2> QED
    BY <2>2 DEF ChangeIsKnown
<1> QED
  BY <1>1, <1>2

(* The status of a donation moves along _VALID_TRANSITIONS, and only an    *)
(* unpaid one is deleted, where the follow-up workflow is not used and no  *)
(* id is given twice.                                                      *)
THEOREM StatusTableFollowed == Spec => FollowsTransitions
<1>1. IInv /\ [Next]_vars => [MovesAlongTable]_vars
  BY TableStep
<1>2. Spec => [][MovesAlongTable]_vars
  BY <1>1, Invariance, PTL DEF Spec
<1> QED
  BY <1>2 DEF FollowsTransitions, MovesAlongTable
=============================================================================
