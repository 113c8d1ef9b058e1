----------------------------- MODULE Mail_proofs -----------------------------
(***************************************************************************)
(* Proofs about the two components that mail: what the reminder jobs make  *)
(* of the queue (EventReminders), what threads that claim no batch make of *)
(* the tables of campaign mail (CampaignEmail), and the two together.      *)
(***************************************************************************)
EXTENDS MCMail, FiniteSetTheorems, WellFoundedInduction, TLAPS

Reads(j) == job[j].pc \in {"delivering", "sending", "accepted", "declined"}
OnRow(j) == job[j].pc \in {"sending", "accepted", "declined"}
Has(j, r) == Reads(j) /\ r \in DOMAIN job[j].rows

(* Whoever holds a row read it when it was waiting, and a row that waits   *)
(* has an attempt left.                                                    *)
AttemptsLeft ==
    /\ \A j \in ReminderJobs, r \in Reminders :
          Has(j, r) => queue[r] # NotQueued /\ job[j].rows[r] < MaxAttempts
    /\ \A r \in Reminders : Waiting(r) => queue[r].attempts < MaxAttempts

MailLeft ==
    \A j \in ReminderJobs :
        job[j].pc = "accepted" => deliveries[job[j].current] > 0

ReminderInv == ReminderTypeOK /\ AttemptsLeft /\ MailLeft /\ OutcomesAreTrue

LEMMA JobKinds ==
    ASSUME NEW x
    PROVE  x \in Job <=>
              \/ x \in [pc : {"queueing"}, todo : SUBSET Attendees]
              \/ \E R \in SUBSET Reminders :
                    x \in [pc : {"delivering"}, rows : [R -> 0..MaxAttempts]]
              \/ \E R \in SUBSET Reminders :
                    x \in [pc : {"sending", "accepted", "declined"},
                           rows : [R -> 0..MaxAttempts], current : R]
<1>1. x \in UNION {[pc : {"delivering"}, rows : [R -> 0..MaxAttempts]] :
                      R \in SUBSET Reminders}
        <=> \E R \in SUBSET Reminders :
              x \in [pc : {"delivering"}, rows : [R -> 0..MaxAttempts]]
  BY Zenon
<1>2. x \in UNION {[pc : {"sending", "accepted", "declined"},
                    rows : [R -> 0..MaxAttempts], current : R] :
                      R \in SUBSET Reminders}
        <=> \E R \in SUBSET Reminders :
              x \in [pc : {"sending", "accepted", "declined"},
                     rows : [R -> 0..MaxAttempts], current : R]
  BY Zenon
<1> QED BY <1>1, <1>2, Zenon DEF Job

LEMMA JobShapes ==
    ASSUME NEW x, x \in Job \cup {JobIdle}
    PROVE  /\ x.pc \in {"idle", "queueing", "delivering", "sending", "accepted",
                        "declined"}
           /\ x.pc = "idle" => x = JobIdle
           /\ x.pc = "queueing" =>
                 x.todo \subseteq Attendees /\ x = [pc |-> "queueing", todo |-> x.todo]
           /\ x.pc \in {"delivering", "sending", "accepted", "declined"} =>
                 /\ DOMAIN x.rows \subseteq Reminders
                 /\ x.rows \in [DOMAIN x.rows -> 0..MaxAttempts]
           /\ x.pc \in {"sending", "accepted", "declined"} =>
                 /\ x.current \in DOMAIN x.rows
                 /\ x = [pc |-> x.pc, rows |-> x.rows, current |-> x.current]
<1>1. CASE x = JobIdle
  BY <1>1 DEF JobIdle
<1>2. CASE x \in [pc : {"queueing"}, todo : SUBSET Attendees]
  BY <1>2
<1>3. CASE \E R \in SUBSET Reminders :
              x \in [pc : {"delivering"}, rows : [R -> 0..MaxAttempts]]
  BY <1>3
<1>4. CASE \E R \in SUBSET Reminders :
              x \in [pc : {"sending", "accepted", "declined"},
                     rows : [R -> 0..MaxAttempts], current : R]
  <2>1. PICK R \in SUBSET Reminders :
              x \in [pc : {"sending", "accepted", "declined"},
                     rows : [R -> 0..MaxAttempts], current : R]
    BY <1>4
  <2>2. DOMAIN x.rows = R
    BY <2>1
  <2> QED BY <2>1, <2>2
<1> QED BY <1>1, <1>2, <1>3, <1>4, JobKinds, Zenon

LEMMA JobsMade ==
    /\ JobIdle \in Job \cup {JobIdle}
    /\ \A T \in SUBSET Attendees :
          [pc |-> "queueing", todo |-> T] \in Job \cup {JobIdle}
    /\ \A R \in SUBSET Reminders : \A f \in [R -> 0..MaxAttempts] :
          [pc |-> "delivering", rows |-> f] \in Job \cup {JobIdle}
    /\ \A R \in SUBSET Reminders : \A f \in [R -> 0..MaxAttempts] :
          \A c \in R, p \in {"sending", "accepted", "declined"} :
             [pc |-> p, rows |-> f, current |-> c] \in Job \cup {JobIdle}
<1>1. \A T \in SUBSET Attendees : [pc |-> "queueing", todo |-> T] \in Job
  BY DEF Job
<1>2. ASSUME NEW R \in SUBSET Reminders, NEW f \in [R -> 0..MaxAttempts]
      PROVE  [pc |-> "delivering", rows |-> f] \in Job
  <2>1. [pc |-> "delivering", rows |-> f]
           \in [pc : {"delivering"}, rows : [R -> 0..MaxAttempts]]
    OBVIOUS
  <2> QED BY <2>1, JobKinds, Zenon
<1>3. ASSUME NEW R \in SUBSET Reminders, NEW f \in [R -> 0..MaxAttempts],
             NEW c \in R, NEW p \in {"sending", "accepted", "declined"}
      PROVE  [pc |-> p, rows |-> f, current |-> c] \in Job
  <2>1. [pc |-> p, rows |-> f, current |-> c]
           \in [pc : {"sending", "accepted", "declined"},
                rows : [R -> 0..MaxAttempts], current : R]
    OBVIOUS
  <2> QED BY <2>1, JobKinds, Zenon
<1> QED BY <1>1, <1>2, <1>3

(* What may be written into a row.                                         *)
Sound(row, r, mails, dead) ==
    /\ row \in QueueRow
    /\ row.status = "sent" => mails[r] > 0
    /\ row.status \in {"failed", "suppressed"} => r \in dead
    /\ row.status \in {"pending", "retrying"} => row.attempts < MaxAttempts

LEMMA RowsAreSound ==
    ASSUME ReminderInv, NEW r \in Reminders, queue[r] # NotQueued
    PROVE  Sound(queue[r], r, deliveries, deadLetters)
BY DEF ReminderInv, ReminderTypeOK, AttemptsLeft, OutcomesAreTrue, Waiting, Sound,
       QueueRow

LEMMA SoundRowsKeep ==
    ASSUME ReminderInv,
           queue' \in [Reminders -> QueueRow \cup {NotQueued}],
           deliveries' \in [Reminders -> Nat],
           deadLetters \subseteq deadLetters',
           \A r \in Reminders : deliveries'[r] >= deliveries[r],
           \A r \in Reminders :
              \/ queue'[r] = queue[r]
              \/ Sound(queue'[r], r, deliveries', deadLetters')
    PROVE  /\ OutcomesAreTrue'
           /\ \A r \in Reminders : queue[r] # NotQueued => queue'[r] # NotQueued
           /\ \A r \in Reminders :
                 queue'[r] # NotQueued /\ queue'[r].status \in {"pending", "retrying"}
                    => queue'[r].attempts < MaxAttempts
<1>1. ASSUME NEW r \in Reminders, queue'[r] # NotQueued
      PROVE  Sound(queue'[r], r, deliveries', deadLetters')
  <2>1. CASE queue'[r] = queue[r]
    <3>1. Sound(queue[r], r, deliveries, deadLetters)
      BY <1>1, <2>1, RowsAreSound
    <3>2. deliveries[r] \in Nat
      BY DEF ReminderInv, ReminderTypeOK
    <3> QED BY <3>1, <3>2, <2>1 DEF Sound
  <2> QED BY <2>1
<1>2. ASSUME NEW r \in Reminders
      PROVE  queue[r] # NotQueued => queue'[r] # NotQueued
  BY NotQueuedOK DEF Sound
<1>3. OutcomesAreTrue'
  BY <1>1 DEF OutcomesAreTrue, Sound
<1>4. \A r \in Reminders :
         queue'[r] # NotQueued /\ queue'[r].status \in {"pending", "retrying"}
            => queue'[r].attempts < MaxAttempts
  BY <1>1 DEF Sound
<1> QED BY <1>2, <1>3, <1>4

(* A job takes a step: it is enough to look at the row it writes and at    *)
(* what it now holds.                                                      *)
LEMMA JobStepKeeps ==
    ASSUME ReminderInv, NEW j \in ReminderJobs, NEW x \in Job \cup {JobIdle},
           JobGoes(j, x),
           queue' \in [Reminders -> QueueRow \cup {NotQueued}],
           deliveries' \in [Reminders -> Nat],
           deadLetters' \subseteq Reminders, deadLetters \subseteq deadLetters',
           backoff' \subseteq Reminders,
           UNCHANGED <<suppressed, brokenOff, scheduled>>,
           \A r \in Reminders : deliveries'[r] >= deliveries[r],
           \A r \in Reminders :
              \/ queue'[r] = queue[r]
              \/ Sound(queue'[r], r, deliveries', deadLetters'),
           x.pc \in {"delivering", "sending", "accepted", "declined"} =>
              \A r \in DOMAIN x.rows :
                 queue[r] # NotQueued /\ x.rows[r] < MaxAttempts,
           x.pc = "accepted" => deliveries'[x.current] > 0
    PROVE  ReminderInv'
<1>1. /\ OutcomesAreTrue'
      /\ \A r \in Reminders : queue[r] # NotQueued => queue'[r] # NotQueued
      /\ \A r \in Reminders :
            queue'[r] # NotQueued /\ queue'[r].status \in {"pending", "retrying"}
               => queue'[r].attempts < MaxAttempts
  BY SoundRowsKeep
<1>2. /\ job' \in [ReminderJobs -> Job \cup {JobIdle}]
      /\ job'[j] = x
      /\ \A k \in ReminderJobs \ {j} : job'[k] = job[k]
  BY DEF ReminderInv, ReminderTypeOK, JobGoes
<1>3. ReminderTypeOK'
  BY <1>2 DEF ReminderInv, ReminderTypeOK
<1>4. ASSUME NEW k \in ReminderJobs, NEW r \in Reminders, Has(k, r)'
      PROVE  queue'[r] # NotQueued /\ job'[k].rows[r] < MaxAttempts
  <2>1. CASE k = j
    BY <2>1, <1>1, <1>2, <1>4 DEF Has, Reads
  <2>2. CASE k # j
    BY <2>2, <1>1, <1>2, <1>4 DEF Has, Reads, ReminderInv, AttemptsLeft
  <2> QED BY <2>1, <2>2
<1>5. AttemptsLeft'
  BY <1>1, <1>4 DEF AttemptsLeft, Waiting
<1>6. ASSUME NEW k \in ReminderJobs, job'[k].pc = "accepted"
      PROVE  deliveries'[job'[k].current] > 0
  <2>1. CASE k = j
    BY <2>1, <1>2, <1>6
  <2>2. CASE k # j
    <3>1. job[k].pc = "accepted"
      BY <2>2, <1>2, <1>6
    <3>2. job[k].current \in Reminders
      BY <3>1, JobShapes DEF ReminderInv, ReminderTypeOK
    <3>3. deliveries[job[k].current] > 0 /\ deliveries[job[k].current] \in Nat
      BY <3>1, <3>2 DEF ReminderInv, MailLeft, ReminderTypeOK
    <3> QED BY <3>2, <3>3, <2>2, <1>2
  <2> QED BY <2>1, <2>2
<1> QED BY <1>1, <1>3, <1>5, <1>6 DEF ReminderInv, MailLeft

LEMMA JobAt ==
    ASSUME ReminderInv, NEW j \in ReminderJobs
    PROVE  job[j] \in Job \cup {JobIdle}
BY DEF ReminderInv, ReminderTypeOK

LEMMA QuietKeeps ==
    ASSUME ReminderInv, NEW j \in ReminderJobs, NEW x \in Job \cup {JobIdle},
           JobGoes(j, x),
           UNCHANGED <<queue, deadLetters, suppressed, backoff, deliveries, brokenOff,
                       scheduled>>,
           x.pc \in {"delivering", "sending", "accepted", "declined"} =>
              \A r \in DOMAIN x.rows :
                 queue[r] # NotQueued /\ x.rows[r] < MaxAttempts,
           x.pc # "accepted"
    PROVE  ReminderInv'
<1>1. /\ queue' \in [Reminders -> QueueRow \cup {NotQueued}]
      /\ deliveries' \in [Reminders -> Nat]
      /\ deadLetters' \subseteq Reminders /\ deadLetters \subseteq deadLetters'
      /\ backoff' \subseteq Reminders
      /\ UNCHANGED <<suppressed, brokenOff, scheduled>>
  BY DEF ReminderInv, ReminderTypeOK
<1>2. \A r \in Reminders : deliveries'[r] >= deliveries[r]
  BY DEF ReminderInv, ReminderTypeOK
<1> QED BY <1>1, <1>2, JobStepKeeps

LEMMA StartJobKeeps ==
    ASSUME ReminderInv, NEW j \in ReminderJobs, StartJob(j) PROVE ReminderInv'
<1>1. PICK todo \in {{}, IF HoursOf[j] \in InTime THEN Attendees ELSE {}} :
         JobGoes(j, [pc |-> "queueing", todo |-> todo])
  BY DEF StartJob
<1>2. todo \in SUBSET Attendees
  OBVIOUS
<1>3. [pc |-> "queueing", todo |-> todo] \in Job \cup {JobIdle}
  BY <1>2, JobsMade
<1> QED BY <1>1, <1>3, QuietKeeps DEF StartJob

LEMMA EndJobKeeps ==
    ASSUME ReminderInv, NEW j \in ReminderJobs, EndJob(j) PROVE ReminderInv'
<1>1. JobIdle.pc = "idle"
  BY DEF JobIdle
<1> QED BY <1>1, JobsMade, QuietKeeps DEF EndJob

LEMMA ReadQueueKeeps ==
    ASSUME ReminderInv, NEW j \in ReminderJobs, ReadQueue(j) PROVE ReminderInv'
<1> DEFINE due == {r \in Reminders : Waiting(r) /\ r \notin backoff}
           read == [r \in due |-> queue[r].attempts]
<1>1. \A r \in due : queue[r] # NotQueued /\ queue[r] \in QueueRow
                        /\ queue[r].attempts < MaxAttempts
  BY DEF Waiting, ReminderInv, ReminderTypeOK, AttemptsLeft
<1>2. due \in SUBSET Reminders /\ read \in [due -> 0..MaxAttempts]
  BY <1>1 DEF QueueRow
<1>3. JobGoes(j, [pc |-> "delivering", rows |-> read])
  BY DEF ReadQueue
<1>4. \A r \in due : read[r] = queue[r].attempts
  OBVIOUS
<1> HIDE DEF due, read
<1>5. [pc |-> "delivering", rows |-> read] \in Job \cup {JobIdle}
  BY <1>2, JobsMade
<1>6. \A r \in DOMAIN read : queue[r] # NotQueued /\ read[r] < MaxAttempts
  BY <1>1, <1>2, <1>4
<1> QED BY <1>3, <1>5, <1>6, QuietKeeps DEF ReadQueue

(* What a job holds of the rows it works through.                          *)
LEMMA Holding ==
    ASSUME ReminderInv, NEW j \in ReminderJobs, Reads(j)
    PROVE  /\ DOMAIN job[j].rows \subseteq Reminders
           /\ job[j].rows \in [DOMAIN job[j].rows -> 0..MaxAttempts]
           /\ \A r \in DOMAIN job[j].rows :
                 queue[r] # NotQueued /\ job[j].rows[r] < MaxAttempts
           /\ OnRow(j) => job[j].current \in DOMAIN job[j].rows
<1>1. job[j] \in Job \cup {JobIdle}
  BY JobAt
<1>2. DOMAIN job[j].rows \subseteq Reminders
  BY <1>1, JobShapes DEF Reads
<1> QED BY <1>1, <1>2, JobShapes DEF Reads, OnRow, Has, ReminderInv, AttemptsLeft

LEMMA BeginSendKeeps ==
    ASSUME ReminderInv, NEW j \in ReminderJobs, NEW r \in Reminders, BeginSend(j, r)
    PROVE  ReminderInv'
<1> DEFINE x == [pc |-> "sending", rows |-> job[j].rows, current |-> r]
<1>1. Reads(j) /\ r \in DOMAIN job[j].rows
  BY DEF BeginSend, Reads
<1>2. x \in Job \cup {JobIdle}
  BY <1>1, Holding, JobsMade
<1>3. \A q \in DOMAIN job[j].rows :
         queue[q] # NotQueued /\ job[j].rows[q] < MaxAttempts
  BY <1>1, Holding
<1> QED BY <1>2, <1>3, QuietKeeps DEF BeginSend

(* The record of a job after it has moved on with its row.                 *)
LEMMA OnRowMoves ==
    ASSUME ReminderInv, NEW j \in ReminderJobs, OnRow(j),
           NEW p \in {"accepted", "declined"}
    PROVE  /\ [job[j] EXCEPT !.pc = p] \in Job \cup {JobIdle}
           /\ [job[j] EXCEPT !.pc = p].pc = p
           /\ [job[j] EXCEPT !.pc = p].rows = job[j].rows
           /\ [job[j] EXCEPT !.pc = p].current = job[j].current
<1>1. job[j] \in Job \cup {JobIdle}
  BY JobAt
<1>2. job[j] = [pc |-> job[j].pc, rows |-> job[j].rows, current |-> job[j].current]
  BY <1>1, JobShapes DEF OnRow
<1>3. [job[j] EXCEPT !.pc = p] =
         [pc |-> p, rows |-> job[j].rows, current |-> job[j].current]
  BY <1>2
<1>4. [pc |-> p, rows |-> job[j].rows, current |-> job[j].current]
         \in Job \cup {JobIdle}
  BY Holding, JobsMade DEF OnRow, Reads
<1> QED BY <1>3, <1>4

(* The mail server answers, and took so many copies.                       *)
LEMMA AnsweredKeeps ==
    ASSUME ReminderInv, NEW j \in ReminderJobs, OnRow(j),
           NEW p \in {"accepted", "declined"}, NEW copies \in Nat,
           p = "accepted" => copies > 0,
           deliveries' = [deliveries EXCEPT ![job[j].current] = @ + copies],
           JobGoes(j, [job[j] EXCEPT !.pc = p]),
           UNCHANGED <<queue, deadLetters, suppressed, backoff, brokenOff,
                       scheduled>>
    PROVE  ReminderInv'
<1> DEFINE x == [job[j] EXCEPT !.pc = p]
<1>1. Reads(j)
  BY DEF OnRow, Reads
<1>2. /\ x \in Job \cup {JobIdle} /\ x.pc = p
      /\ x.rows = job[j].rows /\ x.current = job[j].current
  BY OnRowMoves
<1>3. JobGoes(j, x)
  OBVIOUS
<1> HIDE DEF x
<1>4. job[j].current \in Reminders
  BY <1>1, Holding
<1>5. /\ deliveries' \in [Reminders -> Nat]
      /\ \A r \in Reminders : deliveries'[r] >= deliveries[r]
      /\ x.pc = "accepted" => deliveries'[x.current] > 0
  BY <1>2, <1>4 DEF ReminderInv, ReminderTypeOK
<1>6. /\ queue' \in [Reminders -> QueueRow \cup {NotQueued}]
      /\ queue' = queue
      /\ deadLetters' \subseteq Reminders /\ deadLetters \subseteq deadLetters'
      /\ backoff' \subseteq Reminders
      /\ UNCHANGED <<suppressed, brokenOff, scheduled>>
  BY DEF ReminderInv, ReminderTypeOK
<1>7. \A r \in DOMAIN x.rows : queue[r] # NotQueued /\ x.rows[r] < MaxAttempts
  BY <1>1, <1>2, Holding
<1> QED BY <1>2, <1>3, <1>5, <1>6, <1>7, JobStepKeeps

LEMMA ServerTakesKeeps ==
    ASSUME ReminderInv, NEW j \in ReminderJobs, NEW copies, ServerTakes(j, copies)
    PROVE  ReminderInv'
<1>1. OnRow(j)
  BY DEF ServerTakes, OnRow
<1>2. copies \in Nat /\ copies > 0
  BY ReminderConstantsOK DEF ServerTakes
<1> QED BY <1>1, <1>2, AnsweredKeeps DEF ServerTakes

LEMMA ServerDeclinesKeeps ==
    ASSUME ReminderInv, NEW j \in ReminderJobs, NEW copies,
           ServerDeclines(j, copies)
    PROVE  ReminderInv'
<1>1. OnRow(j)
  BY DEF ServerDeclines, OnRow
<1>2. copies \in Nat
  BY ReminderConstantsOK DEF ServerDeclines
<1> QED BY <1>1, <1>2, AnsweredKeeps DEF ServerDeclines

(* A job writes the row r and drops it from those it holds.                *)
LEMMA WritingKeeps ==
    ASSUME ReminderInv, NEW j \in ReminderJobs, Reads(j),
           NEW r \in DOMAIN job[j].rows, NEW row,
           queue' = [queue EXCEPT ![r] = row],
           JobGoes(j, [pc |-> "delivering", rows |-> Without(job[j].rows, r)]),
           deadLetters' \subseteq Reminders, deadLetters \subseteq deadLetters',
           backoff' \subseteq Reminders,
           Sound(row, r, deliveries, deadLetters'),
           UNCHANGED <<suppressed, deliveries, brokenOff, scheduled>>
    PROVE  ReminderInv'
<1> DEFINE x == [pc |-> "delivering", rows |-> Without(job[j].rows, r)]
<1>1. /\ DOMAIN x.rows = DOMAIN job[j].rows \ {r}
      /\ x \in Job \cup {JobIdle}
      /\ \A q \in DOMAIN x.rows : x.rows[q] = job[j].rows[q]
  <2>1. /\ DOMAIN job[j].rows \in SUBSET Reminders
        /\ job[j].rows \in [DOMAIN job[j].rows -> 0..MaxAttempts]
    BY Holding
  <2>2. /\ DOMAIN Without(job[j].rows, r) = DOMAIN job[j].rows \ {r}
        /\ DOMAIN job[j].rows \ {r} \in SUBSET Reminders
        /\ Without(job[j].rows, r)
              \in [DOMAIN job[j].rows \ {r} -> 0..MaxAttempts]
        /\ \A q \in DOMAIN job[j].rows \ {r} :
              Without(job[j].rows, r)[q] = job[j].rows[q]
    BY <2>1 DEF Without
  <2>3. x \in Job \cup {JobIdle}
    BY <2>2, JobsMade
  <2> QED BY <2>2, <2>3
<1>2. \A q \in DOMAIN x.rows : queue[q] # NotQueued /\ x.rows[q] < MaxAttempts
  BY <1>1, Holding
<1>3. x.pc = "delivering"
  OBVIOUS
<1>4. JobGoes(j, x)
  OBVIOUS
<1> HIDE DEF x
<1>5. r \in Reminders /\ queue \in [Reminders -> QueueRow \cup {NotQueued}]
  BY Holding DEF ReminderInv, ReminderTypeOK
<1>6. /\ queue' \in [Reminders -> QueueRow \cup {NotQueued}]
      /\ \A q \in Reminders :
            \/ queue'[q] = queue[q]
            \/ Sound(queue'[q], q, deliveries', deadLetters')
  BY <1>5 DEF Sound
<1>7. /\ deliveries' \in [Reminders -> Nat]
      /\ \A q \in Reminders : deliveries'[q] >= deliveries[q]
  BY DEF ReminderInv, ReminderTypeOK
<1> QED BY <1>1, <1>2, <1>3, <1>4, <1>6, <1>7, JobStepKeeps

LEMMA DropSuppressedKeeps ==
    ASSUME ReminderInv, NEW j \in ReminderJobs, NEW r \in Reminders,
           DropSuppressed(j, r)
    PROVE  ReminderInv'
<1> DEFINE row == [queue[r] EXCEPT !.status = "suppressed"]
<1>1. Reads(j) /\ r \in DOMAIN job[j].rows
  BY DEF DropSuppressed, Reads
<1>2. queue[r] \in QueueRow
  BY <1>1, Holding DEF ReminderInv, ReminderTypeOK
<1>3. Sound(row, r, deliveries, deadLetters')
  BY <1>2 DEF Sound, QueueRow, DropSuppressed
<1>4. queue' = [queue EXCEPT ![r] = row]
  BY DEF DropSuppressed
<1>5. /\ deadLetters' \subseteq Reminders /\ deadLetters \subseteq deadLetters'
      /\ backoff' \subseteq Reminders
      /\ UNCHANGED <<suppressed, deliveries, brokenOff, scheduled>>
      /\ JobGoes(j, [pc |-> "delivering", rows |-> Without(job[j].rows, r)])
  BY DEF DropSuppressed, ReminderInv, ReminderTypeOK
<1> HIDE DEF row
<1> QED BY <1>1, <1>3, <1>4, <1>5, WritingKeeps

(* What a job read of the row it is sending.                               *)
LEMMA AttemptIs ==
    ASSUME ReminderInv, NEW j \in ReminderJobs, OnRow(j)
    PROVE  /\ Reads(j)
           /\ job[j].current \in DOMAIN job[j].rows
           /\ job[j].current \in Reminders
           /\ Attempt(j) \in 1..MaxAttempts
<1>1. Reads(j)
  BY DEF OnRow, Reads
<1>2. /\ job[j].current \in DOMAIN job[j].rows
      /\ job[j].current \in Reminders
      /\ job[j].rows[job[j].current] \in 0..MaxAttempts
      /\ job[j].rows[job[j].current] < MaxAttempts
  BY <1>1, Holding
<1> QED BY <1>1, <1>2, ReminderConstantsOK DEF Attempt

LEMMA RecordSentKeeps ==
    ASSUME ReminderInv, NEW j \in ReminderJobs, RecordSent(j) PROVE ReminderInv'
<1> DEFINE row == [status |-> "sent", attempts |-> Attempt(j)]
<1>1. OnRow(j)
  BY DEF RecordSent, OnRow
<1>2. Sound(row, job[j].current, deliveries, deadLetters')
  <2>1. deliveries[job[j].current] > 0
    BY DEF RecordSent, ReminderInv, MailLeft
  <2> QED BY <2>1, <1>1, AttemptIs DEF Sound, QueueRow
<1>3. /\ queue' = [queue EXCEPT ![job[j].current] = row]
      /\ JobGoes(j, [pc |-> "delivering",
                     rows |-> Without(job[j].rows, job[j].current)])
      /\ deadLetters' \subseteq Reminders /\ deadLetters \subseteq deadLetters'
      /\ backoff' \subseteq Reminders
      /\ UNCHANGED <<suppressed, deliveries, brokenOff, scheduled>>
  BY DEF RecordSent, Conclude, ReminderInv, ReminderTypeOK
<1> HIDE DEF row
<1> QED BY <1>1, <1>2, <1>3, AttemptIs, WritingKeeps

LEMMA RecordFailedKeeps ==
    ASSUME ReminderInv, NEW j \in ReminderJobs, RecordFailed(j) PROVE ReminderInv'
<1> DEFINE row == [status |-> "failed", attempts |-> Attempt(j)]
<1>1. OnRow(j)
  BY DEF RecordFailed, OnRow
<1>2. Sound(row, job[j].current, deliveries, deadLetters')
  BY <1>1, AttemptIs DEF Sound, QueueRow, RecordFailed, Buried
<1>3. /\ queue' = [queue EXCEPT ![job[j].current] = row]
      /\ JobGoes(j, [pc |-> "delivering",
                     rows |-> Without(job[j].rows, job[j].current)])
      /\ deadLetters' \subseteq Reminders /\ deadLetters \subseteq deadLetters'
      /\ backoff' \subseteq Reminders
      /\ UNCHANGED <<suppressed, deliveries, brokenOff, scheduled>>
  BY <1>1, AttemptIs
     DEF RecordFailed, Conclude, Buried, ReminderInv, ReminderTypeOK
<1> HIDE DEF row
<1> QED BY <1>1, <1>2, <1>3, AttemptIs, WritingKeeps

LEMMA RecordRetryKeeps ==
    ASSUME ReminderInv, NEW j \in ReminderJobs, RecordRetry(j) PROVE ReminderInv'
<1> DEFINE row == [status |-> "retrying", attempts |-> Attempt(j)]
<1>1. OnRow(j)
  BY DEF RecordRetry, OnRow
<1>2. Sound(row, job[j].current, deliveries, deadLetters')
  BY <1>1, AttemptIs, ReminderConstantsOK
     DEF Sound, QueueRow, RecordRetry, GivesUp
<1>3. /\ queue' = [queue EXCEPT ![job[j].current] = row]
      /\ JobGoes(j, [pc |-> "delivering",
                     rows |-> Without(job[j].rows, job[j].current)])
      /\ deadLetters' \subseteq Reminders /\ deadLetters \subseteq deadLetters'
      /\ backoff' \subseteq Reminders
      /\ UNCHANGED <<suppressed, deliveries, brokenOff, scheduled>>
  BY <1>1, AttemptIs
     DEF RecordRetry, Conclude, Remembered, ReminderInv, ReminderTypeOK
<1> HIDE DEF row
<1> QED BY <1>1, <1>2, <1>3, AttemptIs, WritingKeeps

LEMMA QueueReminderKeeps ==
    ASSUME ReminderInv, NEW j \in ReminderJobs, NEW a \in Attendees,
           QueueReminder(j, a)
    PROVE  ReminderInv'
<1> DEFINE x == [pc |-> "queueing", todo |-> job[j].todo \ {a}]
           row == [status |-> "pending", attempts |-> 0]
<1>1. x \in Job \cup {JobIdle}
  <2>1. job[j].todo \in SUBSET Attendees
    BY JobAt, JobShapes DEF QueueReminder
  <2> QED BY <2>1, JobsMade
<1>2. x.pc = "queueing" /\ JobGoes(j, x)
  BY DEF QueueReminder
<1>3. \A r \in Reminders : Sound(row, r, deliveries', deadLetters')
  BY ReminderConstantsOK DEF Sound, QueueRow
<1>4. queue' = queue \/ queue' = [queue EXCEPT ![<<a, HoursOf[j]>>] = row]
  BY DEF QueueReminder
<1> HIDE DEF x, row
<1>5. /\ queue' \in [Reminders -> QueueRow \cup {NotQueued}]
      /\ \A r \in Reminders :
            \/ queue'[r] = queue[r]
            \/ Sound(queue'[r], r, deliveries', deadLetters')
  <2>1. queue \in [Reminders -> QueueRow \cup {NotQueued}]
    BY DEF ReminderInv, ReminderTypeOK
  <2>2. CASE queue' = queue
    BY <2>1, <2>2
  <2>3. CASE queue' = [queue EXCEPT ![<<a, HoursOf[j]>>] = row]
    BY <2>1, <2>3, <1>3 DEF Sound
  <2> QED BY <2>2, <2>3, <1>4
<1>6. /\ deliveries' \in [Reminders -> Nat]
      /\ \A r \in Reminders : deliveries'[r] >= deliveries[r]
      /\ deadLetters' \subseteq Reminders /\ deadLetters \subseteq deadLetters'
      /\ backoff' \subseteq Reminders
      /\ UNCHANGED <<suppressed, brokenOff, scheduled>>
  BY DEF QueueReminder, ReminderInv, ReminderTypeOK
<1> QED BY <1>1, <1>2, <1>5, <1>6, JobStepKeeps

LEMMA ReminderInit_Inv == ReminderInit => ReminderInv
BY NotQueuedOK, ReminderConstantsOK
   DEF ReminderInit, ReminderInv, ReminderTypeOK, AttemptsLeft, MailLeft,
       OutcomesAreTrue, Waiting, Has, Reads, JobIdle

LEMMA ReminderInvNext ==
    ASSUME ReminderInv, [ReminderNext]_reminderVars
    PROVE  ReminderInv'
<1>1. CASE UNCHANGED reminderVars
  BY <1>1
     DEF reminderVars, ReminderInv, ReminderTypeOK, AttemptsLeft, MailLeft,
         OutcomesAreTrue, Waiting, Has, Reads
<1>2. ASSUME NEW j \in ReminderJobs, JobStep(j) PROVE ReminderInv'
  BY <1>2, StartJobKeeps, QueueReminderKeeps, ReadQueueKeeps, DropSuppressedKeeps,
     BeginSendKeeps, ServerTakesKeeps, ServerDeclinesKeeps, RecordSentKeeps,
     RecordFailedKeeps, RecordRetryKeeps, EndJobKeeps DEF JobStep
<1>3. ASSUME NEW r \in Reminders, BackoffEnds(r) PROVE ReminderInv'
  BY <1>3
     DEF BackoffEnds, ReminderInv, ReminderTypeOK, AttemptsLeft, MailLeft,
         OutcomesAreTrue, Waiting, Has, Reads
<1>4. ASSUME NEW a \in Attendees, Suppress(a) PROVE ReminderInv'
  BY <1>4
     DEF Suppress, ReminderInv, ReminderTypeOK, AttemptsLeft, MailLeft,
         OutcomesAreTrue, Waiting, Has, Reads
<1>5. ASSUME NEW j \in ReminderJobs, BreakOff(j) PROVE ReminderInv'
  <2>1. /\ job' \in [ReminderJobs -> Job \cup {JobIdle}]
        /\ job'[j] = JobIdle
        /\ \A k \in ReminderJobs \ {j} : job'[k] = job[k]
    BY <1>5 DEF BreakOff, JobGoes, ReminderInv, ReminderTypeOK
  <2>2. \A k \in ReminderJobs : k = j \/ job'[k] = job[k]
    BY <2>1
  <2>3. JobIdle.pc = "idle"
    BY DEF JobIdle
  <2>4. ReminderTypeOK'
    BY <2>1, <1>5, ReminderConstantsOK DEF BreakOff, ReminderInv, ReminderTypeOK
  <2>5. AttemptsLeft'
    BY <2>1, <2>2, <2>3, <1>5
       DEF BreakOff, ReminderInv, AttemptsLeft, Waiting, Has, Reads
  <2>6. MailLeft'
    BY <2>1, <2>2, <2>3, <1>5 DEF BreakOff, ReminderInv, MailLeft
  <2>7. OutcomesAreTrue'
    BY <1>5 DEF BreakOff, ReminderInv, OutcomesAreTrue
  <2> QED BY <2>4, <2>5, <2>6, <2>7 DEF ReminderInv
<1> QED BY <1>1, <1>2, <1>3, <1>4, <1>5 DEF ReminderNext

-----------------------------------------------------------------------------
(* Sums over finite sets: x counts for f[x] units.                         *)

Units(f, S) == UNION {{x} \X (1..f[x]) : x \in S}
Total(f, S) == Cardinality(Units(f, S))

LEMMA UnitsFinite ==
    ASSUME NEW f, NEW S, IsFiniteSet(S), \A x \in S : f[x] \in Nat
    PROVE  IsFiniteSet(Units(f, S)) /\ Total(f, S) \in Nat
<1> DEFINE column == [x \in S |-> {x} \X (1..f[x])]
           columns == {{x} \X (1..f[x]) : x \in S}
<1>1. IsFiniteSet(columns)
  <2>1. column \in Surjection(S, columns)
    BY DEF Surjection
  <2> HIDE DEF column, columns
  <2> QED BY <2>1, FS_Surjection
<1>2. ASSUME NEW C \in columns PROVE IsFiniteSet(C)
  <2>1. PICK x \in S : C = {x} \X (1..f[x])
    OBVIOUS
  <2>2. IsFiniteSet({x})
    BY FS_Singleton
  <2>3. IsFiniteSet(1..f[x])
    BY FS_Interval
  <2> QED BY <2>1, <2>2, <2>3, FS_Product
<1>3. IsFiniteSet(UNION columns)
  <2> HIDE DEF columns
  <2> QED BY <1>1, <1>2, FS_UNION
<1> QED BY <1>3, FS_CardinalityType DEF Units, Total

LEMMA TotalOfNone ==
    ASSUME NEW f PROVE Total(f, {}) = 0
BY FS_EmptySet DEF Units, Total

LEMMA TotalSplit ==
    ASSUME NEW f, NEW S, IsFiniteSet(S), \A y \in S : f[y] \in Nat, NEW x \in S
    PROVE  /\ Total(f, S \ {x}) \in Nat
           /\ Total(f, S) = f[x] + Total(f, S \ {x})
<1> DEFINE rest == Units(f, S \ {x})
           mine == {x} \X (1..f[x])
<1>1. IsFiniteSet(rest) /\ Cardinality(rest) \in Nat
  BY UnitsFinite, FS_Difference DEF Total
<1>2. IsFiniteSet(mine) /\ Cardinality(mine) = f[x]
  <2>1. IsFiniteSet({x}) /\ Cardinality({x}) = 1
    BY FS_Singleton
  <2>2. IsFiniteSet(1..f[x]) /\ Cardinality(1..f[x]) = f[x]
    BY FS_Interval
  <2>3. IsFiniteSet(mine) /\ Cardinality(mine) = Cardinality({x}) * Cardinality(1..f[x])
    BY <2>1, <2>2, FS_Product
  <2> QED BY <2>1, <2>2, <2>3
<1>3. Units(f, S) = rest \cup mine /\ rest \cap mine = {}
  <2>1. \A u : u \in Units(f, S) <=> \E y \in S : u \in {y} \X (1..f[y])
    BY DEF Units
  <2>2. \A u : u \in rest <=> \E y \in S \ {x} : u \in {y} \X (1..f[y])
    BY DEF Units
  <2> QED BY <2>1, <2>2
<1>4. f[x] \in Nat /\ Cardinality({}) = 0
  BY FS_EmptySet
<1> HIDE DEF rest, mine
<1>5. Cardinality(rest \cup mine)
         = Cardinality(rest) + Cardinality(mine) - Cardinality(rest \cap mine)
  BY <1>1, <1>2, FS_Union
<1>6. Total(f, S) = Cardinality(rest \cup mine)
  BY <1>3 DEF Total
<1>7. Cardinality(rest \cap mine) = 0
  BY <1>3, <1>4
<1>8. Total(f, S \ {x}) = Cardinality(rest)
  BY DEF Total, rest
<1> QED BY <1>1, <1>2, <1>4, <1>5, <1>6, <1>7, <1>8

LEMMA OneFewer ==
    ASSUME NEW S, IsFiniteSet(S), NEW x \in S
    PROVE  /\ IsFiniteSet(S \ {x})
           /\ Cardinality(S \ {x}) \in Nat
           /\ Cardinality(S) = Cardinality(S \ {x}) + 1
<1>1. IsFiniteSet(S \ {x}) /\ Cardinality(S \ {x}) = Cardinality(S) - 1
  BY FS_RemoveElement
<1>2. Cardinality(S) \in Nat /\ Cardinality(S \ {x}) \in Nat
  BY <1>1, FS_CardinalityType
<1> QED BY <1>1, <1>2

(* If no element counts for more than c beyond what it did, the total has  *)
(* grown by at most c for each; one element may be looked at by itself.    *)
LEMMA TotalGrows ==
    ASSUME NEW f, NEW g, NEW S, IsFiniteSet(S), NEW c \in Nat,
           \A x \in S : f[x] \in Nat /\ g[x] \in Nat /\ g[x] <= f[x] + c
    PROVE  Total(g, S) <= Total(f, S) + Cardinality(S) * c
<1> DEFINE Wrong == {T \in SUBSET S :
                        ~(Total(g, T) <= Total(f, T) + Cardinality(T) * c)}
<1> SUFFICES ASSUME Wrong # {} PROVE FALSE
  OBVIOUS
<1>1. Wrong \subseteq FiniteSubsetsOf(S)
  BY FS_FiniteSubsetsOfFinite
<1>2. PICK T \in Wrong : \A U \in Wrong : <<U, T>> \notin StrictSubsetOrdering(S)
  <2>1. IsWellFoundedOn(StrictSubsetOrdering(S), FiniteSubsetsOf(S))
    BY FS_StrictSubsetOrderingWellFounded
  <2> HIDE DEF Wrong
  <2> QED BY <1>1, <2>1, WFMin
<1>3. IsFiniteSet(T) /\ \A x \in T : f[x] \in Nat /\ g[x] \in Nat
  BY FS_Subset
<1>4. T # {}
  <2>1. Total(f, {}) = 0 /\ Total(g, {}) = 0 /\ Cardinality({}) = 0
    BY TotalOfNone, FS_EmptySet
  <2>2. 0 * c = 0
    OBVIOUS
  <2> QED BY <2>1, <2>2
<1>5. PICK x \in T : TRUE
  BY <1>4
<1>6. T \ {x} \notin Wrong
  BY <1>2 DEF StrictSubsetOrdering
<1>7. /\ Total(f, T \ {x}) \in Nat /\ Total(f, T) = f[x] + Total(f, T \ {x})
      /\ Total(g, T \ {x}) \in Nat /\ Total(g, T) = g[x] + Total(g, T \ {x})
  BY <1>3, TotalSplit
<1>8. /\ Cardinality(T \ {x}) \in Nat
      /\ Cardinality(T) = Cardinality(T \ {x}) + 1
  BY <1>3, OneFewer
<1>9. Total(g, T \ {x}) <= Total(f, T \ {x}) + Cardinality(T \ {x}) * c
  BY <1>6
<1>10. f[x] \in Nat /\ g[x] \in Nat /\ g[x] <= f[x] + c
  OBVIOUS
<1>11. ~(Total(g, T) <= Total(f, T) + Cardinality(T) * c)
  OBVIOUS
<1> HIDE DEF Wrong
<1>12. ASSUME NEW m \in Nat PROVE (m + 1) * c = m * c + c /\ m * c \in Nat
  OBVIOUS
<1> QED BY <1>7, <1>8, <1>9, <1>10, <1>11, <1>12

LEMMA TotalSteps ==
    ASSUME NEW f, NEW g, NEW S, IsFiniteSet(S), NEW c \in Nat, NEW j \in S,
           \A x \in S : f[x] \in Nat /\ g[x] \in Nat,
           \A x \in S \ {j} : g[x] <= f[x] + c
    PROVE  /\ Total(f, S) \in Nat /\ Total(g, S) \in Nat
           /\ Total(g, S) + f[j] + c <= Total(f, S) + g[j] + Cardinality(S) * c
<1> DEFINE R == S \ {j}
<1>1. IsFiniteSet(R) /\ Cardinality(R) \in Nat /\ Cardinality(S) = Cardinality(R) + 1
  BY OneFewer
<1>2. /\ Total(f, R) \in Nat /\ Total(f, S) = f[j] + Total(f, R)
      /\ Total(g, R) \in Nat /\ Total(g, S) = g[j] + Total(g, R)
  <2>1. (\A x \in S : f[x] \in Nat) /\ (\A x \in S : g[x] \in Nat)
    OBVIOUS
  <2>2. Total(f, S \ {j}) \in Nat /\ Total(f, S) = f[j] + Total(f, S \ {j})
    BY <2>1, TotalSplit
  <2>3. Total(g, S \ {j}) \in Nat /\ Total(g, S) = g[j] + Total(g, S \ {j})
    BY <2>1, TotalSplit
  <2> QED BY <2>2, <2>3, Zenon DEF R
<1>3. Total(g, R) <= Total(f, R) + Cardinality(R) * c
  <2>1. \A x \in R : f[x] \in Nat /\ g[x] \in Nat /\ g[x] <= f[x] + c
    OBVIOUS
  <2> HIDE DEF R
  <2> QED BY <1>1, <2>1, TotalGrows
<1>4. ASSUME NEW m \in Nat PROVE (m + 1) * c = m * c + c /\ m * c \in Nat
  OBVIOUS
<1>5. f[j] \in Nat /\ g[j] \in Nat
  OBVIOUS
<1> HIDE DEF R
<1>6. Cardinality(S) * c = Cardinality(R) * c + c /\ Cardinality(R) * c \in Nat
  BY <1>1, <1>4
<1> QED BY <1>2, <1>3, <1>5, <1>6

-----------------------------------------------------------------------------
(* Sends is the function that its equation asks for.                       *)
Jobs == Cardinality(ReminderJobs)

SendsUpTo(m, f) ==
    /\ f \in [0..m -> Nat]
    /\ \A k \in 0..m : f[k] = IF k = 0 THEN 0 ELSE 1 + Jobs * f[k - 1]

LEMMA JobsAreCounted == Jobs \in Nat
BY ReminderConstantsOK, FS_CardinalityType DEF Jobs

LEMMA SmallestExists ==
    ASSUME NEW S \in SUBSET Nat, S # {}
    PROVE  \E x \in S : \A y \in S : x <= y
<1>1. PICK x \in S : \A y \in S : ~ (<<y, x>> \in OpToRel(<, Nat))
  BY NatLessThanWellFounded, WFMin
<1>2. ASSUME NEW y \in S PROVE x <= y
  <2>1. <<y, x>> \notin {p \in Nat \X Nat : p[1] < p[2]}
    BY <1>1, Zenon DEF OpToRel
  <2> QED BY <2>1
<1> QED BY <1>2

LEMMA SendsExist ==
    ASSUME NEW m \in Nat
    PROVE  \E f : SendsUpTo(m, f)
<1> DEFINE Wrong == {k \in Nat : ~\E f : SendsUpTo(k, f)}
<1> SUFFICES ASSUME Wrong # {} PROVE FALSE
  OBVIOUS
<1>1. PICK k \in Wrong : \A i \in Wrong : k <= i
  <2>1. Wrong \in SUBSET Nat
    OBVIOUS
  <2> HIDE DEF Wrong
  <2> QED BY <2>1, SmallestExists
<1>2. CASE k = 0
  <2>1. SendsUpTo(0, [i \in 0..0 |-> 0])
    BY DEF SendsUpTo
  <2> QED BY <1>2, <2>1
<1>3. CASE k # 0
  <2>1. k - 1 \in Nat /\ k - 1 < k
    BY <1>3
  <2>2. PICK f : SendsUpTo(k - 1, f)
    BY <1>1, <2>1
  <2> DEFINE g == [i \in 0..k |-> IF i = k THEN 1 + Jobs * f[k - 1] ELSE f[i]]
  <2>3. f[k - 1] \in Nat
    BY <2>1, <2>2 DEF SendsUpTo
  <2>4. 1 + Jobs * f[k - 1] \in Nat
    BY <2>3, JobsAreCounted
  <2>5. g \in [0..k -> Nat]
    BY <2>1, <2>2, <2>4 DEF SendsUpTo
  <2>6. \A i \in 0..(k - 1) : g[i] = f[i]
    OBVIOUS
  <2>7. g[k] = 1 + Jobs * f[k - 1]
    OBVIOUS
  <2> HIDE DEF g
  <2>8. ASSUME NEW i \in 0..k
        PROVE  g[i] = IF i = 0 THEN 0 ELSE 1 + Jobs * g[i - 1]
    <3>1. CASE i = k
      BY <3>1, <2>1, <2>6, <2>7, <1>3
    <3>2. CASE i # k
      BY <3>2, <2>1, <2>2, <2>6 DEF SendsUpTo
    <3> QED BY <3>1, <3>2
  <2>9. SendsUpTo(k, g)
    BY <2>5, <2>8 DEF SendsUpTo
  <2> QED BY <2>9
<1> QED BY <1>2, <1>3

LEMMA SendsIs == SendsUpTo(MaxAttempts, Sends)
<1> DEFINE Eq(f) == f = [left \in 0..MaxAttempts |->
                            IF left = 0 THEN 0 ELSE 1 + Cardinality(ReminderJobs) * f[left - 1]]
<1>1. PICK f : SendsUpTo(MaxAttempts, f)
  BY SendsExist, ReminderConstantsOK
<1>2. Eq(f)
  BY <1>1 DEF SendsUpTo, Jobs
<1>3. Sends = CHOOSE g : Eq(g)
  BY DEF Sends
<1>4. Eq(Sends)
  <2> HIDE DEF Eq
  <2> QED BY <1>2, <1>3
<1>5. DOMAIN Sends = 0..MaxAttempts
      /\ \A k \in 0..MaxAttempts :
            Sends[k] = IF k = 0 THEN 0 ELSE 1 + Jobs * Sends[k - 1]
  BY <1>4 DEF Jobs
<1>6. \A k \in 0..MaxAttempts : Sends[k] = f[k]
  <2> DEFINE Wrong == {k \in 0..MaxAttempts : Sends[k] # f[k]}
  <2> SUFFICES ASSUME Wrong # {} PROVE FALSE
    OBVIOUS
  <2>1. PICK k \in Wrong : \A i \in Wrong : k <= i
    <3>1. Wrong \in SUBSET Nat
      BY ReminderConstantsOK
    <3> HIDE DEF Wrong
    <3> QED BY <3>1, SmallestExists
  <2>2. k = 0 \/ (k - 1 \in 0..MaxAttempts /\ k - 1 < k /\ k - 1 \notin Wrong)
    BY <2>1, ReminderConstantsOK
  <2> QED BY <2>1, <2>2, <1>1, <1>5 DEF SendsUpTo
<1>7. Sends \in [0..MaxAttempts -> Nat]
  <2>1. \A k \in 0..MaxAttempts : Sends[k] \in Nat
    BY <1>1, <1>6 DEF SendsUpTo
  <2>2. Sends = [k \in 0..MaxAttempts |-> Sends[k]]
    BY <1>4
  <2> HIDE DEF Eq
  <2> QED BY <2>1, <2>2
<1> QED BY <1>5, <1>7 DEF SendsUpTo

(* How often a row with so many attempts made may still be sent through    *)
(* one job.                                                                *)
Worth(attempts) == Sends[MaxAttempts - attempts]

LEMMA WorthIs ==
    /\ \A a \in 0..MaxAttempts : Worth(a) \in Nat
    /\ \A a \in 0..(MaxAttempts - 1) : Worth(a) = 1 + Jobs * Worth(a + 1)
<1>1. ASSUME NEW a \in 0..MaxAttempts PROVE Worth(a) \in Nat
  BY SendsIs, ReminderConstantsOK DEF Worth, SendsUpTo
<1>2. ASSUME NEW a \in 0..(MaxAttempts - 1)
      PROVE  Worth(a) = 1 + Jobs * Worth(a + 1)
  <2>1. /\ MaxAttempts - a \in 0..MaxAttempts /\ MaxAttempts - a # 0
        /\ (MaxAttempts - a) - 1 = MaxAttempts - (a + 1)
    BY ReminderConstantsOK
  <2> QED BY <2>1, SendsIs DEF Worth, SendsUpTo
<1> QED BY <1>1, <1>2

LEMMA WorthIsMost ==
    ASSUME ReminderJobs # {}, NEW a \in 0..MaxAttempts
    PROVE  Worth(a) <= Worth(0)
<1> DEFINE Wrong == {k \in 0..MaxAttempts : ~(Worth(k) <= Worth(0))}
<1> SUFFICES ASSUME Wrong # {} PROVE FALSE
  OBVIOUS
<1>1. PICK k \in Wrong : \A i \in Wrong : k <= i
  <2>1. Wrong \in SUBSET Nat
    BY ReminderConstantsOK
  <2> HIDE DEF Wrong
  <2> QED BY <2>1, SmallestExists
<1>2. Worth(0) \in Nat /\ Worth(k) \in Nat /\ k # 0
  BY WorthIs, ReminderConstantsOK
<1>3. k - 1 \in 0..(MaxAttempts - 1) /\ k - 1 \notin Wrong /\ (k - 1) + 1 = k
  BY <1>1, <1>2, ReminderConstantsOK
<1>4. Worth(k - 1) <= Worth(0) /\ Worth(k - 1) = 1 + Jobs * Worth(k)
      /\ Worth(k - 1) \in Nat
  BY <1>3, WorthIs, ReminderConstantsOK
<1>5. Jobs \in Nat /\ Jobs # 0
  <2>1. IsFiniteSet(ReminderJobs)
    BY ReminderConstantsOK
  <2>2. Cardinality(ReminderJobs) = 0 <=> ReminderJobs = {}
    BY <2>1, FS_EmptySet, Zenon
  <2> QED BY <2>2, JobsAreCounted DEF Jobs
<1>6. ASSUME NEW n \in Nat, n # 0, NEW w \in Nat PROVE n * w >= w
  <2>1. n - 1 \in Nat /\ n * w = (n - 1) * w + w
    BY <1>6
  <2>2. (n - 1) * w \in Nat
    BY <2>1
  <2> QED BY <2>1, <2>2
<1>7. Jobs * Worth(k) >= Worth(k) /\ Jobs * Worth(k) \in Nat
  BY <1>2, <1>5, <1>6
<1>8. ~(Worth(k) <= Worth(0))
  OBVIOUS
<1> HIDE DEF Wrong
<1> QED BY <1>2, <1>4, <1>7, <1>8

-----------------------------------------------------------------------------
(* For one reminder: whether the job has sent it and not written the       *)
(* outcome, and whether the row lets others send it.                       *)
Answered(j, r) == job[j].pc \in {"accepted", "declined"} /\ job[j].current = r
Open(r) == queue[r] = NotQueued \/ Waiting(r)
Tries(r) == IF queue[r] = NotQueued THEN 0 ELSE queue[r].attempts

(* How often the reminder may still be sent on account of this job: from   *)
(* the copy it holds, by all jobs when it puts the row back, or when it    *)
(* reads the row as it stands.                                             *)
Claim(j, r) ==
    IF Has(j, r)
    THEN IF Answered(j, r) THEN Jobs * Worth(job[j].rows[r] + 1)
         ELSE Worth(job[j].rows[r])
    ELSE IF Open(r) THEN Worth(Tries(r)) ELSE 0

Claims(r) == [j \in ReminderJobs |-> Claim(j, r)]

(* The mails to come are paid for by the claims.                           *)
FloodAt(r) ==
    deliveries[r] + Handovers * Total(Claims(r), ReminderJobs)
        <= Handovers * ((Jobs + brokenOff) * Worth(0))

SameRow(r) == (Open(r)' <=> Open(r)) /\ Tries(r)' = Tries(r)
SameMails(r) == deliveries'[r] = deliveries[r]

Quiet(j, r) == SameRow(r) /\ SameMails(r) /\ Claim(j, r)' = Claim(j, r)

Spending(j, r) ==
    /\ SameRow(r)
    /\ deliveries'[r] <= deliveries[r] + Handovers
    /\ Claim(j, r) = 1 + Claim(j, r)'

Settling(j, r) == SameMails(r) /\ ~Open(r)' /\ ~Has(j, r)'

Retrying(j, r) ==
    /\ SameMails(r)
    /\ Open(r)' /\ ~Has(j, r)'
    /\ Claim(j, r) = Jobs * Worth(Tries(r)')

Effect(j, r) ==
    Quiet(j, r) \/ Spending(j, r) \/ Settling(j, r) \/ Retrying(j, r)

LEMMA Ranges ==
    ASSUME ReminderInv, NEW r \in Reminders
    PROVE  /\ deliveries[r] \in Nat /\ brokenOff \in Nat
           /\ Open(r) => Tries(r) \in 0..(MaxAttempts - 1)
           /\ \A j \in ReminderJobs :
                 Has(j, r) => job[j].rows[r] \in 0..(MaxAttempts - 1)
<1>1. deliveries[r] \in Nat /\ brokenOff \in Nat
  BY ReminderConstantsOK DEF ReminderInv, ReminderTypeOK
<1>2. Open(r) => Tries(r) \in 0..(MaxAttempts - 1)
  BY ReminderConstantsOK
     DEF Open, Tries, Waiting, ReminderInv, ReminderTypeOK, AttemptsLeft, QueueRow
<1>3. ASSUME NEW j \in ReminderJobs, Has(j, r)
      PROVE  job[j].rows[r] \in 0..(MaxAttempts - 1)
  <2>1. Reads(j) /\ r \in DOMAIN job[j].rows
    BY <1>3 DEF Has
  <2>2. job[j].rows[r] \in 0..MaxAttempts /\ job[j].rows[r] < MaxAttempts
    BY <2>1, Holding
  <2> QED BY <2>2, ReminderConstantsOK
<1> QED BY <1>1, <1>2, <1>3

ClaimsCount == \A j \in ReminderJobs, r \in Reminders : Claim(j, r) \in Nat

LEMMA ClaimsAreNumbers == ReminderInv => ClaimsCount
<1> SUFFICES ASSUME ReminderInv, NEW j \in ReminderJobs, NEW r \in Reminders
             PROVE  Claim(j, r) \in Nat
  BY DEF ClaimsCount
<1>1. MaxAttempts \in Nat /\ 0..(MaxAttempts - 1) \subseteq 0..MaxAttempts
  BY ReminderConstantsOK
<1>2. Open(r) => Worth(Tries(r)) \in Nat
  BY <1>1, Ranges, WorthIs
<1>3. ASSUME Has(j, r) PROVE Claim(j, r) \in Nat
  <2>1. job[j].rows[r] \in 0..MaxAttempts /\ job[j].rows[r] + 1 \in 0..MaxAttempts
    BY <1>1, <1>3, Ranges
  <2>2. Worth(job[j].rows[r]) \in Nat /\ Worth(job[j].rows[r] + 1) \in Nat
    BY <2>1, WorthIs
  <2>3. Jobs * Worth(job[j].rows[r] + 1) \in Nat
    BY <2>2, JobsAreCounted
  <2> QED BY <1>3, <2>2, <2>3 DEF Claim
<1> QED BY <1>2, <1>3 DEF Claim

(* In numbers only.                                                        *)
LEMMA PaidFor ==
    ASSUME NEW d \in Nat, NEW e \in Nat, NEW h \in Nat, NEW t \in Nat, NEW u \in Nat,
           NEW bound \in Nat, d + h * t <= h * bound
    PROVE  /\ e = d /\ u <= t => e + h * u <= h * bound
           /\ e <= d + h /\ u + 1 <= t => e + h * u <= h * bound
<1>1. ASSUME NEW a \in Nat, NEW b \in Nat, a <= b PROVE h * a <= h * b
  <2>1. b - a \in Nat /\ h * b = h * a + h * (b - a)
    BY <1>1
  <2>2. h * (b - a) \in Nat /\ h * a \in Nat
    BY <2>1
  <2> QED BY <2>1, <2>2
<1>2. h * t \in Nat /\ h * u \in Nat /\ h * bound \in Nat
  OBVIOUS
<1>3. h * (u + 1) = h * u + h
  OBVIOUS
<1>4. CASE e = d /\ u <= t
  <2>1. h * u <= h * t
    BY <1>1, <1>4
  <2> QED BY <1>2, <1>4, <2>1
<1>5. CASE e <= d + h /\ u + 1 <= t
  <2>1. h * (u + 1) <= h * t
    BY <1>1, <1>5
  <2> QED BY <1>2, <1>3, <1>5, <2>1
<1> QED BY <1>2, <1>4, <1>5

LEMMA EffectKeepsFlood ==
    ASSUME ReminderInv, ReminderInv', NEW j \in ReminderJobs, NEW r \in Reminders,
           FloodAt(r), Effect(j, r), brokenOff' = brokenOff,
           \A k \in ReminderJobs \ {j} : job'[k] = job[k]
    PROVE  FloodAt(r)'
<1> DEFINE f == Claims(r)
           g == Claims(r)'
           sum == Total(f, ReminderJobs)
           more == Total(g, ReminderJobs)
<1>1. /\ \A k \in ReminderJobs : f[k] = Claim(k, r) /\ f[k] \in Nat
      /\ \A k \in ReminderJobs : g[k] = Claim(k, r)' /\ g[k] \in Nat
  <2>1. \A k \in ReminderJobs : f[k] = Claim(k, r) /\ g[k] = Claim(k, r)'
    BY DEF Claims
  <2>2. \A k \in ReminderJobs : Claim(k, r) \in Nat
    BY ClaimsAreNumbers DEF ClaimsCount
  <2>3. \A k \in ReminderJobs : Claim(k, r)' \in Nat
    <3>1. ReminderInv'
      OBVIOUS
    <3>2. ClaimsCount'
      BY <3>1, ClaimsAreNumbers, PTL
    <3> QED BY <3>2 DEF ClaimsCount
  <2> QED BY <2>1, <2>2, <2>3
<1>2. ASSUME NEW k \in ReminderJobs \ {j}
      PROVE  /\ Has(k, r)' <=> Has(k, r)
             /\ Has(k, r) => g[k] = f[k]
             /\ ~Has(k, r) => f[k] = IF Open(r) THEN Worth(Tries(r)) ELSE 0
             /\ ~Has(k, r) => g[k] = IF Open(r)' THEN Worth(Tries(r)') ELSE 0
  BY <1>1 DEF Claim, Answered, Has, Reads, Worth
<1>3. ~Has(j, r)' => g[j] = IF Open(r)' THEN Worth(Tries(r)') ELSE 0
  BY <1>1 DEF Claim, Worth
<1>4. ASSUME NEW c \in Nat, \A k \in ReminderJobs \ {j} : g[k] <= f[k] + c
      PROVE  /\ sum \in Nat /\ more \in Nat
             /\ more + f[j] + c <= sum + g[j] + Jobs * c
  <2> HIDE DEF f, g
  <2> QED BY <1>1, <1>4, ReminderConstantsOK, TotalSteps DEF Jobs
<1>5. SameRow(r) => \A k \in ReminderJobs \ {j} : g[k] = f[k]
  BY <1>2 DEF SameRow
<1>6. /\ sum \in Nat /\ more \in Nat
      /\ \/ deliveries'[r] = deliveries[r] /\ more <= sum
         \/ deliveries'[r] <= deliveries[r] + Handovers /\ more + 1 <= sum
  <2>0. Jobs \in Nat /\ Jobs * 0 = 0
    BY JobsAreCounted
  <2>1. CASE Quiet(j, r)
    <3>1. g[j] = f[j] /\ \A k \in ReminderJobs \ {j} : g[k] <= f[k] + 0
      BY <1>1, <1>5, <2>1 DEF Quiet
    <3> HIDE DEF f, g, sum, more
    <3>2. sum \in Nat /\ more \in Nat /\ more + f[j] + 0 <= sum + g[j] + Jobs * 0
      BY <3>1, <1>4
    <3> QED BY <2>0, <2>1, <3>1, <3>2, <1>1 DEF Quiet, SameMails
  <2>2. CASE Spending(j, r)
    <3>1. f[j] = 1 + g[j] /\ \A k \in ReminderJobs \ {j} : g[k] <= f[k] + 0
      BY <1>1, <1>5, <2>2 DEF Spending
    <3> HIDE DEF f, g, sum, more
    <3>2. sum \in Nat /\ more \in Nat /\ more + f[j] + 0 <= sum + g[j] + Jobs * 0
      BY <3>1, <1>4
    <3> QED BY <2>0, <2>2, <3>1, <3>2, <1>1 DEF Spending
  <2>3. CASE Settling(j, r)
    <3>1. g[j] <= f[j] /\ \A k \in ReminderJobs \ {j} : g[k] <= f[k] + 0
      <4>1. ASSUME NEW k \in ReminderJobs \ {j} PROVE g[k] <= f[k] + 0
        BY <1>1, <1>2, <2>3 DEF Settling
      <4>2. g[j] = 0
        BY <1>3, <2>3 DEF Settling
      <4> QED BY <1>1, <4>1, <4>2
    <3> HIDE DEF f, g, sum, more
    <3>2. sum \in Nat /\ more \in Nat /\ more + f[j] + 0 <= sum + g[j] + Jobs * 0
      BY <3>1, <1>4
    <3> QED BY <2>0, <2>3, <3>1, <3>2, <1>1 DEF Settling, SameMails
  <2>4. CASE Retrying(j, r)
    <3> DEFINE c == Worth(Tries(r)')
    <3>1. g[j] = c /\ f[j] = Jobs * c /\ c \in Nat
      BY <1>1, <1>3, <2>4 DEF Retrying
    <3>2. \A k \in ReminderJobs \ {j} : g[k] <= f[k] + c
      BY <1>1, <1>2, <2>4, <3>1 DEF Retrying
    <3> HIDE DEF f, g, sum, more, c
    <3>3. sum \in Nat /\ more \in Nat /\ more + f[j] + c <= sum + g[j] + Jobs * c
      BY <3>1, <3>2, <1>4
    <3> QED BY <2>4, <3>1, <3>3, <1>1 DEF Retrying, SameMails
  <2> QED BY <2>1, <2>2, <2>3, <2>4 DEF Effect
<1>7. /\ deliveries[r] \in Nat /\ deliveries'[r] \in Nat /\ Handovers \in Nat
      /\ (Jobs + brokenOff) * Worth(0) \in Nat
  <2>1. brokenOff \in Nat /\ deliveries[r] \in Nat /\ deliveries'[r] \in Nat
    BY ReminderConstantsOK DEF ReminderInv, ReminderTypeOK
  <2>2. Worth(0) \in Nat /\ Jobs + brokenOff \in Nat
    BY <2>1, WorthIs, JobsAreCounted, ReminderConstantsOK
  <2> QED BY <2>1, <2>2, ReminderConstantsOK
<1>8. deliveries[r] + Handovers * sum <= Handovers * ((Jobs + brokenOff) * Worth(0))
  BY DEF FloodAt
<1>9. FloodAt(r)' <=>
         deliveries'[r] + Handovers * more
            <= Handovers * ((Jobs + brokenOff) * Worth(0))
  BY DEF FloodAt, Jobs, Worth
<1> HIDE DEF f, g, sum, more
<1> QED BY <1>6, <1>7, <1>8, <1>9, PaidFor

LEMMA JobGoesTo ==
    ASSUME ReminderInv, NEW j \in ReminderJobs, NEW x, JobGoes(j, x)
    PROVE  job'[j] = x /\ \A k \in ReminderJobs \ {j} : job'[k] = job[k]
BY DEF JobGoes, ReminderInv, ReminderTypeOK

LEMMA UnseenMoves ==
    ASSUME ReminderInv, NEW j \in ReminderJobs, NEW x, JobGoes(j, x),
           NEW r \in Reminders, ~Has(j, r),
           x.pc \notin {"delivering", "sending", "accepted", "declined"},
           SameRow(r), SameMails(r)
    PROVE  Effect(j, r)
<1>1. ~Has(j, r)'
  BY JobGoesTo DEF Has, Reads
<1>2. Claim(j, r)' = Claim(j, r)
  BY <1>1 DEF SameRow, Claim, Worth
<1> QED BY <1>2 DEF Effect, Quiet

(* The row is not the one that is written, and the job keeps its copy.     *)
LEMMA OtherRow ==
    ASSUME ReminderInv, NEW j \in ReminderJobs, NEW r \in Reminders,
           queue'[r] = queue[r], SameMails(r), Has(j, r)' <=> Has(j, r),
           Has(j, r) => /\ job'[j].rows[r] = job[j].rows[r]
                        /\ Answered(j, r)' <=> Answered(j, r)
    PROVE  Effect(j, r)
<1>1. SameRow(r)
  BY DEF SameRow, Open, Tries, Waiting
<1>2. Claim(j, r)' = Claim(j, r)
  BY <1>1 DEF SameRow, Claim, Worth, Jobs
<1> QED BY <1>1, <1>2 DEF Effect, Quiet

LEMMA QueueReminderEffect ==
    ASSUME ReminderInv, NEW j \in ReminderJobs, NEW r \in Reminders,
           NEW a \in Attendees, QueueReminder(j, a)
    PROVE  Effect(j, r)
<1>1. PICK x : JobGoes(j, x) /\ x.pc = "queueing"
  <2>1. JobGoes(j, [pc |-> "queueing", todo |-> job[j].todo \ {a}])
    BY DEF QueueReminder
  <2> QED BY <2>1
<1>2. ~Has(j, r)
  BY DEF QueueReminder, Has, Reads
<1>3. \/ queue'[r] = queue[r]
      \/ /\ queue[r] = NotQueued
         /\ queue'[r] = [status |-> "pending", attempts |-> 0]
  <2>1. queue \in [Reminders -> QueueRow \cup {NotQueued}]
    BY DEF ReminderInv, ReminderTypeOK
  <2> DEFINE q == <<a, HoursOf[j]>>
  <2>2. CASE queue' = queue
    BY <2>2, Zenon
  <2>3. CASE /\ queue[q] = NotQueued
             /\ queue' = [queue EXCEPT ![q] = [status |-> "pending", attempts |-> 0]]
    <3> HIDE DEF q
    <3>1. CASE r = q
      BY <2>1, <2>3, <3>1
    <3>2. CASE r # q
      BY <2>1, <2>3, <3>2
    <3> QED BY <3>1, <3>2
  <2> QED BY <2>2, <2>3 DEF QueueReminder
<1>4. [status |-> "pending", attempts |-> 0] # NotQueued
  BY NotQueuedOK, ReminderConstantsOK DEF QueueRow
<1>5. SameRow(r)
  BY <1>3, <1>4 DEF SameRow, Open, Tries, Waiting
<1>6. SameMails(r)
  BY DEF QueueReminder, SameMails
<1> QED BY <1>1, <1>2, <1>5, <1>6, UnseenMoves

LEMMA ReadQueueEffect ==
    ASSUME ReminderInv, NEW j \in ReminderJobs, NEW r \in Reminders, ReadQueue(j)
    PROVE  Effect(j, r)
<1> DEFINE due == {q \in Reminders : Waiting(q) /\ q \notin backoff}
           read == [q \in due |-> queue[q].attempts]
<1>1. job'[j] = [pc |-> "delivering", rows |-> read]
  BY JobGoesTo DEF ReadQueue
<1>2. SameRow(r) /\ SameMails(r)
  BY DEF ReadQueue, SameRow, SameMails, Open, Tries, Waiting
<1>3. ~Has(j, r) /\ ~Answered(j, r)'
  BY <1>1 DEF ReadQueue, Has, Reads, Answered
<1>4. CASE r \in due
  <2>1. job'[j].rows[r] = Tries(r) /\ Open(r)
    BY <1>1, <1>4 DEF Tries, Open, Waiting
  <2>2. Has(j, r)'
    BY <1>1, <1>4 DEF Has, Reads
  <2>3. Claim(j, r)' = Claim(j, r)
    BY <1>3, <2>1, <2>2 DEF Claim, Worth
  <2> QED BY <1>2, <2>3 DEF Effect, Quiet
<1>5. CASE r \notin due
  <2>1. ~Has(j, r)'
    BY <1>1, <1>5 DEF Has
  <2>2. Claim(j, r)' = Claim(j, r)
    BY <1>2, <1>3, <2>1 DEF SameRow, Claim, Worth
  <2> QED BY <1>2, <2>2 DEF Effect, Quiet
<1> QED BY <1>4, <1>5

LEMMA DropSuppressedEffect ==
    ASSUME ReminderInv, NEW j \in ReminderJobs, NEW r \in Reminders,
           NEW q \in Reminders, DropSuppressed(j, q)
    PROVE  Effect(j, r)
<1>1. job'[j] = [pc |-> "delivering", rows |-> Without(job[j].rows, q)]
  BY JobGoesTo DEF DropSuppressed
<1>2. /\ DOMAIN job'[j].rows = DOMAIN job[j].rows \ {q}
      /\ \A z \in DOMAIN job'[j].rows : job'[j].rows[z] = job[j].rows[z]
  BY <1>1 DEF Without
<1>3. job[j].pc = "delivering" /\ q \in DOMAIN job[j].rows
  BY DEF DropSuppressed
<1>4. SameMails(r)
  BY DEF DropSuppressed, SameMails
<1>5. CASE r = q
  <2>1. queue[q] \in QueueRow /\ q \in DOMAIN queue
    BY <1>3, Holding DEF Reads, ReminderInv, ReminderTypeOK
  <2>2. queue'[q] = [queue[q] EXCEPT !.status = "suppressed"]
    BY <2>1 DEF DropSuppressed
  <2>3. queue'[q].status = "suppressed" /\ queue'[q] # NotQueued
    BY <2>1, <2>2, NotQueuedOK DEF QueueRow
  <2>4. ~Open(r)'
    BY <2>3, <1>5 DEF Open, Waiting
  <2>5. ~Has(j, r)'
    BY <1>2, <1>5 DEF Has
  <2> QED BY <2>4, <2>5, <1>4 DEF Effect, Settling
<1>6. CASE r # q
  <2>1. queue'[r] = queue[r]
    BY <1>6 DEF DropSuppressed, ReminderInv, ReminderTypeOK
  <2>2. Has(j, r)' <=> Has(j, r)
    BY <1>1, <1>2, <1>3, <1>6 DEF Has, Reads
  <2>3. Has(j, r) => /\ job'[j].rows[r] = job[j].rows[r]
                     /\ Answered(j, r)' <=> Answered(j, r)
    BY <1>1, <1>2, <1>3, <1>6 DEF Has, Answered
  <2> QED BY <2>1, <2>2, <2>3, <1>4, OtherRow
<1> QED BY <1>5, <1>6

LEMMA BeginSendEffect ==
    ASSUME ReminderInv, NEW j \in ReminderJobs, NEW r \in Reminders,
           NEW q \in Reminders, BeginSend(j, q)
    PROVE  Effect(j, r)
<1>1. job'[j] = [pc |-> "sending", rows |-> job[j].rows, current |-> q]
  BY JobGoesTo DEF BeginSend
<1>2. job[j].pc = "delivering"
  BY DEF BeginSend
<1>3. queue'[r] = queue[r] /\ SameMails(r)
  BY DEF BeginSend, SameMails
<1>4. Has(j, r)' <=> Has(j, r)
  BY <1>1, <1>2 DEF Has, Reads
<1>5. Has(j, r) => /\ job'[j].rows[r] = job[j].rows[r]
                   /\ Answered(j, r)' <=> Answered(j, r)
  BY <1>1, <1>2 DEF Answered
<1> QED BY <1>3, <1>4, <1>5, OtherRow

(* The mail server answers: one sending the less, for everyone who may     *)
(* come after.                                                             *)
LEMMA AnsweredEffect ==
    ASSUME ReminderInv, NEW j \in ReminderJobs, NEW r \in Reminders,
           job[j].pc = "sending",
           NEW p \in {"accepted", "declined"}, NEW copies \in 0..Handovers,
           deliveries' = [deliveries EXCEPT ![job[j].current] = @ + copies],
           JobGoes(j, [job[j] EXCEPT !.pc = p]), queue' = queue
    PROVE  Effect(j, r)
<1> DEFINE c == job[j].current
<1>1. OnRow(j) /\ Reads(j)
  BY DEF OnRow, Reads
<1>2. job'[j].pc = p /\ job'[j].rows = job[j].rows /\ job'[j].current = c
  <2> DEFINE x == [job[j] EXCEPT !.pc = p]
  <2>1. x.pc = p /\ x.rows = job[j].rows /\ x.current = c
    BY <1>1, OnRowMoves
  <2>2. JobGoes(j, x)
    OBVIOUS
  <2> HIDE DEF x
  <2> QED BY <2>1, <2>2, JobGoesTo
<1>3. c \in DOMAIN job[j].rows /\ c \in Reminders
  BY <1>1, AttemptIs
<1>4. SameRow(r)
  BY DEF SameRow, Open, Tries, Waiting
<1>5. deliveries \in [Reminders -> Nat] /\ copies \in Nat /\ copies <= Handovers
  BY ReminderConstantsOK DEF ReminderInv, ReminderTypeOK
<1>6. CASE r = c
  <2>1. Has(j, r) /\ Has(j, r)' /\ ~Answered(j, r) /\ Answered(j, r)'
    BY <1>1, <1>2, <1>3, <1>6 DEF Has, Reads, Answered
  <2>2. job[j].rows[r] \in 0..(MaxAttempts - 1)
    BY <2>1, Ranges
  <2>3. Claim(j, r) = Worth(job[j].rows[r])
        /\ Claim(j, r)' = Jobs * Worth(job[j].rows[r] + 1)
    BY <2>1, <1>2 DEF Claim, Worth, Jobs
  <2>4. deliveries'[r] <= deliveries[r] + Handovers
    BY <1>5, <1>6, ReminderConstantsOK
  <2> QED BY <2>2, <2>3, <2>4, <1>4, WorthIs DEF Effect, Spending
<1>7. CASE r # c
  <2>1. queue'[r] = queue[r] /\ SameMails(r)
    BY <1>5, <1>7 DEF SameMails
  <2>2. Has(j, r)' <=> Has(j, r)
    BY <1>1, <1>2 DEF Has, Reads
  <2>3. Has(j, r) => /\ job'[j].rows[r] = job[j].rows[r]
                     /\ Answered(j, r)' <=> Answered(j, r)
    BY <1>2, <1>7 DEF Answered
  <2> QED BY <2>1, <2>2, <2>3, OtherRow
<1> QED BY <1>6, <1>7

LEMMA ConcludeEffect ==
    ASSUME ReminderInv, NEW j \in ReminderJobs, NEW r \in Reminders,
           NEW status \in {"sent", "failed", "retrying"},
           job[j].pc \in {"accepted", "declined"},
           Conclude(j, status, Attempt(j)), UNCHANGED deliveries
    PROVE  Effect(j, r)
<1> DEFINE c == job[j].current
           n == Attempt(j)
<1>1. OnRow(j)
  BY DEF OnRow
<1>2. /\ c \in DOMAIN job[j].rows /\ c \in Reminders /\ Reads(j)
      /\ n \in 1..MaxAttempts /\ n = job[j].rows[c] + 1
  BY <1>1, AttemptIs DEF Attempt
<1>3. job'[j] = [pc |-> "delivering", rows |-> Without(job[j].rows, c)]
  BY JobGoesTo DEF Conclude
<1>4. /\ DOMAIN job'[j].rows = DOMAIN job[j].rows \ {c}
      /\ \A z \in DOMAIN job'[j].rows : job'[j].rows[z] = job[j].rows[z]
  BY <1>3 DEF Without
<1>5. SameMails(r)
  BY DEF SameMails
<1>6. queue' = [queue EXCEPT ![c] = [status |-> status, attempts |-> n]]
  BY DEF Conclude
<1>7. c = job[j].current
  OBVIOUS
<1> HIDE DEF c, n
<1>8. CASE r = c
  <2>1. queue'[r] = [status |-> status, attempts |-> n]
    BY <1>2, <1>6, <1>8 DEF ReminderInv, ReminderTypeOK
  <2>2. queue'[r] # NotQueued
    BY <1>2, <2>1, NotQueuedOK, ReminderConstantsOK DEF QueueRow
  <2>3. ~Has(j, r)'
    BY <1>4, <1>8 DEF Has
  <2>4. CASE status = "retrying"
    <3>1. Open(r)' /\ Tries(r)' = n
      BY <2>1, <2>2, <2>4 DEF Open, Tries, Waiting
    <3>2. Claim(j, r) = Jobs * Worth(job[j].rows[r] + 1)
      BY <1>2, <1>7, <1>8 DEF Claim, Has, Answered
    <3>3. Worth(Tries(r)') = Worth(job[j].rows[r] + 1)
      BY <3>1, <1>2, <1>8
    <3> QED BY <1>5, <2>3, <3>1, <3>2, <3>3 DEF Effect, Retrying
  <2>5. CASE status # "retrying"
    <3>1. ~Open(r)'
      BY <2>1, <2>2, <2>5 DEF Open, Waiting
    <3> QED BY <1>5, <2>3, <3>1 DEF Effect, Settling
  <2> QED BY <2>4, <2>5
<1>9. CASE r # c
  <2>1. queue'[r] = queue[r]
    BY <1>6, <1>9 DEF ReminderInv, ReminderTypeOK
  <2>2. Has(j, r)' <=> Has(j, r)
    BY <1>2, <1>3, <1>4, <1>9 DEF Has, Reads
  <2>3. Has(j, r) => /\ job'[j].rows[r] = job[j].rows[r]
                     /\ Answered(j, r)' <=> Answered(j, r)
    BY <1>3, <1>4, <1>7, <1>9 DEF Has, Answered
  <2> QED BY <2>1, <2>2, <2>3, <1>5, OtherRow
<1> QED BY <1>8, <1>9

LEMMA JobStepEffect ==
    ASSUME ReminderInv, NEW j \in ReminderJobs, JobStep(j), NEW r \in Reminders
    PROVE  Effect(j, r)
<1>1. CASE StartJob(j)
  <2>1. PICK x : JobGoes(j, x) /\ x.pc = "queueing"
    <3>1. PICK todo : JobGoes(j, [pc |-> "queueing", todo |-> todo])
      BY <1>1 DEF StartJob
    <3> QED BY <3>1
  <2>2. ~Has(j, r)
    BY <1>1 DEF StartJob, JobIdle, Has, Reads
  <2>3. SameRow(r) /\ SameMails(r)
    BY <1>1 DEF StartJob, SameRow, SameMails, Open, Tries, Waiting
  <2> QED BY <2>1, <2>2, <2>3, UnseenMoves
<1>2. CASE EndJob(j)
  <2>1. JobGoes(j, JobIdle) /\ JobIdle.pc = "idle"
    BY <1>2 DEF EndJob, JobIdle
  <2>2. ~Has(j, r)
    BY <1>2 DEF EndJob, Has
  <2>3. SameRow(r) /\ SameMails(r)
    BY <1>2 DEF EndJob, SameRow, SameMails, Open, Tries, Waiting
  <2> QED BY <2>1, <2>2, <2>3, UnseenMoves
<1>3. ASSUME NEW copies \in 0..Handovers,
             ServerTakes(j, copies) \/ ServerDeclines(j, copies)
      PROVE  Effect(j, r)
  BY <1>3, AnsweredEffect DEF ServerTakes, ServerDeclines
<1>4. CASE RecordSent(j)
  BY <1>4, ConcludeEffect DEF RecordSent
<1>5. CASE RecordFailed(j)
  BY <1>5, ConcludeEffect DEF RecordFailed
<1>6. CASE RecordRetry(j)
  BY <1>6, ConcludeEffect DEF RecordRetry, Remembered
<1> QED
  BY <1>1, <1>2, <1>3, <1>4, <1>5, <1>6, QueueReminderEffect, ReadQueueEffect,
     DropSuppressedEffect, BeginSendEffect DEF JobStep

LEMMA JobStepFrame ==
    ASSUME ReminderInv, NEW j \in ReminderJobs, JobStep(j)
    PROVE  brokenOff' = brokenOff /\ \A k \in ReminderJobs \ {j} : job'[k] = job[k]
<1>1. brokenOff' = brokenOff /\ \E x : JobGoes(j, x)
  BY DEF JobStep, StartJob, QueueReminder, ReadQueue, DropSuppressed, BeginSend,
         ServerTakes, ServerDeclines, RecordSent, RecordFailed, RecordRetry, EndJob,
         Conclude
<1> QED BY <1>1, JobGoesTo

FloodInv == \A r \in Reminders : FloodAt(r)

LEMMA FloodInit == ReminderInit => FloodInv
<1> SUFFICES ASSUME ReminderInit, NEW r \in Reminders
             PROVE  FloodAt(r)
  BY DEF FloodInv
<1> DEFINE f == Claims(r)
           zero == [j \in ReminderJobs |-> 0]
<1>1. /\ deliveries[r] = 0 /\ brokenOff = 0 /\ Tries(r) = 0 /\ Open(r)
      /\ \A j \in ReminderJobs : ~Has(j, r)
  BY DEF ReminderInit, Tries, Open, Has, Reads, JobIdle
<1>2. Worth(0) \in Nat
  BY WorthIs, ReminderConstantsOK
<1>3. \A j \in ReminderJobs : f[j] = Worth(0) /\ zero[j] = 0
  BY <1>1 DEF Claim, Claims
<1>4. Total(zero, ReminderJobs) = 0
  <2>1. Units(zero, ReminderJobs) = {}
    BY DEF Units
  <2> QED BY <2>1, FS_EmptySet DEF Total
<1>5. IsFiniteSet(ReminderJobs) /\ Handovers \in Nat /\ Jobs \in Nat
  BY ReminderConstantsOK, JobsAreCounted
<1> HIDE DEF f, zero
<1>6. /\ Total(f, ReminderJobs) \in Nat
      /\ Total(f, ReminderJobs) <= Total(zero, ReminderJobs) + Jobs * Worth(0)
  <2>1. \A j \in ReminderJobs : f[j] \in Nat
    BY <1>2, <1>3
  <2>2. \A j \in ReminderJobs :
           zero[j] \in Nat /\ f[j] \in Nat /\ f[j] <= zero[j] + Worth(0)
    BY <1>2, <1>3
  <2>3. Total(f, ReminderJobs)
           <= Total(zero, ReminderJobs) + Cardinality(ReminderJobs) * Worth(0)
    BY <1>2, <1>5, <2>2, TotalGrows
  <2> QED BY <1>5, <2>1, <2>3, UnitsFinite DEF Jobs
<1>7. /\ Jobs * Worth(0) \in Nat /\ Jobs + brokenOff = Jobs
  BY <1>1, <1>2, <1>5
<1>8. deliveries[r] + Handovers * Total(f, ReminderJobs)
         <= Handovers * (Jobs * Worth(0))
  <2>1. Jobs * Worth(0) - Total(f, ReminderJobs) \in Nat
    BY <1>4, <1>6, <1>7
  <2>2. ASSUME NEW h \in Nat, NEW t \in Nat, NEW u \in Nat
        PROVE  h * (t + u) = h * t + h * u /\ h * u \in Nat
    OBVIOUS
  <2>3. Handovers * (Jobs * Worth(0))
           = Handovers * Total(f, ReminderJobs)
                + Handovers * (Jobs * Worth(0) - Total(f, ReminderJobs))
        /\ Handovers * (Jobs * Worth(0) - Total(f, ReminderJobs)) \in Nat
        /\ Handovers * Total(f, ReminderJobs) \in Nat
    BY <2>1, <2>2, <1>5, <1>6, <1>7
  <2> QED BY <2>3, <1>1
<1> QED BY <1>7, <1>8 DEF FloodAt, f

(* A run that is broken off forgets its copies; the row is read anew.      *)
LEMMA BreakOffFloods ==
    ASSUME ReminderInv, ReminderInv', NEW j \in ReminderJobs, BreakOff(j),
           NEW r \in Reminders, FloodAt(r)
    PROVE  FloodAt(r)'
<1> DEFINE f == Claims(r)
           g == Claims(r)'
           sum == Total(f, ReminderJobs)
           more == Total(g, ReminderJobs)
           w == Worth(0)
<1>1. /\ job'[j] = JobIdle /\ JobIdle.pc = "idle"
      /\ \A k \in ReminderJobs \ {j} : job'[k] = job[k]
  BY JobGoesTo DEF BreakOff, JobIdle
<1>2. SameRow(r) /\ SameMails(r) /\ brokenOff' = brokenOff + 1
  BY DEF BreakOff, SameRow, SameMails, Open, Tries, Waiting
<1>3. /\ \A k \in ReminderJobs : f[k] = Claim(k, r) /\ f[k] \in Nat
      /\ \A k \in ReminderJobs : g[k] = Claim(k, r)' /\ g[k] \in Nat
  <2>1. \A k \in ReminderJobs : f[k] = Claim(k, r) /\ g[k] = Claim(k, r)'
    BY DEF Claims
  <2>2. ClaimsCount /\ ClaimsCount'
    <3>1. ReminderInv /\ ReminderInv'
      OBVIOUS
    <3> QED BY <3>1, ClaimsAreNumbers, PTL
  <2> QED BY <2>1, <2>2 DEF ClaimsCount
<1>4. \A k \in ReminderJobs \ {j} : g[k] <= f[k] + 0
  <2>1. ASSUME NEW k \in ReminderJobs \ {j} PROVE g[k] = f[k]
    BY <1>1, <1>2, <1>3 DEF SameRow, Claim, Answered, Has, Reads, Worth, Jobs
  <2> QED BY <1>3, <2>1
<1>5. w \in Nat /\ g[j] <= w
  <2>1. w \in Nat
    BY WorthIs, ReminderConstantsOK
  <2>2. g[j] = IF Open(r) THEN Worth(Tries(r)) ELSE 0
    BY <1>1, <1>2, <1>3 DEF SameRow, Claim, Has, Reads, Worth
  <2>3. Open(r) => Tries(r) \in 0..MaxAttempts
    BY Ranges, ReminderConstantsOK
  <2> QED BY <2>1, <2>2, <2>3, WorthIsMost
<1>6. /\ deliveries[r] \in Nat /\ brokenOff \in Nat /\ Handovers \in Nat
      /\ Jobs \in Nat /\ Jobs * 0 = 0
  BY JobsAreCounted, ReminderConstantsOK DEF ReminderInv, ReminderTypeOK
<1>7. deliveries[r] + Handovers * sum <= Handovers * ((Jobs + brokenOff) * w)
  BY DEF FloodAt
<1>8. FloodAt(r)' <=>
         deliveries'[r] + Handovers * more
            <= Handovers * ((Jobs + brokenOff') * w)
  BY DEF FloodAt, Jobs, Worth
<1> HIDE DEF f, g
<1>9. /\ sum \in Nat /\ more \in Nat
      /\ more + f[j] + 0 <= sum + g[j] + Jobs * 0
  <2>1. IsFiniteSet(ReminderJobs)
    BY ReminderConstantsOK
  <2> QED BY <1>3, <1>4, <2>1, TotalSteps DEF Jobs
<1> HIDE DEF sum, more, w
<1>10. more <= sum + w
  BY <1>3, <1>5, <1>6, <1>9
<1>11. ASSUME NEW m \in Nat, NEW v \in Nat
       PROVE  (m + 1) * v = m * v + v /\ m * v \in Nat
  OBVIOUS
<1>12. ASSUME NEW h \in Nat, NEW t \in Nat, NEW u \in Nat
       PROVE  h * (t + u) = h * t + h * u /\ h * u \in Nat
  OBVIOUS
<1> DEFINE bound == (Jobs + brokenOff) * w
<1>13. bound \in Nat /\ (Jobs + brokenOff') * w = bound + w
  BY <1>2, <1>5, <1>6, <1>11
<1> HIDE DEF bound
<1>14. Handovers * (bound + w) = Handovers * bound + Handovers * w
       /\ Handovers * (sum + w) = Handovers * sum + Handovers * w
       /\ Handovers * bound \in Nat /\ Handovers * sum \in Nat
       /\ Handovers * w \in Nat /\ Handovers * more \in Nat
  BY <1>5, <1>6, <1>9, <1>12, <1>13
<1>15. Handovers * more <= Handovers * (sum + w)
  <2>1. sum + w - more \in Nat /\ sum + w = more + (sum + w - more)
    BY <1>5, <1>9, <1>10
  <2>2. Handovers * (sum + w) = Handovers * more + Handovers * (sum + w - more)
        /\ Handovers * (sum + w - more) \in Nat
    BY <1>6, <1>9, <1>12, <2>1
  <2> QED BY <1>14, <2>2
<1>16. deliveries[r] + Handovers * sum <= Handovers * bound
  BY <1>7 DEF bound
<1>17. deliveries'[r] = deliveries[r]
  BY <1>2 DEF SameMails
<1> QED BY <1>6, <1>8, <1>13, <1>14, <1>15, <1>16, <1>17

LEMMA FloodNext ==
    ASSUME ReminderInv, ReminderInv', FloodInv, [ReminderNext]_reminderVars
    PROVE  FloodInv'
<1> SUFFICES ASSUME NEW r \in Reminders PROVE FloodAt(r)'
  BY DEF FloodInv
<1>1. FloodAt(r)
  BY DEF FloodInv
<1>2. ASSUME UNCHANGED <<queue, deliveries, job, brokenOff>>
      PROVE  FloodAt(r)'
  <2>1. Claims(r)' = Claims(r)
    BY <1>2 DEF Claims, Claim, Answered, Has, Reads, Open, Tries, Waiting, Worth, Jobs
  <2> QED BY <1>1, <1>2, <2>1 DEF FloodAt, Worth, Jobs
<1>3. CASE UNCHANGED reminderVars
  BY <1>2, <1>3 DEF reminderVars
<1>4. ASSUME NEW j \in ReminderJobs, JobStep(j) PROVE FloodAt(r)'
  <2>1. brokenOff' = brokenOff /\ \A k \in ReminderJobs \ {j} : job'[k] = job[k]
    BY <1>4, JobStepFrame
  <2>2. Effect(j, r)
    BY <1>4, JobStepEffect
  <2> QED BY <1>1, <2>1, <2>2, EffectKeepsFlood
<1>5. ASSUME NEW j \in ReminderJobs, BreakOff(j) PROVE FloodAt(r)'
  BY <1>1, <1>5, BreakOffFloods
<1>6. ASSUME NEW q \in Reminders, BackoffEnds(q) PROVE FloodAt(r)'
  BY <1>2, <1>6 DEF BackoffEnds
<1>7. ASSUME NEW a \in Attendees, Suppress(a) PROVE FloodAt(r)'
  BY <1>2, <1>7 DEF Suppress
<1> QED BY <1>3, <1>4, <1>5, <1>6, <1>7 DEF ReminderNext

LEMMA ReminderInvariance == ReminderSpec => [](ReminderInv /\ FloodInv)
<1>1. ReminderInit => ReminderInv /\ FloodInv
  BY ReminderInit_Inv, FloodInit
<1>2. ReminderInv /\ FloodInv /\ [ReminderNext]_reminderVars
         => (ReminderInv /\ FloodInv)'
  BY ReminderInvNext, FloodNext
<1> QED BY <1>1, <1>2, PTL DEF ReminderSpec

(* Jobs with stale copies do not make a row claim what did not happen:     *)
(* marked sent, the mail server took the mail; given up on, there is the   *)
(* dead letter.                                                            *)
THEOREM OutcomesHappened == ReminderSpec => []OutcomesAreTrue
BY ReminderInvariance, PTL DEF ReminderInv

(* However many jobs run, in however many processes, whichever runs are    *)
(* broken off and whichever answers of the mail server are lost, nobody    *)
(* gets more mails than the attempts, the jobs and the runs broken off     *)
(* account for.                                                            *)
THEOREM NobodyIsFlooded == ReminderSpec => []FloodIsBounded
<1>1. ReminderInv /\ FloodInv => FloodIsBounded
  <2> SUFFICES ASSUME ReminderInv, FloodInv, NEW r \in Reminders
               PROVE  deliveries[r] <= Handovers * ((Jobs + brokenOff) * Worth(0))
    BY ReminderConstantsOK DEF FloodIsBounded, Jobs, Worth
  <2>1. FloodAt(r)
    BY DEF FloodInv
  <2>2. Total(Claims(r), ReminderJobs) \in Nat
    <3>1. \A j \in ReminderJobs : Claims(r)[j] \in Nat
      BY ClaimsAreNumbers DEF Claims, ClaimsCount
    <3> QED BY <3>1, UnitsFinite, ReminderConstantsOK
  <2>3. /\ deliveries[r] \in Nat /\ (Jobs + brokenOff) * Worth(0) \in Nat
        /\ Handovers \in Nat
    <3>1. brokenOff \in Nat /\ Worth(0) \in Nat /\ Jobs \in Nat
      BY WorthIs, JobsAreCounted, ReminderConstantsOK
         DEF ReminderInv, ReminderTypeOK
    <3>2. (Jobs + brokenOff) * Worth(0) \in Nat
      BY <3>1
    <3> QED BY <3>2, ReminderConstantsOK DEF ReminderInv, ReminderTypeOK
  <2>4. ASSUME NEW h \in Nat, NEW t \in Nat PROVE h * t \in Nat
    OBVIOUS
  <2>5. /\ Handovers * Total(Claims(r), ReminderJobs) \in Nat
        /\ Handovers * ((Jobs + brokenOff) * Worth(0)) \in Nat
    BY <2>2, <2>3, <2>4
  <2> QED BY <2>1, <2>3, <2>5 DEF FloodAt
<1> QED BY <1>1, ReminderInvariance, PTL
-----------------------------------------------------------------------------
Working == {"sending", "mailed", "rolled back", "reloaded", "now"}
Choosing == [pc : {"choosing"}, left : SUBSET Batches, first : BOOLEAN]
Work == [pc : Working, left : SUBSET Batches, batch : Batches, seen : Batch,
         todo : SUBSET Donors, ok : SUBSET Donors, bad : SUBSET Donors,
         to : SUBSET Donors, outcome : Outcomes]

LEMMA MailerKinds ==
    ASSUME NEW x, x \in Mailer \cup {MailerIdle}
    PROVE  /\ x.pc \in {"idle", "choosing"} \cup Working
           /\ x.pc = "idle" <=> x = MailerIdle
           /\ x.pc = "choosing" <=> x \in Choosing
           /\ x.pc \in Working <=> x \in Work
<1>1. Mailer = Choosing \cup Work
  BY DEF Mailer, Choosing, Work, Working
<1>2. MailerIdle.pc = "idle"
  BY DEF MailerIdle
<1>3. CASE x = MailerIdle
  BY <1>2, <1>3 DEF Choosing, Work, Working
<1>4. CASE x \in Choosing
  BY <1>2, <1>4 DEF Choosing, Work, Working
<1>5. CASE x \in Work
  BY <1>2, <1>5 DEF Choosing, Work, Working
<1> QED BY <1>1, <1>3, <1>4, <1>5

LEMMA MailersMade ==
    /\ MailerIdle \in Mailer \cup {MailerIdle}
    /\ Choosing \subseteq Mailer
    /\ Work \subseteq Mailer
BY DEF Mailer, Choosing, Work, Working

LEMMA SmallestIsMember ==
    ASSUME NEW S \in SUBSET Nat, S # {}
    PROVE  Min(S) \in S
<1>1. \E x \in S : \A y \in S : x <= y
  BY SmallestExists
<1> QED BY <1>1 DEF Min

LEMMA InterruptionsAreCounted ==
    ASSUME CampaignTypeOK
    PROVE  deployment.maxInterruptions \in Nat /\ interruptions \in Nat
BY DeploymentsOK DEF CampaignTypeOK

LEMMA DeliveryRecord ==
    ASSUME NEW m \in Nat, NEW n \in Nat
    PROVE  /\ [sent |-> m, failed |-> n] \in [Outcomes -> Nat]
           /\ [sent |-> m, failed |-> n]["sent"] = m
           /\ [sent |-> m, failed |-> n]["failed"] = n
BY DEF Outcomes

(* What the tables promise whoever works on a batch.                       *)
MailerOK(x, rows, recs) ==
    /\ x \in Mailer \cup {MailerIdle}
    /\ x.pc # "idle" => \A b \in x.left : rows[b] # NoBatch
    /\ x.pc = "choosing" => x.left # {}
    /\ x.pc \in Working =>
          /\ x.batch \notin x.left
          /\ x.todo \cap (x.ok \cup x.bad) = {} /\ x.todo \cap x.to = {}
          /\ x.pc = "now" <=> rows[x.batch] = NoBatch
          /\ x.pc # "now" /\ x.seen.status # "scheduled"
                => rows[x.batch].status # "scheduled"
    /\ x.pc \in {"sending", "mailed"} =>
          /\ \A a \in x.ok : recs[x.batch][a]["sent"] > 0
          /\ \A a \in x.bad : recs[x.batch][a]["failed"] > 0

Got(recs, b) == {a \in Donors : recs[b][a]["sent"] > 0}

(* A batch's row is backed by its deliveries; a batch that was not created *)
(* has none.                                                               *)
Backed(row, recs, b) ==
    /\ row # NoBatch =>
          /\ row.sent <= Cardinality(Got(recs, b))
          /\ row.status = "partial_failed" =>
                \E a \in Donors : recs[b][a]["failed"] > 0
    /\ row = NoBatch =>
          \A a \in Donors : recs[b][a]["sent"] = 0 /\ recs[b][a]["failed"] = 0

OneWriter ==
    \A m, n \in Mailers :
        mailer[m].pc \in {"mailed", "now"} /\ mailer[n].pc \in {"mailed", "now"}
            => m = n

CampaignInv ==
    /\ CampaignTypeOK
    /\ \A m \in Mailers : MailerOK(mailer[m], batch, delivery)
    /\ \A b \in Batches : Backed(batch[b], delivery, b)
    /\ OneWriter

(* Rows of batches stay, none is due again, deliveries are only added.     *)
Onward ==
    /\ \A b \in Batches :
          batch[b] # NoBatch =>
             /\ batch'[b] # NoBatch
             /\ batch[b].status # "scheduled" => batch'[b].status # "scheduled"
    /\ \A b \in Batches, a \in Donors, o \in Outcomes :
          delivery'[b][a][o] >= delivery[b][a][o]

DeploymentStays ==
    /\ deployment' = deployment
    /\ interruptions' \in 0..deployment.maxInterruptions

TablesOK ==
    /\ batch' \in [Batches -> Batch \cup {NoBatch}]
    /\ delivery' \in [Batches -> [Donors -> [Outcomes -> Nat]]]
    /\ blocked' \subseteq Donors
    /\ mailed' \in [Batches -> [Donors -> Nat]]
    /\ DeploymentStays

LEMMA OthersStayOK ==
    ASSUME CampaignInv, TablesOK, Onward, NEW x, MailerOK(x, batch, delivery),
           x.pc = "now" => batch'[x.batch] = NoBatch
    PROVE  MailerOK(x, batch', delivery')
<1>1. x \in Mailer \cup {MailerIdle}
  BY DEF MailerOK
<1>2. CASE x.pc \in Working
  <2>1. x \in Work
    BY <1>1, <1>2, MailerKinds
  <2>2. x.batch \in Batches /\ x.left \subseteq Batches /\ x.ok \subseteq Donors
           /\ x.bad \subseteq Donors /\ x.seen \in Batch
    BY <2>1 DEF Work
  <2>3. \A b \in x.left : batch'[b] # NoBatch
    BY <1>2, <2>2 DEF MailerOK, Onward, Working
  <2>4. x.pc = "now" <=> batch'[x.batch] = NoBatch
    BY <1>2, <2>2 DEF MailerOK, Onward
  <2>5. x.pc # "now" /\ x.seen.status # "scheduled"
           => batch'[x.batch].status # "scheduled"
    BY <1>2, <2>2 DEF MailerOK, Onward
  <2>6. ASSUME x.pc \in {"sending", "mailed"}
        PROVE  /\ \A a \in x.ok : delivery'[x.batch][a]["sent"] > 0
               /\ \A a \in x.bad : delivery'[x.batch][a]["failed"] > 0
    <3>1. \A a \in Donors, o \in Outcomes :
             /\ delivery[x.batch][a][o] \in Nat
             /\ delivery'[x.batch][a][o] \in Nat
             /\ delivery'[x.batch][a][o] >= delivery[x.batch][a][o]
      BY <2>2 DEF CampaignInv, CampaignTypeOK, TablesOK, Onward
    <3>2. \A a \in x.ok : delivery[x.batch][a]["sent"] > 0
      BY <2>6 DEF MailerOK
    <3>3. \A a \in x.bad : delivery[x.batch][a]["failed"] > 0
      BY <2>6 DEF MailerOK
    <3>4. \A a \in x.ok : delivery'[x.batch][a]["sent"] > 0
      BY <3>1, <3>2, <2>2 DEF Outcomes
    <3>5. \A a \in x.bad : delivery'[x.batch][a]["failed"] > 0
      BY <3>1, <3>3, <2>2 DEF Outcomes
    <3> QED BY <3>4, <3>5
  <2>7. /\ x.batch \notin x.left
        /\ x.todo \cap (x.ok \cup x.bad) = {} /\ x.todo \cap x.to = {}
    BY <1>2 DEF MailerOK
  <2> QED BY <1>1, <2>3, <2>4, <2>5, <2>6, <2>7 DEF MailerOK
<1>3. CASE x.pc \notin Working
  <2>1. x.pc \in {"idle", "choosing"}
    BY <1>1, <1>3, MailerKinds
  <2>2. x.pc = "choosing" => x.left \subseteq Batches
    BY <1>1, MailerKinds DEF Choosing
  <2> QED BY <1>1, <1>3, <2>1, <2>2 DEF MailerOK, Onward, Working
<1> QED BY <1>2, <1>3

(* The thread m goes on to x: it is enough to look at what it holds and    *)
(* at the rows it writes.                                                  *)
LEMMA MailerStepKeeps ==
    ASSUME CampaignInv, NEW m \in Mailers, NEW x, MailerGoes(m, x), TablesOK, Onward,
           MailerOK(x, batch', delivery'),
           \A b \in Batches : Backed(batch'[b], delivery', b),
           \A n \in Mailers \ {m} :
              mailer[n].pc = "now" => batch'[mailer[n].batch] = NoBatch,
           x.pc \in {"mailed", "now"} => mailer[m].pc \in {"mailed", "now"} \/ ~Locked
    PROVE  CampaignInv'
<1>1. /\ mailer'[m] = x /\ \A n \in Mailers \ {m} : mailer'[n] = mailer[n]
      /\ x \in Mailer \cup {MailerIdle}
      /\ mailer' \in [Mailers -> Mailer \cup {MailerIdle}]
  BY DEF MailerGoes, MailerOK, CampaignInv, CampaignTypeOK
<1>2. CampaignTypeOK'
  BY <1>1 DEF TablesOK, DeploymentStays, CampaignInv, CampaignTypeOK
<1>3. ASSUME NEW n \in Mailers PROVE MailerOK(mailer'[n], batch', delivery')
  <2>1. CASE n = m
    BY <1>1, <2>1
  <2>2. CASE n # m
    <3>1. MailerOK(mailer[n], batch, delivery)
      BY DEF CampaignInv
    <3> QED BY <3>1, <1>1, <2>2, OthersStayOK
  <2> QED BY <2>1, <2>2
<1>4. OneWriter'
  BY <1>1 DEF OneWriter, CampaignInv, Locked
<1>5. \A n \in Mailers : MailerOK(mailer[n], batch, delivery)'
  BY <1>3
<1>6. \A b \in Batches : Backed(batch[b], delivery, b)'
  OBVIOUS
<1> QED BY <1>2, <1>4, <1>5, <1>6 DEF CampaignInv

(* A step that leaves the tables of batches and deliveries alone.          *)
LEMMA TableFreeKeeps ==
    ASSUME CampaignInv, NEW m \in Mailers, NEW x, MailerGoes(m, x),
           UNCHANGED <<batch, delivery>>,
           blocked' \subseteq Donors,
           mailed' \in [Batches -> [Donors -> Nat]],
           DeploymentStays,
           MailerOK(x, batch, delivery),
           x.pc \in {"mailed", "now"} => mailer[m].pc \in {"mailed", "now"} \/ ~Locked
    PROVE  CampaignInv'
<1>1. TablesOK /\ Onward
  BY DEF CampaignInv, CampaignTypeOK, TablesOK, Onward, Outcomes
<1>2. MailerOK(x, batch', delivery') /\ \A b \in Batches : Backed(batch'[b], delivery', b)
  BY DEF CampaignInv
<1>3. \A n \in Mailers \ {m} :
         mailer[n].pc = "now" => batch'[mailer[n].batch] = NoBatch
  BY DEF CampaignInv, MailerOK, Working
<1> QED BY <1>1, <1>2, <1>3, MailerStepKeeps

LEMMA MailerAt ==
    ASSUME CampaignInv, NEW m \in Mailers
    PROVE  /\ mailer[m] \in Mailer \cup {MailerIdle}
           /\ MailerOK(mailer[m], batch, delivery)
           /\ mailer[m].pc = "choosing" => mailer[m] \in Choosing
           /\ mailer[m].pc \in Working => mailer[m] \in Work
           /\ mailer[m].pc \in {"idle", "choosing"} \cup Working
<1>1. mailer[m] \in Mailer \cup {MailerIdle} /\ MailerOK(mailer[m], batch, delivery)
  BY DEF CampaignInv, CampaignTypeOK
<1> QED BY <1>1, MailerKinds

LEMMA ReadDueKeeps ==
    ASSUME CampaignInv, NEW m \in Mailers, ReadDue(m) PROVE CampaignInv'
<1> DEFINE x == [pc |-> "choosing", left |-> Scheduled, first |-> TRUE]
<1>1. x \in Choosing
  BY DEF Choosing, Scheduled
<1>2. /\ x.pc = "choosing" /\ x.left = Scheduled /\ MailerGoes(m, x)
      /\ Scheduled # {}
  BY DEF ReadDue
<1> HIDE DEF x
<1>3. MailerOK(x, batch, delivery)
  BY <1>1, <1>2, MailersMade DEF MailerOK, Scheduled, Working
<1>4. /\ UNCHANGED <<batch, delivery>> /\ blocked' \subseteq Donors
      /\ mailed' \in [Batches -> [Donors -> Nat]]
      /\ DeploymentStays
  BY DEF ReadDue, CampaignInv, CampaignTypeOK, DeploymentStays
<1> QED BY <1>2, <1>3, <1>4, TableFreeKeeps

LEMMA AbortKeeps ==
    ASSUME CampaignInv, NEW m \in Mailers, Abort(m) PROVE CampaignInv'
<1>1. MailerIdle.pc = "idle"
  BY DEF MailerIdle
<1>2. MailerOK(MailerIdle, batch, delivery)
  BY <1>1, MailersMade DEF MailerOK, Working
<1>3. /\ UNCHANGED <<batch, delivery>> /\ blocked' \subseteq Donors
      /\ mailed' \in [Batches -> [Donors -> Nat]]
      /\ DeploymentStays
  BY InterruptionsAreCounted DEF Abort, Interrupt, CampaignInv, CampaignTypeOK, DeploymentStays
<1>4. MailerGoes(m, MailerIdle)
  BY DEF Abort
<1> QED BY <1>1, <1>2, <1>3, <1>4, TableFreeKeeps

LEMMA SendingIs ==
    ASSUME CampaignInv, NEW p \in {"sending", "now"}, NEW left \in SUBSET Batches,
           NEW b \in Batches, NEW seen \in Batch
    PROVE  /\ Sending(p, left, b, seen) \in Work
           /\ Sending(p, left, b, seen).pc = p
           /\ Sending(p, left, b, seen).left = left
           /\ Sending(p, left, b, seen).batch = b
           /\ Sending(p, left, b, seen).seen = seen
           /\ Sending(p, left, b, seen).todo \subseteq seen.audience
           /\ Sending(p, left, b, seen).ok = {}
           /\ Sending(p, left, b, seen).bad = {}
           /\ Sending(p, left, b, seen).to = {}
           /\ Sending(p, left, b, seen).outcome = "sent"
BY DEF Sending, Allowed, Work, Working, Batch, Outcomes

LEMMA DueIsBatch ==
    ASSUME NEW A \in SUBSET Donors
    PROVE  /\ Due(A) \in Batch
           /\ Due(A).status = "scheduled" /\ Due(A).audience = A /\ Due(A).sent = 0
BY CampaignConstantsOK, FS_CardinalityType DEF Due, Batch

(* The batch a thread takes next, and the row it takes it for.             *)
LEMMA Taken ==
    ASSUME CampaignInv, NEW m \in Mailers, TakeBatch(m)
    PROVE  \E b \in mailer[m].left, seen \in Batch :
              /\ batch[b] # NoBatch
              /\ seen.status = "scheduled" \/ seen = batch[b]
              /\ mailer[m].left \in SUBSET Batches
              /\ MailerGoes(m, Sending("sending", mailer[m].left \ {b}, b, seen))
<1> DEFINE b == Min(mailer[m].left)
           seen == IF mailer[m].first THEN Due(batch[b].audience) ELSE batch[b]
<1>1. mailer[m] \in Choosing /\ MailerOK(mailer[m], batch, delivery)
  BY MailerAt DEF TakeBatch
<1>2. mailer[m].left \in SUBSET Batches /\ mailer[m].left # {}
  BY <1>1 DEF Choosing, TakeBatch, MailerOK
<1>3. b \in mailer[m].left
  BY <1>2, SmallestIsMember, CampaignConstantsOK
<1>4. b \in Batches /\ batch[b] # NoBatch /\ batch[b] \in Batch
  BY <1>1, <1>2, <1>3 DEF MailerOK, TakeBatch, CampaignInv, CampaignTypeOK
<1>5. MailerGoes(m, Sending("sending", mailer[m].left \ {b}, b, seen))
  BY DEF TakeBatch
<1> HIDE DEF b
<1>6. seen \in Batch /\ (seen.status = "scheduled" \/ seen = batch[b])
  <2>1. batch[b].audience \in SUBSET Donors
    BY <1>4 DEF Batch
  <2> QED BY <2>1, <1>4, DueIsBatch
<1> HIDE DEF seen
<1> QED BY <1>2, <1>3, <1>4, <1>5, <1>6

LEMMA TakeBatchKeeps ==
    ASSUME CampaignInv, NEW m \in Mailers, TakeBatch(m) PROVE CampaignInv'
<1>1. PICK b \in mailer[m].left, seen \in Batch :
         /\ batch[b] # NoBatch
         /\ seen.status = "scheduled" \/ seen = batch[b]
         /\ mailer[m].left \in SUBSET Batches
         /\ MailerGoes(m, Sending("sending", mailer[m].left \ {b}, b, seen))
  BY Taken
<1>2. b \in Batches /\ mailer[m].left \ {b} \in SUBSET Batches
  BY <1>1
<1> DEFINE x == Sending("sending", mailer[m].left \ {b}, b, seen)
<1>3. /\ x \in Work /\ x.pc = "sending" /\ x.left = mailer[m].left \ {b}
      /\ x.batch = b /\ x.seen = seen /\ x.ok = {} /\ x.bad = {} /\ x.to = {}
  BY <1>2 DEF Sending, Allowed, Work, Working, Batch, Outcomes
<1>4. MailerGoes(m, x)
  BY <1>1
<1> HIDE DEF x
<1>5. mailer[m].pc = "choosing" /\ MailerOK(mailer[m], batch, delivery)
  BY MailerAt DEF TakeBatch
<1>6. MailerOK(x, batch, delivery)
  BY <1>1, <1>3, <1>5, MailersMade DEF MailerOK, Working
<1>7. /\ UNCHANGED <<batch, delivery>> /\ blocked' \subseteq Donors
      /\ mailed' \in [Batches -> [Donors -> Nat]]
      /\ DeploymentStays
  BY DEF TakeBatch, CampaignInv, CampaignTypeOK, DeploymentStays
<1> QED BY <1>3, <1>4, <1>6, <1>7, TableFreeKeeps

(* A mail is handed over: the server's count of one batch and donor.       *)
LEMMA MailedIs ==
    ASSUME CampaignInv, NEW b \in Batches, NEW a \in Donors, NEW copies \in Nat,
           mailed' = [mailed EXCEPT ![b][a] = @ + copies]
    PROVE  /\ mailed' \in [Batches -> [Donors -> Nat]]
           /\ mailed'[b][a] = mailed[b][a] + copies
           /\ \A c \in Batches, d \in Donors :
                 <<c, d>> # <<b, a>> => mailed'[c][d] = mailed[c][d]
BY DEF CampaignInv, CampaignTypeOK

LEMMA CopiesAre ==
    ASSUME NEW outcome, NEW copies \in Copies(outcome)
    PROVE  /\ copies \in Nat /\ copies <= Providers
           /\ outcome = "sent" => copies > 0
BY CampaignConstantsOK DEF Copies

LEMMA NextDonor ==
    ASSUME NEW S \in SUBSET Donors, S # {} PROVE Min(S) \in S
BY SmallestIsMember, CampaignConstantsOK

HandsOver(m, outcome, copies, a, x) ==
    /\ a \in Donors /\ a \in mailer[m].todo /\ mailer[m] \in Work /\ mailer[m].pc = "sending"
    /\ MailerGoes(m, x)
    /\ x.pc = "mailed" /\ x.left = mailer[m].left
    /\ x.batch = mailer[m].batch /\ x.seen = mailer[m].seen
    /\ x.todo = mailer[m].todo \ {a} /\ x.to = {a}
    /\ x.ok = mailer[m].ok /\ x.bad = mailer[m].bad
    /\ x.outcome = outcome
    /\ mailed' = [mailed EXCEPT ![mailer[m].batch][a] = @ + copies]

LEMMA MailOneTo ==
    ASSUME CampaignInv, NEW m \in Mailers, NEW outcome \in Outcomes,
           NEW copies \in Copies(outcome), MailOne(m, outcome, copies)
    PROVE  \E a \in mailer[m].todo, x \in Work : HandsOver(m, outcome, copies, a, x)
<1> DEFINE a == Min(mailer[m].todo)
           x == [mailer[m] EXCEPT !.pc = "mailed", !.to = {a},
                                  !.todo = @ \ {a}, !.outcome = outcome]
<1>1. mailer[m] \in Work /\ mailer[m].pc = "sending" /\ mailer[m].todo # {}
  BY MailerAt DEF MailOne, Working
<1>2. a \in mailer[m].todo /\ a \in Donors
  BY <1>1, NextDonor DEF Work
<1>3. /\ MailerGoes(m, x)
      /\ mailed' = [mailed EXCEPT ![mailer[m].batch][a] = @ + copies]
  BY DEF MailOne
<1> HIDE DEF a
<1>4. /\ x \in Work
      /\ x.pc = "mailed" /\ x.left = mailer[m].left
      /\ x.batch = mailer[m].batch /\ x.seen = mailer[m].seen
      /\ x.todo = mailer[m].todo \ {a} /\ x.to = {a}
      /\ x.ok = mailer[m].ok /\ x.bad = mailer[m].bad
      /\ x.outcome = outcome
  BY <1>1, <1>2 DEF Work, Working
<1> HIDE DEF x
<1>5. HandsOver(m, outcome, copies, a, x)
  BY <1>1, <1>2, <1>3, <1>4 DEF HandsOver
<1> QED BY <1>2, <1>4, <1>5

LEMMA MailOneKeeps ==
    ASSUME CampaignInv, NEW m \in Mailers, NEW outcome \in Outcomes,
           NEW copies \in Copies(outcome), MailOne(m, outcome, copies)
    PROVE  CampaignInv'
<1>1. PICK a \in mailer[m].todo, x \in Work : HandsOver(m, outcome, copies, a, x)
  BY MailOneTo
<1>2. MailerOK(mailer[m], batch, delivery)
  BY MailerAt
<1>3. MailerOK(x, batch, delivery)
  BY <1>1, <1>2, MailersMade DEF HandsOver, MailerOK, Working
<1>4. mailed' \in [Batches -> [Donors -> Nat]]
  BY <1>1, MailedIs, CopiesAre DEF HandsOver, Work
<1>5. /\ UNCHANGED <<batch, delivery>> /\ blocked' \subseteq Donors
      /\ DeploymentStays /\ ~Locked
  BY DEF MailOne, CampaignInv, CampaignTypeOK, DeploymentStays
<1>6. MailerGoes(m, x)
  BY <1>1 DEF HandsOver
<1> QED BY <1>3, <1>4, <1>5, <1>6, TableFreeKeeps

(* A mail that was handed over goes on record.                             *)
Records(m, x) ==
    /\ mailer[m] \in Work /\ mailer[m].pc = "mailed"
    /\ x \in Work /\ MailerGoes(m, x)
    /\ x.pc = "sending" /\ x.left = mailer[m].left
    /\ x.batch = mailer[m].batch /\ x.seen = mailer[m].seen
    /\ x.todo = mailer[m].todo /\ x.to = {}
    /\ x.ok = IF mailer[m].outcome = "sent" THEN mailer[m].ok \cup mailer[m].to
              ELSE mailer[m].ok
    /\ x.bad = IF mailer[m].outcome = "failed" THEN mailer[m].bad \cup mailer[m].to
               ELSE mailer[m].bad

LEMMA RecordOneGoes ==
    ASSUME CampaignInv, NEW m \in Mailers, RecordOne(m)
    PROVE  \E x : Records(m, x)
<1> DEFINE s == mailer[m]
           x == [s EXCEPT !.pc = "sending", !.to = {},
                    !.ok = IF s.outcome = "sent" THEN @ \cup s.to ELSE @,
                    !.bad = IF s.outcome = "failed" THEN @ \cup s.to ELSE @]
<1>1. s \in Work /\ s.pc = "mailed"
  BY MailerAt DEF RecordOne, Working
<1>2. MailerGoes(m, x)
  BY DEF RecordOne
<1> HIDE DEF s
<1>3. /\ x \in Work
      /\ x.pc = "sending" /\ x.left = s.left /\ x.batch = s.batch /\ x.seen = s.seen
      /\ x.todo = s.todo /\ x.to = {}
      /\ x.ok = IF s.outcome = "sent" THEN s.ok \cup s.to ELSE s.ok
      /\ x.bad = IF s.outcome = "failed" THEN s.bad \cup s.to ELSE s.bad
  BY <1>1 DEF Work, Working
<1> HIDE DEF x
<1>4. Records(m, x)
  BY <1>1, <1>2, <1>3 DEF Records, s
<1> QED BY <1>4

LEMMA ReleasedIs ==
    ASSUME CampaignInv, NEW m \in Mailers, mailer[m] \in Work, delivery' = Released(m)
    PROVE  /\ delivery' \in [Batches -> [Donors -> [Outcomes -> Nat]]]
           /\ \A b \in Batches, a \in Donors, o \in Outcomes :
                 delivery'[b][a][o] =
                    IF b = mailer[m].batch /\ a \in mailer[m].to /\ o = mailer[m].outcome
                    THEN delivery[b][a][o] + 1 ELSE delivery[b][a][o]
BY DEF Released, CampaignInv, CampaignTypeOK

(* Rows stay backed when deliveries are added, and their batch was created.*)
LEMMA MoreDeliveries ==
    ASSUME CampaignInv, NEW b \in Batches, NEW row, row # NoBatch,
           row.sent \in Nat,
           Backed(row, delivery, b),
           delivery' \in [Batches -> [Donors -> [Outcomes -> Nat]]],
           \A a \in Donors, o \in Outcomes :
              delivery'[b][a][o] >= delivery[b][a][o]
    PROVE  Backed(row, delivery', b)
<1>1. \A a \in Donors, o \in Outcomes : delivery[b][a][o] \in Nat
                                          /\ delivery'[b][a][o] \in Nat
  BY DEF CampaignInv, CampaignTypeOK
<1>2. Got(delivery, b) \subseteq Got(delivery', b)
  BY <1>1 DEF Got, Outcomes
<1>3. IsFiniteSet(Got(delivery', b))
  BY CampaignConstantsOK, FS_Subset DEF Got
<1>4. /\ Cardinality(Got(delivery, b)) <= Cardinality(Got(delivery', b))
      /\ Cardinality(Got(delivery, b)) \in Nat
      /\ Cardinality(Got(delivery', b)) \in Nat
  BY <1>2, <1>3, FS_Subset, FS_CardinalityType
<1>5. ASSUME NEW a \in Donors, delivery[b][a]["failed"] > 0
      PROVE  delivery'[b][a]["failed"] > 0
  BY <1>1, <1>5 DEF Outcomes
<1>6. row.sent <= Cardinality(Got(delivery', b))
  BY <1>4 DEF Backed
<1> QED BY <1>5, <1>6 DEF Backed

LEMMA RecordOneKeeps ==
    ASSUME CampaignInv, NEW m \in Mailers, RecordOne(m) PROVE CampaignInv'
<1>1. PICK x : Records(m, x)
  BY RecordOneGoes
<1>2. /\ mailer[m] \in Work /\ mailer[m].pc = "mailed" /\ x \in Work
      /\ x.batch = mailer[m].batch /\ MailerGoes(m, x)
      /\ mailer[m].batch \in Batches
  BY <1>1 DEF Records, Work
<1>3. delivery' = Released(m) /\ UNCHANGED <<deployment, batch, blocked, mailed, interruptions>>
  BY DEF RecordOne
<1>4. /\ delivery' \in [Batches -> [Donors -> [Outcomes -> Nat]]]
      /\ \A b \in Batches, a \in Donors, o \in Outcomes :
            delivery'[b][a][o] =
               IF b = mailer[m].batch /\ a \in mailer[m].to /\ o = mailer[m].outcome
               THEN delivery[b][a][o] + 1 ELSE delivery[b][a][o]
  BY <1>2, <1>3, ReleasedIs
<1>5. \A b \in Batches, a \in Donors, o \in Outcomes :
         /\ delivery[b][a][o] \in Nat /\ delivery'[b][a][o] \in Nat
         /\ delivery'[b][a][o] >= delivery[b][a][o]
  <2>1. \A b \in Batches, a \in Donors, o \in Outcomes :
           delivery[b][a][o] \in Nat /\ delivery'[b][a][o] \in Nat
    BY <1>4 DEF CampaignInv, CampaignTypeOK
  <2> QED BY <2>1, <1>4
<1>6. TablesOK /\ Onward
  BY <1>3, <1>4, <1>5
     DEF CampaignInv, CampaignTypeOK, TablesOK, DeploymentStays, Onward
<1>7. MailerOK(mailer[m], batch, delivery)
  BY MailerAt
<1>8. MailerOK(mailer[m], batch', delivery')
  BY <1>2, <1>6, <1>7, OthersStayOK
<1>9. MailerOK(x, batch', delivery')
  <2>1. /\ x \in Mailer \cup {MailerIdle}
        /\ \A b \in x.left : batch'[b] # NoBatch
        /\ x.batch \notin x.left
        /\ x.todo \cap (x.ok \cup x.bad) = {} /\ x.todo \cap x.to = {}
        /\ x.pc = "now" <=> batch'[x.batch] = NoBatch
        /\ x.pc # "now" /\ x.seen.status # "scheduled"
              => batch'[x.batch].status # "scheduled"
    BY <1>1, <1>2, <1>8, MailersMade DEF Records, MailerOK, Working
  <2>2. \A a \in x.ok : delivery'[x.batch][a]["sent"] > 0
    <3>1. ASSUME NEW a \in mailer[m].to, mailer[m].outcome = "sent"
          PROVE  delivery'[x.batch][a]["sent"] > 0
      <4>1. a \in Donors /\ "sent" \in Outcomes
        BY <1>2 DEF Work, Outcomes
      <4>2. /\ delivery'[x.batch][a]["sent"] = delivery[x.batch][a]["sent"] + 1
            /\ delivery[x.batch][a]["sent"] \in Nat
        BY <4>1, <1>2, <1>4, <1>5, <3>1
      <4> QED BY <4>2
    <3> QED BY <3>1, <1>1, <1>2, <1>8 DEF Records, MailerOK
  <2>3. \A a \in x.bad : delivery'[x.batch][a]["failed"] > 0
    <3>1. ASSUME NEW a \in mailer[m].to, mailer[m].outcome = "failed"
          PROVE  delivery'[x.batch][a]["failed"] > 0
      <4>1. a \in Donors /\ "failed" \in Outcomes
        BY <1>2 DEF Work, Outcomes
      <4>2. /\ delivery'[x.batch][a]["failed"] = delivery[x.batch][a]["failed"] + 1
            /\ delivery[x.batch][a]["failed"] \in Nat
        BY <4>1, <1>2, <1>4, <1>5, <3>1
      <4> QED BY <4>2
    <3> QED BY <3>1, <1>1, <1>2, <1>8 DEF Records, MailerOK
  <2>4. x.pc = "sending"
    BY <1>1 DEF Records
  <2> QED BY <2>1, <2>2, <2>3, <2>4 DEF MailerOK
<1>10. ASSUME NEW b \in Batches PROVE Backed(batch'[b], delivery', b)
  <2>1. Backed(batch[b], delivery, b)
    BY DEF CampaignInv
  <2>2. CASE batch[b] # NoBatch
    <3>1. batch[b].sent \in Nat
      BY <2>2, CampaignConstantsOK, FS_CardinalityType
         DEF CampaignInv, CampaignTypeOK, Batch
    <3> QED BY <2>1, <2>2, <3>1, <1>3, <1>4, <1>5, MoreDeliveries
  <2>3. CASE batch[b] = NoBatch
    <3>1. b # mailer[m].batch
      BY <2>3, <1>2, <1>7 DEF MailerOK, Working
    <3>2. \A a \in Donors, o \in Outcomes : delivery'[b][a][o] = delivery[b][a][o]
      BY <3>1, <1>4
    <3> QED BY <2>1, <2>3, <3>2, <1>3 DEF Backed, Outcomes
  <2> QED BY <2>2, <2>3
<1>11. \A n \in Mailers \ {m} :
          mailer[n].pc = "now" => batch'[mailer[n].batch] = NoBatch
  BY <1>3 DEF CampaignInv, MailerOK, Working
<1>12. x.pc \notin {"mailed", "now"}
  BY <1>1 DEF Records
<1> QED BY <1>2, <1>6, <1>9, <1>10, <1>11, <1>12, MailerStepKeeps

LEMMA RaisedIs ==
    ASSUME CampaignInv, NEW m \in Mailers, BatchRaises(m)
    PROVE  \E x \in Work :
              /\ mailer[m] \in Work /\ MailerGoes(m, x)
              /\ x.pc = "rolled back" /\ x.left = mailer[m].left
              /\ x.batch = mailer[m].batch /\ x.seen = mailer[m].seen
              /\ x.todo = mailer[m].todo /\ x.to = mailer[m].to
              /\ x.ok = mailer[m].ok /\ x.bad = mailer[m].bad
<1> DEFINE x == [mailer[m] EXCEPT !.pc = "rolled back"]
<1>1. mailer[m] \in Work
  BY MailerAt DEF BatchRaises, Working
<1>2. MailerGoes(m, x)
  BY DEF BatchRaises
<1>3. /\ x \in Work
      /\ x.pc = "rolled back" /\ x.left = mailer[m].left
      /\ x.batch = mailer[m].batch /\ x.seen = mailer[m].seen
      /\ x.todo = mailer[m].todo /\ x.to = mailer[m].to
      /\ x.ok = mailer[m].ok /\ x.bad = mailer[m].bad
  BY <1>1 DEF Work, Working
<1> HIDE DEF x
<1> QED BY <1>1, <1>2, <1>3

LEMMA BatchRaisesKeeps ==
    ASSUME CampaignInv, NEW m \in Mailers, BatchRaises(m) PROVE CampaignInv'
<1>1. PICK x \in Work :
         /\ mailer[m] \in Work /\ MailerGoes(m, x)
         /\ x.pc = "rolled back" /\ x.left = mailer[m].left
         /\ x.batch = mailer[m].batch /\ x.seen = mailer[m].seen
         /\ x.todo = mailer[m].todo /\ x.to = mailer[m].to
         /\ x.ok = mailer[m].ok /\ x.bad = mailer[m].bad
  BY RaisedIs
<1>2. MailerOK(mailer[m], batch, delivery) /\ mailer[m].pc \in {"sending", "mailed"}
  BY MailerAt DEF BatchRaises
<1>3. MailerOK(x, batch, delivery)
  BY <1>1, <1>2, MailersMade DEF MailerOK, Working
<1>4. /\ UNCHANGED <<batch, delivery>> /\ blocked' \subseteq Donors
      /\ mailed' \in [Batches -> [Donors -> Nat]]
      /\ DeploymentStays
  <2>1. UNCHANGED <<deployment, batch, delivery, blocked, mailed>> /\ Interrupt
    BY DEF BatchRaises
  <2> QED BY <2>1, InterruptionsAreCounted
          DEF Interrupt, CampaignInv, CampaignTypeOK, DeploymentStays
<1>5. x.pc \notin {"mailed", "now"} /\ MailerGoes(m, x)
  BY <1>1
<1> QED BY <1>3, <1>4, <1>5, TableFreeKeeps

LEMMA ReloadedIs ==
    ASSUME CampaignInv, NEW m \in Mailers, Reload(m)
    PROVE  \E x \in Work :
              /\ mailer[m] \in Work /\ MailerGoes(m, x) /\ mailer[m].pc = "rolled back"
              /\ x.pc = "reloaded" /\ x.left = mailer[m].left
              /\ x.batch = mailer[m].batch /\ x.seen = batch[mailer[m].batch]
              /\ x.todo = mailer[m].todo /\ x.to = mailer[m].to
              /\ x.ok = mailer[m].ok /\ x.bad = mailer[m].bad
<1> DEFINE s == mailer[m]
           x == [s EXCEPT !.pc = "reloaded", !.seen = batch[s.batch]]
<1>1. s \in Work /\ s.pc = "rolled back" /\ MailerOK(s, batch, delivery)
  BY MailerAt DEF Reload, Working
<1>2. MailerGoes(m, x)
  BY DEF Reload
<1> HIDE DEF s
<1>3. batch[s.batch] \in Batch
  BY <1>1 DEF MailerOK, Work, Working, CampaignInv, CampaignTypeOK
<1>4. /\ x \in Work
      /\ x.pc = "reloaded" /\ x.left = s.left
      /\ x.batch = s.batch /\ x.seen = batch[s.batch]
      /\ x.todo = s.todo /\ x.to = s.to
      /\ x.ok = s.ok /\ x.bad = s.bad
  BY <1>1, <1>3 DEF Work, Working
<1> HIDE DEF x
<1> QED BY <1>1, <1>2, <1>4 DEF s

LEMMA ReloadKeeps ==
    ASSUME CampaignInv, NEW m \in Mailers, Reload(m) PROVE CampaignInv'
<1>1. PICK x \in Work :
         /\ mailer[m] \in Work /\ MailerGoes(m, x) /\ mailer[m].pc = "rolled back"
         /\ x.pc = "reloaded" /\ x.left = mailer[m].left
         /\ x.batch = mailer[m].batch /\ x.seen = batch[mailer[m].batch]
         /\ x.todo = mailer[m].todo /\ x.to = mailer[m].to
         /\ x.ok = mailer[m].ok /\ x.bad = mailer[m].bad
  BY ReloadedIs
<1>2. MailerOK(mailer[m], batch, delivery)
  BY MailerAt
<1>3. MailerOK(x, batch, delivery)
  BY <1>1, <1>2, MailersMade DEF MailerOK, Working
<1>4. /\ UNCHANGED <<batch, delivery>> /\ blocked' \subseteq Donors
      /\ mailed' \in [Batches -> [Donors -> Nat]]
      /\ DeploymentStays
  BY DEF Reload, CampaignInv, CampaignTypeOK, DeploymentStays
<1> QED BY <1>1, <1>3, <1>4, TableFreeKeeps

LEMMA UpdatedIs ==
    ASSUME NEW row \in Batch, NEW seen \in Batch,
           NEW status \in {"scheduled", "sent", "partial_failed", "failed"},
           NEW sent \in 0..Cardinality(Donors)
    PROVE  /\ Updated(row, seen, status, sent) \in Batch
           /\ Updated(row, seen, status, sent).status \in {row.status, status}
           /\ Updated(row, seen, status, sent).status = row.status
                 => seen.status = status \/ row.status = status
           /\ Updated(row, seen, status, sent).sent \in {row.sent, sent}
           /\ Updated(row, seen, status, sent).audience = row.audience
BY DEF Updated, Batch

LEMMA VerdictIs ==
    ASSUME NEW ok \in SUBSET Donors, NEW bad \in SUBSET Donors
    PROVE  /\ Verdict(ok, bad) \in {"sent", "partial_failed", "failed"}
           /\ Verdict(ok, bad) = "partial_failed" => bad # {}
           /\ Count(ok, bad) \in 0..Cardinality(Donors)
<1>1. IsFiniteSet(ok) /\ Cardinality(ok) <= Cardinality(Donors)
  BY CampaignConstantsOK, FS_Subset
<1>2. Cardinality(ok) \in Nat /\ Cardinality(Donors) \in Nat
  BY <1>1, CampaignConstantsOK, FS_CardinalityType
<1> QED BY <1>1, <1>2 DEF Verdict, Count

(* What a thread does after a batch.                                       *)
After(m) == IF mailer[m].left = {} THEN MailerIdle
            ELSE [pc |-> "choosing", left |-> mailer[m].left, first |-> FALSE]

LEMMA AfterIs ==
    ASSUME NEW m \in Mailers, mailer[m] \in Work, NextBatch(m)
    PROVE  /\ MailerGoes(m, After(m))
           /\ \/ After(m) = MailerIdle /\ After(m).pc = "idle"
              \/ /\ After(m) \in Choosing /\ After(m).pc = "choosing"
                 /\ After(m).left = mailer[m].left /\ After(m).left # {}
<1>1. MailerGoes(m, After(m))
  BY DEF NextBatch, After
<1>2. MailerIdle.pc = "idle"
  BY DEF MailerIdle
<1> QED BY <1>1, <1>2 DEF After, Choosing, Work

(* A thread is done with its batch and writes row.                         *)
LEMMA WritingARowKeeps ==
    ASSUME CampaignInv, NEW m \in Mailers, mailer[m] \in Work, mailer[m].pc # "now",
           NEW row \in Batch,
           batch' = [batch EXCEPT ![mailer[m].batch] = row],
           NextBatch(m),
           Backed(row, delivery, mailer[m].batch),
           batch[mailer[m].batch].status # "scheduled" => row.status # "scheduled",
           UNCHANGED <<deployment, delivery, blocked, mailed, interruptions>>
    PROVE  CampaignInv'
<1> DEFINE x == After(m)
<1>1. /\ MailerGoes(m, x)
      /\ \/ x = MailerIdle /\ x.pc = "idle"
         \/ /\ x \in Choosing /\ x.pc = "choosing"
            /\ x.left = mailer[m].left /\ x.left # {}
  BY AfterIs
<1> HIDE DEF x
<1>2. mailer[m].batch \in Batches /\ mailer[m].pc \in Working
         /\ mailer[m].left \subseteq Batches
  BY DEF Work
<1>3. MailerOK(mailer[m], batch, delivery)
  BY MailerAt
<1>4. batch[mailer[m].batch] # NoBatch
  BY <1>2, <1>3 DEF MailerOK
<1>5. batch \in [Batches -> Batch \cup {NoBatch}]
  BY DEF CampaignInv, CampaignTypeOK
<1>6. /\ batch'[mailer[m].batch] = row /\ row # NoBatch
      /\ \A b \in Batches : b # mailer[m].batch => batch'[b] = batch[b]
      /\ batch' \in [Batches -> Batch \cup {NoBatch}]
  BY <1>2, <1>5, CampaignConstantsOK
<1>7. TablesOK
  BY <1>6 DEF TablesOK, DeploymentStays, CampaignInv, CampaignTypeOK
<1>8. Onward
  <2>1. \A b \in Batches, a \in Donors, o \in Outcomes :
           delivery'[b][a][o] >= delivery[b][a][o]
    BY DEF CampaignInv, CampaignTypeOK
  <2> QED BY <2>1, <1>6 DEF Onward
<1>9. MailerOK(x, batch', delivery')
  BY <1>1, <1>2, <1>3, <1>6, MailersMade DEF MailerOK, Working
<1>10. \A b \in Batches : Backed(batch'[b], delivery', b)
  BY <1>6 DEF CampaignInv
<1>11. ASSUME NEW n \in Mailers \ {m}, mailer[n].pc = "now"
       PROVE  batch'[mailer[n].batch] = NoBatch
  <2>1. mailer[n] \in Work /\ MailerOK(mailer[n], batch, delivery)
    BY <1>11, MailerAt DEF Working
  <2>2. batch[mailer[n].batch] = NoBatch /\ mailer[n].batch \in Batches
    BY <2>1, <1>11 DEF MailerOK, Work, Working
  <2> QED BY <2>2, <1>4, <1>6
<1>12. x.pc \notin {"mailed", "now"}
  BY <1>1
<1> QED BY <1>1, <1>7, <1>8, <1>9, <1>10, <1>11, <1>12, MailerStepKeeps

LEMMA FinishBatchKeeps ==
    ASSUME CampaignInv, NEW m \in Mailers, FinishBatch(m) PROVE CampaignInv'
<1> DEFINE s == mailer[m]
           b == mailer[m].batch
           row == Updated(batch[b], s.seen, Verdict(s.ok, s.bad), Count(s.ok, s.bad))
<1>1. s \in Work /\ s.pc = "sending" /\ MailerOK(s, batch, delivery)
  BY MailerAt DEF FinishBatch, Working
<1>2. b \in Batches /\ s.seen \in Batch /\ s.ok \in SUBSET Donors /\ s.bad \in SUBSET Donors
  BY <1>1 DEF Work
<1>3. batch[b] \in Batch /\ batch[b] # NoBatch
  BY <1>1, <1>2 DEF MailerOK, Working, CampaignInv, CampaignTypeOK
<1>4. /\ Verdict(s.ok, s.bad) \in {"sent", "partial_failed", "failed"}
      /\ Verdict(s.ok, s.bad) = "partial_failed" => s.bad # {}
      /\ Count(s.ok, s.bad) \in 0..Cardinality(Donors)
  BY <1>2, VerdictIs
<1>5. /\ row \in Batch
      /\ row.status \in {batch[b].status, Verdict(s.ok, s.bad)}
      /\ row.sent \in {batch[b].sent, Count(s.ok, s.bad)}
  <2> DEFINE status == Verdict(s.ok, s.bad)
             sent == Count(s.ok, s.bad)
             was == batch[b]
  <2>1. /\ status \in {"scheduled", "sent", "partial_failed", "failed"}
        /\ sent \in 0..Cardinality(Donors) /\ was \in Batch
    BY <1>3, <1>4
  <2> HIDE DEF status, sent, was
  <2>2. /\ Updated(was, s.seen, status, sent) \in Batch
        /\ Updated(was, s.seen, status, sent).status \in {was.status, status}
        /\ Updated(was, s.seen, status, sent).sent \in {was.sent, sent}
    BY <1>2, <2>1 DEF Updated, Batch
  <2> QED BY <2>2 DEF status, sent, was
<1>6. /\ batch' = [batch EXCEPT ![b] = row]
      /\ NextBatch(m)
      /\ UNCHANGED <<deployment, delivery, blocked, mailed, interruptions>>
  BY DEF FinishBatch
<1> HIDE DEF row
<1>7. batch[b].status # "scheduled" => row.status # "scheduled"
  BY <1>4, <1>5
<1>8. Backed(row, delivery, b)
  <2>1. Backed(batch[b], delivery, b)
    BY <1>2 DEF CampaignInv
  <2>2. s.ok \subseteq Got(delivery, b)
           /\ \A a \in s.bad : delivery[b][a]["failed"] > 0
    BY <1>1, <1>2 DEF MailerOK, Got
  <2>3. Count(s.ok, s.bad) <= Cardinality(Got(delivery, b))
    <3>1. IsFiniteSet(Got(delivery, b))
      BY CampaignConstantsOK, FS_Subset DEF Got
    <3> QED BY <3>1, <2>2, FS_Subset DEF Count
  <2>4. row.status = "partial_failed" => \E a \in Donors : delivery[b][a]["failed"] > 0
    BY <1>2, <1>3, <1>4, <1>5, <2>1, <2>2 DEF Backed
  <2>5. row.sent <= Cardinality(Got(delivery, b))
    BY <1>3, <1>5, <2>1, <2>3 DEF Backed
  <2>6. row # NoBatch
    BY <1>5, CampaignConstantsOK
  <2> QED BY <2>4, <2>5, <2>6 DEF Backed
<1> QED BY <1>1, <1>5, <1>6, <1>7, <1>8, WritingARowKeeps

LEMMA WriteOffKeeps ==
    ASSUME CampaignInv, NEW m \in Mailers, WriteOff(m) PROVE CampaignInv'
<1> DEFINE s == mailer[m]
           b == mailer[m].batch
           row == Updated(batch[b], s.seen, "failed", 0)
<1>1. s \in Work /\ s.pc = "reloaded" /\ MailerOK(s, batch, delivery)
  BY MailerAt DEF WriteOff, Working
<1>2. b \in Batches /\ s.seen \in Batch
  BY <1>1 DEF Work
<1>3. batch[b] \in Batch /\ batch[b] # NoBatch
  BY <1>1, <1>2 DEF MailerOK, Working, CampaignInv, CampaignTypeOK
<1>4. 0 \in 0..Cardinality(Donors)
  BY CampaignConstantsOK, FS_CardinalityType
<1>5. /\ row \in Batch
      /\ row.status \in {batch[b].status, "failed"}
      /\ row.sent \in {batch[b].sent, 0}
  BY <1>2, <1>3, <1>4, UpdatedIs
<1>6. /\ batch' = [batch EXCEPT ![b] = row]
      /\ NextBatch(m)
      /\ UNCHANGED <<deployment, delivery, blocked, mailed, interruptions>>
  BY DEF WriteOff
<1> HIDE DEF row
<1>7. batch[b].status # "scheduled" => row.status # "scheduled"
  BY <1>5
<1>8. Backed(row, delivery, b)
  <2>1. Backed(batch[b], delivery, b)
    BY <1>2 DEF CampaignInv
  <2>2. Cardinality(Got(delivery, b)) \in Nat
    <3>1. IsFiniteSet(Got(delivery, b))
      BY CampaignConstantsOK, FS_Subset DEF Got
    <3> QED BY <3>1, FS_CardinalityType
  <2>3. row # NoBatch
    BY <1>5, CampaignConstantsOK
  <2> QED BY <1>3, <1>5, <2>1, <2>2, <2>3 DEF Backed
<1> QED BY <1>1, <1>5, <1>6, <1>7, <1>8, WritingARowKeeps

(* A batch is begun that is sent at once.                                  *)
LEMMA SendNowKeeps ==
    ASSUME CampaignInv, NEW m \in Mailers, NEW b \in Batches,
           NEW audience \in SUBSET Donors, SendNow(m, b, audience)
    PROVE  CampaignInv'
<1> DEFINE x == Sending("now", {}, b, Due(audience))
<1>1. /\ x \in Work /\ x.pc = "now" /\ x.left = {} /\ x.batch = b
      /\ x.ok = {} /\ x.bad = {} /\ x.to = {}
  BY DueIsBatch DEF Sending, Allowed, Work, Working, Batch, Outcomes
<1>2. MailerGoes(m, x) /\ batch[b] = NoBatch /\ ~Locked
  BY DEF SendNow, NewBatch
<1> HIDE DEF x
<1>3. MailerOK(x, batch, delivery)
  BY <1>1, <1>2, MailersMade DEF MailerOK, Working
<1>4. /\ UNCHANGED <<batch, delivery>> /\ blocked' \subseteq Donors
      /\ mailed' \in [Batches -> [Donors -> Nat]]
      /\ DeploymentStays
  BY DEF SendNow, CampaignInv, CampaignTypeOK, DeploymentStays
<1> QED BY <1>2, <1>3, <1>4, TableFreeKeeps

MailsNow(m, outcome, copies, a, x) ==
    /\ a \in Donors /\ a \in mailer[m].todo
    /\ mailer[m] \in Work /\ mailer[m].pc = "now"
    /\ x \in Work /\ MailerGoes(m, x)
    /\ x.pc = "now" /\ x.left = mailer[m].left
    /\ x.batch = mailer[m].batch /\ x.seen = mailer[m].seen
    /\ x.todo = mailer[m].todo \ {a} /\ x.to = mailer[m].to
    /\ x.ok = IF outcome = "sent" THEN mailer[m].ok \cup {a} ELSE mailer[m].ok
    /\ x.bad = IF outcome = "failed" THEN mailer[m].bad \cup {a} ELSE mailer[m].bad
    /\ mailed' = [mailed EXCEPT ![mailer[m].batch][a] = @ + copies]

LEMMA MailNowTo ==
    ASSUME CampaignInv, NEW m \in Mailers, NEW outcome \in Outcomes,
           NEW copies \in Copies(outcome), MailNow(m, outcome, copies)
    PROVE  \E a, x : MailsNow(m, outcome, copies, a, x)
<1> DEFINE s == mailer[m]
           a == Min(s.todo)
           x == [s EXCEPT !.todo = @ \ {a},
                    !.ok = IF outcome = "sent" THEN @ \cup {a} ELSE @,
                    !.bad = IF outcome = "failed" THEN @ \cup {a} ELSE @]
<1>1. s \in Work /\ s.pc = "now" /\ s.todo # {}
  BY MailerAt DEF MailNow, Working
<1>2. a \in s.todo /\ a \in Donors
  BY <1>1, NextDonor DEF Work
<1>3. /\ MailerGoes(m, x)
      /\ mailed' = [mailed EXCEPT ![s.batch][a] = @ + copies]
  BY DEF MailNow
<1> HIDE DEF a, s
<1>4. /\ x \in Work
      /\ x.pc = "now" /\ x.left = s.left
      /\ x.batch = s.batch /\ x.seen = s.seen
      /\ x.todo = s.todo \ {a} /\ x.to = s.to
      /\ x.ok = IF outcome = "sent" THEN s.ok \cup {a} ELSE s.ok
      /\ x.bad = IF outcome = "failed" THEN s.bad \cup {a} ELSE s.bad
  BY <1>1, <1>2 DEF Work, Working
<1> HIDE DEF x
<1>5. MailsNow(m, outcome, copies, a, x)
  BY <1>1, <1>2, <1>3, <1>4 DEF MailsNow, s
<1> QED BY <1>5

LEMMA MailNowKeeps ==
    ASSUME CampaignInv, NEW m \in Mailers, NEW outcome \in Outcomes,
           NEW copies \in Copies(outcome), MailNow(m, outcome, copies)
    PROVE  CampaignInv'
<1>1. PICK a, x : MailsNow(m, outcome, copies, a, x)
  BY MailNowTo
<1>2. MailerOK(mailer[m], batch, delivery)
  BY MailerAt
<1>3. x.todo \cap x.to = {}
  <2>1. mailer[m].todo \cap mailer[m].to = {}
    BY <1>1, <1>2 DEF MailsNow, MailerOK, Working
  <2> QED BY <1>1, <2>1 DEF MailsNow
<1>4. MailerOK(x, batch, delivery)
  BY <1>1, <1>2, <1>3, MailersMade DEF MailsNow, MailerOK, Working
<1>5. mailed' \in [Batches -> [Donors -> Nat]]
  BY <1>1, MailedIs, CopiesAre DEF MailsNow, Work
<1>6. /\ UNCHANGED <<batch, delivery>> /\ blocked' \subseteq Donors
      /\ DeploymentStays
  BY DEF MailNow, CampaignInv, CampaignTypeOK, DeploymentStays
<1>7. MailerGoes(m, x) /\ mailer[m].pc = "now"
  BY <1>1 DEF MailsNow
<1> QED BY <1>4, <1>5, <1>6, <1>7, TableFreeKeeps

(* The transaction of such a batch commits: its row and its deliveries.    *)
LEMMA CommittedIs ==
    ASSUME CampaignInv, NEW m \in Mailers, CommitNow(m)
    PROVE  /\ mailer[m] \in Work /\ mailer[m].pc = "now" /\ mailer[m].todo = {}
           /\ MailerOK(mailer[m], batch, delivery)
           /\ mailer[m].batch \in Batches /\ batch[mailer[m].batch] = NoBatch
           /\ batch' \in [Batches -> Batch \cup {NoBatch}]
           /\ batch'[mailer[m].batch] \in Batch
           /\ batch'[mailer[m].batch].status
                 = Verdict(mailer[m].ok, mailer[m].bad)
           /\ batch'[mailer[m].batch].sent = Count(mailer[m].ok, mailer[m].bad)
           /\ delivery' \in [Batches -> [Donors -> [Outcomes -> Nat]]]
           /\ \A a \in Donors :
                 /\ delivery'[mailer[m].batch][a]["sent"]
                       = IF a \in mailer[m].ok THEN 1 ELSE 0
                 /\ delivery'[mailer[m].batch][a]["failed"]
                       = IF a \in mailer[m].bad THEN 1 ELSE 0
           /\ \A b \in Batches \ {mailer[m].batch} :
                 batch'[b] = batch[b] /\ delivery'[b] = delivery[b]
<1> DEFINE s == mailer[m]
           row == [status |-> Verdict(s.ok, s.bad), audience |-> s.seen.audience,
                   sent |-> Count(s.ok, s.bad)]
           recs == [a \in Donors |-> [sent |-> IF a \in s.ok THEN 1 ELSE 0,
                                      failed |-> IF a \in s.bad THEN 1 ELSE 0]]
<1>1. s \in Work /\ s.pc = "now" /\ s.todo = {} /\ MailerOK(s, batch, delivery)
  BY MailerAt DEF CommitNow, Working
<1>2. s.batch \in Batches /\ batch[s.batch] = NoBatch
  BY <1>1 DEF MailerOK, Work, Working
<1>3. /\ batch' = [batch EXCEPT ![s.batch] = row]
      /\ delivery' = [delivery EXCEPT ![s.batch] = recs]
  BY DEF CommitNow
<1>4. row \in Batch /\ row.status = Verdict(s.ok, s.bad)
         /\ row.sent = Count(s.ok, s.bad)
  BY <1>1, VerdictIs DEF Work, Batch
<1>5. /\ recs \in [Donors -> [Outcomes -> Nat]]
      /\ \A a \in Donors : /\ recs[a]["sent"] = IF a \in s.ok THEN 1 ELSE 0
                           /\ recs[a]["failed"] = IF a \in s.bad THEN 1 ELSE 0
  BY DeliveryRecord
<1>6. /\ batch \in [Batches -> Batch \cup {NoBatch}]
      /\ delivery \in [Batches -> [Donors -> [Outcomes -> Nat]]]
  BY DEF CampaignInv, CampaignTypeOK
<1> HIDE DEF row, recs, s
<1>7. /\ batch' \in [Batches -> Batch \cup {NoBatch}]
      /\ batch'[s.batch] = row
      /\ \A b \in Batches \ {s.batch} : batch'[b] = batch[b]
  BY <1>2, <1>3, <1>4, <1>6
<1>8. /\ delivery' \in [Batches -> [Donors -> [Outcomes -> Nat]]]
      /\ delivery'[s.batch] = recs
      /\ \A b \in Batches \ {s.batch} : delivery'[b] = delivery[b]
  BY <1>2, <1>3, <1>5, <1>6
<1> QED BY <1>1, <1>2, <1>4, <1>5, <1>7, <1>8 DEF s

LEMMA CommitNowKeeps ==
    ASSUME CampaignInv, NEW m \in Mailers, CommitNow(m) PROVE CampaignInv'
<1> DEFINE c == mailer[m].batch
<1>1. mailer[m].ok \in SUBSET Donors /\ mailer[m].bad \in SUBSET Donors
         /\ c \in Batches /\ batch[c] = NoBatch /\ mailer[m].pc = "now"
  BY CommittedIs DEF Work
<1>2. /\ UNCHANGED <<deployment, blocked, mailed, interruptions>>
      /\ MailerGoes(m, MailerIdle)
  BY DEF CommitNow
<1>3. TablesOK
  BY <1>2, CommittedIs DEF TablesOK, DeploymentStays, CampaignInv, CampaignTypeOK
<1>4. /\ batch'[c] # NoBatch
      /\ batch'[c].status = Verdict(mailer[m].ok, mailer[m].bad)
      /\ batch'[c].sent = Count(mailer[m].ok, mailer[m].bad)
      /\ \A b \in Batches \ {c} : batch'[b] = batch[b] /\ delivery'[b] = delivery[b]
      /\ \A a \in Donors :
            /\ delivery'[c][a]["sent"] = IF a \in mailer[m].ok THEN 1 ELSE 0
            /\ delivery'[c][a]["failed"] = IF a \in mailer[m].bad THEN 1 ELSE 0
  BY CommittedIs, CampaignConstantsOK
<1>5. \A a \in Donors : delivery[c][a]["sent"] = 0 /\ delivery[c][a]["failed"] = 0
  BY <1>1 DEF CampaignInv, Backed
<1> HIDE DEF c
<1>6. Onward
  <2>1. ASSUME NEW b \in Batches, NEW a \in Donors, NEW o \in Outcomes
        PROVE  delivery'[b][a][o] >= delivery[b][a][o]
    <3>1. CASE b = c
      BY <1>4, <1>5, <3>1 DEF Outcomes
    <3>2. CASE b # c
      BY <1>4, <3>2 DEF CampaignInv, CampaignTypeOK
    <3> QED BY <3>1, <3>2
  <2> QED BY <2>1, <1>1, <1>4 DEF Onward
<1>7. MailerIdle.pc = "idle" /\ MailerOK(MailerIdle, batch', delivery')
  BY MailersMade DEF MailerOK, MailerIdle, Working
<1>8. ASSUME NEW b \in Batches PROVE Backed(batch'[b], delivery', b)
  <2>1. CASE b = c
    <3>1. Got(delivery', c) = mailer[m].ok
      BY <1>1, <1>4 DEF Got
    <3>2. /\ Verdict(mailer[m].ok, mailer[m].bad) = "partial_failed"
                => mailer[m].bad # {}
          /\ Count(mailer[m].ok, mailer[m].bad) \in 0..Cardinality(Donors)
      BY <1>1, VerdictIs
    <3>3. IsFiniteSet(mailer[m].ok)
      BY <1>1, CampaignConstantsOK, FS_Subset
    <3>4. batch'[c].sent <= Cardinality(Got(delivery', c))
      BY <1>4, <3>1, <3>3, FS_CardinalityType DEF Count
    <3>5. batch'[c].status = "partial_failed"
             => \E a \in Donors : delivery'[c][a]["failed"] > 0
      BY <1>1, <1>4, <3>2
    <3> QED BY <2>1, <1>4, <3>4, <3>5 DEF Backed
  <2>2. CASE b # c
    <3>1. Backed(batch[b], delivery, b)
      BY DEF CampaignInv
    <3>2. Got(delivery', b) = Got(delivery, b)
      BY <2>2, <1>4 DEF Got
    <3> QED BY <3>1, <3>2, <2>2, <1>4 DEF Backed
  <2> QED BY <2>1, <2>2
<1>9. ASSUME NEW n \in Mailers \ {m}, mailer[n].pc = "now"
      PROVE  batch'[mailer[n].batch] = NoBatch
  BY <1>1, <1>9 DEF CampaignInv, OneWriter
<1> QED BY <1>2, <1>3, <1>6, <1>7, <1>8, <1>9, MailerStepKeeps

LEMMA BecomesDueKeeps ==
    ASSUME CampaignInv, NEW b \in Batches, NEW audience \in SUBSET Donors,
           BecomesDue(b, audience)
    PROVE  CampaignInv'
<1>1. /\ batch[b] = NoBatch
      /\ \A m \in Mailers : mailer[m].pc = "now" => mailer[m].batch # b
      /\ batch' = [batch EXCEPT ![b] = Due(audience)]
      /\ UNCHANGED <<deployment, delivery, blocked, mailed, mailer, interruptions>>
  BY DEF BecomesDue, NewBatch
<1>2. /\ Due(audience) \in Batch /\ Due(audience) # NoBatch
      /\ Due(audience).status = "scheduled" /\ Due(audience).sent = 0
  BY DueIsBatch, CampaignConstantsOK
<1>3. batch \in [Batches -> Batch \cup {NoBatch}]
  BY DEF CampaignInv, CampaignTypeOK
<1>4. /\ batch' \in [Batches -> Batch \cup {NoBatch}]
      /\ batch'[b] = Due(audience)
      /\ \A c \in Batches \ {b} : batch'[c] = batch[c]
  BY <1>1, <1>2, <1>3
<1>5. TablesOK
  BY <1>1, <1>4 DEF TablesOK, DeploymentStays, CampaignInv, CampaignTypeOK
<1>6. Onward
  <2>1. \A c \in Batches, a \in Donors, o \in Outcomes :
           delivery'[c][a][o] >= delivery[c][a][o]
    BY <1>1 DEF CampaignInv, CampaignTypeOK
  <2> QED BY <2>1, <1>1, <1>4 DEF Onward
<1>7. ASSUME NEW m \in Mailers PROVE MailerOK(mailer'[m], batch', delivery')
  <2>1. MailerOK(mailer[m], batch, delivery) /\ (mailer[m].pc \in Working => mailer[m] \in Work)
    BY MailerAt
  <2>2. mailer[m].pc = "now" => batch'[mailer[m].batch] = NoBatch
    BY <2>1, <1>1, <1>4 DEF MailerOK, Work, Working
  <2> QED BY <2>1, <2>2, <1>1, <1>5, <1>6, OthersStayOK
<1>8. ASSUME NEW c \in Batches PROVE Backed(batch'[c], delivery', c)
  <2>1. Backed(batch[c], delivery, c)
    BY DEF CampaignInv
  <2>2. IsFiniteSet(Got(delivery, c)) /\ Cardinality(Got(delivery, c)) \in Nat
    <3>1. IsFiniteSet(Got(delivery, c))
      BY CampaignConstantsOK, FS_Subset DEF Got
    <3> QED BY <3>1, FS_CardinalityType
  <2>3. CASE c = b
    BY <2>2, <2>3, <1>1, <1>2, <1>4 DEF Backed
  <2>4. CASE c # b
    BY <2>1, <2>4, <1>1, <1>4
  <2> QED BY <2>3, <2>4
<1>9. CampaignTypeOK' /\ OneWriter'
  BY <1>1, <1>5
     DEF CampaignInv, CampaignTypeOK, TablesOK, DeploymentStays, OneWriter
<1>10. /\ \A m \in Mailers : MailerOK(mailer[m], batch, delivery)'
       /\ \A c \in Batches : Backed(batch[c], delivery, c)'
  BY <1>7, <1>8
<1> QED BY <1>9, <1>10 DEF CampaignInv

LEMMA LeavingKeeps ==
    ASSUME CampaignInv, NEW a \in Leavers, Unsubscribe(a) \/ Bounce(a)
    PROVE  CampaignInv'
<1>1. /\ blocked' = blocked \cup {a}
      /\ UNCHANGED <<deployment, batch, delivery, mailed, mailer, interruptions>>
  BY DEF Unsubscribe, Bounce
<1> QED BY <1>1, CampaignConstantsOK DEF CampaignInv, CampaignTypeOK, OneWriter

LEMMA NewIs ==
    ASSUME CampaignTypeOK, NEW b \in New
    PROVE  b \in Batches /\ deployment.audience[b] \in SUBSET Donors
BY DeploymentsOK DEF New, CampaignTypeOK

LEMMA CampaignInitInv == CampaignInit => CampaignInv
<1> SUFFICES ASSUME CampaignInit PROVE CampaignInv
  OBVIOUS
<1>1. \A m \in Mailers : mailer[m] = MailerIdle /\ mailer[m].pc = "idle"
  BY DEF CampaignInit, MailerIdle
<1>2. \A b \in Batches : /\ batch[b] = NoBatch
                         /\ \A a \in Donors, o \in Outcomes : delivery[b][a][o] = 0
  BY DEF CampaignInit
<1>3. CampaignTypeOK
  BY DeploymentsOK DEF CampaignInit, CampaignTypeOK
<1>4. \A m \in Mailers : MailerOK(mailer[m], batch, delivery)
  BY <1>1, MailersMade DEF MailerOK, Working
<1>5. \A b \in Batches : Backed(batch[b], delivery, b)
  BY <1>2 DEF Backed, Outcomes
<1> QED BY <1>1, <1>3, <1>4, <1>5 DEF CampaignInv, OneWriter

LEMMA CampaignInvNext ==
    ASSUME CampaignInv, [CampaignNext]_campaignVars
    PROVE  CampaignInv'
<1>1. CASE UNCHANGED campaignVars
  BY <1>1 DEF campaignVars, CampaignInv, CampaignTypeOK, OneWriter
<1>2. ASSUME NEW m \in Mailers, ReadDue(m) \/ Continue(m) PROVE CampaignInv'
  BY <1>2, ReadDueKeeps, TakeBatchKeeps, RecordOneKeeps, FinishBatchKeeps, ReloadKeeps,
     WriteOffKeeps, CommitNowKeeps, MailOneKeeps, MailNowKeeps DEF Continue
<1>3. ASSUME NEW m \in Mailers, BatchRaises(m) PROVE CampaignInv'
  BY <1>3, BatchRaisesKeeps
<1>4. ASSUME NEW m \in Mailers, Abort(m) PROVE CampaignInv'
  BY <1>4, AbortKeeps
<1>5. ASSUME NEW m \in Mailers, NEW b \in New, SendNow(m, b, deployment.audience[b])
      PROVE  CampaignInv'
  BY <1>5, SendNowKeeps, NewIs DEF CampaignInv
<1>6. ASSUME NEW m \in Mailers, NEW b \in Batches, NEW source \in Batches,
             Retry(m, source, b)
      PROVE  CampaignInv'
  <2>1. Missed(source) \in SUBSET Donors
    BY DEF Missed
  <2> QED BY <1>6, <2>1, SendNowKeeps DEF Retry
<1>7. ASSUME NEW b \in New, BecomesDue(b, deployment.audience[b])
      PROVE  CampaignInv'
  BY <1>7, BecomesDueKeeps, NewIs DEF CampaignInv
<1>8. ASSUME NEW a \in Leavers, Unsubscribe(a) \/ Bounce(a) PROVE CampaignInv'
  BY <1>8, LeavingKeeps
<1> QED BY <1>1, <1>2, <1>3, <1>4, <1>5, <1>6, <1>7, <1>8 DEF CampaignNext
-----------------------------------------------------------------------------
(* Counting mails, for one batch and one donor.  A thread has a mail that  *)
(* is not on record, or may still send one: the batch is due, or it read   *)
(* the batch when it was.                                                  *)
HasUnrecorded(x, b, a) ==
    \/ x.pc = "mailed" /\ x.batch = b /\ a \in x.to
    \/ x.pc = "now" /\ x.batch = b /\ a \in x.ok \cup x.bad

HasSent(x, b, a) ==
    \/ x.pc = "mailed" /\ x.batch = b /\ x.outcome = "sent" /\ a \in x.to
    \/ x.pc = "now" /\ x.batch = b /\ a \in x.ok

IsDue(row) == row = NoBatch \/ row.status = "scheduled"

At(x, b) == x.pc \in Working /\ x.batch = b

MaySend(x, row, b, a) ==
    \/ At(x, b) /\ x.pc \in {"sending", "mailed", "now"} /\ a \in x.todo
    \/ ~At(x, b) /\ ((x.pc # "idle" /\ b \in x.left) \/ IsDue(row))

Sure(b, a) == {m \in Mailers : HasSent(mailer[m], b, a)}
Unrecorded(b, a) == {m \in Mailers : HasUnrecorded(mailer[m], b, a)}
Senders(b, a) == {m \in Mailers : MaySend(mailer[m], batch[b], b, a)}

OnRecord(b, a) == delivery[b][a]["sent"] + delivery[b][a]["failed"]

CountAt(b, a) ==
    /\ delivery[b][a]["sent"] + Cardinality(Sure(b, a)) <= mailed[b][a]
    /\ mailed[b][a] <= Providers * (OnRecord(b, a)
                          + Cardinality(Unrecorded(b, a)) + interruptions)
    /\ mailed[b][a] + Providers * Cardinality(Senders(b, a))
          <= Providers * (Cardinality(Mailers) + interruptions)

CountInv == \A b \in Batches, a \in Donors : CountAt(b, a)

(* So many mails for so many hand-overs.                                   *)
LEMMA Scaled ==
    ASSUME NEW x \in Nat, NEW y \in Nat
    PROVE  /\ Providers * x \in Nat /\ Providers * y \in Nat
           /\ x <= y => Providers * x <= Providers * y
           /\ x + 1 <= y => Providers * x + Providers <= Providers * y
           /\ x <= y + 1 => Providers * x <= Providers * y + Providers
<1>1. Providers \in Nat
  BY CampaignConstantsOK
<1>2. ASSUME NEW u \in Nat, NEW v \in Nat, u <= v
      PROVE  Providers * u <= Providers * v
  <2> DEFINE d == v - u
  <2>1. d \in Nat /\ v = u + d
    BY <1>2
  <2> HIDE DEF d
  <2>2. Providers * v = Providers * u + Providers * d
    BY <1>1, <2>1
  <2>3. Providers * d \in Nat /\ Providers * u \in Nat
    BY <1>1, <2>1
  <2> QED BY <2>2, <2>3
<1>3. /\ Providers * (x + 1) = Providers * x + Providers
      /\ Providers * (y + 1) = Providers * y + Providers
      /\ Providers * x \in Nat /\ Providers * y \in Nat
  BY <1>1
<1>4. x + 1 \in Nat /\ y + 1 \in Nat
  OBVIOUS
<1>5. /\ x <= y => Providers * x <= Providers * y
      /\ x + 1 <= y => Providers * (x + 1) <= Providers * y
      /\ x <= y + 1 => Providers * x <= Providers * (y + 1)
  BY <1>2, <1>4
<1> QED BY <1>3, <1>5

LEMMA CountOf ==
    ASSUME NEW S \in SUBSET Mailers, NEW T \in SUBSET Mailers, NEW m \in Mailers,
           \A k \in Mailers \ {m} : k \in T => k \in S
    PROVE  /\ Cardinality(S) \in Nat /\ Cardinality(T) \in Nat
           /\ Cardinality(T) <= Cardinality(S) + 1
           /\ (m \in T => m \in S) => Cardinality(T) <= Cardinality(S)
           /\ m \in S /\ m \notin T => Cardinality(T) <= Cardinality(S) - 1
<1>1. IsFiniteSet(S) /\ IsFiniteSet(T) /\ IsFiniteSet(S \ {m})
  BY CampaignConstantsOK, FS_Subset
<1>2. Cardinality(S) \in Nat /\ Cardinality(T) \in Nat
  BY <1>1, FS_CardinalityType
<1>3. IsFiniteSet(S \cup {m}) /\ Cardinality(S \cup {m}) <= Cardinality(S) + 1
         /\ Cardinality(S \cup {m}) \in Nat
  <2>1. CASE m \in S
    <3>1. S \cup {m} = S
      BY <2>1
    <3> QED BY <3>1, <1>1, <1>2
  <2>2. CASE m \notin S
    BY <2>2, <1>1, <1>2, FS_AddElement
  <2> QED BY <2>1, <2>2
<1>4. Cardinality(T) <= Cardinality(S) + 1
  <2>1. T \subseteq S \cup {m}
    OBVIOUS
  <2>2. Cardinality(T) <= Cardinality(S \cup {m})
    BY <2>1, <1>3, FS_Subset
  <2> QED BY <2>2, <1>2, <1>3
<1>5. (m \in T => m \in S) => Cardinality(T) <= Cardinality(S)
  BY <1>1, FS_Subset
<1>6. ASSUME m \in S, m \notin T PROVE Cardinality(T) <= Cardinality(S) - 1
  <2>1. T \subseteq S \ {m}
    BY <1>6
  <2>2. Cardinality(T) <= Cardinality(S \ {m})
    BY <2>1, <1>1, FS_Subset
  <2>3. Cardinality(S \ {m}) = Cardinality(S) - 1
    BY <1>1, <1>6, FS_RemoveElement
  <2> QED BY <2>2, <2>3
<1> QED BY <1>2, <1>4, <1>5, <1>6

LEMMA ExactCountOf ==
    ASSUME NEW S \in SUBSET Mailers, NEW T \in SUBSET Mailers, NEW m \in Mailers,
           \A k \in Mailers \ {m} : k \in T <=> k \in S
    PROVE  /\ (m \in T <=> m \in S) => Cardinality(T) = Cardinality(S)
           /\ m \notin S /\ m \in T => Cardinality(T) = Cardinality(S) + 1
           /\ m \in S /\ m \notin T => Cardinality(T) = Cardinality(S) - 1
<1>1. IsFiniteSet(S) /\ IsFiniteSet(T)
  BY CampaignConstantsOK, FS_Subset
<1>2. (m \in T <=> m \in S) => T = S
  OBVIOUS
<1>3. ASSUME m \notin S, m \in T PROVE Cardinality(T) = Cardinality(S) + 1
  <2>1. T = S \cup {m}
    BY <1>3
  <2> QED BY <2>1, <1>1, <1>3, FS_AddElement
<1>4. ASSUME m \in S, m \notin T PROVE Cardinality(T) = Cardinality(S) - 1
  <2>1. T = S \ {m}
    BY <1>4
  <2> QED BY <2>1, <1>1, <1>4, FS_RemoveElement
<1> QED BY <1>2, <1>3, <1>4

(* What a step of a thread, from s to x, does to the counts.               *)
SameRecords(b, a) ==
    /\ delivery'[b][a]["sent"] = delivery[b][a]["sent"]
    /\ delivery'[b][a]["failed"] = delivery[b][a]["failed"]

Still(s, x, b, a) ==
    /\ HasUnrecorded(x, b, a) <=> HasUnrecorded(s, b, a)
    /\ HasSent(x, b, a) <=> HasSent(s, b, a)
    /\ MaySend(x, batch'[b], b, a) => MaySend(s, batch[b], b, a)
    /\ SameRecords(b, a) /\ mailed'[b][a] = mailed[b][a]
    /\ interruptions' = interruptions

HandedOver(s, x, b, a) ==
    /\ ~HasUnrecorded(s, b, a) /\ HasUnrecorded(x, b, a)
    /\ MaySend(s, batch[b], b, a) /\ ~MaySend(x, batch'[b], b, a)
    /\ SameRecords(b, a) /\ interruptions' = interruptions
    /\ mailed'[b][a] <= mailed[b][a] + Providers
    /\ mailed'[b][a] >= mailed[b][a]
    /\ HasSent(x, b, a) => mailed'[b][a] >= mailed[b][a] + 1

PutOnRecord(s, x, b, a) ==
    /\ HasUnrecorded(s, b, a) /\ ~HasUnrecorded(x, b, a)
    /\ MaySend(x, batch'[b], b, a) => MaySend(s, batch[b], b, a)
    /\ OnRecord(b, a)' >= OnRecord(b, a) + 1
    /\ HasSent(s, b, a)
          => delivery'[b][a]["sent"] = delivery[b][a]["sent"] + 1
    /\ ~HasSent(s, b, a)
          => delivery'[b][a]["sent"] = delivery[b][a]["sent"]
    /\ mailed'[b][a] = mailed[b][a] /\ interruptions' = interruptions

Interrupted(s, x, b, a) ==
    /\ ~HasUnrecorded(x, b, a)
    /\ SameRecords(b, a) /\ mailed'[b][a] = mailed[b][a]
    /\ interruptions' = interruptions + 1

Counted(s, x, b, a) ==
    \/ Still(s, x, b, a) \/ HandedOver(s, x, b, a) \/ PutOnRecord(s, x, b, a)
    \/ Interrupted(s, x, b, a)

LEMMA SentIsUnrecorded ==
    ASSUME NEW x, NEW b, NEW a, HasSent(x, b, a) PROVE HasUnrecorded(x, b, a)
BY DEF HasSent, HasUnrecorded

LEMMA CountStep ==
    ASSUME CampaignInv, CampaignInv', NEW m \in Mailers, NEW x, MailerGoes(m, x),
           NEW b \in Batches, NEW a \in Donors, CountAt(b, a),
           IsDue(batch'[b]) => IsDue(batch[b]),
           Counted(mailer[m], x, b, a)
    PROVE  CountAt(b, a)'
<1> DEFINE R == Sure(b, a)          Q == Sure(b, a)'
           S == Unrecorded(b, a)    T == Unrecorded(b, a)'
           C == Senders(b, a)       D == Senders(b, a)'
           old == delivery[b][a]["sent"]      new == delivery'[b][a]["sent"]
           was == OnRecord(b, a)              is == OnRecord(b, a)'
           n == mailed[b][a]                  k == mailed'[b][a]
           i == interruptions                 h == interruptions'
           all == Cardinality(Mailers)
           r == Cardinality(R)  q == Cardinality(Q)
           s == Cardinality(S)  t == Cardinality(T)
           c == Cardinality(C)  d == Cardinality(D)
<1>1. mailer'[m] = x /\ \A e \in Mailers \ {m} : mailer'[e] = mailer[e]
  BY DEF MailerGoes, CampaignInv, CampaignTypeOK
<1>2. /\ \A e \in Mailers \ {m} : e \in T <=> e \in S
      /\ m \in S <=> HasUnrecorded(mailer[m], b, a)
      /\ m \in T <=> HasUnrecorded(x, b, a)
      /\ S \in SUBSET Mailers /\ T \in SUBSET Mailers
  BY <1>1 DEF Unrecorded
<1>3. /\ \A e \in Mailers \ {m} : e \in Q <=> e \in R
      /\ m \in R <=> HasSent(mailer[m], b, a)
      /\ m \in Q <=> HasSent(x, b, a)
      /\ R \in SUBSET Mailers /\ Q \in SUBSET Mailers
  BY <1>1 DEF Sure
<1>4. /\ \A e \in Mailers \ {m} : e \in D => e \in C
      /\ m \in C <=> MaySend(mailer[m], batch[b], b, a)
      /\ m \in D <=> MaySend(x, batch'[b], b, a)
      /\ C \in SUBSET Mailers /\ D \in SUBSET Mailers
  BY <1>1 DEF Senders, MaySend
<1>5. /\ old \in Nat /\ was \in Nat /\ n \in Nat
  BY DEF CampaignInv, CampaignTypeOK, Outcomes, OnRecord
<1>6. /\ new \in Nat /\ is \in Nat /\ k \in Nat
  BY DEF CampaignInv, CampaignTypeOK, Outcomes, OnRecord
<1>7. i \in Nat /\ h \in Nat /\ all \in Nat /\ Providers \in Nat
  <2>1. CampaignTypeOK /\ CampaignTypeOK'
    BY DEF CampaignInv
  <2>2. i \in Nat
    BY <2>1, InterruptionsAreCounted
  <2>3. h = i \/ h = i + 1
    BY DEF Counted, Still, HandedOver, PutOnRecord, Interrupted
  <2> QED BY <2>2, <2>3, CampaignConstantsOK, FS_CardinalityType
<1>8. /\ old + r <= n
      /\ n <= Providers * (was + s + i)
      /\ n + Providers * c <= Providers * (all + i)
  BY DEF CountAt
<1>9. SameRecords(b, a) => new = old /\ is = was
  BY DEF SameRecords, OnRecord
<1> HIDE DEF R, Q, S, T, C, D, old, new, was, is, n, k, i, h, all
<1>10. /\ s \in Nat /\ t \in Nat
       /\ (m \in T => m \in S) => t <= s
       /\ m \in S /\ m \notin T => t = s - 1
       /\ m \notin S /\ m \in T => t = s + 1
       /\ (m \in T <=> m \in S) => t = s
  BY <1>2, CountOf, ExactCountOf
<1>11. /\ r \in Nat /\ q \in Nat
       /\ (m \in Q => m \in R) => q <= r
       /\ m \in R /\ m \notin Q => q = r - 1
       /\ m \notin R /\ m \in Q => q = r + 1
       /\ (m \in Q <=> m \in R) => q = r
  BY <1>3, CountOf, ExactCountOf
<1>12. /\ c \in Nat /\ d \in Nat
       /\ d <= c + 1
       /\ (m \in D => m \in C) => d <= c
       /\ m \in C /\ m \notin D => d <= c - 1
  BY <1>4, CountOf
<1>13. /\ m \in R => m \in S
       /\ m \in Q => m \in T
  BY <1>2, <1>3, SentIsUnrecorded
<1> HIDE DEF r, q, s, t, c, d
<1>14. /\ Still(mailer[m], x, b, a) =>
             /\ m \in T <=> m \in S
             /\ m \in Q <=> m \in R
             /\ m \in D => m \in C
             /\ new = old /\ is = was /\ k = n /\ h = i
  BY <1>2, <1>3, <1>4, <1>9 DEF Still, n, k, h, i
<1>15. HandedOver(mailer[m], x, b, a) =>
             /\ m \notin S /\ m \in T /\ m \in C /\ m \notin D
             /\ new = old /\ is = was /\ h = i
             /\ k <= n + Providers /\ k >= n
             /\ m \in Q => k >= n + 1
  BY <1>2, <1>3, <1>4, <1>9 DEF HandedOver, n, k, h, i
<1>16. PutOnRecord(mailer[m], x, b, a) =>
             /\ m \in S /\ m \notin T
             /\ m \in D => m \in C
             /\ is >= was + 1 /\ k = n /\ h = i
             /\ m \in R => new = old + 1
             /\ m \notin R => new = old
  BY <1>2, <1>3, <1>4 DEF PutOnRecord, was, is, old, new, n, k, h, i
<1>17. Interrupted(mailer[m], x, b, a) =>
             /\ m \notin T
             /\ new = old /\ is = was /\ k = n /\ h = i + 1
  BY <1>2, <1>9 DEF Interrupted, n, k, h, i
<1>18. new + q <= k
  <2>1. CASE Still(mailer[m], x, b, a)
    BY <2>1, <1>5, <1>8, <1>11, <1>14
  <2>2. CASE HandedOver(mailer[m], x, b, a)
    BY <2>2, <1>5, <1>6, <1>7, <1>8, <1>11, <1>13, <1>15
  <2>3. CASE PutOnRecord(mailer[m], x, b, a)
    BY <2>3, <1>5, <1>8, <1>11, <1>13, <1>16
  <2>4. CASE Interrupted(mailer[m], x, b, a)
    BY <2>4, <1>5, <1>8, <1>11, <1>13, <1>17
  <2> QED BY <2>1, <2>2, <2>3, <2>4 DEF Counted
<1>19. k <= Providers * (is + t + h)
  <2> DEFINE u == was + s + i    v == is + t + h
  <2>1. u \in Nat /\ v \in Nat
    BY <1>5, <1>6, <1>7, <1>10
  <2>2. \/ k = n /\ u <= v
        \/ k <= n + Providers /\ u + 1 <= v
    <3>1. CASE Still(mailer[m], x, b, a)
      BY <3>1, <2>1, <1>10, <1>14
    <3>2. CASE HandedOver(mailer[m], x, b, a)
      BY <3>2, <1>5, <1>7, <1>10, <1>15
    <3>3. CASE PutOnRecord(mailer[m], x, b, a)
      BY <3>3, <1>5, <1>6, <1>7, <1>10, <1>16
    <3>4. CASE Interrupted(mailer[m], x, b, a)
      <4>1. t >= s - 1
        BY <3>4, <1>10, <1>17
      <4> QED BY <3>4, <4>1, <1>5, <1>7, <1>10, <1>17
    <3> QED BY <3>1, <3>2, <3>3, <3>4 DEF Counted
  <2>3. n <= Providers * u
    BY <1>8
  <2> HIDE DEF u, v
  <2>4. /\ Providers * u \in Nat /\ Providers * v \in Nat
        /\ u <= v => Providers * u <= Providers * v
        /\ u + 1 <= v => Providers * u + Providers <= Providers * v
    BY <2>1, Scaled
  <2>5. k <= Providers * v
    BY <2>2, <2>3, <2>4, <1>5, <1>6, <1>7
  <2> QED BY <2>5 DEF v
<1>20. k + Providers * d <= Providers * (all + h)
  <2> DEFINE u == all + i    v == all + h
  <2>1. u \in Nat /\ v \in Nat
    BY <1>7
  <2>2. \/ k = n /\ d <= c /\ u <= v
        \/ k <= n + Providers /\ d + 1 <= c /\ u <= v
        \/ k = n /\ d <= c + 1 /\ u + 1 <= v
    <3>1. CASE Still(mailer[m], x, b, a)
      BY <3>1, <2>1, <1>12, <1>14
    <3>2. CASE HandedOver(mailer[m], x, b, a)
      BY <3>2, <2>1, <1>12, <1>15
    <3>3. CASE PutOnRecord(mailer[m], x, b, a)
      BY <3>3, <2>1, <1>12, <1>16
    <3>4. CASE Interrupted(mailer[m], x, b, a)
      BY <3>4, <1>7, <1>12, <1>17
    <3> QED BY <3>1, <3>2, <3>3, <3>4 DEF Counted
  <2>3. n + Providers * c <= Providers * u
    BY <1>8
  <2> HIDE DEF u, v
  <2>4. /\ Providers * u \in Nat /\ Providers * v \in Nat
        /\ u <= v => Providers * u <= Providers * v
        /\ u + 1 <= v => Providers * u + Providers <= Providers * v
    BY <2>1, Scaled
  <2>5. /\ Providers * d \in Nat /\ Providers * c \in Nat
        /\ d <= c => Providers * d <= Providers * c
        /\ d + 1 <= c => Providers * d + Providers <= Providers * c
        /\ d <= c + 1 => Providers * d <= Providers * c + Providers
    BY <1>12, Scaled
  <2>6. k + Providers * d <= Providers * v
    BY <2>2, <2>3, <2>4, <2>5, <1>5, <1>6, <1>7
  <2> QED BY <2>6 DEF v
<1> QED BY <1>18, <1>19, <1>20
        DEF CountAt, q, t, d, Q, T, D, new, is, k, h, all

(* A step that hands over nothing and records nothing.                     *)
LEMMA StillCounted ==
    ASSUME NEW s, NEW x, NEW b \in Batches, NEW a \in Donors,
           UNCHANGED <<batch, delivery, mailed, interruptions>>,
           HasUnrecorded(x, b, a) <=> HasUnrecorded(s, b, a),
           HasSent(x, b, a) <=> HasSent(s, b, a),
           MaySend(x, batch[b], b, a) => MaySend(s, batch[b], b, a)
    PROVE  Counted(s, x, b, a) /\ (IsDue(batch'[b]) => IsDue(batch[b]))
BY DEF Counted, Still, SameRecords

LEMMA ReadDueCounts ==
    ASSUME CampaignInv, CampaignInv', NEW m \in Mailers, ReadDue(m),
           NEW b \in Batches, NEW a \in Donors, CountAt(b, a)
    PROVE  CountAt(b, a)'
<1> DEFINE x == [pc |-> "choosing", left |-> Scheduled, first |-> TRUE]
<1>1. x.pc = "choosing" /\ x.left = Scheduled /\ MailerGoes(m, x)
  BY DEF ReadDue
<1>2. mailer[m].pc = "idle" /\ UNCHANGED <<batch, delivery, mailed, interruptions>>
  BY DEF ReadDue, MailerIdle
<1> HIDE DEF x
<1>3. /\ ~HasUnrecorded(x, b, a) /\ ~HasUnrecorded(mailer[m], b, a)
      /\ ~HasSent(x, b, a) /\ ~HasSent(mailer[m], b, a)
  BY <1>1, <1>2 DEF HasUnrecorded, HasSent
<1>4. MaySend(x, batch[b], b, a) => MaySend(mailer[m], batch[b], b, a)
  BY <1>1, <1>2 DEF MaySend, At, Working, IsDue, Scheduled
<1> QED BY <1>1, <1>2, <1>3, <1>4, StillCounted, CountStep

LEMMA TakeBatchCounts ==
    ASSUME CampaignInv, CampaignInv', NEW m \in Mailers, TakeBatch(m),
           NEW b \in Batches, NEW a \in Donors, CountAt(b, a)
    PROVE  CountAt(b, a)'
<1>1. PICK c \in mailer[m].left, seen \in Batch :
         /\ batch[c] # NoBatch
         /\ seen.status = "scheduled" \/ seen = batch[c]
         /\ mailer[m].left \in SUBSET Batches
         /\ MailerGoes(m, Sending("sending", mailer[m].left \ {c}, c, seen))
  BY Taken
<1> DEFINE x == Sending("sending", mailer[m].left \ {c}, c, seen)
<1>2. /\ x.pc = "sending" /\ x.left = mailer[m].left \ {c} /\ x.batch = c
      /\ x.ok = {} /\ x.to = {}
  BY DEF Sending
<1>3. MailerGoes(m, x)
  BY <1>1
<1> HIDE DEF x
<1>4. mailer[m].pc = "choosing" /\ UNCHANGED <<batch, delivery, mailed, interruptions>>
  BY DEF TakeBatch
<1>5. /\ ~HasUnrecorded(x, b, a) /\ ~HasUnrecorded(mailer[m], b, a)
      /\ ~HasSent(x, b, a) /\ ~HasSent(mailer[m], b, a)
  BY <1>2, <1>4 DEF HasUnrecorded, HasSent
<1>6. MaySend(x, batch[b], b, a) => MaySend(mailer[m], batch[b], b, a)
  BY <1>1, <1>2, <1>4 DEF MaySend, At, Working
<1> QED BY <1>3, <1>4, <1>5, <1>6, StillCounted, CountStep

LEMMA MailOneCounts ==
    ASSUME CampaignInv, CampaignInv', NEW m \in Mailers, NEW outcome \in Outcomes,
           NEW copies \in Copies(outcome), MailOne(m, outcome, copies),
           NEW b \in Batches, NEW a \in Donors, CountAt(b, a)
    PROVE  CountAt(b, a)'
<1>1. PICK d \in mailer[m].todo, x \in Work : HandsOver(m, outcome, copies, d, x)
  BY MailOneTo
<1> DEFINE s == mailer[m]
<1>2. /\ d \in Donors /\ d \in s.todo /\ s \in Work /\ s.pc = "sending"
      /\ MailerGoes(m, x)
      /\ x.pc = "mailed" /\ x.left = s.left /\ x.batch = s.batch
      /\ x.todo = s.todo \ {d} /\ x.to = {d} /\ x.outcome = outcome
  BY <1>1 DEF HandsOver
<1>3. /\ mailed' = [mailed EXCEPT ![s.batch][d] = @ + copies]
      /\ UNCHANGED <<batch, delivery, interruptions>> /\ s.batch \in Batches
  BY <1>1, <1>2 DEF HandsOver, MailOne, Work
<1>4. /\ copies \in Nat /\ copies <= Providers
      /\ outcome = "sent" => copies > 0
  BY CopiesAre
<1>5. /\ mailed'[s.batch][d] = mailed[s.batch][d] + copies
      /\ <<b, a>> # <<s.batch, d>> => mailed'[b][a] = mailed[b][a]
  <2> DEFINE c == s.batch
  <2>1. /\ c \in Batches /\ d \in Donors /\ copies \in Nat
        /\ mailed' = [mailed EXCEPT ![c][d] = @ + copies]
    BY <1>2, <1>3, <1>4
  <2> HIDE DEF s, c
  <2>2. /\ mailed'[c][d] = mailed[c][d] + copies
        /\ \A e \in Batches, f \in Donors :
              <<e, f>> # <<c, d>> => mailed'[e][f] = mailed[e][f]
    BY <2>1, MailedIs
  <2> QED BY <2>2 DEF c
<1>6. mailed[b][a] \in Nat /\ Providers \in Nat
  BY CampaignConstantsOK DEF CampaignInv, CampaignTypeOK
<1> HIDE DEF s
<1>7. Counted(s, x, b, a)
  <2>1. CASE b = s.batch /\ a = d
    <3>1. /\ ~HasUnrecorded(s, b, a) /\ HasUnrecorded(x, b, a)
          /\ MaySend(s, batch[b], b, a) /\ ~MaySend(x, batch'[b], b, a)
          /\ HasSent(x, b, a) => outcome = "sent"
      BY <2>1, <1>2 DEF HasUnrecorded, HasSent, MaySend, At, Working
    <3>2. HandedOver(s, x, b, a)
      BY <2>1, <3>1, <1>3, <1>4, <1>5, <1>6 DEF HandedOver, SameRecords
    <3> QED BY <3>2 DEF Counted
  <2>2. CASE ~(b = s.batch /\ a = d)
    <3>1. mailed'[b][a] = mailed[b][a]
      BY <2>2, <1>5
    <3>2. /\ ~HasUnrecorded(s, b, a) /\ ~HasUnrecorded(x, b, a)
          /\ ~HasSent(s, b, a) /\ ~HasSent(x, b, a)
      BY <2>2, <1>2 DEF HasUnrecorded, HasSent
    <3>3. MaySend(x, batch'[b], b, a) => MaySend(s, batch[b], b, a)
      BY <1>2, <1>3 DEF MaySend, At, Working
    <3> QED BY <3>1, <3>2, <3>3, <1>3 DEF Counted, Still, SameRecords
  <2> QED BY <2>1, <2>2
<1>8. IsDue(batch'[b]) => IsDue(batch[b])
  BY <1>3
<1> QED BY <1>2, <1>7, <1>8, CountStep DEF s

LEMMA MailNowCounts ==
    ASSUME CampaignInv, CampaignInv', NEW m \in Mailers, NEW outcome \in Outcomes,
           NEW copies \in Copies(outcome), MailNow(m, outcome, copies),
           NEW b \in Batches, NEW a \in Donors, CountAt(b, a)
    PROVE  CountAt(b, a)'
<1>1. PICK d, x : MailsNow(m, outcome, copies, d, x)
  BY MailNowTo
<1> DEFINE s == mailer[m]
<1>2. /\ d \in Donors /\ d \in s.todo /\ s \in Work /\ s.pc = "now"
      /\ MailerGoes(m, x)
      /\ x.pc = "now" /\ x.left = s.left /\ x.batch = s.batch
      /\ x.todo = s.todo \ {d}
      /\ x.ok = IF outcome = "sent" THEN s.ok \cup {d} ELSE s.ok
      /\ x.bad = IF outcome = "failed" THEN s.bad \cup {d} ELSE s.bad
  BY <1>1 DEF MailsNow
<1>3. /\ mailed' = [mailed EXCEPT ![s.batch][d] = @ + copies]
      /\ UNCHANGED <<batch, delivery, interruptions>> /\ s.batch \in Batches
  BY <1>1, <1>2 DEF MailsNow, MailNow, Work
<1>4. /\ copies \in Nat /\ copies <= Providers
      /\ outcome = "sent" => copies > 0
  BY CopiesAre
<1>5. /\ mailed'[s.batch][d] = mailed[s.batch][d] + copies
      /\ <<b, a>> # <<s.batch, d>> => mailed'[b][a] = mailed[b][a]
  <2> DEFINE c == s.batch
  <2>1. /\ c \in Batches /\ d \in Donors /\ copies \in Nat
        /\ mailed' = [mailed EXCEPT ![c][d] = @ + copies]
    BY <1>2, <1>3, <1>4
  <2> HIDE DEF s, c
  <2>2. /\ mailed'[c][d] = mailed[c][d] + copies
        /\ \A e \in Batches, f \in Donors :
              <<e, f>> # <<c, d>> => mailed'[e][f] = mailed[e][f]
    BY <2>1, MailedIs
  <2> QED BY <2>2 DEF c
<1>6. mailed[b][a] \in Nat /\ Providers \in Nat
  BY CampaignConstantsOK DEF CampaignInv, CampaignTypeOK
<1>7. s.todo \cap (s.ok \cup s.bad) = {}
  BY <1>2, MailerAt DEF MailerOK, Working
<1> HIDE DEF s
<1>8. Counted(s, x, b, a)
  <2>1. CASE b = s.batch /\ a = d
    <3>1. ~HasUnrecorded(s, b, a)
      BY <2>1, <1>2, <1>7 DEF HasUnrecorded
    <3>2. HasUnrecorded(x, b, a)
      BY <2>1, <1>2 DEF HasUnrecorded, Outcomes
    <3>3. HasSent(x, b, a) => outcome = "sent"
      BY <2>1, <1>2, <1>7 DEF HasSent
    <3>4. MaySend(s, batch[b], b, a) /\ ~MaySend(x, batch'[b], b, a)
      BY <2>1, <1>2 DEF MaySend, At, Working
    <3>5. HandedOver(s, x, b, a)
      BY <2>1, <3>1, <3>2, <3>3, <3>4, <1>3, <1>4, <1>5, <1>6
         DEF HandedOver, SameRecords
    <3> QED BY <3>5 DEF Counted
  <2>2. CASE ~(b = s.batch /\ a = d)
    <3>1. mailed'[b][a] = mailed[b][a]
      BY <2>2, <1>5
    <3>2. /\ HasUnrecorded(x, b, a) <=> HasUnrecorded(s, b, a)
          /\ HasSent(x, b, a) <=> HasSent(s, b, a)
      BY <2>2, <1>2 DEF HasUnrecorded, HasSent
    <3>3. MaySend(x, batch'[b], b, a) => MaySend(s, batch[b], b, a)
      BY <1>2, <1>3 DEF MaySend, At, Working
    <3> QED BY <3>1, <3>2, <3>3, <1>3 DEF Counted, Still, SameRecords
  <2> QED BY <2>1, <2>2
<1>9. IsDue(batch'[b]) => IsDue(batch[b])
  BY <1>3
<1> QED BY <1>2, <1>8, <1>9, CountStep DEF s

LEMMA RecordOneCounts ==
    ASSUME CampaignInv, CampaignInv', NEW m \in Mailers, RecordOne(m),
           NEW b \in Batches, NEW a \in Donors, CountAt(b, a)
    PROVE  CountAt(b, a)'
<1>1. PICK x : Records(m, x)
  BY RecordOneGoes
<1> DEFINE s == mailer[m]
<1>2. /\ s \in Work /\ s.pc = "mailed" /\ MailerGoes(m, x)
      /\ x.pc = "sending" /\ x.left = s.left /\ x.batch = s.batch /\ x.todo = s.todo
      /\ s.outcome \in Outcomes
  BY <1>1 DEF Records, Work
<1>3. UNCHANGED <<batch, mailed, interruptions>> /\ delivery' = Released(m)
  BY DEF RecordOne
<1>4. \A o \in Outcomes :
         delivery'[b][a][o] =
            IF b = s.batch /\ a \in s.to /\ o = s.outcome
            THEN delivery[b][a][o] + 1 ELSE delivery[b][a][o]
  BY <1>2, <1>3, ReleasedIs
<1>5. /\ delivery[b][a]["sent"] \in Nat /\ delivery[b][a]["failed"] \in Nat
      /\ "sent" \in Outcomes /\ "failed" \in Outcomes
  BY DEF CampaignInv, CampaignTypeOK, Outcomes
<1> HIDE DEF s
<1>6. ~HasUnrecorded(x, b, a) /\ ~HasSent(x, b, a)
  BY <1>2 DEF HasUnrecorded, HasSent
<1>7. MaySend(x, batch'[b], b, a) => MaySend(s, batch[b], b, a)
  BY <1>2, <1>3 DEF MaySend, At, Working
<1>8. Counted(s, x, b, a)
  <2>1. CASE b = s.batch /\ a \in s.to
    <3>1. /\ HasUnrecorded(s, b, a)
          /\ HasSent(s, b, a) <=> s.outcome = "sent"
      BY <2>1, <1>2 DEF HasUnrecorded, HasSent
    <3>2. CASE s.outcome = "sent"
      <4>1. /\ delivery'[b][a]["sent"] = delivery[b][a]["sent"] + 1
            /\ delivery'[b][a]["failed"] = delivery[b][a]["failed"]
        BY <2>1, <3>2, <1>4, <1>5
      <4> QED BY <3>1, <3>2, <4>1, <1>3, <1>5, <1>6, <1>7
              DEF Counted, PutOnRecord, OnRecord
    <3>3. CASE s.outcome = "failed"
      <4>1. /\ delivery'[b][a]["failed"] = delivery[b][a]["failed"] + 1
            /\ delivery'[b][a]["sent"] = delivery[b][a]["sent"]
        BY <2>1, <3>3, <1>4, <1>5
      <4> QED BY <3>1, <3>3, <4>1, <1>3, <1>5, <1>6, <1>7
              DEF Counted, PutOnRecord, OnRecord
    <3> QED BY <3>2, <3>3, <1>2 DEF Outcomes
  <2>2. CASE ~(b = s.batch /\ a \in s.to)
    <3>1. ~HasUnrecorded(s, b, a) /\ ~HasSent(s, b, a)
      BY <2>2, <1>2 DEF HasUnrecorded, HasSent
    <3>2. SameRecords(b, a)
      BY <2>2, <1>4, <1>5 DEF SameRecords
    <3> QED BY <3>1, <3>2, <1>3, <1>6, <1>7 DEF Counted, Still
  <2> QED BY <2>1, <2>2
<1>9. IsDue(batch'[b]) => IsDue(batch[b])
  BY <1>3
<1> QED BY <1>2, <1>8, <1>9, CountStep DEF s

(* However a thread is done with a batch, the batch is not due any more.   *)
LEMMA DoneIsNotDue ==
    ASSUME CampaignInv, NEW m \in Mailers, FinishBatch(m) \/ WriteOff(m)
    PROVE  /\ mailer[m] \in Work /\ mailer[m].pc \in {"sending", "reloaded"}
           /\ mailer[m].batch \notin mailer[m].left
           /\ NextBatch(m)
           /\ UNCHANGED <<delivery, mailed, interruptions>>
           /\ ~IsDue(batch'[mailer[m].batch])
           /\ \A b \in Batches : b # mailer[m].batch => batch'[b] = batch[b]
<1> DEFINE s == mailer[m]
           b == mailer[m].batch
<1>1. /\ s \in Work /\ s.pc \in {"sending", "reloaded"}
      /\ MailerOK(s, batch, delivery)
  BY MailerAt DEF FinishBatch, WriteOff, Working
<1>2. b \in Batches /\ s.seen \in Batch /\ s.ok \in SUBSET Donors /\ s.bad \in SUBSET Donors
  BY <1>1 DEF Work
<1>3. /\ batch[b] \in Batch /\ batch[b] # NoBatch /\ b \notin s.left
      /\ s.seen.status # "scheduled" => batch[b].status # "scheduled"
  BY <1>1, <1>2 DEF MailerOK, Working, CampaignInv, CampaignTypeOK
<1>4. batch \in [Batches -> Batch \cup {NoBatch}]
  BY DEF CampaignInv, CampaignTypeOK
<1>5. ASSUME NEW status \in {"sent", "partial_failed", "failed"},
             NEW sent \in 0..Cardinality(Donors),
             batch' = [batch EXCEPT ![b] = Updated(batch[b], s.seen, status, sent)]
      PROVE  /\ ~IsDue(batch'[b])
             /\ \A c \in Batches : c # b => batch'[c] = batch[c]
  <2> DEFINE row == Updated(batch[b], s.seen, status, sent)
  <2>1. /\ row \in Batch
        /\ row.status = IF status # s.seen.status THEN status ELSE batch[b].status
    BY <1>2, <1>3, <1>5 DEF Updated, Batch
  <2>2. row.status # "scheduled" /\ row # NoBatch
    BY <2>1, <1>3, CampaignConstantsOK
  <2>3. batch' = [batch EXCEPT ![b] = row]
    BY <1>5
  <2> HIDE DEF row
  <2>4. batch'[b] = row /\ \A c \in Batches : c # b => batch'[c] = batch[c]
    BY <2>3, <1>2, <1>4
  <2> QED BY <2>2, <2>4 DEF IsDue
<1>6. CASE FinishBatch(m)
  <2>1. /\ Verdict(s.ok, s.bad) \in {"sent", "partial_failed", "failed"}
        /\ Count(s.ok, s.bad) \in 0..Cardinality(Donors)
    BY <1>2, VerdictIs
  <2>2. /\ batch' = [batch EXCEPT ![b] =
              Updated(batch[b], s.seen, Verdict(s.ok, s.bad), Count(s.ok, s.bad))]
        /\ NextBatch(m) /\ UNCHANGED <<delivery, mailed, interruptions>>
    BY <1>6 DEF FinishBatch
  <2> HIDE DEF b, s
  <2>3. /\ ~IsDue(batch'[b])
        /\ \A c \in Batches : c # b => batch'[c] = batch[c]
    BY <2>1, <2>2, <1>5
  <2> QED BY <2>2, <2>3, <1>1, <1>3 DEF b, s
<1>7. CASE WriteOff(m)
  <2>1. 0 \in 0..Cardinality(Donors)
    BY CampaignConstantsOK, FS_CardinalityType
  <2>2. /\ batch' = [batch EXCEPT ![b] = Updated(batch[b], s.seen, "failed", 0)]
        /\ NextBatch(m) /\ UNCHANGED <<delivery, mailed, interruptions>>
    BY <1>7 DEF WriteOff
  <2> HIDE DEF b, s
  <2>3. /\ ~IsDue(batch'[b])
        /\ \A c \in Batches : c # b => batch'[c] = batch[c]
    BY <2>1, <2>2, <1>5
  <2> QED BY <2>2, <2>3, <1>1, <1>3 DEF b, s
<1> QED BY <1>6, <1>7

LEMMA DoneCounts ==
    ASSUME CampaignInv, CampaignInv', NEW m \in Mailers, FinishBatch(m) \/ WriteOff(m),
           NEW b \in Batches, NEW a \in Donors, CountAt(b, a)
    PROVE  CountAt(b, a)'
<1> DEFINE s == mailer[m]
           x == After(m)
<1>1. x.pc = "idle" \/ (x.pc = "choosing" /\ x.left = s.left)
  <2>1. CASE s.left = {}
    BY <2>1 DEF After, MailerIdle
  <2>2. CASE s.left # {}
    BY <2>2 DEF After
  <2> QED BY <2>1, <2>2
<1>2. MailerGoes(m, x)
  BY DoneIsNotDue, AfterIs
<1>3. /\ s \in Work /\ s.pc \in {"sending", "reloaded"} /\ s.batch \notin s.left
      /\ UNCHANGED <<delivery, mailed, interruptions>>
      /\ ~IsDue(batch'[s.batch])
      /\ b # s.batch => batch'[b] = batch[b]
  BY DoneIsNotDue
<1> HIDE DEF s, x
<1>4. /\ ~HasUnrecorded(s, b, a) /\ ~HasUnrecorded(x, b, a)
      /\ ~HasSent(s, b, a) /\ ~HasSent(x, b, a)
  BY <1>1, <1>3 DEF HasUnrecorded, HasSent
<1>5. MaySend(x, batch'[b], b, a) => MaySend(s, batch[b], b, a)
  BY <1>1, <1>3 DEF MaySend, At, Working
<1>6. Counted(s, x, b, a)
  BY <1>3, <1>4, <1>5 DEF Counted, Still, SameRecords
<1>7. IsDue(batch'[b]) => IsDue(batch[b])
  BY <1>3
<1> QED BY <1>2, <1>6, <1>7, CountStep DEF s

LEMMA InterruptionCounts ==
    ASSUME CampaignInv, CampaignInv', NEW m \in Mailers, BatchRaises(m) \/ Abort(m),
           NEW b \in Batches, NEW a \in Donors, CountAt(b, a)
    PROVE  CountAt(b, a)'
<1>1. PICK x : MailerGoes(m, x) /\ x.pc \notin {"mailed", "now"}
  <2>1. CASE BatchRaises(m)
    BY <2>1, RaisedIs
  <2>2. CASE Abort(m)
    <3>1. MailerGoes(m, MailerIdle) /\ MailerIdle.pc \notin {"mailed", "now"}
      BY <2>2 DEF Abort, MailerIdle
    <3> QED BY <3>1
  <2> QED BY <2>1, <2>2
<1>2. UNCHANGED <<batch, delivery, mailed>> /\ interruptions' = interruptions + 1
  BY DEF BatchRaises, Abort, Interrupt
<1>3. Counted(mailer[m], x, b, a)
  BY <1>1, <1>2
     DEF Counted, Interrupted, SameRecords, HasUnrecorded, HasSent
<1> QED BY <1>1, <1>2, <1>3, CountStep

LEMMA ReloadCounts ==
    ASSUME CampaignInv, CampaignInv', NEW m \in Mailers, Reload(m),
           NEW b \in Batches, NEW a \in Donors, CountAt(b, a)
    PROVE  CountAt(b, a)'
<1>1. PICK x \in Work :
         /\ mailer[m] \in Work /\ MailerGoes(m, x) /\ mailer[m].pc = "rolled back"
         /\ x.pc = "reloaded" /\ x.left = mailer[m].left
         /\ x.batch = mailer[m].batch /\ x.seen = batch[mailer[m].batch]
         /\ x.todo = mailer[m].todo /\ x.to = mailer[m].to
         /\ x.ok = mailer[m].ok /\ x.bad = mailer[m].bad
  BY ReloadedIs
<1>2. UNCHANGED <<batch, delivery, mailed, interruptions>>
  BY DEF Reload
<1>3. /\ ~HasUnrecorded(x, b, a) /\ ~HasUnrecorded(mailer[m], b, a)
      /\ ~HasSent(x, b, a) /\ ~HasSent(mailer[m], b, a)
  BY <1>1 DEF HasUnrecorded, HasSent
<1>4. MaySend(x, batch[b], b, a) => MaySend(mailer[m], batch[b], b, a)
  BY <1>1 DEF MaySend, At, Working
<1> QED BY <1>1, <1>2, <1>3, <1>4, StillCounted, CountStep

LEMMA SendNowCounts ==
    ASSUME CampaignInv, CampaignInv', NEW m \in Mailers, NEW c \in Batches,
           NEW audience \in SUBSET Donors, SendNow(m, c, audience),
           NEW b \in Batches, NEW a \in Donors, CountAt(b, a)
    PROVE  CountAt(b, a)'
<1> DEFINE x == Sending("now", {}, c, Due(audience))
<1>1. x.pc = "now" /\ x.left = {} /\ x.batch = c /\ x.ok = {} /\ x.bad = {}
  BY DEF Sending
<1>2. /\ MailerGoes(m, x) /\ batch[c] = NoBatch /\ mailer[m].pc = "idle"
      /\ UNCHANGED <<batch, delivery, mailed, interruptions>>
  BY DEF SendNow, NewBatch, MailerIdle
<1> HIDE DEF x
<1>3. /\ ~HasUnrecorded(x, b, a) /\ ~HasUnrecorded(mailer[m], b, a)
      /\ ~HasSent(x, b, a) /\ ~HasSent(mailer[m], b, a)
  BY <1>1, <1>2 DEF HasUnrecorded, HasSent
<1>4. MaySend(x, batch[b], b, a) => MaySend(mailer[m], batch[b], b, a)
  BY <1>1, <1>2 DEF MaySend, At, Working, IsDue
<1> QED BY <1>2, <1>3, <1>4, StillCounted, CountStep

LEMMA CommitNowCounts ==
    ASSUME CampaignInv, CampaignInv', NEW m \in Mailers, CommitNow(m),
           NEW b \in Batches, NEW a \in Donors, CountAt(b, a)
    PROVE  CountAt(b, a)'
<1> DEFINE s == mailer[m]
<1>1. /\ s \in Work /\ s.pc = "now" /\ batch[s.batch] = NoBatch /\ s.batch \in Batches
      /\ s.ok \in SUBSET Donors /\ s.bad \in SUBSET Donors
  BY CommittedIs DEF Work
<1>2. /\ MailerGoes(m, MailerIdle) /\ MailerIdle.pc = "idle"
      /\ UNCHANGED <<mailed, interruptions>>
  BY DEF CommitNow, MailerIdle
<1>3. ~IsDue(batch'[s.batch])
  <2>1. /\ batch'[s.batch] \in Batch
        /\ batch'[s.batch].status = Verdict(s.ok, s.bad)
    BY CommittedIs
  <2>2. Verdict(s.ok, s.bad) # "scheduled"
    BY DEF Verdict
  <2> QED BY <2>1, <2>2, CampaignConstantsOK DEF IsDue
<1>4. b # s.batch => batch'[b] = batch[b] /\ delivery'[b] = delivery[b]
  BY CommittedIs
<1>5. /\ delivery'[s.batch][a]["sent"] = IF a \in s.ok THEN 1 ELSE 0
      /\ delivery'[s.batch][a]["failed"] = IF a \in s.bad THEN 1 ELSE 0
  BY CommittedIs
<1>6. /\ delivery[s.batch][a]["sent"] = 0 /\ delivery[s.batch][a]["failed"] = 0
  BY <1>1 DEF CampaignInv, Backed
<1> HIDE DEF s
<1>7. ~HasUnrecorded(MailerIdle, b, a) /\ ~HasSent(MailerIdle, b, a)
  BY <1>2 DEF HasUnrecorded, HasSent
<1>8. MaySend(MailerIdle, batch'[b], b, a) => MaySend(s, batch[b], b, a)
  BY <1>1, <1>2, <1>3, <1>4 DEF MaySend, At, Working
<1>9. Counted(s, MailerIdle, b, a)
  <2>1. CASE b = s.batch /\ a \in s.ok \cup s.bad
    <3>1. /\ HasUnrecorded(s, b, a)
          /\ HasSent(s, b, a) <=> a \in s.ok
      BY <2>1, <1>1 DEF HasUnrecorded, HasSent
    <3>2. OnRecord(b, a)' >= 1 /\ OnRecord(b, a) = 0
      BY <2>1, <1>5, <1>6 DEF OnRecord
    <3>3. PutOnRecord(s, MailerIdle, b, a)
      BY <2>1, <3>1, <3>2, <1>2, <1>5, <1>6, <1>7, <1>8 DEF PutOnRecord
    <3> QED BY <3>3 DEF Counted
  <2>2. CASE ~(b = s.batch /\ a \in s.ok \cup s.bad)
    <3>1. ~HasUnrecorded(s, b, a) /\ ~HasSent(s, b, a)
      BY <2>2, <1>1 DEF HasUnrecorded, HasSent
    <3>2. SameRecords(b, a)
      BY <2>2, <1>4, <1>5, <1>6 DEF SameRecords
    <3> QED BY <3>1, <3>2, <1>2, <1>7, <1>8 DEF Counted, Still
  <2> QED BY <2>1, <2>2
<1>10. IsDue(batch'[b]) => IsDue(batch[b])
  BY <1>3, <1>4
<1> QED BY <1>2, <1>9, <1>10, CountStep DEF s

LEMMA BecomesDueCounts ==
    ASSUME CampaignInv, NEW c \in Batches, NEW audience \in SUBSET Donors,
           BecomesDue(c, audience),
           NEW b \in Batches, NEW a \in Donors, CountAt(b, a)
    PROVE  CountAt(b, a)'
<1>1. batch[c] = NoBatch /\ batch' = [batch EXCEPT ![c] = Due(audience)]
         /\ UNCHANGED <<delivery, mailed, mailer, interruptions>>
  BY DEF BecomesDue, NewBatch
<1>2. IsDue(batch'[b]) <=> IsDue(batch[b])
  BY <1>1, DueIsBatch DEF IsDue, CampaignInv, CampaignTypeOK
<1>3. /\ Sure(b, a)' = Sure(b, a) /\ Unrecorded(b, a)' = Unrecorded(b, a)
      /\ Senders(b, a)' = Senders(b, a)
  BY <1>1, <1>2 DEF Sure, Unrecorded, Senders, MaySend
<1> QED BY <1>1, <1>3 DEF CountAt, OnRecord

LEMMA CountInit == CampaignInit => CountInv
<1> SUFFICES ASSUME CampaignInit, NEW b \in Batches, NEW a \in Donors
             PROVE  CountAt(b, a)
  BY DEF CountInv
<1>1. Unrecorded(b, a) = {} /\ Sure(b, a) = {}
  BY DEF CampaignInit, Unrecorded, Sure, HasUnrecorded, HasSent, MailerIdle
<1>2. Senders(b, a) \subseteq Mailers
  BY DEF Senders
<1>3. /\ Cardinality(Senders(b, a)) <= Cardinality(Mailers)
      /\ Cardinality(Senders(b, a)) \in Nat /\ Cardinality(Mailers) \in Nat
  BY <1>2, CampaignConstantsOK, FS_Subset, FS_CardinalityType
<1>4. /\ delivery[b][a]["sent"] = 0 /\ delivery[b][a]["failed"] = 0
      /\ mailed[b][a] = 0 /\ interruptions = 0
  BY DEF CampaignInit, Outcomes
<1>5. Cardinality(Unrecorded(b, a)) = 0 /\ Cardinality(Sure(b, a)) = 0
  BY <1>1, FS_EmptySet
<1>6. OnRecord(b, a) = 0
  BY <1>4 DEF OnRecord
<1>7. Cardinality(Mailers) + interruptions = Cardinality(Mailers)
  BY <1>3, <1>4
<1>8. /\ Providers * Cardinality(Senders(b, a)) \in Nat
      /\ Providers * Cardinality(Senders(b, a)) <= Providers * Cardinality(Mailers)
  BY <1>3, Scaled
<1>9. OnRecord(b, a) + Cardinality(Unrecorded(b, a)) + interruptions = 0
  BY <1>4, <1>5, <1>6
<1>10. Providers * 0 \in Nat
  BY Scaled
<1> QED BY <1>4, <1>5, <1>7, <1>8, <1>9, <1>10 DEF CountAt

LEMMA CountNext ==
    ASSUME CampaignInv, CampaignInv', CountInv, [CampaignNext]_campaignVars
    PROVE  CountInv'
<1> SUFFICES ASSUME NEW b \in Batches, NEW a \in Donors PROVE CountAt(b, a)'
  BY DEF CountInv
<1>1. CountAt(b, a)
  BY DEF CountInv
<1>2. ASSUME UNCHANGED <<batch, delivery, mailed, mailer, interruptions>>
      PROVE  CountAt(b, a)'
  BY <1>1, <1>2 DEF CountAt, OnRecord, Sure, Unrecorded, Senders
<1>3. ASSUME NEW m \in Mailers, ReadDue(m) \/ Continue(m) PROVE CountAt(b, a)'
  BY <1>1, <1>3, ReadDueCounts, TakeBatchCounts, RecordOneCounts, DoneCounts,
     ReloadCounts, CommitNowCounts, MailOneCounts, MailNowCounts DEF Continue
<1>4. ASSUME NEW m \in Mailers, BatchRaises(m) \/ Abort(m) PROVE CountAt(b, a)'
  BY <1>1, <1>4, InterruptionCounts
<1>5. ASSUME NEW m \in Mailers, NEW c \in New, SendNow(m, c, deployment.audience[c])
      PROVE  CountAt(b, a)'
  BY <1>1, <1>5, SendNowCounts, NewIs DEF CampaignInv
<1>6. ASSUME NEW m \in Mailers, NEW c \in Batches, NEW source \in Batches,
             Retry(m, source, c)
      PROVE  CountAt(b, a)'
  <2>1. Missed(source) \in SUBSET Donors
    BY DEF Missed
  <2> QED BY <1>1, <1>6, <2>1, SendNowCounts DEF Retry
<1>7. ASSUME NEW c \in New, BecomesDue(c, deployment.audience[c])
      PROVE  CountAt(b, a)'
  BY <1>1, <1>7, BecomesDueCounts, NewIs DEF CampaignInv
<1>8. ASSUME NEW d \in Leavers, Unsubscribe(d) \/ Bounce(d) PROVE CountAt(b, a)'
  BY <1>2, <1>8 DEF Unsubscribe, Bounce
<1>9. CASE UNCHANGED campaignVars
  BY <1>2, <1>9 DEF campaignVars
<1> QED BY <1>3, <1>4, <1>5, <1>6, <1>7, <1>8, <1>9 DEF CampaignNext

LEMMA CampaignInvariance == CampaignSpec => [](CampaignInv /\ CountInv)
<1>1. CampaignInit => CampaignInv /\ CountInv
  BY CampaignInitInv, CountInit
<1>2. CampaignInv /\ CountInv /\ [CampaignNext]_campaignVars
         => (CampaignInv /\ CountInv)'
  BY CampaignInvNext, CountNext
<1> QED BY <1>1, <1>2, PTL DEF CampaignSpec

(* However many threads send one batch and write their counts over each    *)
(* other's, what its row counts as sent has deliveries to show for it, and *)
(* a partly failed batch somebody to try again for.                        *)
THEOREM CountsHaveBacking == CampaignSpec => []CountsAreBacked
<1>1. CampaignInv => CountsAreBacked
  <2> SUFFICES ASSUME CampaignInv, NEW b \in Batches, batch[b] # NoBatch
               PROVE  /\ batch[b].sent
                            <= Cardinality({a \in Donors : delivery[b][a]["sent"] > 0})
                      /\ batch[b].status = "partial_failed" => Missed(b) # {}
    BY DEF CountsAreBacked
  <2>1. Backed(batch[b], delivery, b)
    BY DEF CampaignInv
  <2> QED BY <2>1 DEF Backed, Got, Missed
<1> QED BY <1>1, CampaignInvariance, PTL

(* However often a provider's answer is lost, every mail that was taken is *)
(* on record, as sent or as failed, or under way, or lost to a crash or an *)
(* exception, so many for each as there are providers; and what is on      *)
(* record as sent was taken.                                               *)
THEOREM MailsStayOnRecord == CampaignSpec => []MailsAreRecorded
<1>1. CampaignInv /\ CountInv => MailsAreRecorded
  <2> SUFFICES ASSUME CampaignInv, CountInv, NEW b \in Batches, NEW a \in Donors
               PROVE  /\ delivery[b][a]["sent"] <= mailed[b][a]
                      /\ mailed[b][a] <= Providers * (delivery[b][a]["sent"]
                             + delivery[b][a]["failed"]
                             + Cardinality(Pending(b, a)) + interruptions)
    BY DEF MailsAreRecorded
  <2>1. CountAt(b, a)
    BY DEF CountInv
  <2>2. Unrecorded(b, a) \subseteq Pending(b, a)
    BY DEF Unrecorded, HasUnrecorded, Pending
  <2>3. IsFiniteSet(Pending(b, a)) /\ IsFiniteSet(Unrecorded(b, a))
           /\ IsFiniteSet(Sure(b, a))
    BY CampaignConstantsOK, FS_Subset DEF Pending, Unrecorded, Sure
  <2>4. /\ Cardinality(Unrecorded(b, a)) <= Cardinality(Pending(b, a))
        /\ Cardinality(Unrecorded(b, a)) \in Nat /\ Cardinality(Pending(b, a)) \in Nat
        /\ Cardinality(Sure(b, a)) \in Nat
    BY <2>2, <2>3, FS_Subset, FS_CardinalityType
  <2>5. /\ delivery[b][a]["sent"] \in Nat /\ delivery[b][a]["failed"] \in Nat
        /\ mailed[b][a] \in Nat
    BY DEF CampaignInv, CampaignTypeOK, Outcomes
  <2>6. interruptions \in Nat
    BY InterruptionsAreCounted DEF CampaignInv
  <2> DEFINE u == OnRecord(b, a) + Cardinality(Unrecorded(b, a)) + interruptions
             v == OnRecord(b, a) + Cardinality(Pending(b, a)) + interruptions
  <2>7. u \in Nat /\ v \in Nat /\ u <= v
    BY <2>4, <2>5, <2>6 DEF OnRecord
  <2>8. mailed[b][a] <= Providers * u /\ delivery[b][a]["sent"] <= mailed[b][a]
    BY <2>1, <2>4, <2>5 DEF CountAt
  <2> HIDE DEF u
  <2>9. mailed[b][a] <= Providers * v
    <3> HIDE DEF v
    <3>1. /\ Providers * u \in Nat /\ Providers * v \in Nat
          /\ Providers * u <= Providers * v
      BY <2>7, Scaled
    <3> QED BY <3>1, <2>5, <2>8
  <2> QED BY <2>8, <2>9 DEF OnRecord
<1> QED BY <1>1, CampaignInvariance, PTL

(* Nobody gets a batch more often than there are threads, but for one more *)
(* time after each crash or exception, although no thread claims a batch;  *)
(* and each time from each provider at most once.                          *)
THEOREM CopiesAreFew == CampaignSpec => []CopiesAreBounded
<1>1. CampaignInv /\ CountInv => CopiesAreBounded
  <2> SUFFICES ASSUME CampaignInv, CountInv, NEW b \in Batches, NEW a \in Donors
               PROVE  mailed[b][a]
                         <= Providers * (Cardinality(Mailers) + interruptions)
    BY DEF CopiesAreBounded
  <2>1. IsFiniteSet(Senders(b, a)) /\ IsFiniteSet(Mailers)
    BY CampaignConstantsOK, FS_Subset DEF Senders
  <2>2. Cardinality(Senders(b, a)) \in Nat /\ Cardinality(Mailers) \in Nat
    BY <2>1, FS_CardinalityType
  <2>3. mailed[b][a] \in Nat /\ interruptions \in Nat
    BY InterruptionsAreCounted DEF CampaignInv, CampaignTypeOK
  <2>4. Providers * Cardinality(Senders(b, a)) \in Nat
           /\ Providers * (Cardinality(Mailers) + interruptions) \in Nat
    BY <2>2, <2>3, Scaled
  <2>5. mailed[b][a] + Providers * Cardinality(Senders(b, a))
           <= Providers * (Cardinality(Mailers) + interruptions)
    BY DEF CountInv, CountAt
  <2> QED BY <2>3, <2>4, <2>5
<1> QED BY <1>1, CampaignInvariance, PTL
-----------------------------------------------------------------------------
(* The two components share no table: each behaviour of the composition is *)
(* one of either, and what holds of them holds of it.                      *)
LEMMA MailIsBoth == MailSpec => CampaignSpec /\ ReminderSpec
<1>1. MailInit => CampaignInit /\ ReminderInit
  BY DEF MailInit
<1>2. [MailNext]_mailVars => [CampaignNext]_campaignVars /\ [ReminderNext]_reminderVars
  BY DEF MailNext, mailVars
<1> QED BY <1>1, <1>2, PTL DEF MailSpec, CampaignSpec, ReminderSpec

(* Rows of batches, deliveries and reminders keep the columns the code     *)
(* gives them: no batch counts more donors than there are, no reminder     *)
(* more attempts than are made.                                            *)
THEOREM MailTypes == MailSpec => []MailTypeOK
<1>1. CampaignInv /\ ReminderInv => MailTypeOK
  BY DEF CampaignInv, ReminderInv, MailTypeOK
<1> QED BY <1>1, MailIsBoth, CampaignInvariance, ReminderInvariance, PTL
=============================================================================
