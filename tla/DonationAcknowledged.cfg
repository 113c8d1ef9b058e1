\* One donation, one payment, two sessions, SQLite.
CONSTANTS
    w1 = w1
    Donations = {1}
    Payments = {p1}
    Sessions = {s1, s2}
    Workers = {w1}
    WorkerOf <- MCWorkerOf
    Deployments <- Webhooks
    NoDonation = NoDonation
    NoPayment = NoPayment
    NoRow = NoRow
    Deleted = Deleted
    NoEvent = NoEvent
SYMMETRY Symmetry
SPECIFICATION Spec
INVARIANT AcknowledgedIsRecorded
