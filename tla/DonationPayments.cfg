\* Two donations, one payment, two sessions, both databases.
CONSTANTS
    w1 = w1
    Donations = {1, 2}
    Payments = {p1}
    Sessions = {s1, s2}
    Workers = {w1}
    WorkerOf <- MCWorkerOf
    Deployments <- LifecycleAndTotals
    NoDonation = NoDonation
    NoPayment = NoPayment
    NoRow = NoRow
    Deleted = Deleted
    NoEvent = NoEvent
SYMMETRY Symmetry
SPECIFICATION Spec
INVARIANTS
    TypeOK
    OneRecordPerPayment
    ProcessedIsRecorded
    RaisedIsExactOnSQLite
PROPERTY FollowsTransitions
