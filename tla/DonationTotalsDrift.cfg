\* Two donations, no payment, two sessions, PostgreSQL.
CONSTANTS
    w1 = w1
    Donations = {1, 2}
    Payments = {}
    Sessions = {s1, s2}
    Workers = {w1}
    WorkerOf <- MCWorkerOf
    Deployments <- Gifts
    NoDonation = NoDonation
    NoPayment = NoPayment
    NoRow = NoRow
    Deleted = Deleted
    NoEvent = NoEvent
SYMMETRY Symmetry
SPECIFICATION Spec
INVARIANT RaisedIsExact
