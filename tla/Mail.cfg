\* Campaign mail and event reminders, on SQLite.
CONSTANTS
    m1 = m1
    m2 = m2
    j1 = j1
    j2 = j2
    Donors = {1, 2, 3}
    Leavers = {3}
    Deployments <- MCDeployments
    Batches = {1, 2}
    Mailers = {m1, m2}
    Dispatchers = {m1}
    Providers = 2
    NoBatch = NoBatch
    Attendees = {a1}
    ReminderJobs = {j1, j2}
    HoursOf <- MCHoursOf
    InTime = {1}
    Handovers = 2
    MaxAttempts = 3
    MaxBrokenOff = 1
    NotQueued = NotQueued
SPECIFICATION MailSpec
CHECK_DEADLOCK FALSE
INVARIANTS
    MailTypeOK
    CountsAreBacked
    MailsAreRecorded
    CopiesAreBounded
    OutcomesAreTrue
    FloodIsBounded
PROPERTIES
    DueIsHandled
    QueuedIsSettled
