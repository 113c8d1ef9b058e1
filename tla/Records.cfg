\* Workflows, pre-award work, recurring gifts, donor automations.
CONSTANTS
    Commands = {1, 2, 3, 4}
    Instances = {i1}
    Events = {"note", "resolve"}
    Keys = {k1}
    Roles = {"case_worker", "auditor"}
    Steps = {"intake", "review", "closure"}
    Initial = "intake"
    Terminal = {"closure"}
    Rules <- MCRules
    Permits <- MCPermits
    Opening = "created"
    NoKey = NoKey
    NoRecord = NoRecord
    NoStep = NoStep
    Officers = {o1, o2}
    Edits = {"archived"}
    MaxProposals = 1
    MaxVersion = 5
    MaxGrants = 4
    MaxStops = 1
    NoProposal = NoProposal
    NoGrant = NoGrant
    weekly = weekly
    fortnightly = fortnightly
    Plans = {weekly, fortnightly}
    Interval <- MCInterval
    Clerks = {k2, k3}
    LastDay = 3
    NoPlan = NoPlan
    Newcomers = {g1}
    Strugglers = {g2}
    Anchors = {1, 2}
    Automata = {u1, u2}
    MaxRuns = 3
    MaxFaults = 1
SPECIFICATION RecordsSpec
CHECK_DEADLOCK FALSE
INVARIANTS
    RecordsTypeOK
    HistoryMatchesLog
    KeyAppliedOnce
    AppliedIsKept
    LinkedGrantIsAwarded
    ChargesFollowSchedule
    TasksAreLogged
    ThanksAreLogged
PROPERTIES
    ImplementsContract
    OnlySubmittedAreDecided
    FailedStaysFailed
