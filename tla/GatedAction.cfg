\* The gated operations: what an executed request is worth.
CONSTANTS
    asker = asker
    fin1 = fin1
    fin2 = fin2
    finance = finance
    Requests = {r1, r2}
    Users = {asker, fin1, fin2}
    Askers = {asker}
    Roles = {finance}
    RoleOf <- MCRoleOf
    OrgAdmin = finance
    Targets = {t1}
    Policies <- OneApproval
    Sessions = {s1, s2}
    RowLocks = TRUE
    NoRow = NoRow
    NoRole = NoRole
    NoUser = NoUser
    MaxEffects = 2
    NoCall = NoCall
SYMMETRY Symmetry
SPECIFICATION GSpec
INVARIANTS
    ExecutionsHappened
