\* The gated operations act before they ask.
CONSTANTS
    asker = asker
    fin1 = fin1
    fin2 = fin2
    finance = finance
    Requests = {r1}
    Users = {asker, fin1, fin2}
    Askers = {asker}
    Roles = {finance}
    RoleOf <- MCRoleOf
    OrgAdmin = finance
    Targets = {t1}
    Policies <- OneApproval
    Sessions = {s1, s2}
    RowLocks = TRUE
    NoRow = NoRow
    NoRole = NoRole
    NoUser = NoUser
    MaxEffects = 1
    NoCall = NoCall
SYMMETRY Symmetry
SPECIFICATION GSpec
PROPERTY OnlyApprovedActions
