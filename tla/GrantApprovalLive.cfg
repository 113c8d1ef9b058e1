\* PostgreSQL: every handler ends.
CONSTANTS
    asker = asker
    fin1 = fin1
    fin2 = fin2
    admin = admin
    finance = finance
    org_admin = org_admin
    Requests = {r1}
    Users = {asker, fin1, fin2}
    Askers = {asker}
    Roles = {finance, org_admin}
    RoleOf <- MCRoleOf
    OrgAdmin = org_admin
    Targets = {t1}
    Policies <- TwoApprovals
    Sessions = {s1, s2}
    RowLocks = TRUE
    NoRow = NoRow
    NoRole = NoRole
    NoUser = NoUser
SPECIFICATION FairSpec
PROPERTY HandlersFinish
