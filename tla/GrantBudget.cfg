\* Two lines, two expenses, one worker or two.
CONSTANTS
    e1 = e1
    e2 = e2
    Lines = {l1, l2}
    Categories = {travel, rent}
    Expenses = {e1, e2}
    Cost <- MCCost
    Amounts = {1, 2}
    Sessions = {s1, s2}
    Deployments <- MCDeployments
    NoAward = NoAward
    NoLine = NoLine
    Gone = Gone
    NoAlloc = NoAlloc
SYMMETRY Symmetry
SPECIFICATION Spec
INVARIANTS
    TypeOK
    SpentFitsLine
    SpentFitsAward
    BudgetFitsAward
    LedgerBalances
    NoCircularWait
PROPERTY OnlyUnusedLinesGo
