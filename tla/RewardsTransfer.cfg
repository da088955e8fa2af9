\* Two groups with an administrator's and a user's messages; one of the points
\* asked for is a value ValidateInput rejects.
SPECIFICATION MCSpec
CONSTANTS
    t1 = t1
    t2 = t2
    User = {admin, b}
    Admin = admin
    Type = {t1}
    Kudos = {k1}
    Inception = {i1}
    Grant = {g1}
    Gift <- OneType
    Points = {0, 1}
    Initial = 1
    BatchSize = 2
    MaxCrashes = 1
    MaxFaults = 1
    MaxForgets = 1
INVARIANTS SuccessIsTrue
PROPERTIES LedgerImplemented LeavesHandled HandledUnlessPoisoned AppliedIsLogged
CHECK_DEADLOCK FALSE
