\* Two requests in flight, one family of records at a time, one failed call.  The
\* instance stops when its ids are used up and its records are gone.
SPECIFICATION MCSpec
CONSTANTS
    c1 = c1
    q1 = q1
    k1 = k1
    k2 = k2
    v1 = v1
    o1 = o1
    kr1 = kr1
    n1 = n1
    e1 = e1
    x1 = x1
    t1 = t1
    u2 = u2
    Cycle = {c1}
    Quarter = {q1}
    KPI = {k1, k2}
    KPIValue = {v1}
    OKR = {o1}
    KeyResult = {kr1}
    MeetingNote = {n1}
    GoalEntry = {e1}
    Task = {x1}
    Team = {t1}
    User = {u1, u2}
    Patch <- MCPatch
    Request = {r1, r2}
    MaxFaults = 1
    Target = 1
    None = None
SYMMETRY RequestSymmetry
INVARIANTS NothingIsLeftBehind EveryRecordIsShown
PROPERTIES DeletedStaysDeleted PatchKeepsTheRest
CHECK_DEADLOCK FALSE
