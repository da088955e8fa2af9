\* One team of two, one goal, two numbers and an unnumbered task; two requests in
\* flight and one failed call.  The instance stops when its numbers are used up.
SPECIFICATION MCSpec
CONSTANTS
    u1 = u1
    Status2 = {"todo", "closed"}
    User = {u1, u2}
    Team = {t1}
    Goal = {g1}
    Uuid = {x1}
    MaxNumber = 2
    GoalType = {"okr", "growth"}
    Request = {r1, r2}
    MaxFaults = 1
    None = None
SYMMETRY RequestSymmetry
INVARIANTS NumbersUnique FiltersAgree ManagersCommentsAreShown
PROPERTIES PatchKeepsTheRest
CHECK_DEADLOCK FALSE
