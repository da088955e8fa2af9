\* Two owners remove each other at the same time.
SPECIFICATION MCSpec
CONSTANTS
    o1 = o1
    Org = {o1}
    User = {u1, u2}
    Request = {r1, r2}
    Invitee = {u2}
    None = None
SYMMETRY RequestSymmetry
CHECK_DEADLOCK FALSE
INVARIANTS OwnerRemains
