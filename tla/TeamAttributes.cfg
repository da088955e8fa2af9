\* A team with a default and an own attribute, two requests at once.
SPECIFICATION MCSpec
CONSTANTS
    d1 = d1
    a1 = a1
    u1 = u1
    x1 = x1
    x2 = x2
    None = None
    Team = {t1}
    User = {u1, u2}
    Attribute = {d1, a1}
    Text = {x1, x2}
    Default <- MCDefault
    Request = {r1, r2}
    MaxFaults = 1
SYMMETRY RequestSymmetry
INVARIANTS TypeOK EveryAttributeIsShown
PROPERTIES DefaultsRemain OneFieldKeepsTheOther
