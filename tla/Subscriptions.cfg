\* One application at a time for two organizations, or two in flight for one.
SPECIFICATION MCSpec
CONSTANTS
    c1 = c1
    c2 = c2
    o1 = o1
    Org = {o1, o2}
    Code = {c1, c2}
    Request = {r1, r2}
    TrialDays = 3
    MaxDay = 2
    MaxApplied = 3
    NoCode = NoCode
    Offer <- MCOffer
SYMMETRY RequestSymmetry
INVARIANTS OvershootBounded AppliedCodesAreCounted
PROPERTIES TrialNeverShortenedUnlessOverlapped AppliedToAPlanOfItsTime
