\* A tenant and a supplier, two sub-domains of two pools, two additions in flight
\* and one failed call.  The instance stops when each stage has its comments.
SPECIFICATION MCSpec
CONSTANTS
    Tenant = {a1}
    Supplier = {a2}
    Contact = {c1, c2}
    SubDomain = {s1, s2}
    Pool = {p1, p2}
    Admin = {u1, u2}
    Comment = {m1, m2}
    Asked = {"OnboardingDemo", "Active", "Inactive", "Nonsense"}
    AdminRequest = {r1, r2}
    MaxComments = 2
    MaxFailures = 1
    Absent = Absent
SYMMETRY Symmetry
INVARIANTS AdminsMatchUsers
PROPERTIES StageShownAsAsked
CHECK_DEADLOCK FALSE
