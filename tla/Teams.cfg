\* Two requests in flight on a team of two users.
SPECIFICATION MCSpec
CONSTANTS
    Team = {t1}
    User = {u1, u2}
    Request = {r1, r2}
    Founder = {u1}
    NoTeam = NoTeam
    None = None
SYMMETRY RequestSymmetry
INVARIANTS MembersCounted AdminRemainsUnlessOverlapped MembersSeeTheirTeams
PROPERTIES InviteLinksUnlessOverlapped AddsOnFreshStanding
