\* Two organizations and one request at a time, or one organization and two
\* requests.  The system may stop: once two removals have left no active owner
\* every request is refused at its door.
SPECIFICATION MCSpec
CONSTANTS
    o1 = o1
    Org = {o1, o2}
    User = {u1, u2}
    Request = {r1, r2}
    Invitee = {u2}
    None = None
SYMMETRY RequestSymmetry
CHECK_DEADLOCK FALSE
INVARIANTS JoinedOneOrgUnlessOverlapped NoGhostPartition OwnerRemainsUnlessOverlapped AdministratorsFindTheirOrg
PROPERTIES RoleKeptUnlessOverlapped
