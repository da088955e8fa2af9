\* The answer of a removal that failed, one request at a time.
SPECIFICATION MCSpec
CONSTANTS
    o1 = o1
    Org = {o1}
    User = {u1, u2}
    Request = {r1}
    Invitee = {u2}
    None = None
PROPERTY RemovalIsTrue
