\* A post deleted while another request is at work on it.
SPECIFICATION Spec
CONSTANTS
    Post = {p1}
    Comment = {}
    Item = {}
    User = {u1, u2}
    Admin = {u1}
    Request = {r1, r2}
    Operation = {"like", "edit", "delete"}
    Faulty = FALSE
    MaxLikes = 2
    MaxHours = 2
    None = None
PROPERTIES PostStaysDeleted
