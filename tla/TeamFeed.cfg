\* All operations one at a time, or two requests in flight that may die.
SPECIFICATION MCSpec
CONSTANTS
    c1 = c1
    p1 = p1
    Post = {p1, p2}
    Comment = {c1, c2}
    Item = {i1}
    User = {u1, u2}
    Admin = {u1}
    Request = {r1, r2}
    Operation <- MCAllOperations
    Faulty = TRUE
    MaxLikes = 2
    MaxHours = 2
    None = None
SYMMETRY RequestSymmetry
INVARIANTS CommentsCountedUnlessDisturbed LikesNotOverstatedUnlessDisturbed CountsNonNegative FeedShowsWhatItKeeps
PROPERTIES NothingIsUndoneUnlessDisturbed ItemStaysDeleted
