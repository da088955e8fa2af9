------------------------------ MODULE TeamFeed ------------------------------
(***************************************************************************)
(* The feed of a team: posts, likes, comments, polls, checklists and tasks *)
(* of tenant-lambdas/team-feeds/common, which six Lambdas share.           *)
(*                                                                         *)
(* A post is one METADATA item with its counters; likes, comments, votes   *)
(* and checklist items are items of their own beside it.  Nothing here is  *)
(* a transaction: an operation reads the post, perhaps reads again, writes *)
(* one item and then, for likes and comments, updates a counter of the     *)
(* post.  Requests interleave between any two of these calls.              *)
(*                                                                         *)
(* An update without a condition makes the item it does not find: a        *)
(* counter added to a deleted post leaves a "ghost", METADATA with nothing *)
(* but the counter.  All users here are members of the one team; nothing   *)
(* takes a membership away (Teams).                                        *)
(***************************************************************************)
EXTENDS Integers, FiniteSets

CONSTANTS Post, Comment, Item, \* uuids of posts, comments and checklist items
          User, Admin,         \* members of the team and its administrators
          Request,             \* Lambda invocations in flight together
          Operation,           \* the operations clients call in an instance
          Faulty,              \* whether an invocation may die half-way
          MaxLikes, MaxHours,  \* bounds: no like, no hour logged beyond them
          None                 \* an item that does not exist

ASSUME UserAssumption == IsFiniteSet(User) /\ Admin \subseteq User /\ None \notin User
\* A comment's item and a checklist's have keys of different prefixes.
ASSUME PartAssumption == Comment \cap Item = {} /\ IsFiniteSet(Comment)
\* So have the likes of a post and those of a comment.
ASSUME LikeAssumption == Post \cap Comment = {}
ASSUME NoneAssumption == None \notin [post : Post, by : User]
ASSUME FaultyAssumption == Faulty \in BOOLEAN
ASSUME BoundAssumption == MaxLikes \in Nat /\ MaxHours \in Nat

\* kudos and event posts are "update" posts here: they have no parts.
Kind == {"update", "task", "poll", "checklist"}
PostItem == [kind : Kind \cup {"ghost"}, author : User \cup {None}, likes : Int,
             comments : Int, status : {"todo", "done"}, hours : Nat]
Ghost == [kind |-> "ghost", author |-> None, likes |-> 0, comments |-> 0,
          status |-> "todo", hours |-> 0]

VARIABLES post,    \* METADATA items
          created, \* posts whose uuid was drawn
          origin,  \* post and author a comment's or an item's uuid was drawn for
          comment, \* CMMNT# items under the key of a post: "none", "real", or
                   \* "ghost" (content only)
          item,    \* ITEM# items that exist
          liked,   \* LIKE# items of posts and comments
          vote,    \* VOTE# items
          req      \* the requests in flight

vars == <<post, created, origin, comment, item, liked, vote, req>>
parts == <<origin, comment, item, liked, vote>>

PostOps == {"edit", "delete", "status", "logTime"}
PartOps == {"like", "unlike", "comment", "vote", "retract", "addItem"}
CommentOps == {"editComment", "deleteComment", "likeComment", "unlikeComment"}
ItemOps == {"toggle", "removeItem"}

Idle == [pc |-> "idle"]
Call == [pc : {"fetch", "look", "again", "write", "count"},
         op : PostOps \cup PartOps \cup CommentOps \cup ItemOps,
         post : Post, user : User, on : Comment \cup Item \cup {None},
         read : PostItem \cup {None}]

ASSUME OperationAssumption == Operation \subseteq PostOps \cup PartOps \cup CommentOps \cup ItemOps

\* A post is whole or a ghost with counters, and holds what its kind has.
TypeOK == /\ post \in [Post -> PostItem \cup {None}]
          /\ created \subseteq Post
          /\ origin \in [Comment \cup Item -> [post : Post, by : User] \cup {None}]
          /\ comment \in [Post -> [Comment -> {"none", "real", "ghost"}]]
          /\ item \subseteq Item
          /\ liked \subseteq (Post \cup Comment) \X User
          /\ vote \subseteq Post \X User
          /\ req \in [Request -> Call \cup {Idle}]

Init == /\ post = [p \in Post |-> None]
        /\ created = {}
        /\ origin = [x \in Comment \cup Item |-> None]
        /\ comment = [p \in Post |-> [c \in Comment |-> "none"]]
        /\ item = {} /\ liked = {} /\ vote = {}
        /\ req = [r \in Request |-> Idle]
-----------------------------------------------------------------------------
Goto(r, label) == req' = [req EXCEPT ![r].pc = label]
Finish(r) == req' = [req EXCEPT ![r] = Idle]

\* A request of operation op before its call number label.
At(r, op, label) == req[r].pc = label /\ req[r].op = op
P(r) == req[r].post
U(r) == req[r].user

Under(p, xs) == {x \in xs : origin[x] # None /\ origin[x].post = p}

CreatePost(p, u, kind) ==
    /\ p \notin created
    /\ created' = created \cup {p}
    /\ post' = [post EXCEPT ![p] = [Ghost EXCEPT !.kind = kind, !.author = u]]
    /\ UNCHANGED <<parts, req>>

Drawn(x) == origin[x] # None \/ \E r \in Request : req[r] # Idle /\ req[r].on = x

\* What a request names was made once, under the post of its URL or under
\* another: no handler asks which.  An addition draws a fresh uuid.
Targets(op) == CASE op \in CommentOps -> {c \in Comment : origin[c] # None}
                 [] op \in ItemOps -> {i \in Item : origin[i] # None}
                 [] op = "comment" -> {c \in Comment : ~Drawn(c)}
                 [] op = "addItem" -> {i \in Item : ~Drawn(i)}
                 [] OTHER -> {None}

\* The bounds of an instance.
WithinBounds(op, p) == post[p] # None => /\ op = "like" => post[p].likes < MaxLikes
                                         /\ op = "logTime" => post[p].hours < MaxHours

Start(r) ==
    /\ req[r] = Idle
    /\ \E op \in Operation, p \in created, u \in User :
          \E x \in Targets(op) :
             /\ WithinBounds(op, p)
             /\ req' = [req EXCEPT ![r] = [pc |-> "fetch", op |-> op, post |-> p,
                                           user |-> u, on |-> x, read |-> None]]
    /\ UNCHANGED <<post, created, parts>>

KindFor(op) == CASE op = "vote" -> {"poll"}
                 [] op = "addItem" -> {"checklist"}
                 [] op \in {"status", "logTime"} -> {"task"}
                 [] op = "delete" -> Kind \cup {"ghost"}
                 [] OTHER -> Kind

\* ensureTeamAdminOrAuthor; the author alone may edit a post.
MayTouch(u, op, author) ==
    CASE op = "edit" -> u = author
      [] op \in {"delete", "removeItem"} -> u = author \/ u \in Admin
      [] OTHER -> TRUE

\* A post that exists, of the kind the operation is for.  A ghost names no
\* team, so nobody is a member; deletion asks about the team in the URL.
FetchedUnchecked(r) == TRUE
Fetched(r) ==
    LET found == post[P(r)] IN
    /\ found # None
    /\ found.kind \in KindFor(req[r].op)
    /\ MayTouch(U(r), req[r].op, found.author)

\* ensurePostTeamMember and fetchPostRecord read the same item one after the
\* other; the later read decides.
FetchPost(r) ==
    /\ req[r].pc = "fetch"
    /\ IF Fetched(r)
       THEN req' = [req EXCEPT
                 ![r].pc = IF req[r].op \in {"like", "editComment", "deleteComment"}
                           THEN "look" ELSE "write",
                 ![r].read = IF req[r].op \in {"edit", "logTime"} THEN post[P(r)] ELSE None]
       ELSE Finish(r)
    /\ UNCHANGED <<post, created, parts>>
-----------------------------------------------------------------------------
(* Posts and tasks.                                                        *)

PutPostAnew(r) ==
    /\ At(r, "edit", "write")
    /\ post' = [post EXCEPT ![P(r)] = [Ghost EXCEPT !.kind = req[r].read.kind, !.author = U(r)]]
    /\ Finish(r)
    /\ UNCHANGED <<created, parts>>

\* updatePost puts the whole record it read: the edited fields, which are no
\* part of this model, and everything else as it was then.
PutPost(r) ==
    /\ At(r, "edit", "write")
    /\ post' = [post EXCEPT ![P(r)] = req[r].read]
    /\ Finish(r)
    /\ UNCHANGED <<created, parts>>

DeletePost(r) ==
    /\ At(r, "delete", "write")
    /\ post' = [post EXCEPT ![P(r)] = None]
    /\ Finish(r)
    /\ UNCHANGED <<created, parts>>

\* A path into the data map: refused where there is no map.
HasData(p) == post[p] # None /\ post[p].kind # "ghost"

SetTaskStatus(r) ==
    /\ At(r, "status", "write")
    /\ \E s \in {"todo", "done"} :
          post' = IF HasData(P(r)) THEN [post EXCEPT ![P(r)].status = s] ELSE post
    /\ Finish(r)
    /\ UNCHANGED <<created, parts>>

NewTotal(r) == req[r].read.hours + 1     \* an hour is logged at a time

SetTaskTime(r) ==
    /\ At(r, "logTime", "write")
    /\ post' = IF HasData(P(r)) THEN [post EXCEPT ![P(r)].hours = NewTotal(r)] ELSE post
    /\ Finish(r)
    /\ UNCHANGED <<created, parts>>
-----------------------------------------------------------------------------
(* Likes.                                                                  *)

Like(r) == <<P(r), U(r)>>

\* The error of the look-up is ignored: a call that fails has found no like.
LookForLike(r) ==
    /\ At(r, "like", "look")
    /\ \/ Like(r) \in liked /\ Finish(r)
       \/ (Like(r) \notin liked \/ Faulty) /\ Goto(r, "write")
    /\ UNCHANGED <<post, created, parts>>

PutLike(r) ==
    /\ At(r, "like", "write")
    /\ liked' = liked \cup {Like(r)}
    /\ Goto(r, "count")
    /\ UNCHANGED <<post, created, origin, comment, item, vote>>

\* ADD without a condition.
Found(p) == IF post[p] = None THEN Ghost ELSE post[p]

CountLike(r) ==
    /\ At(r, "like", "count")
    /\ Found(P(r)).likes < MaxLikes     \* the bound of an instance
    /\ post' = [post EXCEPT ![P(r)] = [Found(P(r)) EXCEPT !.likes = @ + 1]]
    /\ Finish(r)
    /\ UNCHANGED <<created, parts>>

\* Plausible error: the key of the deletion is the prefix of all likes of the post.
DeleteLikesOfAll(r) ==
    /\ At(r, "unlike", "write")
    /\ liked' = {l \in liked : l[1] # P(r)}
    /\ Goto(r, "count")
    /\ UNCHANGED <<post, created, origin, comment, item, vote>>

DeleteLike(r) ==
    /\ At(r, "unlike", "write")
    /\ liked' = liked \ {Like(r)}
    /\ Goto(r, "count")
    /\ UNCHANGED <<post, created, origin, comment, item, vote>>

\* The condition of the decrements, likeCount > 0 and commentCount > 0.
DecrementAlways(n) == n - 1
Decrement(n) == IF n > 0 THEN n - 1 ELSE n

UncountLike(r) ==
    /\ At(r, "unlike", "count")
    /\ post' = IF post[P(r)] = None THEN post
               ELSE [post EXCEPT ![P(r)].likes = Decrement(@)]
    /\ Finish(r)
    /\ UNCHANGED <<created, parts>>
-----------------------------------------------------------------------------
(* Comments.                                                               *)

PutComment(r) ==
    /\ At(r, "comment", "write")
    /\ origin' = [origin EXCEPT ![req[r].on] = [post |-> P(r), by |-> U(r)]]
    /\ comment' = [comment EXCEPT ![P(r)][req[r].on] = "real"]
    /\ Goto(r, "count")
    /\ UNCHANGED <<post, created, item, liked, vote>>

CountComment(r) ==
    /\ At(r, "comment", "count")
    /\ post' = [post EXCEPT ![P(r)] = [Found(P(r)) EXCEPT !.comments = @ + 1]]
    /\ Finish(r)
    /\ UNCHANGED <<created, parts>>

\* Plausible error: a deletion does not look for the comment, and uncounts it again.
FetchCommentUnchecked(r) ==
    /\ \/ At(r, "editComment", "look") /\ Goto(r, "write")
       \/ At(r, "deleteComment", "look") /\ Goto(r, "again")
    /\ UNCHANGED <<post, created, parts>>

\* fetchCommentByID looks in the index, by the id of the comment alone: it finds
\* a comment of any post, and no ghost, which has no attribute of that index.
Indexed(c) == \E p \in Post : comment[p][c] = "real"

FetchComment(r) ==
    LET c == req[r].on IN
    /\ \/ /\ At(r, "editComment", "look")
          /\ IF Indexed(c) /\ U(r) = origin[c].by THEN Goto(r, "write") ELSE Finish(r)
       \/ /\ At(r, "deleteComment", "look")
          /\ IF Indexed(c) THEN Goto(r, "again") ELSE Finish(r)
    /\ UNCHANGED <<post, created, parts>>

\* The key is made of the post in the URL and the SK the index showed: of a
\* comment of another post there is no such item, and the update makes one.
EditComment(r) ==
    /\ At(r, "editComment", "write")
    /\ comment' = [comment EXCEPT ![P(r)][req[r].on] = IF @ = "none" THEN "ghost" ELSE @]
    /\ Finish(r)
    /\ UNCHANGED <<post, created, origin, item, liked, vote>>

\* deleteComment reads the post of the URL once more, for its team: without one
\* nobody is an administrator, and of a post that is gone nothing is counted off.
FetchPostAgain(r) ==
    /\ At(r, "deleteComment", "again")
    /\ IF U(r) = origin[req[r].on].by \/ (U(r) \in Admin /\ HasData(P(r)))
       THEN req' = [req EXCEPT ![r].pc = "write", ![r].read = post[P(r)]]
       ELSE Finish(r)
    /\ UNCHANGED <<post, created, parts>>

DeleteComment(r) ==
    /\ At(r, "deleteComment", "write")
    /\ comment' = [comment EXCEPT ![P(r)][req[r].on] = "none"]
    /\ IF req[r].read = None THEN Finish(r) ELSE Goto(r, "count")
    /\ UNCHANGED <<post, created, origin, item, liked, vote>>

UncountComment(r) ==
    /\ At(r, "deleteComment", "count")
    /\ post' = IF post[P(r)] = None THEN post
               ELSE [post EXCEPT ![P(r)].comments = Decrement(@)]
    /\ Finish(r)
    /\ UNCHANGED <<created, parts>>

\* likeComment and unlikeComment look at no comment.
ChangeCommentLike(r) ==
    /\ \/ At(r, "likeComment", "write") /\ liked' = liked \cup {<<req[r].on, U(r)>>}
       \/ At(r, "unlikeComment", "write") /\ liked' = liked \ {<<req[r].on, U(r)>>}
    /\ Finish(r)
    /\ UNCHANGED <<post, created, origin, comment, item, vote>>

\* The increment names the keys of the index, which are not the keys of the
\* table: DynamoDB refuses it, and the 0 that addComment wrote stays.
CommentLikeCount(c) == 0
-----------------------------------------------------------------------------
(* Votes and checklist items.                                              *)

ChangeVote(r) ==
    /\ \/ At(r, "vote", "write") /\ vote' = vote \cup {<<P(r), U(r)>>}
       \/ At(r, "retract", "write") /\ vote' = vote \ {<<P(r), U(r)>>}
    /\ Finish(r)
    /\ UNCHANGED <<post, created, origin, comment, item, liked>>

PutItem(r) ==
    /\ At(r, "addItem", "write")
    /\ origin' = [origin EXCEPT ![req[r].on] = [post |-> P(r), by |-> U(r)]]
    /\ item' = item \cup {req[r].on}
    /\ Finish(r)
    /\ UNCHANGED <<post, created, comment, liked, vote>>

\* The item is looked for under the key of the post in the URL.
DeleteItem(r) ==
    /\ At(r, "removeItem", "write")
    /\ item' = item \ ({req[r].on} \cap Under(P(r), Item))
    /\ Finish(r)
    /\ UNCHANGED <<post, created, origin, comment, liked, vote>>

\* Conditional on the item: an item that is gone is "not found".
ToggleUpserts(r) ==
    /\ At(r, "toggle", "write")
    /\ item' = item \cup ({req[r].on} \cap Under(P(r), Item))
    /\ Finish(r)
    /\ UNCHANGED <<post, created, origin, comment, liked, vote>>

ToggleItem(r) ==
    /\ At(r, "toggle", "write")
    /\ Finish(r)
    /\ UNCHANGED <<post, created, parts>>
-----------------------------------------------------------------------------
\* A call fails or the invocation dies: what was written stays.
Abort(r) == /\ Faulty
            /\ req[r] # Idle
            /\ Finish(r)
            /\ UNCHANGED <<post, created, parts>>

ChangePost(r) == PutPost(r) \/ DeletePost(r) \/ SetTaskStatus(r) \/ SetTaskTime(r)
ChangeLike(r) == LookForLike(r) \/ PutLike(r) \/ CountLike(r) \/ DeleteLike(r) \/ UncountLike(r)
ChangeComment(r) == \/ PutComment(r) \/ CountComment(r) \/ FetchComment(r) \/ EditComment(r)
                    \/ FetchPostAgain(r) \/ DeleteComment(r) \/ UncountComment(r) \/ ChangeCommentLike(r)
ChangePart(r) == ChangeVote(r) \/ PutItem(r) \/ DeleteItem(r) \/ ToggleItem(r)

HandleWithGroup(r) ==
    \/ \E p \in Post, u \in User, kind \in Kind : CreatePost(p, u, kind)
    \/ Start(r) \/ FetchPost(r) \/ ChangePost(r) \/ ChangeLike(r) \/ ChangeComment(r) \/ ChangePart(r)

Next == \E r \in Request : HandleWithGroup(r) \/ Abort(r)

Spec == Init /\ [][Next]_vars
-----------------------------------------------------------------------------
Quiet == \A r \in Request : req[r] = Idle
Real(p) == HasData(p)
Comments(p) == {c \in Comment : comment[p][c] # "none"}

\* No counter of a post is ever negative, whatever likes and comments come and
\* go at once: the decrements carry their condition with them.
CountsNonNegative ==
    \A p \in Post : post[p] # None => post[p].likes >= 0 /\ post[p].comments >= 0

\* commentCount and likeCount are the numbers of comments and of likes, when
\* no request is half-way.
CommentsCounted == Quiet => \A p \in Post : Real(p) => post[p].comments = Cardinality(Comments(p))
LikesCounted ==
    Quiet => \A p \in Post : Real(p) => post[p].likes = Cardinality({u \in User : <<p, u>> \in liked})

\* likeCount of a comment.
CommentLikesCounted ==
    \A c \in Comment : Indexed(c) =>
        CommentLikeCount(c) = Cardinality({u \in User : <<c, u>> \in liked})

\* "Delete a post and all its associated records".
DeletionIsComplete ==
    Quiet => \A p \in created : post[p] = None =>
        /\ Comments(p) = {} /\ Under(p, Item) \cap item = {}
        /\ \A u \in User : <<p, u>> \notin liked \cup vote

\* "Delete a comment": once the deletion was made no post has the comment.
DeletionDeletesTheComment ==
    [][\A r \in Request, p \in Post : DeleteComment(r) => comment'[p][req[r].on] # "real"]_vars

\* A deleted post, comment or checklist item does not come back: no stale
\* write and no counter makes an item where there was one.
PostStaysDeleted ==
    [][\A p \in created : post[p] = None => post'[p] = None]_vars
CommentStaysDeleted ==
    [][\A c \in Comment, p \in Post :
          origin[c] # None /\ comment[p][c] = "none" => comment'[p][c] = "none"]_vars
ItemStaysDeleted ==
    [][\A i \in Item : origin[i] # None /\ i \notin item => i \notin item']_vars

\* Editing a post changes what the author edited ("only provide fields you
\* want to update"): not the counters, the status or the time of the task.
EditKeepsTheRest ==
    [][\A r \in Request : PutPost(r) /\ post[P(r)] # None => post'[P(r)] = post[P(r)]]_vars

\* "Add hours worked to a task's time-spent counter (cumulative)".
TimeAccumulates ==
    [][\A r \in Request :
          SetTaskTime(r) /\ Real(P(r)) => post'[P(r)].hours = post[P(r)].hours + 1]_vars

\* "liking an already-liked post is a no-op".
LikeIsIdempotent ==
    [][\A r \in Request : PutLike(r) => Like(r) \notin liked]_vars
=============================================================================
