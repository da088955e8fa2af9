--------------------------- MODULE TeamFeedProofs ---------------------------
(***************************************************************************)
(* What TeamFeed keeps for every set of posts, users and requests, however *)
(* the calls of the requests interleave: its types, counters that are      *)
(* never negative, a feed that shows all there is under its posts and      *)
(* items that stay deleted; and, at the posts that requests come to one by *)
(* one, comments that are counted, likes that are never overstated and     *)
(* writes that undo nothing.                                               *)
(***************************************************************************)
EXTENDS TeamFeedOverlap, FiniteSetTheorems, TLAPS

Counted == {x \in PostItem : x.likes >= 0 /\ x.comments >= 0}
PostsCounted == post \in [Post -> Counted \cup {None}]

\* An edit puts back what it read long before: what it holds must be counted
\* too, or the invariant would say nothing of the post after it.
Holds(q) == /\ q.read \in Counted \cup {None}
            /\ q.pc # "fetch" /\ q.op \in {"edit", "logTime"} => q.read \in Counted
Names(q) == /\ q.op \in CommentOps \cup {"comment"} => q.on \in Comment
            /\ q.op \in ItemOps \cup {"addItem"} => q.on \in Item
InFlight == \A r \in Request : req[r] # Idle => Holds(req[r]) /\ Names(req[r])

IInv == TypeOK /\ PostsCounted /\ InFlight

LEMMA GhostIsCounted == Ghost \in Counted
BY DEF Ghost, Counted, PostItem

\* A post just created counts nothing.
LEMMA NewIsCounted ==
    ASSUME NEW u \in User, NEW kind \in Kind
    PROVE  [Ghost EXCEPT !.kind = kind, !.author = u] \in Counted
<1>1. Ghost.likes = 0 /\ Ghost.comments = 0 /\ Ghost \in PostItem
  BY DEF Ghost, PostItem
<1>2. [Ghost EXCEPT !.kind = kind] \in Counted
  BY <1>1 DEF Counted, PostItem
<1> QED
  BY <1>2 DEF Counted, PostItem

LEMMA CountedIsPost == Counted \subseteq PostItem
BY DEF Counted

LEMMA InitInv == Init => IInv
<1> SUFFICES ASSUME Init PROVE IInv
  OBVIOUS
<1>1. TypeOK
  BY DEF Init, TypeOK
<1>2. PostsCounted /\ InFlight
  BY DEF Init, PostsCounted, InFlight
<1> QED
  BY <1>1, <1>2 DEF IInv
-----------------------------------------------------------------------------
(* What a step keeps that writes one post, or none, and one request.       *)

LEMMA PostPut ==
    ASSUME IInv, NEW p, NEW x \in Counted \cup {None}, post' = [post EXCEPT ![p] = x]
    PROVE  PostsCounted' /\ post' \in [Post -> PostItem \cup {None}]
BY CountedIsPost DEF IInv, PostsCounted

LEMMA RequestFinishes ==
    ASSUME IInv, NEW r \in Request, Finish(r)
    PROVE  InFlight' /\ req' \in [Request -> Call \cup {Idle}]
BY DEF IInv, TypeOK, InFlight, Finish

\* A request in flight is a call: the idle one has a label of its own.
LEMMA RequestIsCall ==
    ASSUME IInv, NEW r \in Request, req[r].pc # "idle"
    PROVE  req[r] \in Call /\ Holds(req[r]) /\ Names(req[r])
BY DEF IInv, TypeOK, InFlight, Idle

LEMMA RequestGoes ==
    ASSUME IInv, NEW r \in Request, NEW label \in {"look", "again", "write", "count"},
           req[r].pc \notin {"idle", "fetch"}, Goto(r, label)
    PROVE  InFlight' /\ req' \in [Request -> Call \cup {Idle}]
<1>1. req[r] \in Call /\ Holds(req[r]) /\ Names(req[r])
  BY RequestIsCall
<1>2. req'[r] = [req[r] EXCEPT !.pc = label]
  BY DEF IInv, TypeOK, Goto
<1>3. req'[r] \in Call
  BY <1>1, <1>2 DEF Call
<1>4. req'[r].op = req[r].op /\ req'[r].on = req[r].on /\ req'[r].read = req[r].read
  BY <1>1, <1>2 DEF Call
<1>5. Holds(req'[r]) /\ Names(req'[r])
  BY <1>1, <1>4 DEF Holds, Names
<1> QED
  BY <1>3, <1>5 DEF IInv, TypeOK, InFlight, Goto

\* After Goto the request is at the label.
LEMMA GoneTo ==
    ASSUME IInv, NEW r \in Request, NEW label, req[r] \in Call, Goto(r, label)
    PROVE  req'[r].pc = label
<1>1. req'[r] = [req[r] EXCEPT !.pc = label]
  BY DEF IInv, TypeOK, Goto
<1> QED
  BY <1>1 DEF Call

LEMMA CreateKeeps ==
    ASSUME IInv, NEW p \in Post, NEW u \in User, NEW kind \in Kind, CreatePost(p, u, kind)
    PROVE  IInv'
<1>1. PostsCounted' /\ post' \in [Post -> PostItem \cup {None}]
  BY NewIsCounted, PostPut DEF CreatePost
<1>2. TypeOK' /\ InFlight'
  BY <1>1 DEF IInv, TypeOK, InFlight, CreatePost, parts
<1> QED
  BY <1>1, <1>2 DEF IInv

LEMMA StartKeeps == ASSUME IInv, NEW r \in Request, Start(r) PROVE IInv'
<1>1. PICK op \in Operation, p \in created, u \in User : \E x \in Targets(op) :
          req' = [req EXCEPT ![r] = [pc |-> "fetch", op |-> op, post |-> p,
                                     user |-> u, on |-> x, read |-> None]]
  BY DEF Start
<1>2. PICK x \in Targets(op) :
          req' = [req EXCEPT ![r] = [pc |-> "fetch", op |-> op, post |-> p,
                                     user |-> u, on |-> x, read |-> None]]
  BY <1>1
<1> DEFINE call == [pc |-> "fetch", op |-> op, post |-> p, user |-> u, on |-> x, read |-> None]
<1>3. /\ op \in CommentOps \cup {"comment"} => x \in Comment
      /\ op \in ItemOps \cup {"addItem"} => x \in Item
      /\ op \notin CommentOps \cup ItemOps \cup {"comment", "addItem"} => x = None
  BY <1>2 DEF Targets, CommentOps, ItemOps
<1>4. call \in Call /\ Holds(call) /\ Names(call)
  BY <1>3, OperationAssumption DEF IInv, TypeOK, Call, Holds, Names
<1>5. InFlight' /\ req' \in [Request -> Call \cup {Idle}]
  BY <1>2, <1>4 DEF IInv, TypeOK, InFlight
<1> QED
  BY <1>5 DEF IInv, TypeOK, PostsCounted, Start, parts

\* What the request holds from then on is the post as it is now.
LEMMA FetchKeeps == ASSUME IInv, NEW r \in Request, FetchPost(r) PROVE IInv'
<1>1. InFlight' /\ req' \in [Request -> Call \cup {Idle}]
  <2>1. CASE ~Fetched(r)
    BY <2>1, RequestFinishes DEF FetchPost
  <2>2. CASE Fetched(r)
    <3>1. req[r] \in Call /\ Holds(req[r]) /\ Names(req[r])
      BY RequestIsCall DEF FetchPost
    <3>2. post[P(r)] \in Counted
      BY <2>2, <3>1 DEF Fetched, IInv, PostsCounted, P, Call
    <3>3. PICK label \in {"look", "write"}, x \in Counted \cup {None} :
              /\ req' = [req EXCEPT ![r].pc = label, ![r].read = x]
              /\ req[r].op \in {"edit", "logTime"} => x \in Counted
      BY <2>2, <3>2 DEF FetchPost
    <3>4. req'[r] = [req[r] EXCEPT !.pc = label, !.read = x]
      BY <3>3 DEF IInv, TypeOK
    <3>5. req'[r] \in Call
      BY <3>1, <3>4, CountedIsPost DEF Call
    <3>6. req'[r].op = req[r].op /\ req'[r].on = req[r].on /\ req'[r].read = x
      BY <3>1, <3>4 DEF Call
    <3>7. Holds(req'[r]) /\ Names(req'[r])
      BY <3>1, <3>3, <3>6 DEF Holds, Names
    <3> QED
      BY <3>3, <3>5, <3>7 DEF IInv, TypeOK, InFlight
  <2> QED
    BY <2>1, <2>2
<1> QED
  BY <1>1 DEF IInv, TypeOK, PostsCounted, FetchPost, parts
-----------------------------------------------------------------------------
(* One lemma for each group of operations.                                 *)

LEMMA ChangePostKeeps == ASSUME IInv, NEW r \in Request, ChangePost(r) PROVE IInv'
<1> DEFINE call == req[r]
<1>1. call.pc # "idle" /\ Finish(r) /\ UNCHANGED <<created, parts>>
  BY DEF ChangePost, PutPost, DeletePost, SetTaskStatus, SetTaskTime, At
<1>2. call \in Call /\ Holds(call)
  BY <1>1, RequestIsCall
<1>3. PICK x \in Counted \cup {None} : post' = [post EXCEPT ![P(r)] = x]
  <2>1. CASE PutPost(r)
    BY <1>2, <2>1 DEF PutPost, Holds
  <2>2. CASE DeletePost(r)
    BY <2>2 DEF DeletePost
  <2>3. post = [post EXCEPT ![P(r)] = post[P(r)]] /\ post[P(r)] \in Counted \cup {None}
    BY <1>2 DEF IInv, PostsCounted, P, Call
  <2>4. HasData(P(r)) => post[P(r)] \in Counted
    BY <2>3 DEF HasData
  <2>5. CASE SetTaskStatus(r)
    <3>1. CASE ~HasData(P(r))
      BY <2>3, <2>5, <3>1 DEF SetTaskStatus
    <3>2. CASE HasData(P(r))
      <4>1. PICK s \in {"todo", "done"} : post' = [post EXCEPT ![P(r)].status = s]
        BY <2>5, <3>2 DEF SetTaskStatus
      <4>2. [post[P(r)] EXCEPT !.status = s] \in Counted
        BY <2>4, <3>2 DEF Counted, PostItem
      <4> QED
        BY <4>1, <4>2
    <3> QED
      BY <3>1, <3>2
  <2>6. CASE SetTaskTime(r)
    <3>1. CASE ~HasData(P(r))
      BY <2>3, <2>6, <3>1 DEF SetTaskTime
    <3>2. CASE HasData(P(r))
      <4>1. post' = [post EXCEPT ![P(r)].hours = NewTotal(r)]
        BY <2>6, <3>2 DEF SetTaskTime
      <4>2. NewTotal(r) \in Nat
        BY <1>2, <2>6 DEF SetTaskTime, At, Holds, NewTotal, Counted, PostItem
      <4>3. [post[P(r)] EXCEPT !.hours = NewTotal(r)] \in Counted
        BY <2>4, <3>2, <4>2 DEF Counted, PostItem
      <4> QED
        BY <4>1, <4>3
    <3> QED
      BY <3>1, <3>2
  <2> QED
    BY <2>1, <2>2, <2>5, <2>6 DEF ChangePost
<1>4. PostsCounted' /\ post' \in [Post -> PostItem \cup {None}]
  BY <1>3, PostPut
<1> QED
  BY <1>1, <1>4, RequestFinishes DEF IInv, TypeOK, parts

\* The counters go up from what is there, or from a ghost's zero, and down
\* only from more than zero.
LEMMA CounterKeeps ==
    ASSUME IInv, NEW r \in Request,
           CountLike(r) \/ UncountLike(r) \/ CountComment(r) \/ UncountComment(r)
    PROVE  IInv'
<1>1. req[r].pc # "idle" /\ Finish(r) /\ UNCHANGED <<created, parts>>
  BY DEF CountLike, UncountLike, CountComment, UncountComment, At
<1>2. req[r] \in Call
  BY <1>1, RequestIsCall
<1>3. post[P(r)] \in Counted \cup {None} /\ post = [post EXCEPT ![P(r)] = post[P(r)]]
  BY <1>2 DEF IInv, PostsCounted, P, Call
<1>4. Found(P(r)) \in Counted
  BY <1>3, GhostIsCounted DEF Found
<1>5. PICK x \in Counted \cup {None} : post' = [post EXCEPT ![P(r)] = x]
  <2>1. CASE CountLike(r)
    <3>1. [Found(P(r)) EXCEPT !.likes = @ + 1] \in Counted
      BY <1>4 DEF Counted, PostItem
    <3> QED
      BY <2>1, <3>1 DEF CountLike
  <2>2. CASE CountComment(r)
    <3>1. [Found(P(r)) EXCEPT !.comments = @ + 1] \in Counted
      BY <1>4 DEF Counted, PostItem
    <3> QED
      BY <2>2, <3>1 DEF CountComment
  <2>3. CASE UncountLike(r)
    <3>1. post[P(r)] # None =>
              [post[P(r)] EXCEPT !.likes = Decrement(@)] \in Counted
      BY <1>3 DEF Counted, PostItem, Decrement
    <3> QED
      BY <1>3, <2>3, <3>1 DEF UncountLike
  <2>4. CASE UncountComment(r)
    <3>1. post[P(r)] # None =>
              [post[P(r)] EXCEPT !.comments = Decrement(@)] \in Counted
      BY <1>3 DEF Counted, PostItem, Decrement
    <3> QED
      BY <1>3, <2>4, <3>1 DEF UncountComment
  <2> QED
    BY <2>1, <2>2, <2>3, <2>4
<1>6. PostsCounted' /\ post' \in [Post -> PostItem \cup {None}]
  BY <1>5, PostPut
<1> QED
  BY <1>1, <1>6, RequestFinishes DEF IInv, TypeOK, parts

LEMMA ChangeLikeKeeps == ASSUME IInv, NEW r \in Request, ChangeLike(r) PROVE IInv'
<1>1. CASE LookForLike(r)
  <2>1. InFlight' /\ req' \in [Request -> Call \cup {Idle}]
    BY <1>1, RequestFinishes, RequestGoes DEF LookForLike, At
  <2> QED
    BY <1>1, <2>1 DEF IInv, TypeOK, PostsCounted, LookForLike, parts
<1>2. CASE PutLike(r) \/ DeleteLike(r)
  <2>1. InFlight' /\ req' \in [Request -> Call \cup {Idle}]
    BY <1>2, RequestGoes DEF PutLike, DeleteLike, At
  <2>2. Like(r) \in Post \X User
    BY <1>2, RequestIsCall DEF PutLike, DeleteLike, At, Like, P, U, Call
  <2>3. liked' \subseteq (Post \cup Comment) \X User
    BY <1>2, <2>2 DEF IInv, TypeOK, PutLike, DeleteLike
  <2> QED
    BY <1>2, <2>1, <2>3 DEF IInv, TypeOK, PostsCounted, PutLike, DeleteLike
<1> QED
  BY <1>1, <1>2, CounterKeeps DEF ChangeLike

LEMMA ChangeCommentKeeps == ASSUME IInv, NEW r \in Request, ChangeComment(r) PROVE IInv'
<1>1. CASE FetchComment(r)
  <2>1. InFlight' /\ req' \in [Request -> Call \cup {Idle}]
    BY <1>1, RequestFinishes, RequestGoes DEF FetchComment, At
  <2> QED
    BY <1>1, <2>1 DEF IInv, TypeOK, PostsCounted, FetchComment, parts
<1>2. CASE PutComment(r)
  <2>1. InFlight' /\ req' \in [Request -> Call \cup {Idle}]
    BY <1>2, RequestGoes DEF PutComment, At
  <2>2. [post |-> P(r), by |-> U(r)] \in [post : Post, by : User]
    BY <1>2, RequestIsCall DEF PutComment, At, P, U, Call
  <2> QED
    BY <1>2, <2>1, <2>2 DEF IInv, TypeOK, PostsCounted, PutComment
<1>3. CASE DeleteComment(r)
  <2>1. InFlight' /\ req' \in [Request -> Call \cup {Idle}]
    BY <1>3, RequestFinishes, RequestGoes DEF DeleteComment, At
  <2> QED
    BY <1>3, <2>1 DEF IInv, TypeOK, PostsCounted, DeleteComment
<1>4. CASE EditComment(r)
  BY <1>4, RequestFinishes DEF IInv, TypeOK, PostsCounted, EditComment
<1>5. CASE ChangeCommentLike(r)
  <2>1. req[r].on \in Comment /\ U(r) \in User
    BY <1>5, RequestIsCall DEF ChangeCommentLike, At, Names, CommentOps, U, Call
  <2>2. liked' \subseteq (Post \cup Comment) \X User
    BY <1>5, <2>1 DEF IInv, TypeOK, ChangeCommentLike
  <2> QED
    BY <1>5, <2>2, RequestFinishes DEF IInv, TypeOK, PostsCounted, ChangeCommentLike
<1>6. CASE FetchPostAgain(r)
  <2>1. InFlight' /\ req' \in [Request -> Call \cup {Idle}]
    <3>1. CASE Finish(r)
      BY <3>1, RequestFinishes
    <3>2. CASE req' = [req EXCEPT ![r].pc = "write", ![r].read = post[P(r)]]
      <4>1. req[r] \in Call /\ Names(req[r]) /\ req[r].op = "deleteComment"
        BY <1>6, RequestIsCall DEF FetchPostAgain, At
      <4>2. post[P(r)] \in Counted \cup {None}
        BY <4>1 DEF IInv, PostsCounted, P, Call
      <4>3. req'[r] = [req[r] EXCEPT !.pc = "write", !.read = post[P(r)]]
        BY <3>2 DEF IInv, TypeOK
      <4>4. /\ req'[r] \in Call /\ req'[r].op = req[r].op /\ req'[r].on = req[r].on
            /\ req'[r].read = post[P(r)]
        BY <4>1, <4>2, <4>3, CountedIsPost DEF Call
      <4>5. Holds(req'[r]) /\ Names(req'[r])
        BY <4>1, <4>2, <4>4 DEF Holds, Names
      <4> QED
        BY <3>2, <4>4, <4>5 DEF IInv, TypeOK, InFlight
    <3> QED
      BY <1>6, <3>1, <3>2 DEF FetchPostAgain
  <2> QED
    BY <1>6, <2>1 DEF IInv, TypeOK, PostsCounted, FetchPostAgain, parts
<1> QED
  BY <1>1, <1>2, <1>3, <1>4, <1>5, <1>6, CounterKeeps DEF ChangeComment

LEMMA ChangePartKeeps == ASSUME IInv, NEW r \in Request, ChangePart(r) PROVE IInv'
<1>1. req[r].pc # "idle" /\ Finish(r) /\ UNCHANGED <<post, created, comment, liked>>
  BY DEF ChangePart, ChangeVote, PutItem, DeleteItem, ToggleItem, At, parts
<1>2. P(r) \in Post /\ U(r) \in User /\ Names(req[r])
  BY <1>1, RequestIsCall DEF P, U, Call
<1>3. CASE ChangeVote(r)
  BY <1>1, <1>2, <1>3, RequestFinishes DEF IInv, TypeOK, PostsCounted, ChangeVote
<1>4. CASE PutItem(r)
  BY <1>1, <1>2, <1>4, RequestFinishes DEF IInv, TypeOK, PostsCounted, PutItem, At, Names
<1>5. CASE DeleteItem(r) \/ ToggleItem(r)
  BY <1>1, <1>5, RequestFinishes DEF IInv, TypeOK, PostsCounted, DeleteItem, ToggleItem, parts
<1> QED
  BY <1>3, <1>4, <1>5 DEF ChangePart
-----------------------------------------------------------------------------
LEMMA NextInv == IInv /\ [Next]_vars => IInv'
<1> SUFFICES ASSUME IInv, [Next]_vars PROVE IInv'
  OBVIOUS
<1>1. CASE UNCHANGED vars
  BY <1>1 DEF IInv, TypeOK, PostsCounted, InFlight, vars
<1>2. ASSUME NEW r \in Request, Abort(r) PROVE IInv'
  BY <1>2, RequestFinishes DEF IInv, TypeOK, PostsCounted, Abort, parts
<1> QED
  BY <1>1, <1>2, CreateKeeps, StartKeeps, FetchKeeps, ChangePostKeeps, ChangeLikeKeeps,
     ChangeCommentKeeps, ChangePartKeeps DEF Next, HandleWithGroup

LEMMA InvIsInductive == Spec => []IInv
<1> QED
  BY InitInv, NextInv, PTL DEF Spec

\* Every reachable state of TeamFeed is well typed: no operation leaves a post
\* in a form another one cannot read, a ghost being one of the forms.
THEOREM TypeCorrect == Spec => []TypeOK
<1>1. IInv => TypeOK
  BY DEF IInv
<1> QED
  BY <1>1, InvIsInductive, PTL

\* However many requests like, unlike, comment and delete at once, and however
\* old the post is that an edit puts back, no counter is ever negative.
THEOREM CountersNonNegative == Spec => []CountsNonNegative
<1>1. IInv => CountsNonNegative
  BY DEF IInv, PostsCounted, CountsNonNegative, Counted
<1> QED
  BY <1>1, InvIsInductive, PTL
-----------------------------------------------------------------------------
(* Uuids are fresh, a comment the index finds is under its own post, and a   *)
(* post is of one kind for life: the kind of the post when it is read,       *)
(* whatever stale writes of it there are, and the kind a vote, an item or an *)
(* edit in flight has read.                                                  *)

Draws(r) == req[r] # Idle /\ req[r].op \in {"comment", "addItem"}
Fresh == \A r \in Request : Draws(r) =>
             /\ req[r].pc # "count" => origin[req[r].on] = None
             /\ \A s \in Request \ {r} : Draws(s) => req[s].on # req[r].on

Made(x, p) == origin[x] # None /\ origin[x].post = p
Targeted == \A r \in Request :
    req[r] # Idle /\ req[r].op \in CommentOps => origin[req[r].on] # None

\* An edit by the URL of another post makes a ghost there, never a whole comment.
Homes == \A p \in Post, c \in Comment :
    /\ comment[p][c] # "none" => origin[c] # None
    /\ comment[p][c] = "real" => Made(c, p)

\* Nothing is known of a post whose uuid is still to be drawn.
Bare(p) == /\ post[p] = None
           /\ \A r \in Request : ~UnderWay(r, p)
           /\ \A u \in User : <<p, u>> \notin vote
           /\ \A x \in Comment \cup Item : ~Made(x, p)
           /\ \A c \in Comment : comment[p][c] = "none"
Drawings == \A p \in Post \ created : Bare(p)

OfKind(p, k) ==
    /\ HasData(p) => post[p].kind = k
    /\ \A u \in User : <<p, u>> \in vote => k = "poll"
    /\ \A i \in Item : Made(i, p) => k = "checklist"
    /\ \A r \in Request : UnderWay(r, p) /\ req[r].pc # "fetch" =>
          /\ req[r].op = "vote" => k = "poll"
          /\ req[r].op = "addItem" => k = "checklist"
          /\ req[r].op = "edit" => req[r].read.kind = k
KindsAgree == \A p \in Post : \E k \in Kind : OfKind(p, k)

KInv == Fresh /\ Targeted /\ Homes /\ Drawings /\ KindsAgree

\* What a step of a request in flight does to the requests, to the uuids, to the
\* votes and to the kinds of the posts.
InFlightStep(r) == \/ FetchPost(r) \/ ChangePost(r) \/ ChangeLike(r) \/ ChangeComment(r)
                   \/ ChangePart(r) \/ Abort(r)
Advances(r) ==
    /\ req[r] \in Call /\ req[r] # Idle /\ created' = created
    /\ req' \in [Request -> Call \cup {Idle}]
    /\ \A s \in Request \ {r} : req'[s] = req[s]
    /\ \/ req'[r] = Idle
       \/ /\ req'[r] # Idle
          /\ req'[r].op = req[r].op /\ req'[r].post = req[r].post /\ req'[r].on = req[r].on
          /\ req[r].pc # "count" /\ req'[r].pc # "fetch"
          /\ IF req[r].pc = "fetch"
             THEN /\ Fetched(r)
                  /\ req[r].op \in {"edit", "logTime"} => req'[r].read = post[P(r)]
             ELSE req[r].op # "deleteComment" => req'[r].read = req[r].read
Draw(r) == /\ req[r].op \in {"comment", "addItem"} /\ req[r].pc = "write"
           /\ origin' = [origin EXCEPT ![req[r].on] = [post |-> P(r), by |-> U(r)]]
           /\ req'[r] = Idle \/ req'[r].pc = "count"
Votes(r) == \A p, u : <<p, u>> \in vote' =>
    <<p, u>> \in vote \/ (p = P(r) /\ At(r, "vote", "write"))
KindStays(p) == HasData(p) /\ post'[p].kind = post[p].kind
Kinds(r) == \A p \in Post : HasData(p)' =>
    KindStays(p) \/ (p = P(r) /\ At(r, "edit", "write") /\ post'[p].kind = req[r].read.kind)

LEMMA GoingAdvances ==
    ASSUME IInv, NEW r \in Request, NEW label \in {"again", "write", "count"}, created' = created,
           req[r].pc \in {"look", "write"}, Goto(r, label)
    PROVE  Advances(r) /\ req'[r].pc = label
<1>1. req[r] \in Call /\ req[r] # Idle
  BY RequestIsCall DEF Idle
<1>2. req'[r] = [req[r] EXCEPT !.pc = label]
  BY DEF IInv, TypeOK, Goto
<1>3. /\ req'[r] \in Call /\ req'[r].pc = label /\ req'[r].op = req[r].op
      /\ req'[r].post = req[r].post /\ req'[r].on = req[r].on /\ req'[r].read = req[r].read
  BY <1>1, <1>2 DEF Call
<1>4. req'[r] # Idle
  BY <1>3 DEF Idle
<1>5. req' \in [Request -> Call \cup {Idle}]
  BY <1>3 DEF IInv, TypeOK, Goto
<1>6. \A s \in Request \ {r} : req'[s] = req[s]
  BY DEF IInv, TypeOK, Goto
<1> QED
  BY <1>1, <1>3, <1>4, <1>5, <1>6 DEF Advances

LEMMA FinishAdvances ==
    ASSUME IInv, NEW r \in Request, created' = created, req[r] # Idle, Finish(r)
    PROVE  Advances(r) /\ req'[r] = Idle
BY DEF IInv, TypeOK, Finish, Advances

\* The post a deletion of a comment holds is the post as it is now.
LEMMA AgainAdvances ==
    ASSUME IInv, NEW r \in Request, FetchPostAgain(r)
    PROVE  Advances(r) /\ (req'[r] # Idle => req'[r].pc = "write" /\ req'[r].read = post[P(r)])
<1>1. req[r] \in Call /\ req[r] # Idle /\ req[r].pc = "again" /\ req[r].op = "deleteComment"
  BY RequestIsCall DEF FetchPostAgain, At, Idle
<1>2. CASE Finish(r)
  BY <1>1, <1>2, FinishAdvances DEF FetchPostAgain
<1>3. CASE req' = [req EXCEPT ![r].pc = "write", ![r].read = post[P(r)]]
  <2>1. req'[r] = [req[r] EXCEPT !.pc = "write", !.read = post[P(r)]]
    BY <1>3 DEF IInv, TypeOK
  <2>2. /\ req'[r].pc = "write" /\ req'[r].op = req[r].op
        /\ req'[r].post = req[r].post /\ req'[r].on = req[r].on /\ req'[r].read = post[P(r)]
    BY <1>1, <2>1 DEF Call
  <2>3. req'[r] # Idle
    BY <2>2 DEF Idle
  <2>4. req' \in [Request -> Call \cup {Idle}]
    BY ChangeCommentKeeps DEF ChangeComment, IInv, TypeOK
  <2>5. \A s \in Request \ {r} : req'[s] = req[s]
    BY <1>3 DEF IInv, TypeOK
  <2> QED
    BY <1>1, <2>2, <2>3, <2>4, <2>5 DEF Advances, FetchPostAgain, parts
<1> QED
  BY <1>2, <1>3 DEF FetchPostAgain

LEMMA FetchAdvances ==
    ASSUME IInv, NEW r \in Request, FetchPost(r)
    PROVE  /\ Advances(r)
           /\ req'[r] # Idle => /\ req'[r].pc \in {"look", "write"}
                                /\ req[r].op \in {"editComment", "deleteComment"} => req'[r].pc = "look"
<1>1. req[r] \in Call /\ req[r] # Idle
  BY RequestIsCall DEF FetchPost, Idle
<1>2. CASE ~Fetched(r)
  BY <1>1, <1>2, FinishAdvances DEF FetchPost
<1>3. CASE Fetched(r)
  <2>1. PICK label \in {"look", "write"}, x \in {post[P(r)], None} :
            /\ req' = [req EXCEPT ![r].pc = label, ![r].read = x]
            /\ req[r].op \in {"edit", "logTime"} => x = post[P(r)]
            /\ req[r].op \in {"editComment", "deleteComment"} => label = "look"
    BY <1>3 DEF FetchPost
  <2>2. req'[r] = [req[r] EXCEPT !.pc = label, !.read = x]
    BY <2>1 DEF IInv, TypeOK
  <2>3. /\ req'[r].pc = label /\ req'[r].op = req[r].op
        /\ req'[r].post = req[r].post /\ req'[r].on = req[r].on /\ req'[r].read = x
    BY <1>1, <2>2 DEF Call
  <2>4. req'[r] # Idle
    BY <2>3 DEF Idle
  <2>5. req' \in [Request -> Call \cup {Idle}]
    BY FetchKeeps DEF IInv, TypeOK
  <2>6. \A s \in Request \ {r} : req'[s] = req[s]
    BY <2>1 DEF IInv, TypeOK
  <2> QED
    BY <1>1, <1>3, <2>1, <2>3, <2>4, <2>5, <2>6 DEF Advances, FetchPost, parts
<1> QED
  BY <1>2, <1>3

LEMMA ChangePostAdvances ==
    ASSUME IInv, NEW r \in Request, ChangePost(r)
    PROVE  Advances(r) /\ Votes(r) /\ origin' = origin /\ Kinds(r)
<1>1. req[r] # Idle /\ Finish(r) /\ UNCHANGED <<created, parts>>
  BY DEF ChangePost, PutPost, DeletePost, SetTaskStatus, SetTaskTime, At, Idle
<1>2. Advances(r) /\ Votes(r) /\ origin' = origin
  BY <1>1, FinishAdvances DEF parts, Votes
<1>3. P(r) \in Post
  BY <1>2 DEF Advances, P, Call
<1>4. post[P(r)] \in PostItem \cup {None}
  BY <1>3 DEF IInv, TypeOK
<1>5. ASSUME NEW p \in Post, HasData(p)'
      PROVE  KindStays(p) \/ (p = P(r) /\ At(r, "edit", "write") /\ post'[p].kind = req[r].read.kind)
  <2>1. CASE p # P(r)
    <3>1. post'[p] = post[p]
      BY <2>1, <1>3 DEF IInv, TypeOK, ChangePost, PutPost, DeletePost, SetTaskStatus, SetTaskTime
    <3> QED
      BY <3>1, <1>5 DEF HasData, KindStays
  <2>2. CASE p = P(r)
    <3>1. CASE PutPost(r)
      BY <2>2, <3>1, <1>3 DEF PutPost, IInv, TypeOK
    <3>2. CASE DeletePost(r)
      BY <2>2, <3>2, <1>3, <1>5 DEF DeletePost, IInv, TypeOK, HasData
    <3>3. CASE SetTaskStatus(r)
      <4>1. CASE ~HasData(p)
        BY <2>2, <3>3, <4>1, <1>5 DEF SetTaskStatus, HasData
      <4>2. CASE HasData(p)
        <5>1. PICK s \in {"todo", "done"} : post' = [post EXCEPT ![p].status = s]
          BY <2>2, <3>3, <4>2 DEF SetTaskStatus
        <5>2. post'[p] = [post[p] EXCEPT !.status = s]
          BY <5>1 DEF IInv, TypeOK
        <5>3. post'[p].kind = post[p].kind
          BY <2>2, <5>2, <1>4, <4>2 DEF PostItem, HasData
        <5> QED
          BY <4>2, <5>3 DEF KindStays
      <4> QED
        BY <4>1, <4>2
    <3>4. CASE SetTaskTime(r)
      <4>1. CASE ~HasData(p)
        BY <2>2, <3>4, <4>1, <1>5 DEF SetTaskTime, HasData
      <4>2. CASE HasData(p)
        <5>1. post' = [post EXCEPT ![p].hours = NewTotal(r)]
          BY <2>2, <3>4, <4>2 DEF SetTaskTime
        <5>2. post'[p] = [post[p] EXCEPT !.hours = NewTotal(r)]
          BY <5>1 DEF IInv, TypeOK
        <5>3. post'[p].kind = post[p].kind
          BY <2>2, <5>2, <1>4, <4>2 DEF PostItem, HasData
        <5> QED
          BY <4>2, <5>3 DEF KindStays
      <4> QED
        BY <4>1, <4>2
    <3> QED
      BY <3>1, <3>2, <3>3, <3>4, <2>2 DEF ChangePost, PutPost
  <2> QED
    BY <2>1, <2>2
<1> QED
  BY <1>2, <1>5 DEF Kinds

\* A counter written to a post that is gone makes a ghost, which is of no kind.
LEMMA CounterAdvances ==
    ASSUME IInv, NEW r \in Request,
           CountLike(r) \/ UncountLike(r) \/ CountComment(r) \/ UncountComment(r)
    PROVE  Advances(r) /\ Votes(r) /\ origin' = origin /\ Kinds(r)
<1>1. req[r] # Idle /\ Finish(r) /\ UNCHANGED <<created, parts>>
  BY DEF CountLike, UncountLike, CountComment, UncountComment, At, Idle
<1>2. Advances(r) /\ Votes(r) /\ origin' = origin
  BY <1>1, FinishAdvances DEF parts, Votes
<1>3. P(r) \in Post
  BY <1>2 DEF Advances, P, Call
<1>4. post[P(r)] \in PostItem \cup {None}
  BY <1>3 DEF IInv, TypeOK
<1>5. Found(P(r)) \in PostItem /\ (post[P(r)] = None => Found(P(r)).kind = "ghost")
  BY <1>4, GhostIsCounted DEF Found, Counted, Ghost
<1>6. ASSUME NEW p \in Post, HasData(p)' PROVE KindStays(p)
  <2>1. CASE p # P(r)
    <3>1. post'[p] = post[p]
      BY <2>1, <1>3 DEF IInv, TypeOK, CountLike, UncountLike, CountComment, UncountComment
    <3> QED
      BY <3>1, <1>6 DEF HasData, KindStays
  <2>2. CASE p = P(r)
    <3>1. CASE CountLike(r)
      <4>1. post'[p] = [Found(p) EXCEPT !.likes = @ + 1]
        BY <2>2, <3>1, <1>3 DEF CountLike, IInv, TypeOK
      <4>2. post'[p].kind = Found(p).kind
        BY <4>1, <1>5, <2>2 DEF PostItem
      <4> QED
        BY <4>2, <1>5, <1>6, <2>2 DEF HasData, KindStays, Found
    <3>2. CASE CountComment(r)
      <4>1. post'[p] = [Found(p) EXCEPT !.comments = @ + 1]
        BY <2>2, <3>2, <1>3 DEF CountComment, IInv, TypeOK
      <4>2. post'[p].kind = Found(p).kind
        BY <4>1, <1>5, <2>2 DEF PostItem
      <4> QED
        BY <4>2, <1>5, <1>6, <2>2 DEF HasData, KindStays, Found
    <3>3. CASE UncountLike(r)
      <4>1. post[p] # None
        BY <2>2, <3>3, <1>6 DEF UncountLike, HasData
      <4>2. post'[p] = [post[p] EXCEPT !.likes = Decrement(@)]
        BY <2>2, <3>3, <1>3, <4>1 DEF UncountLike, IInv, TypeOK
      <4>3. post'[p].kind = post[p].kind
        BY <4>1, <4>2, <1>4, <2>2 DEF PostItem
      <4> QED
        BY <4>1, <4>3, <1>6 DEF HasData, KindStays
    <3>4. CASE UncountComment(r)
      <4>1. post[p] # None
        BY <2>2, <3>4, <1>6 DEF UncountComment, HasData
      <4>2. post'[p] = [post[p] EXCEPT !.comments = Decrement(@)]
        BY <2>2, <3>4, <1>3, <4>1 DEF UncountComment, IInv, TypeOK
      <4>3. post'[p].kind = post[p].kind
        BY <4>1, <4>2, <1>4, <2>2 DEF PostItem
      <4> QED
        BY <4>1, <4>3, <1>6 DEF HasData, KindStays
    <3> QED
      BY <3>1, <3>2, <3>3, <3>4
  <2> QED
    BY <2>1, <2>2
<1> QED
  BY <1>2, <1>6 DEF Kinds

LEMMA QuietStep ==
    ASSUME NEW r \in Request, post' = post PROVE Kinds(r)
BY DEF Kinds, KindStays, HasData

LEMMA StepAdvances ==
    ASSUME IInv, NEW r \in Request, InFlightStep(r)
    PROVE  Advances(r) /\ Votes(r) /\ (origin' = origin \/ Draw(r)) /\ Kinds(r)
<1>1. CASE FetchPost(r)
  BY <1>1, FetchAdvances, QuietStep DEF FetchPost, parts, Votes
<1>2. CASE ChangePost(r)
  BY <1>2, ChangePostAdvances
<1>3. CASE CountLike(r) \/ UncountLike(r) \/ CountComment(r) \/ UncountComment(r)
  BY <1>3, CounterAdvances
<1>4. CASE LookForLike(r) \/ FetchComment(r)
  <2>1. /\ UNCHANGED <<post, created, parts>> /\ req[r].pc = "look"
        /\ Finish(r) \/ Goto(r, "write") \/ Goto(r, "again")
    BY <1>4 DEF LookForLike, FetchComment, At
  <2> QED
    BY <2>1, FinishAdvances, GoingAdvances, QuietStep DEF Idle, parts, Votes
<1>5. CASE PutLike(r) \/ DeleteLike(r) \/ DeleteComment(r)
  <2>1. /\ UNCHANGED <<post, created, origin, vote>>
        /\ req[r].pc = "write" /\ (Goto(r, "count") \/ Finish(r))
    BY <1>5 DEF PutLike, DeleteLike, DeleteComment, At
  <2> QED
    BY <2>1, GoingAdvances, FinishAdvances, QuietStep DEF Votes, Idle
<1>6. CASE PutComment(r)
  <2>1. /\ UNCHANGED <<post, created, vote>> /\ At(r, "comment", "write") /\ Goto(r, "count")
        /\ origin' = [origin EXCEPT ![req[r].on] = [post |-> P(r), by |-> U(r)]]
    BY <1>6 DEF PutComment
  <2>2. Advances(r) /\ req'[r].pc = "count"
    BY <2>1, GoingAdvances DEF At
  <2> QED
    BY <2>1, <2>2, QuietStep DEF Votes, Draw, At
<1>7. CASE EditComment(r) \/ ChangeCommentLike(r)
  <2>1. UNCHANGED <<post, created, origin, vote>> /\ req[r] # Idle /\ Finish(r)
    BY <1>7 DEF EditComment, ChangeCommentLike, At, Idle
  <2> QED
    BY <2>1, FinishAdvances, QuietStep DEF Votes
<1>8. CASE ChangePart(r) \/ Abort(r)
  <2>1. UNCHANGED <<post, created>> /\ req[r] # Idle /\ Finish(r)
    BY <1>8 DEF ChangePart, ChangeVote, PutItem, DeleteItem, ToggleItem, Abort, At, Idle, parts
  <2>2. Advances(r) /\ req'[r] = Idle
    BY <2>1, FinishAdvances
  <2>3. Votes(r)
    BY <1>8 DEF ChangePart, ChangeVote, PutItem, DeleteItem, ToggleItem, Abort, At, Votes, parts
  <2>4. origin' = origin \/ Draw(r)
    BY <1>8, <2>2 DEF ChangePart, ChangeVote, PutItem, DeleteItem, ToggleItem, Abort, At, Draw, parts
  <2> QED
    BY <2>1, <2>2, <2>3, <2>4, QuietStep
<1>9. CASE FetchPostAgain(r)
  BY <1>9, AgainAdvances, QuietStep DEF FetchPostAgain, parts, Votes
<1> QED
  BY <1>1, <1>2, <1>3, <1>4, <1>5, <1>6, <1>7, <1>8, <1>9
  DEF InFlightStep, ChangeLike, ChangeComment

\* The uuid that a request puts was drawn for it, and for no other.
LEMMA DrawIsFresh ==
    ASSUME IInv, KInv, NEW r \in Request, req[r] \in Call, req[r] # Idle, Draw(r)
    PROVE  /\ req[r].on \in Comment \cup Item /\ origin[req[r].on] = None
           /\ \A x \in Comment \cup Item :
                 IF x = req[r].on THEN origin'[x] = [post |-> P(r), by |-> U(r)]
                                  ELSE origin'[x] = origin[x]
           /\ \A s \in Request \ {r} : Draws(s) => req[s].on # req[r].on
<1>1. Names(req[r]) /\ Draws(r)
  BY DEF IInv, InFlight, Draw, Draws
<1>2. req[r].on \in Comment \cup Item
  BY <1>1 DEF Names, Draws
<1>3. origin[req[r].on] = None /\ \A s \in Request \ {r} : Draws(s) => req[s].on # req[r].on
  BY <1>1 DEF KInv, Fresh, Draw
<1>4. \A x \in Comment \cup Item :
          IF x = req[r].on THEN origin'[x] = [post |-> P(r), by |-> U(r)] ELSE origin'[x] = origin[x]
  BY <1>2 DEF Draw, IInv, TypeOK
<1> QED
  BY <1>2, <1>3, <1>4

\* No record is None, and what was made of a post stays made of it.
LEMMA MadeStays ==
    ASSUME IInv, KInv, NEW r \in Request, Advances(r), origin' = origin \/ Draw(r),
           NEW x \in Comment \cup Item, NEW p
    PROVE  /\ Made(x, p) => Made(x, p)'
           /\ Made(x, p)' => Made(x, p) \/ (Draw(r) /\ x = req[r].on /\ p = P(r))
           /\ origin[x] # None => origin'[x] = origin[x]
<1>1. CASE origin' = origin
  BY <1>1 DEF Made
<1>2. CASE Draw(r)
  <2>1. /\ req[r].on \in Comment \cup Item /\ origin[req[r].on] = None
        /\ \A y \in Comment \cup Item :
              IF y = req[r].on THEN origin'[y] = [post |-> P(r), by |-> U(r)]
                               ELSE origin'[y] = origin[y]
    BY <1>2, DrawIsFresh DEF Advances
  <2> QED
    BY <2>1, <1>2 DEF Made
<1> QED
  BY <1>1, <1>2
-----------------------------------------------------------------------------
(* Each of the four facts is kept by the steps of a request in flight.      *)

LEMMA FreshStays ==
    ASSUME IInv, KInv, NEW r \in Request, Advances(r), origin' = origin \/ Draw(r)
    PROVE  Fresh'
<1>1. ASSUME NEW q \in Request, Draws(q)' PROVE Draws(q) /\ req'[q].on = req[q].on
  BY <1>1 DEF Advances, Draws
<1>2. ASSUME NEW q \in Request, Draws(q)', req'[q].pc # "count"
      PROVE  origin'[req'[q].on] = None
  <2>1. Draws(q) /\ req'[q].on = req[q].on /\ Names(req[q])
    BY <1>1, <1>2 DEF IInv, InFlight, Draws
  <2>2. req[q].on \in Comment \cup Item
    BY <2>1 DEF Names, Draws
  <2>3. req[q].pc # "count"
    BY <1>2 DEF Advances, Draws
  <2>4. origin[req[q].on] = None
    BY <2>1, <2>3 DEF KInv, Fresh
  <2>5. CASE origin' = origin
    BY <2>1, <2>4, <2>5
  <2>6. CASE Draw(r)
    <3>1. q # r
      BY <1>2, <2>6 DEF Draw, Draws
    <3>2. req[q].on # req[r].on
      BY <2>1, <2>6, <3>1, DrawIsFresh DEF Advances
    <3> QED
      BY <2>1, <2>2, <2>4, <2>6, <3>2, DrawIsFresh DEF Advances
  <2> QED
    BY <2>5, <2>6
<1>3. ASSUME NEW q \in Request, NEW s \in Request \ {q}, Draws(q)', Draws(s)'
      PROVE  req'[s].on # req'[q].on
  BY <1>1, <1>3 DEF KInv, Fresh
<1> QED
  BY <1>2, <1>3 DEF Fresh

LEMMA TargetsStay ==
    ASSUME IInv, KInv, NEW r \in Request, Advances(r), origin' = origin \/ Draw(r)
    PROVE  Targeted'
<1> SUFFICES ASSUME NEW q \in Request, req'[q] # Idle, req'[q].op \in CommentOps
             PROVE  origin'[req'[q].on] # None
  BY DEF Targeted
<1>1. req[q] # Idle /\ req[q].op \in CommentOps /\ req'[q].on = req[q].on
  BY DEF Advances
<1>2. origin[req[q].on] # None /\ req[q].on \in Comment
  BY <1>1 DEF KInv, Targeted, IInv, InFlight, Names
<1>3. origin'[req[q].on] = origin[req[q].on]
  BY <1>2, MadeStays
<1> QED
  BY <1>1, <1>2, <1>3

\* An item of a comment is made by its addition, or as a ghost by an edit.
LEMMA HomesStay ==
    ASSUME IInv, KInv, NEW r \in Request, InFlightStep(r)
    PROVE  Homes'
<1>1. Advances(r) /\ (origin' = origin \/ Draw(r))
  BY StepAdvances
<1>2. ASSUME NEW p \in Post, NEW c \in Comment
      PROVE  /\ origin[c] # None => origin'[c] # None
             /\ Made(c, p) => Made(c, p)'
  BY <1>1, MadeStays
<1>3. CASE PutComment(r)
  <2>1. /\ req[r].on \in Comment /\ P(r) \in Post
        /\ [post |-> P(r), by |-> U(r)] \in [post : Post, by : User]
    BY <1>1, <1>3 DEF PutComment, At, IInv, InFlight, Names, Advances, P, U, Call
  <2>2. origin'[req[r].on] = [post |-> P(r), by |-> U(r)]
    BY <1>3, <2>1 DEF PutComment, IInv, TypeOK
  <2>3. \A p \in Post, c \in Comment : comment'[p][c] = comment[p][c] \/ (p = P(r) /\ c = req[r].on)
    BY <1>3, <2>1 DEF PutComment, IInv, TypeOK
  <2>4. \A p \in Post, c \in Comment : p = P(r) /\ c = req[r].on =>
            origin'[c] # None /\ origin'[c].post = p
    BY <2>1, <2>2, NoneAssumption
  <2> QED
    BY <1>2, <2>3, <2>4 DEF KInv, Homes, Made
<1>4. CASE EditComment(r) \/ DeleteComment(r)
  <2>1. req[r].on \in Comment /\ P(r) \in Post /\ origin[req[r].on] # None
    BY <1>1, <1>4 DEF EditComment, DeleteComment, At, KInv, Targeted, CommentOps, IInv, InFlight, Names,
       Advances, P, Call
  <2>2. \A p \in Post, c \in Comment :
            \/ comment'[p][c] = comment[p][c]
            \/ p = P(r) /\ c = req[r].on /\ comment'[p][c] # "real"
    BY <1>4, <2>1 DEF EditComment, DeleteComment, IInv, TypeOK
  <2> QED
    BY <1>2, <2>1, <2>2 DEF KInv, Homes
<1>5. CASE comment' = comment
  BY <1>2, <1>5 DEF KInv, Homes
<1>6. comment' = comment \/ PutComment(r) \/ EditComment(r) \/ DeleteComment(r)
  BY DEF InFlightStep, FetchPost, ChangePost, ChangeLike, ChangeComment, ChangePart, Abort, PutPost,
     DeletePost, SetTaskStatus, SetTaskTime, LookForLike, PutLike, CountLike, DeleteLike, UncountLike,
     CountComment, FetchComment, FetchPostAgain, UncountComment, ChangeCommentLike, ChangeVote, PutItem,
     DeleteItem, ToggleItem, parts
<1> QED
  BY <1>3, <1>4, <1>5, <1>6

LEMMA DrawingsStay ==
    ASSUME IInv, KInv, NEW r \in Request, Advances(r), Votes(r), origin' = origin \/ Draw(r),
           \A p \in Post \ {P(r)} : post'[p] = post[p] /\ comment'[p] = comment[p]
    PROVE  Drawings'
<1> SUFFICES ASSUME NEW p \in Post, p \notin created' PROVE Bare(p)'
  BY DEF Drawings
<1>1. Bare(p)
  BY DEF KInv, Drawings, Advances
<1>2. p # P(r)
  BY <1>1 DEF Bare, UnderWay, Advances
<1>3. \A q \in Request : ~UnderWay(q, p)'
  BY <1>1, <1>2 DEF Bare, UnderWay, Advances, P
<1>4. \A x \in Comment \cup Item : ~Made(x, p)'
  BY <1>1, <1>2, MadeStays DEF Bare
<1> QED
  BY <1>1, <1>2, <1>3, <1>4 DEF Bare, Votes

\* The kind of a post is read while it has one, or is still that of an old edit.
LEMMA KindsStay ==
    ASSUME IInv, KInv, NEW r \in Request, Advances(r), Votes(r), Kinds(r),
           origin' = origin \/ Draw(r)
    PROVE  KindsAgree'
<1> SUFFICES ASSUME NEW p \in Post PROVE \E k \in Kind : OfKind(p, k)'
  BY DEF KindsAgree
<1>1. PICK k \in Kind : OfKind(p, k)
  BY DEF KInv, KindsAgree
<1>2. req[r] \in Call /\ (P(r) = p => UnderWay(r, p))
  BY DEF Advances, UnderWay
<1>3. HasData(p)' => post'[p].kind = k
  BY <1>1, <1>2 DEF OfKind, Kinds, KindStays, At
<1>4. \A u \in User : <<p, u>> \in vote' => k = "poll"
  BY <1>1, <1>2 DEF OfKind, Votes, At
<1>5. ASSUME NEW i \in Item, Made(i, p)' PROVE k = "checklist"
  <2>1. CASE Made(i, p)
    BY <1>1, <2>1 DEF OfKind
  <2>2. CASE ~Made(i, p)
    <3>1. Draw(r) /\ i = req[r].on /\ p = P(r)
      BY <1>5, <2>2, MadeStays
    <3>2. Names(req[r])
      BY DEF Advances, IInv, InFlight
    <3>3. req[r].op = "addItem"
      BY <3>1, <3>2, PartAssumption DEF Names, Draw
    <3> QED
      BY <1>1, <1>2, <3>1, <3>3 DEF OfKind, Draw
  <2> QED
    BY <2>1, <2>2
<1>6. ASSUME NEW q \in Request, UnderWay(q, p)', req'[q].pc # "fetch"
      PROVE  /\ req'[q].op = "vote" => k = "poll"
             /\ req'[q].op = "addItem" => k = "checklist"
             /\ req'[q].op = "edit" => req'[q].read.kind = k
  <2>1. CASE q # r
    BY <1>1, <1>6, <2>1 DEF OfKind, Advances, UnderWay, P
  <2>2. CASE q = r
    <3>1. UnderWay(r, p) /\ P(r) = p /\ req'[r].op = req[r].op
      BY <1>6, <2>2 DEF Advances, UnderWay, P
    <3>2. CASE req[r].pc # "fetch"
      BY <1>1, <1>6, <2>2, <3>1, <3>2 DEF OfKind, Advances, UnderWay
    <3>3. CASE req[r].pc = "fetch"
      <4>1. Fetched(r) /\ (req[r].op = "edit" => req'[r].read = post[p])
        BY <1>6, <2>2, <3>1, <3>3 DEF Advances, UnderWay
      <4>2. post[p] # None /\ post[p].kind \in KindFor(req[r].op)
        BY <4>1, <3>1 DEF Fetched
      <4>3. req[r].op \in {"vote", "addItem", "edit"} => HasData(p)
        BY <4>2 DEF KindFor, HasData, Kind
      <4> QED
        BY <1>1, <2>2, <3>1, <4>1, <4>2, <4>3 DEF OfKind, KindFor
    <3> QED
      BY <3>2, <3>3
  <2> QED
    BY <2>1, <2>2
<1>7. OfKind(p, k)'
  BY <1>3, <1>4, <1>5, <1>6 DEF OfKind
<1> QED
  BY <1>7

\* A step writes no post but the one its request is about, and no comment under another.
LEMMA StepIsAtOnePost ==
    ASSUME IInv, NEW r \in Request, InFlightStep(r)
    PROVE  \A p \in Post \ {P(r)} : post'[p] = post[p] /\ comment'[p] = comment[p]
<1>1. CASE ChangePost(r)
  BY <1>1 DEF IInv, TypeOK, ChangePost, PutPost, DeletePost, SetTaskStatus, SetTaskTime, parts
<1>2. CASE CountLike(r) \/ UncountLike(r) \/ CountComment(r) \/ UncountComment(r)
  BY <1>2 DEF IInv, TypeOK, CountLike, UncountLike, CountComment, UncountComment, parts
<1>3. CASE PutComment(r) \/ EditComment(r) \/ DeleteComment(r)
  BY <1>3 DEF IInv, TypeOK, PutComment, EditComment, DeleteComment
<1>4. CASE /\ ~ChangePost(r) /\ ~(CountLike(r) \/ UncountLike(r) \/ CountComment(r) \/ UncountComment(r))
           /\ ~(PutComment(r) \/ EditComment(r) \/ DeleteComment(r))
  BY <1>4 DEF InFlightStep, FetchPost, ChangeLike, ChangeComment, ChangePart, Abort, LookForLike,
     PutLike, DeleteLike, FetchComment, FetchPostAgain, ChangeCommentLike,
     ChangeVote, PutItem, DeleteItem, ToggleItem, parts
<1> QED
  BY <1>1, <1>2, <1>3, <1>4

LEMMA StepKeepsKinds ==
    ASSUME IInv, KInv, NEW r \in Request, InFlightStep(r) PROVE KInv'
BY StepAdvances, StepIsAtOnePost, FreshStays, TargetsStay, HomesStay, DrawingsStay, KindsStay DEF KInv

\* A uuid drawn by a request that starts is one that no request names, and no part
\* has; what else it names was made.
LEMMA StartKeepsKinds ==
    ASSUME IInv, KInv, NEW r \in Request, Start(r) PROVE KInv'
<1>1. PICK op \in Operation, p \in created, u \in User : \E x \in Targets(op) :
          req' = [req EXCEPT ![r] = [pc |-> "fetch", op |-> op, post |-> p,
                                     user |-> u, on |-> x, read |-> None]]
  BY DEF Start
<1>2. PICK x \in Targets(op) :
          req' = [req EXCEPT ![r] = [pc |-> "fetch", op |-> op, post |-> p,
                                     user |-> u, on |-> x, read |-> None]]
  BY <1>1
<1>3. /\ req'[r].pc = "fetch" /\ req'[r].op = op /\ req'[r].post = p /\ req'[r].on = x
      /\ \A s \in Request \ {r} : req'[s] = req[s]
      /\ UNCHANGED <<post, created, parts>>
  BY <1>2 DEF Start, IInv, TypeOK
<1>4. req[r] = Idle /\ req'[r] # Idle
  BY <1>3 DEF Start, Idle
<1>5. op \in {"comment", "addItem"} => origin[x] = None /\ \A s \in Request : req[s] # Idle => req[s].on # x
  <2>1. CASE op = "comment"
    <3>1. x \in {c \in Comment : ~Drawn(c)}
      BY <1>2, <2>1 DEF Targets, CommentOps, ItemOps
    <3> QED
      BY <3>1 DEF Drawn
  <2>2. CASE op = "addItem"
    <3>1. x \in {i \in Item : ~Drawn(i)}
      BY <1>2, <2>2 DEF Targets, CommentOps, ItemOps
    <3> QED
      BY <3>1 DEF Drawn
  <2> QED
    BY <2>1, <2>2
<1>6. op \in CommentOps => origin[x] # None
  BY <1>2 DEF Targets, CommentOps, ItemOps
<1>7. Fresh'
  <2>1. ASSUME NEW q \in Request, Draws(q)', req'[q].pc # "count" PROVE origin'[req'[q].on] = None
    BY <2>1, <1>3, <1>5 DEF Draws, KInv, Fresh, parts
  <2>2. ASSUME NEW q \in Request, NEW s \in Request \ {q}, Draws(q)', Draws(s)'
        PROVE  req'[s].on # req'[q].on
    BY <2>2, <1>3, <1>4, <1>5 DEF Draws, KInv, Fresh
  <2> QED
    BY <2>1, <2>2 DEF Fresh
<1>8. Targeted'
  <2> SUFFICES ASSUME NEW q \in Request, req'[q] # Idle, req'[q].op \in CommentOps
               PROVE  origin'[req'[q].on] # None
    BY DEF Targeted
  <2>1. CASE q = r
    BY <2>1, <1>3, <1>6 DEF parts
  <2>2. CASE q # r
    BY <2>2, <1>3 DEF parts, KInv, Targeted
  <2> QED
    BY <2>1, <2>2
<1>9. Drawings'
  <2> SUFFICES ASSUME NEW q \in Post, q \notin created' PROVE Bare(q)'
    BY DEF Drawings
  <2>1. Bare(q) /\ q # p
    BY <1>3 DEF KInv, Drawings
  <2>2. \A s \in Request : ~UnderWay(s, q)'
    BY <2>1, <1>3 DEF Bare, UnderWay, P
  <2> QED
    BY <2>1, <2>2, <1>3 DEF Bare, Made, parts
<1>10. KindsAgree'
  <2> SUFFICES ASSUME NEW q \in Post, NEW k \in Kind, OfKind(q, k) PROVE OfKind(q, k)'
    BY DEF KInv, KindsAgree
  <2>1. \A s \in Request : UnderWay(s, q)' /\ req'[s].pc # "fetch" => UnderWay(s, q) /\ req'[s] = req[s]
    BY <1>3 DEF UnderWay, P
  <2> QED
    BY <2>1, <1>3 DEF OfKind, HasData, Made, parts
<1>11. Homes'
  BY <1>3 DEF KInv, Homes, Made, parts
<1> QED
  BY <1>7, <1>8, <1>9, <1>10, <1>11 DEF KInv

LEMMA CreateKeepsKinds ==
    ASSUME IInv, KInv, NEW p \in Post, NEW u \in User, NEW kind \in Kind, CreatePost(p, u, kind)
    PROVE  KInv'
<1>1. /\ created' = created \cup {p} /\ UNCHANGED <<parts, req>> /\ Bare(p)
      /\ \A q \in Post \ {p} : post'[q] = post[q]
  BY DEF CreatePost, KInv, Drawings, IInv, TypeOK
<1>2. post'[p].kind = kind
  <2>1. [Ghost EXCEPT !.kind = kind, !.author = u].kind = kind
    BY DEF Ghost
  <2> QED
    BY <2>1 DEF CreatePost, IInv, TypeOK
<1>3. Fresh' /\ Targeted' /\ Homes' /\ Drawings'
  BY <1>1 DEF KInv, Fresh, Draws, Targeted, Homes, Made, P, Drawings, Bare, UnderWay, parts
<1>4. ASSUME NEW q \in Post PROVE \E k \in Kind : OfKind(q, k)'
  <2>1. CASE q # p
    <3>1. PICK k \in Kind : OfKind(q, k)
      BY DEF KInv, KindsAgree
    <3>2. OfKind(q, k)'
      BY <1>1, <2>1, <3>1 DEF OfKind, HasData, Made, UnderWay, P, parts
    <3> QED
      BY <3>2
  <2>2. CASE q = p
    <3>1. OfKind(p, kind)'
      BY <1>1, <1>2 DEF Bare, OfKind, HasData, Made, UnderWay, P, parts
    <3> QED
      BY <2>2, <3>1
  <2> QED
    BY <2>1, <2>2
<1> QED
  BY <1>3, <1>4 DEF KInv, KindsAgree

LEMMA InitKinds == Init => KInv
<1> SUFFICES ASSUME Init PROVE KInv
  OBVIOUS
<1>1. Fresh /\ Targeted /\ Homes /\ Drawings
  BY DEF Init, Fresh, Draws, Targeted, Homes, Made, P, Drawings, Bare, UnderWay
<1>2. ASSUME NEW p \in Post PROVE OfKind(p, "poll")
  BY DEF Init, OfKind, HasData, Made, UnderWay
<1> QED
  BY <1>1, <1>2 DEF KInv, KindsAgree, Kind

LEMMA NextKinds == IInv /\ KInv /\ [Next]_vars => KInv'
<1> SUFFICES ASSUME IInv, KInv, [Next]_vars PROVE KInv'
  OBVIOUS
<1>1. CASE UNCHANGED vars
  <2>1. Fresh' /\ Targeted' /\ Homes' /\ Drawings'
    BY <1>1 DEF KInv, Fresh, Draws, Targeted, Homes, Made, P, Drawings, Bare, UnderWay, vars
  <2>2. KindsAgree'
    BY <1>1 DEF KInv, KindsAgree, OfKind, HasData, Made, UnderWay, P, vars
  <2> QED
    BY <2>1, <2>2 DEF KInv
<1> QED
  BY <1>1, StepKeepsKinds, StartKeepsKinds, CreateKeepsKinds DEF Next, HandleWithGroup, InFlightStep

LEMMA KindsAreKept == Spec => []KInv
<1>1. IInv /\ KInv /\ [Next]_vars => KInv'
  BY NextKinds
<1> QED
  BY <1>1, InitKinds, InvIsInductive, PTL DEF Spec

\* A response without its comments and items is the one the list shows.
LEMMA ResponseWithoutParts ==
    ASSUME NEW u, NEW p, NEW comments, NEW items
    PROVE  [buildPostResponse(p, u, comments, items) EXCEPT !.comments = {}, !.items = {}]
               = buildPostResponse(p, u, {}, {})
<1>1. PICK likes : likes = userHasLikedPost(p, u)
  OBVIOUS
<1>2. (IF post[p].kind = "checklist" THEN {} ELSE {}) = {}
  OBVIOUS
<1>3. PICK r : r = buildPostResponse(p, u, comments, items)
  OBVIOUS
<1>4. PICK y : y = IF post[p].kind = "checklist" THEN items ELSE {}
  OBVIOUS
<1>5. r = [postId |-> p, type |-> post[p].kind, author |-> post[p].author,
           likeCount |-> post[p].likes, commentCount |-> post[p].comments, userHasLiked |-> likes,
           taskStatus |-> post[p].status, timeSpent |-> post[p].hours, totalVotes |-> 0,
           comments |-> comments, items |-> y]
  BY <1>1, <1>3, <1>4 DEF buildPostResponse
<1>6. buildPostResponse(p, u, {}, {}) = [postId |-> p, type |-> post[p].kind, author |-> post[p].author,
           likeCount |-> post[p].likes, commentCount |-> post[p].comments, userHasLiked |-> likes,
           taskStatus |-> post[p].status, timeSpent |-> post[p].hours, totalVotes |-> 0,
           comments |-> {}, items |-> {}]
  BY <1>1, <1>2 DEF buildPostResponse
<1>7. PICK q : q = [r EXCEPT !.comments = {}, !.items = {}]
  OBVIOUS
<1>8. q \in [postId : {p}, type : {post[p].kind}, author : {post[p].author},
             likeCount : {post[p].likes}, commentCount : {post[p].comments}, userHasLiked : {likes},
             taskStatus : {post[p].status}, timeSpent : {post[p].hours}, totalVotes : {0},
             comments : {{}}, items : {{}}]
  BY <1>5, <1>7
<1>9. q = buildPostResponse(p, u, {}, {})
  BY <1>6, <1>8
<1> QED
  BY <1>3, <1>7, <1>9

\* What a team's feed keeps it shows, whatever stale edits and deletions there are:
\* everybody sees every vote, item, comment and like under a post of the feed, and
\* the post opened is the post listed.  No vote lies under what is no poll, since the
\* kind a vote or an edit has read is the kind of the post for good.
THEOREM FeedIsShown == Spec => []FeedShowsWhatItKeeps
<1>1. ASSUME IInv, KInv, NEW u \in User, NEW p \in Post, Real(p)
      PROVE  /\ getPost(p, u) = [status |-> "ok",
                                 post |-> buildPostResponse(p, u, Comments(p), fetchChecklistItems(p))]
             /\ listComments(p).comments = Comments(p)
             /\ getPostLikes(p).users = {v \in User : userHasLikedPost(p, v)}
             /\ post[p].kind # "checklist" => fetchChecklistItems(p) = {}
             /\ Voters(p) # {} => /\ getPollResults(p, u).status = "ok"
                                  /\ getPollResults(p, u).totalVotes > 0
  <2>1. PICK k \in Kind : OfKind(p, k)
    BY <1>1 DEF KInv, KindsAgree
  <2>2. post[p] # None /\ HasData(p) /\ post[p].kind = k
    BY <1>1, <2>1 DEF Real, HasData, OfKind
  <2>3. fetchChecklistItems(p) # {} => k = "checklist"
    BY <2>1 DEF OfKind, fetchChecklistItems, Under, Made
  <2>4. ASSUME Voters(p) # {} PROVE getPollResults(p, u).status = "ok" /\ getPollResults(p, u).totalVotes > 0
    <3>1. k = "poll"
      BY <2>1, <2>4 DEF OfKind, Voters
    <3>2. getPollResults(p, u) = [status |-> "ok", totalVotes |-> Cardinality(Voters(p)), userVoted |-> u \in Voters(p)]
      BY <2>2, <3>1 DEF getPollResults, Real
    <3>3. IsFiniteSet(Voters(p))
      BY UserAssumption, FS_Subset DEF Voters
    <3>4. Cardinality(Voters(p)) \in Nat /\ Cardinality(Voters(p)) # 0
      BY <2>4, <3>3, FS_CardinalityType, FS_EmptySet
    <3> QED
      BY <3>2, <3>4
  <2> QED
    BY <2>2, <2>3, <2>4 DEF getPost, listComments, getPostLikes, Real
<1>2. ASSUME NEW u, NEW p, NEW comments, NEW items
      PROVE  /\ buildPostResponse(p, u, comments, items).postId = p
             /\ buildPostResponse(p, u, comments, items).comments = comments
             /\ buildPostResponse(p, u, comments, items).items =
                    IF post[p].kind = "checklist" THEN items ELSE {}
             /\ buildPostResponse(p, u, comments, items).userHasLiked <=> userHasLikedPost(p, u)
  BY DEF buildPostResponse
<1>3. ASSUME IInv, KInv PROVE FeedShowsWhatItKeeps
  <2> SUFFICES ASSUME NEW u \in User, NEW entry \in listTeamFeed(u, Kind)
               PROVE  LET p == entry.postId   opened == getPost(p, u) IN
                      /\ opened.status = "ok"
                      /\ [opened.post EXCEPT !.comments = {}, !.items = {}] = entry
                      /\ Voters(p) # {} => /\ getPollResults(p, u).status = "ok"
                                           /\ getPollResults(p, u).totalVotes > 0
                      /\ opened.post.items = fetchChecklistItems(p)
                      /\ opened.post.comments = listComments(p).comments
                      /\ entry.userHasLiked <=> u \in getPostLikes(p).users
    BY DEF FeedShowsWhatItKeeps
  <2>1. PICK p \in Post : Real(p) /\ entry = buildPostResponse(p, u, {}, {})
    BY DEF listTeamFeed
  <2>2. entry.postId = p /\ (entry.userHasLiked <=> userHasLikedPost(p, u))
    BY <1>2, <2>1
  <2>3. /\ getPost(p, u).status = "ok"
        /\ getPost(p, u).post = buildPostResponse(p, u, Comments(p), fetchChecklistItems(p))
    BY <1>1, <1>3, <2>1
  <2>4. /\ [getPost(p, u).post EXCEPT !.comments = {}, !.items = {}] = entry
        /\ getPost(p, u).post.items = fetchChecklistItems(p)
        /\ getPost(p, u).post.comments = listComments(p).comments
    <3>1. [getPost(p, u).post EXCEPT !.comments = {}, !.items = {}] = entry
      <4>1. PICK cs, its : cs = Comments(p) /\ its = fetchChecklistItems(p)
        OBVIOUS
      <4>2. [buildPostResponse(p, u, cs, its) EXCEPT !.comments = {}, !.items = {}] = entry
        BY <2>1, ResponseWithoutParts
      <4>3. PICK shown : shown = getPost(p, u).post
        OBVIOUS
      <4>4. shown = buildPostResponse(p, u, cs, its)
        BY <2>3, <4>1, <4>3
      <4> QED
        BY <4>2, <4>3, <4>4
    <3>2. getPost(p, u).post.items = fetchChecklistItems(p)
      <4>1. getPost(p, u).post.items = IF post[p].kind = "checklist" THEN fetchChecklistItems(p) ELSE {}
        BY <1>2, <2>3
      <4> QED
        BY <1>1, <1>3, <2>1, <4>1
    <3>3. getPost(p, u).post.comments = listComments(p).comments
      BY <1>1, <1>2, <1>3, <2>1, <2>3
    <3> QED
      BY <3>1, <3>2, <3>3
  <2>5. entry.userHasLiked <=> u \in getPostLikes(p).users
    BY <1>1, <1>3, <2>1, <2>2 DEF userHasLikedPost
  <2>6. Voters(p) # {} => getPollResults(p, u).status = "ok" /\ getPollResults(p, u).totalVotes > 0
    BY <1>1, <1>3, <2>1
  <2> QED
    BY <2>2, <2>3, <2>4, <2>5, <2>6
<1> QED
  BY <1>3, InvIsInductive, KindsAreKept, PTL

\* A checklist item that was removed does not come back: the uuid an addition puts
\* was drawn for it alone, and nothing else puts an item.
THEOREM ItemsStayDeleted == Spec => ItemStaysDeleted
<1>1. IInv /\ KInv /\ [Next]_vars =>
          [\A i \in Item : origin[i] # None /\ i \notin item => i \notin item']_vars
  <2> SUFFICES ASSUME IInv, KInv, [Next]_vars, NEW i \in Item, origin[i] # None, i \notin item
               PROVE  i \notin item'
    BY DEF vars
  <2>1. CASE item' = item
    BY <2>1
  <2>2. ASSUME NEW r \in Request, PutItem(r) PROVE i # req[r].on
    BY <2>2 DEF PutItem, At, KInv, Fresh, Draws, Idle
  <2>3. ASSUME NEW r \in Request, DeleteItem(r) PROVE i \notin item'
    BY <2>3 DEF DeleteItem
  <2>4. \/ item' = item
        \/ \E r \in Request : PutItem(r) \/ DeleteItem(r)
    BY DEF Next, vars, parts, HandleWithGroup, CreatePost, Start, FetchPost, ChangePost, ChangeLike,
       ChangeComment, ChangePart, Abort, PutPost, DeletePost, SetTaskStatus, SetTaskTime, LookForLike,
       PutLike, CountLike, DeleteLike, UncountLike, PutComment, CountComment, FetchComment,
       EditComment, FetchPostAgain, DeleteComment, UncountComment, ChangeCommentLike, ChangeVote, ToggleItem
  <2> QED
    BY <2>1, <2>2, <2>3, <2>4 DEF PutItem
<1> QED
  BY <1>1, InvIsInductive, KindsAreKept, PTL DEF Spec, ItemStaysDeleted
-----------------------------------------------------------------------------
(* The posts that requests come to one by one: what a request has read of    *)
(* such a post is still so.                                                  *)

Counting(r, p, op) == UnderWay(r, p) /\ req[r].pc = "count" /\ req[r].op = op

Current(r, p) ==
    /\ HasData(p)
    /\ req[r].op \in {"edit", "logTime"} => req[r].read = post[p]
    /\ req[r].op = "deleteComment" /\ req[r].pc = "write" => req[r].read # None

Sound(p) ==
    /\ HasData(p) \/ post[p] = None
    /\ \A r \in Request : UnderWay(r, p) /\ req[r].pc # "fetch" => Current(r, p)
    /\ ~Meet(p)
SInv == \A p \in Post \ disturbed : Sound(p)

\* The only request at a post is the one that steps there.
LEMMA NobodyElse ==
    ASSUME NEW p \in Post, ~Meet(p), NEW r \in Request, Advances(r), P(r) = p
    PROVE  /\ UnderWay(r, p)
           /\ \A q \in Request \ {r} : ~UnderWay(q, p) /\ ~UnderWay(q, p)'
           /\ ~Meet(p)'
<1>1. UnderWay(r, p)
  BY DEF Advances, UnderWay
<1>2. \A q \in Request \ {r} : ~UnderWay(q, p)
  BY <1>1 DEF Meet
<1>3. \A q \in Request \ {r} : ~UnderWay(q, p)'
  BY <1>2 DEF UnderWay, P, Advances
<1> QED
  BY <1>1, <1>2, <1>3 DEF Meet

\* A step of another post's request changes no request at this one.
LEMMA Elsewhere ==
    ASSUME IInv, NEW r \in Request, InFlightStep(r), NEW p \in Post, P(r) # p
    PROVE  /\ Advances(r) /\ (origin' = origin \/ Draw(r))
           /\ post'[p] = post[p] /\ comment'[p] = comment[p]
           /\ \A q \in Request : UnderWay(q, p)' <=> UnderWay(q, p)
           /\ \A q \in Request : UnderWay(q, p) => req'[q] = req[q]
<1>1. /\ Advances(r) /\ (origin' = origin \/ Draw(r))
      /\ post'[p] = post[p] /\ comment'[p] = comment[p]
  BY StepAdvances, StepIsAtOnePost
<1>2. ASSUME NEW q \in Request PROVE UnderWay(q, p)' <=> UnderWay(q, p)
  BY <1>1 DEF Advances, UnderWay, P
<1>3. ASSUME NEW q \in Request, UnderWay(q, p) PROVE req'[q] = req[q]
  BY <1>1, <1>3 DEF Advances, UnderWay
<1> QED
  BY <1>1, <1>2, <1>3

LEMMA ElsewhereSound ==
    ASSUME IInv, NEW r \in Request, InFlightStep(r), NEW p \in Post, P(r) # p, Sound(p)
    PROVE  Sound(p)'
<1>1. (HasData(p)' <=> HasData(p)) /\ ~Meet(p)'
  BY Elsewhere DEF HasData, Meet, Sound
<1>2. ASSUME NEW q \in Request, UnderWay(q, p)', req'[q].pc # "fetch" PROVE Current(q, p)'
  <2>1. UnderWay(q, p) /\ req'[q] = req[q] /\ Current(q, p)
    BY <1>2, Elsewhere DEF Sound
  <2> QED
    BY <1>1, <2>1, Elsewhere DEF Current
<1> QED
  BY <1>1, <1>2, Elsewhere DEF Sound

\* A step at a post leaves it sound if the request knows what it should.
LEMMA HereSound ==
    ASSUME NEW p \in Post, Sound(p), NEW r \in Request, Advances(r), P(r) = p,
           HasData(p)' \/ post'[p] = None, req'[r] # Idle => Current(r, p)'
    PROVE  Sound(p)'
<1>1. /\ \A q \in Request \ {r} : ~UnderWay(q, p) /\ ~UnderWay(q, p)'
      /\ ~Meet(p)'
  BY NobodyElse DEF Sound
<1>2. \A q \in Request : UnderWay(q, p)' => Current(q, p)'
  BY <1>1 DEF UnderWay
<1> QED
  BY <1>1, <1>2 DEF Sound

\* What a request past its first read knows of a sound post.
LEMMA KnownHere ==
    ASSUME IInv, NEW p \in Post, Sound(p), NEW r \in Request, Advances(r), P(r) = p,
           req[r].pc # "fetch"
    PROVE  Current(r, p) /\ HasData(p) /\ post[p] \in PostItem /\ post[p].comments \in Int
<1>1. UnderWay(r, p) /\ \A q \in Request \ {r} : ~UnderWay(q, p)
  BY NobodyElse DEF Sound
<1>2. Current(r, p) /\ HasData(p)
  BY <1>1 DEF Sound, Current
<1>3. post[p] \in PostItem /\ post[p].comments \in Int
  BY <1>2 DEF IInv, TypeOK, HasData, PostItem
<1> QED
  BY <1>2, <1>3

LEMMA FetchSound ==
    ASSUME IInv, NEW p \in Post, Sound(p), NEW r \in Request, FetchPost(r), P(r) = p PROVE Sound(p)'
<1>1. /\ Advances(r) /\ UNCHANGED <<post, created, parts>> /\ req[r].pc = "fetch"
      /\ req'[r] # Idle => /\ req'[r].pc \in {"look", "write"}
                           /\ req[r].op \in {"editComment", "deleteComment"} => req'[r].pc = "look"
  BY FetchAdvances DEF FetchPost
<1>2. ASSUME req'[r] # Idle PROVE Current(r, p)'
  <2>1. Fetched(r) /\ req'[r].op = req[r].op /\ (req[r].op \in {"edit", "logTime"} => req'[r].read = post[p])
    BY <1>1, <1>2 DEF Advances
  <2>2. post[p] # None
    BY <2>1 DEF Fetched
  <2>3. HasData(p)
    BY <2>2 DEF Sound, HasData
  <2>4. ~(req'[r].op = "deleteComment" /\ req'[r].pc = "write")
    BY <1>1, <1>2, <2>1
  <2> QED
    BY <1>1, <1>2, <2>1, <2>3, <2>4 DEF Current, HasData
<1>3. HasData(p)' \/ post'[p] = None
  BY <1>1 DEF HasData, Sound
<1> QED
  BY <1>1, <1>2, <1>3, HereSound

\* A write of the post deletes it or leaves kind and counters as they are.
LEMMA ChangePostCounts ==
    ASSUME IInv, NEW p \in Post, Sound(p), NEW r \in Request, ChangePost(r), P(r) = p
    PROVE  /\ Advances(r) /\ req'[r] = Idle /\ UNCHANGED parts /\ req[r].pc = "write"
           /\ HasData(p)
           /\ \/ post'[p] = None
              \/ /\ post'[p] \in PostItem /\ post'[p].kind = post[p].kind
                 /\ post'[p].comments = post[p].comments /\ post'[p].likes = post[p].likes
<1>1. /\ Advances(r) /\ req'[r] = Idle /\ UNCHANGED parts /\ req[r].pc = "write"
  <2>1. req[r] # Idle /\ req[r].pc = "write" /\ Finish(r) /\ UNCHANGED <<created, parts>>
    BY DEF ChangePost, PutPost, DeletePost, SetTaskStatus, SetTaskTime, At, Idle
  <2> QED
    BY <2>1, FinishAdvances
<1>2. Current(r, p) /\ HasData(p) /\ post[p] \in PostItem
  BY <1>1, KnownHere
<1>3. CASE PutPost(r)
  <2>1. post'[p] = post[p]
    BY <1>3, <1>2 DEF PutPost, At, Current, IInv, TypeOK
  <2> QED
    BY <1>1, <1>2, <2>1
<1>4. CASE DeletePost(r)
  BY <1>1, <1>2, <1>4 DEF DeletePost, IInv, TypeOK
<1>5. CASE SetTaskStatus(r)
  <2>1. PICK s \in {"todo", "done"} : post' = [post EXCEPT ![p].status = s]
    BY <1>5, <1>2 DEF SetTaskStatus
  <2>2. post'[p] = [post[p] EXCEPT !.status = s]
    BY <2>1 DEF IInv, TypeOK
  <2> QED
    BY <1>1, <1>2, <2>2 DEF PostItem
<1>6. CASE SetTaskTime(r)
  <2>1. req[r] \in Call /\ Holds(req[r])
    BY <1>1, RequestIsCall
  <2>2. NewTotal(r) \in Nat
    BY <2>1, <1>6 DEF SetTaskTime, At, Holds, NewTotal, Counted, PostItem
  <2>3. post'[p] = [post[p] EXCEPT !.hours = NewTotal(r)]
    BY <1>6, <1>2 DEF SetTaskTime, IInv, TypeOK
  <2> QED
    BY <1>1, <1>2, <2>2, <2>3 DEF PostItem
<1> QED
  BY <1>3, <1>4, <1>5, <1>6 DEF ChangePost

LEMMA ChangePostSound ==
    ASSUME IInv, NEW p \in Post, Sound(p), NEW r \in Request, ChangePost(r), P(r) = p PROVE Sound(p)'
<1>1. Advances(r) /\ req'[r] = Idle /\ HasData(p) /\ (HasData(p)' \/ post'[p] = None)
  BY ChangePostCounts DEF HasData
<1> QED
  BY <1>1, HereSound

\* The other steps leave a sound post whole, and no request with an edit in mind.
LEMMA OthersSound ==
    ASSUME IInv, NEW p \in Post, Sound(p), NEW r \in Request, InFlightStep(r), P(r) = p,
           ~FetchPost(r), ~ChangePost(r)
    PROVE  Sound(p)'
<1>1. Advances(r)
  BY StepAdvances
<1>2. CASE CountLike(r) \/ UncountLike(r) \/ CountComment(r) \/ UncountComment(r)
  <2>1. req'[r] = Idle /\ req[r].pc # "fetch"
    BY <1>2 DEF CountLike, UncountLike, CountComment, UncountComment, Finish, At, IInv, TypeOK
  <2>2. HasData(p) /\ post[p] \in PostItem
    BY <1>1, <2>1, KnownHere
  <2>3. \/ post'[p] = [post[p] EXCEPT !.likes = @ + 1]
        \/ post'[p] = [post[p] EXCEPT !.likes = Decrement(@)]
        \/ post'[p] = [post[p] EXCEPT !.comments = @ + 1]
        \/ post'[p] = [post[p] EXCEPT !.comments = Decrement(@)]
    BY <1>2, <2>2 DEF CountLike, UncountLike, CountComment, UncountComment, Found, HasData, IInv, TypeOK
  <2>4. post'[p].kind = post[p].kind
    BY <2>2, <2>3 DEF PostItem
  <2> QED
    BY <1>1, <2>1, <2>2, <2>4, HereSound DEF HasData
<1>3. CASE ~(CountLike(r) \/ UncountLike(r) \/ CountComment(r) \/ UncountComment(r))
  <2>1. post' = post /\ (HasData(p)' <=> HasData(p)) /\ (HasData(p)' \/ post'[p] = None)
    BY <1>3 DEF InFlightStep, ChangeLike, ChangeComment, ChangePart, Abort, LookForLike, PutLike, DeleteLike,
       PutComment, FetchComment, FetchPostAgain, EditComment, DeleteComment, ChangeCommentLike, ChangeVote,
       PutItem, DeleteItem, ToggleItem, HasData, Sound
  <2>2. ASSUME req'[r] # Idle PROVE Current(r, p)'
    <3>1. ~Finish(r) /\ ~Abort(r)
      BY <2>2 DEF Finish, Abort, IInv, TypeOK
    <3>2. req[r].pc # "fetch"
      BY <1>3, <3>1 DEF InFlightStep, ChangeLike, ChangeComment, ChangePart, LookForLike, PutLike, DeleteLike,
         PutComment, FetchComment, FetchPostAgain, EditComment, DeleteComment, ChangeCommentLike, ChangeVote,
         PutItem, DeleteItem, ToggleItem, At
    <3>3. Current(r, p) /\ HasData(p) /\ req'[r].op = req[r].op
      BY <1>1, <2>2, <3>2, KnownHere DEF Advances
    <3>4. req[r].op # "deleteComment" => req'[r].read = req[r].read
      BY <1>1, <2>2, <3>2 DEF Advances
    <3>5. req[r].op = "deleteComment" /\ req'[r].pc = "write" => req'[r].read # None
      <4>1. CASE FetchPostAgain(r)
        BY <2>2, <3>3, <4>1, AgainAdvances DEF HasData
      <4>2. CASE FetchComment(r) \/ DeleteComment(r)
        <5>1. req[r].op = "deleteComment" => Goto(r, "again") \/ Goto(r, "count")
          BY <3>1, <4>2 DEF FetchComment, FetchPostAgain, DeleteComment, At
        <5> QED
          BY <5>1, <1>1, <3>1, <2>2, GoneTo DEF Advances
      <4>3. req[r].op = "deleteComment" => FetchPostAgain(r) \/ FetchComment(r) \/ DeleteComment(r)
        BY <1>3, <3>1 DEF InFlightStep, ChangeLike, ChangeComment, ChangePart, LookForLike, PutLike, DeleteLike,
           PutComment, EditComment, ChangeCommentLike, ChangeVote, PutItem, DeleteItem, ToggleItem, At
      <4> QED
        BY <4>1, <4>2, <4>3
    <3> QED
      BY <2>1, <3>3, <3>4, <3>5 DEF Current, HasData
  <2> QED
    BY <1>1, <2>1, <2>2, HereSound
<1> QED
  BY <1>2, <1>3

LEMMA StepSound ==
    ASSUME IInv, NEW p \in Post, Sound(p), NEW r \in Request, InFlightStep(r)
    PROVE  Sound(p)'
BY ElsewhereSound, FetchSound, ChangePostSound, OthersSound

LEMMA StartStarts ==
    ASSUME IInv, NEW r \in Request, Start(r)
    PROVE  /\ req[r] = Idle /\ UNCHANGED <<post, created, parts>> /\ req'[r].pc = "fetch"
           /\ \A q \in Request \ {r} : req'[q] = req[q]
<1>1. PICK op \in Operation, q \in created, u \in User : \E x \in Targets(op) :
          req' = [req EXCEPT ![r] = [pc |-> "fetch", op |-> op, post |-> q,
                                     user |-> u, on |-> x, read |-> None]]
  BY DEF Start
<1> QED
  BY <1>1 DEF Start, IInv, TypeOK

LEMMA StartSound ==
    ASSUME IInv, NEW p \in Post, Sound(p), NEW r \in Request, Start(r), ~Meet(p)'
    PROVE  Sound(p)'
<1>1. \A q \in Request : UnderWay(q, p)' /\ req'[q].pc # "fetch" => UnderWay(q, p) /\ req'[q] = req[q]
  BY StartStarts DEF UnderWay, P
<1>2. post' = post /\ (HasData(p)' <=> HasData(p))
  BY StartStarts DEF HasData
<1>3. \A q \in Request : UnderWay(q, p)' /\ req'[q].pc # "fetch" => Current(q, p)'
  BY <1>1, <1>2 DEF Sound, Current
<1> QED
  BY <1>2, <1>3 DEF Sound

LEMMA CreateSound ==
    ASSUME IInv, KInv, NEW p \in Post, Sound(p), NEW q \in Post, NEW u \in User, NEW kind \in Kind,
           CreatePost(q, u, kind)
    PROVE  Sound(p)'
<1>1. /\ UNCHANGED <<parts, req>> /\ Bare(q)
      /\ \A x \in Post \ {q} : post'[x] = post[x]
      /\ post'[q] = [Ghost EXCEPT !.kind = kind, !.author = u]
  BY DEF CreatePost, KInv, Drawings, IInv, TypeOK
<1>2. CASE p # q
  <2>1. post'[p] = post[p] /\ (HasData(p)' <=> HasData(p))
    BY <1>1, <1>2 DEF HasData
  <2>2. \A x \in Request : (UnderWay(x, p)' <=> UnderWay(x, p)) /\ req'[x] = req[x]
    BY <1>1 DEF UnderWay, P
  <2>3. ~Meet(p)'
    BY <2>2 DEF Sound, Meet
  <2>4. \A x \in Request : UnderWay(x, p)' /\ req'[x].pc # "fetch" => Current(x, p)'
    BY <2>1, <2>2 DEF Sound, Current
  <2> QED
    BY <2>1, <2>3, <2>4 DEF Sound
<1>3. CASE p = q
  <2>1. post'[p].kind = kind
    <3>1. [Ghost EXCEPT !.kind = kind, !.author = u].kind = kind
      BY DEF Ghost
    <3> QED
      BY <1>1, <1>3, <3>1
  <2>2. \A x \in Request : ~UnderWay(x, p)'
    BY <1>1, <1>3 DEF Bare, UnderWay, P
  <2>3. HasData(p)' \/ post'[p] = None
    BY <2>1 DEF HasData, Kind
  <2> QED
    BY <2>2, <2>3 DEF Sound, Meet
<1> QED
  BY <1>2, <1>3

LEMMA NextSound == IInv /\ KInv /\ SInv /\ [HNext]_hvars => SInv'
<1> SUFFICES ASSUME IInv, KInv, SInv, [HNext]_hvars, NEW p \in Post, p \notin disturbed'
             PROVE  Sound(p)'
  BY DEF SInv
<1>1. CASE UNCHANGED hvars
  <2>1. Sound(p)
    BY <1>1 DEF SInv, hvars
  <2>2. \A r \in Request : (UnderWay(r, p)' <=> UnderWay(r, p)) /\ req'[r] = req[r]
    BY <1>1 DEF UnderWay, P, hvars, vars
  <2>3. (HasData(p)' <=> HasData(p)) /\ post' = post
    BY <1>1 DEF HasData, hvars, vars
  <2>4. ~Meet(p)'
    BY <2>1, <2>2 DEF Sound, Meet
  <2>5. \A r \in Request : UnderWay(r, p)' /\ req'[r].pc # "fetch" => Current(r, p)'
    BY <2>1, <2>2, <2>3 DEF Sound, Current
  <2> QED
    BY <2>1, <2>3, <2>4, <2>5 DEF Sound
<1>2. CASE HNext
  <2>1. p \notin disturbed /\ ~Meet(p)'
    BY <1>2 DEF HNext, Remember
  <2>2. Sound(p)
    BY <2>1 DEF SInv
  <2> QED
    BY <1>2, <2>1, <2>2, StepSound, StartSound, CreateSound
    DEF HNext, Next, HandleWithGroup, InFlightStep
<1> QED
  BY <1>1, <1>2

LEMMA InitSound == HInit => SInv
<1> SUFFICES ASSUME HInit, NEW p \in Post PROVE Sound(p)
  BY DEF SInv
<1>1. \A r \in Request : ~UnderWay(r, p)
  BY DEF HInit, Init, UnderWay
<1>2. post[p] = None
  BY DEF HInit, Init
<1> QED
  BY <1>1, <1>2 DEF Sound, HasData, Meet

LEMMA SoundnessIsInductive == HSpec => [](IInv /\ KInv /\ SInv)
<1>1. HInit => IInv /\ KInv /\ SInv
  BY InitInv, InitKinds, InitSound DEF HInit
<1>2. IInv /\ KInv /\ SInv /\ [HNext]_hvars => IInv' /\ KInv' /\ SInv'
  <2>1. [HNext]_hvars => [Next]_vars
    BY DEF HNext, hvars, vars
  <2> QED
    BY <2>1, NextInv, NextKinds, NextSound
<1> QED
  BY <1>1, <1>2, PTL DEF HSpec

\* At such a post no write undoes another: what an edit puts back, and the hours an
\* hour is added to, are still what the request read.
THEOREM NothingIsUndone == HSpec => NothingIsUndoneUnlessDisturbed
<1> DEFINE Undone == /\ \A p \in created \ disturbed : post[p] = None => post'[p] = None
                     /\ \A r \in Request :
                           /\ SetTaskTime(r) /\ P(r) \notin disturbed /\ Real(P(r)) =>
                                  post'[P(r)].hours = post[P(r)].hours + 1
                           /\ PutPost(r) /\ P(r) \notin disturbed /\ post[P(r)] # None =>
                                  post'[P(r)] = post[P(r)]
<1>1. ASSUME IInv, KInv, SInv, Next PROVE Undone
  <2>1. ASSUME NEW p \in created \ disturbed, post[p] = None PROVE post'[p] = None
    <3>1. p \in Post /\ Sound(p)
      BY <1>1, <2>1 DEF SInv, IInv, TypeOK
    <3>2. CASE \E q \in Post, u \in User, kind \in Kind : CreatePost(q, u, kind)
      BY <1>1, <2>1, <3>1, <3>2 DEF CreatePost, IInv, TypeOK
    <3>3. ASSUME NEW r \in Request, Start(r) PROVE post'[p] = None
      BY <2>1, <3>3 DEF Start
    <3>4. ASSUME NEW r \in Request, InFlightStep(r) PROVE post'[p] = None
      <4>1. CASE P(r) # p
        BY <1>1, <2>1, <3>1, <3>4, <4>1, StepIsAtOnePost
      <4>2. CASE P(r) = p
        <5>1. Advances(r)
          BY <1>1, <3>4, StepAdvances
        <5>2. req[r].pc = "fetch"
          BY <1>1, <2>1, <3>1, <4>2, <5>1, KnownHere DEF HasData
        <5> QED
          BY <2>1, <3>4, <5>2 DEF InFlightStep, FetchPost, ChangePost, ChangeLike, ChangeComment, ChangePart,
             Abort, PutPost, DeletePost, SetTaskStatus, SetTaskTime, LookForLike, PutLike, CountLike,
             DeleteLike, UncountLike, PutComment, CountComment, FetchComment, FetchPostAgain, EditComment, DeleteComment,
             UncountComment, ChangeCommentLike, ChangeVote, PutItem, DeleteItem, ToggleItem, At
      <4> QED
        BY <4>1, <4>2
    <3> QED
      BY <1>1, <3>2, <3>3, <3>4 DEF Next, HandleWithGroup, InFlightStep
  <2>2. ASSUME NEW r \in Request, P(r) \notin disturbed, PutPost(r) \/ SetTaskTime(r)
        PROVE  /\ P(r) \in Post /\ req[r].read = post[P(r)]
               /\ post[P(r)] \in PostItem
    <3>1. req[r] \in Call /\ req[r] # Idle /\ req[r].pc = "write" /\ req[r].op \in {"edit", "logTime"}
      BY <1>1, <2>2, RequestIsCall DEF PutPost, SetTaskTime, At, Idle
    <3>2. P(r) \in Post
      BY <3>1 DEF P, Call
    <3>3. Sound(P(r))
      BY <1>1, <2>2, <3>2 DEF SInv
    <3>4. Current(r, P(r))
      BY <3>1, <3>2, <3>3 DEF Sound, UnderWay
    <3> QED
      BY <1>1, <3>1, <3>2, <3>4 DEF Current, HasData, IInv, TypeOK
  <2>3. ASSUME NEW r \in Request, SetTaskTime(r), P(r) \notin disturbed, Real(P(r))
        PROVE  post'[P(r)].hours = post[P(r)].hours + 1
    <3>1. post'[P(r)] = [post[P(r)] EXCEPT !.hours = NewTotal(r)]
      BY <1>1, <2>2, <2>3 DEF SetTaskTime, Real, IInv, TypeOK
    <3>2. NewTotal(r) = post[P(r)].hours + 1 /\ post[P(r)] \in PostItem
      BY <2>2, <2>3 DEF NewTotal
    <3> QED
      BY <3>1, <3>2 DEF PostItem
  <2>4. ASSUME NEW r \in Request, PutPost(r), P(r) \notin disturbed
        PROVE  post'[P(r)] = post[P(r)]
    BY <1>1, <2>2, <2>4 DEF PutPost, IInv, TypeOK
  <2> QED
    BY <2>1, <2>3, <2>4
<1>2. IInv /\ KInv /\ SInv /\ [HNext]_hvars => [Undone]_vars
  BY <1>1 DEF HNext, hvars, vars
<1> QED
  BY <1>2, SoundnessIsInductive, PTL DEF HSpec, NothingIsUndoneUnlessDisturbed
-----------------------------------------------------------------------------
(* The likes of such a post.                                               *)

Likers(p) == {u \in User : <<p, u>> \in liked}

\* A like about to be put is new; a count of likes is never ahead of them, but for the
\* request that has taken a like back and not yet counted it off.
LikesHold(p) ==
    LET n == Cardinality(Likers(p)) IN
    /\ \A r \in Request :
          /\ UnderWay(r, p) /\ At(r, "like", "write") => U(r) \notin Likers(p)
          /\ Counting(r, p, "like") => post[p].likes + 1 <= n
          /\ Counting(r, p, "unlike") => post[p].likes <= n + 1
    /\ (\A r \in Request : ~Counting(r, p, "like") /\ ~Counting(r, p, "unlike")) => post[p].likes <= n
LInv == \A p \in Post \ (disturbed \cup overlooked) : HasData(p) => LikesHold(p)

LEMMA LikersFinite == ASSUME NEW p PROVE IsFiniteSet(Likers(p)) /\ Cardinality(Likers(p)) \in Nat
<1>1. Likers(p) \subseteq User
  BY DEF Likers
<1> QED
  BY <1>1, UserAssumption, FS_Subset, FS_CardinalityType

\* Only the two writes of likes of a post change them: those of comments have other keys.
LEMMA LikersStay ==
    ASSUME IInv, NEW r \in Request, InFlightStep(r), NEW p \in Post,
           PutLike(r) \/ DeleteLike(r) => P(r) # p
    PROVE  Likers(p)' = Likers(p)
<1>1. CASE PutLike(r) \/ DeleteLike(r)
  BY <1>1 DEF PutLike, DeleteLike, Like, Likers
<1>2. CASE ChangeCommentLike(r)
  <2>1. req[r] # Idle /\ req[r].op \in CommentOps
    BY <1>2 DEF ChangeCommentLike, At, Idle, CommentOps
  <2>2. req[r].on # p
    BY <2>1, LikeAssumption DEF IInv, InFlight, Names
  <2> QED
    BY <1>2, <2>2 DEF ChangeCommentLike, Likers
<1>3. CASE liked' = liked
  BY <1>3 DEF Likers
<1> QED
  BY <1>1, <1>2, <1>3 DEF InFlightStep, FetchPost, ChangePost, ChangeLike, ChangeComment, ChangePart, Abort,
     PutPost, DeletePost, SetTaskStatus, SetTaskTime, LookForLike, CountLike, UncountLike, PutComment,
     CountComment, FetchComment, FetchPostAgain, EditComment, DeleteComment, UncountComment, ChangeVote, PutItem, DeleteItem,
     ToggleItem, parts

LEMMA LikesElsewhere ==
    ASSUME IInv, NEW r \in Request, InFlightStep(r), NEW p \in Post, P(r) # p, HasData(p) => LikesHold(p), HasData(p)'
    PROVE  LikesHold(p)'
<1>1. Advances(r) /\ post'[p] = post[p] /\ Likers(p)' = Likers(p)
  BY StepAdvances, StepIsAtOnePost, LikersStay
<1>2. LikesHold(p)
  BY <1>1 DEF HasData
<1>3. ASSUME NEW q \in Request
      PROVE  (UnderWay(q, p)' <=> UnderWay(q, p)) /\ (UnderWay(q, p) => req'[q] = req[q])
  BY <1>1 DEF Advances, UnderWay, P
<1>4. \A q \in Request, op \in {"like", "unlike"} : Counting(q, p, op)' <=> Counting(q, p, op)
  BY <1>3 DEF Counting
<1>5. \A q \in Request : UnderWay(q, p)' /\ At(q, "like", "write")' =>
          UnderWay(q, p) /\ At(q, "like", "write") /\ U(q)' = U(q)
  BY <1>3 DEF At, U
<1> QED
  BY <1>1, <1>2, <1>4, <1>5 DEF LikesHold

\* What the only request at a post knows of its likes.
LEMMA LikesHere ==
    ASSUME NEW p \in Post, Sound(p), NEW r \in Request, Advances(r), P(r) = p, LikesHold(p)
    PROVE  /\ UnderWay(r, p) /\ \A q \in Request \ {r} : ~UnderWay(q, p)'
           /\ At(r, "like", "write") => U(r) \notin Likers(p)
           /\ IF Counting(r, p, "like") THEN post[p].likes + 1 <= Cardinality(Likers(p))
              ELSE IF Counting(r, p, "unlike") THEN post[p].likes <= Cardinality(Likers(p)) + 1
              ELSE post[p].likes <= Cardinality(Likers(p))
<1>1. UnderWay(r, p) /\ \A q \in Request \ {r} : ~UnderWay(q, p) /\ ~UnderWay(q, p)'
  BY NobodyElse DEF Sound
<1>2. \A q \in Request \ {r} : ~Counting(q, p, "like") /\ ~Counting(q, p, "unlike")
  BY <1>1 DEF Counting
<1> QED
  BY <1>1, <1>2 DEF LikesHold

\* A step at a post that neither likes, nor takes back, nor counts likes.
LEMMA LikesAlone ==
    ASSUME NEW p \in Post, Sound(p), NEW r \in Request, Advances(r), P(r) = p, LikesHold(p),
           ~Counting(r, p, "like"), ~Counting(r, p, "unlike"),
           Likers(p)' = Likers(p), post'[p].likes = post[p].likes,
           req'[r].pc = "count" => req[r].op \notin {"like", "unlike"},
           At(r, "like", "write")' => U(r)' \notin Likers(p)
    PROVE  LikesHold(p)'
<1>1. /\ \A q \in Request \ {r} : ~UnderWay(q, p)'
      /\ post[p].likes <= Cardinality(Likers(p))
  BY LikesHere
<1>2. ~Counting(r, p, "like")' /\ ~Counting(r, p, "unlike")'
  BY DEF Counting, UnderWay, Advances
<1>3. \A q \in Request : ~Counting(q, p, "like")' /\ ~Counting(q, p, "unlike")'
  BY <1>1, <1>2 DEF Counting
<1> QED
  BY <1>1, <1>3 DEF LikesHold

LEMMA FetchLikes ==
    ASSUME IInv, NEW p \in Post, Sound(p), NEW r \in Request, FetchPost(r), P(r) = p, LikesHold(p)
    PROVE  LikesHold(p)'
<1>1. /\ Advances(r) /\ req[r].pc = "fetch" /\ post' = post /\ liked' = liked
      /\ req'[r] # Idle => req'[r].pc \in {"look", "write"} /\ req'[r].op = req[r].op
  BY FetchAdvances DEF FetchPost, Advances, parts
<1>2. ~At(r, "like", "write")'
  <2>1. CASE Finish(r)
    BY <2>1 DEF Finish, IInv, TypeOK, At, Idle
  <2>2. CASE req[r].op # "like"
    BY <1>1, <2>2 DEF At, Idle
  <2>3. CASE ~Finish(r) /\ req[r].op = "like"
    <3>1. req' = [req EXCEPT ![r].pc = "look", ![r].read = None]
      BY <2>3 DEF FetchPost
    <3>2. req'[r] = [req[r] EXCEPT !.pc = "look", !.read = None]
      BY <3>1 DEF IInv, TypeOK
    <3> QED
      BY <1>1, <3>2 DEF At, Advances, Call
  <2> QED
    BY <2>1, <2>2, <2>3
<1>3. /\ ~Counting(r, p, "like") /\ ~Counting(r, p, "unlike") /\ Likers(p)' = Likers(p)
      /\ req'[r].pc # "count"
  BY <1>1 DEF Counting, Likers, Idle
<1> QED
  BY <1>1, <1>2, <1>3, LikesAlone

\* The steps of another kind: they change no counter of likes.
LEMMA OthersLikes ==
    ASSUME IInv, NEW p \in Post, Sound(p), NEW r \in Request, P(r) = p, LikesHold(p), HasData(p)',
           ChangePost(r) \/ ChangeComment(r) \/ ChangePart(r) \/ (Abort(r) /\ req[r].pc # "count")
    PROVE  LikesHold(p)'
<1>1. /\ InFlightStep(r)
      /\ PutLike(r) \/ DeleteLike(r) => FALSE
      /\ req[r].pc = "count" => req[r].op \notin {"like", "unlike"}
  <2>1. CASE ChangePost(r) \/ ChangeComment(r) \/ ChangePart(r)
    <3>1. req[r].op \notin {"like", "unlike"}
      BY <2>1 DEF ChangePost, PutPost, DeletePost, SetTaskStatus, SetTaskTime, ChangeComment, ChangePart,
         ChangeVote, PutItem, DeleteItem, ToggleItem, PutComment, CountComment, FetchComment, FetchPostAgain, EditComment,
         DeleteComment, UncountComment, ChangeCommentLike, At
    <3> QED
      BY <2>1, <3>1 DEF InFlightStep, PutLike, DeleteLike, At
  <2>2. CASE Abort(r) /\ req[r].pc # "count"
    <3>1. req'[r] = Idle
      BY <2>2 DEF Abort, Finish, IInv, TypeOK
    <3>2. req[r] \in Call
      BY <2>2 DEF Abort, IInv, TypeOK
    <3>3. Goto(r, "count") => req'[r] = [req[r] EXCEPT !.pc = "count"]
      BY DEF Goto, IInv, TypeOK
    <3>4. ~Goto(r, "count")
      BY <3>1, <3>2, <3>3 DEF Idle, Call
    <3> QED
      BY <2>2, <3>4 DEF InFlightStep, PutLike, DeleteLike
  <2> QED
    BY <2>1, <2>2
<1>2. Advances(r) /\ Likers(p)' = Likers(p)
  BY <1>1, StepAdvances, LikersStay
<1>3. req'[r] = Idle \/ req[r].op \notin {"like", "unlike"}
  <2>1. Finish(r) => req'[r] = Idle
    BY DEF Finish, IInv, TypeOK
  <2> QED
    BY <2>1 DEF ChangePost, PutPost, DeletePost, SetTaskStatus, SetTaskTime, ChangeComment, ChangePart,
       ChangeVote, PutItem, DeleteItem, ToggleItem, PutComment, CountComment, FetchComment, FetchPostAgain, EditComment,
       DeleteComment, UncountComment, ChangeCommentLike, At, Abort
<1>4. post'[p].likes = post[p].likes
  <2>1. CASE post' = post
    BY <2>1
  <2>2. CASE ChangePost(r)
    BY <2>2, ChangePostCounts DEF HasData
  <2>3. CASE CountComment(r) \/ UncountComment(r)
    <3>1. HasData(p) /\ post[p] \in PostItem
      BY <1>2, <2>3, KnownHere DEF CountComment, UncountComment, At
    <3>2. \/ post'[p] = [post[p] EXCEPT !.comments = @ + 1]
          \/ post'[p] = [post[p] EXCEPT !.comments = Decrement(@)]
      BY <2>3, <3>1 DEF CountComment, UncountComment, Found, HasData, IInv, TypeOK
    <3> QED
      BY <3>1, <3>2 DEF PostItem
  <2> QED
    BY <2>1, <2>2, <2>3 DEF ChangeComment, ChangePart, ChangeVote, PutItem, DeleteItem, ToggleItem, PutComment,
       FetchComment, FetchPostAgain, EditComment, DeleteComment, ChangeCommentLike, Abort
<1>5. ~Counting(r, p, "like") /\ ~Counting(r, p, "unlike")
  BY <1>1 DEF Counting
<1>6. /\ req'[r].pc = "count" => req[r].op \notin {"like", "unlike"}
      /\ ~At(r, "like", "write")'
  <2>1. CASE req'[r] = Idle
    BY <2>1 DEF At, Idle
  <2>2. CASE req'[r] # Idle
    BY <1>2, <1>3, <2>2 DEF At, Advances
  <2> QED
    BY <2>1, <2>2
<1> QED
  BY <1>2, <1>4, <1>5, <1>6, LikesAlone

\* The look-up, unless it fails over a like; the two writes; and their counts.
LEMMA LikeLikes ==
    ASSUME IInv, NEW p \in Post, Sound(p), NEW r \in Request, ChangeLike(r), P(r) = p, LikesHold(p), ~LikedAgain(p)
    PROVE  LikesHold(p)'
<1> DEFINE n == Cardinality(Likers(p))
           u == U(r)
<1>1. InFlightStep(r) /\ req[r].pc # "fetch"
  BY DEF InFlightStep, ChangeLike, LookForLike, PutLike, CountLike, DeleteLike, UncountLike, At
<1>2. Advances(r) /\ req[r] \in Call
  BY <1>1, StepAdvances DEF Advances
<1>3. UnderWay(r, p) /\ \A q \in Request \ {r} : ~UnderWay(q, p)'
  BY <1>2, LikesHere
<1>4. HasData(p) /\ post[p] \in PostItem /\ post[p].likes \in Int /\ n \in Nat /\ IsFiniteSet(Likers(p))
  BY <1>1, <1>2, KnownHere, LikersFinite DEF PostItem
<1>5. u \in User
  BY <1>2 DEF U, Call
<1>6. CASE LookForLike(r)
  <2>1. /\ post' = post /\ Likers(p)' = Likers(p) /\ req[r].pc = "look" /\ req[r].op = "like"
        /\ ~Counting(r, p, "like") /\ ~Counting(r, p, "unlike")
    BY <1>6 DEF LookForLike, At, Likers, parts, Counting
  <2>2. CASE Finish(r)
    <3>1. req'[r] = Idle
      BY <2>2 DEF Finish, IInv, TypeOK
    <3> QED
      BY <1>2, <2>1, <3>1, LikesAlone DEF At, Idle
  <2>3. CASE Goto(r, "write")
    <3>1. Like(r) \notin liked
      BY <1>3, <1>6, <2>3 DEF LikedAgain, LookForLike
    <3>2. u \notin Likers(p)
      BY <3>1 DEF Likers, Like
    <3>3. req'[r] = [req[r] EXCEPT !.pc = "write"]
      BY <2>3 DEF Goto, IInv, TypeOK
    <3>4. req'[r].pc = "write" /\ U(r)' = u
      BY <1>2, <3>3 DEF U, Call
    <3> QED
      BY <1>2, <2>1, <3>2, <3>4, LikesAlone
  <2> QED
    BY <1>6, <2>2, <2>3 DEF LookForLike
<1>7. CASE PutLike(r) \/ DeleteLike(r)
  <2>1. req[r].pc = "write" /\ Goto(r, "count") /\ post' = post /\ created' = created
        /\ ~Counting(r, p, "like") /\ ~Counting(r, p, "unlike")
    BY <1>7 DEF PutLike, DeleteLike, At, Counting
  <2>2. post[p].likes <= n
    BY <1>2, <2>1, LikesHere
  <2>3. req'[r].pc = "count" /\ req'[r].op = req[r].op
    <3>1. req'[r] = [req[r] EXCEPT !.pc = "count"]
      BY <2>1 DEF Goto, IInv, TypeOK
    <3> QED
      BY <1>2, <3>1 DEF Call
  <2>4. \A q \in Request, op \in {"like", "unlike"} : Counting(q, p, op)' => q = r /\ op = req[r].op
    BY <1>3, <2>3 DEF Counting
  <2>5. \A q \in Request : ~(UnderWay(q, p)' /\ At(q, "like", "write")')
    BY <1>3, <2>3 DEF At
  <2>6. \A op : op = req[r].op => Counting(r, p, op)'
    BY <1>2, <1>3, <2>3 DEF Counting, UnderWay, P, Advances, Idle
  <2>7. CASE PutLike(r)
    <3>1. u \notin Likers(p) /\ req[r].op = "like"
      BY <1>2, <2>7, LikesHere DEF PutLike, At
    <3>2. PICK new : new = Likers(p)' /\ new = Likers(p) \cup {u}
      BY <1>5, <2>7 DEF PutLike, Like, Likers
    <3>3. Cardinality(new) = n + 1
      BY <1>4, <3>1, <3>2, FS_AddElement
    <3>4. post'[p].likes + 1 <= Cardinality(Likers(p))'
      BY <1>4, <2>1, <2>2, <3>2, <3>3
    <3>5. Counting(r, p, "like")' /\ \A q \in Request : ~Counting(q, p, "unlike")'
      BY <2>4, <2>6, <3>1
    <3>6. \A q \in Request : Counting(q, p, "like")' => post'[p].likes + 1 <= Cardinality(Likers(p))'
      BY <3>4
    <3> QED
      BY <2>5, <3>5, <3>6 DEF LikesHold
  <2>8. CASE DeleteLike(r)
    <3>1. req[r].op = "unlike"
      BY <2>8 DEF DeleteLike, At
    <3>2. PICK new : new = Likers(p)' /\ new = Likers(p) \ {u}
      BY <1>5, <2>8 DEF DeleteLike, Like, Likers
    <3>3. n <= Cardinality(new) + 1 /\ Cardinality(new) \in Nat
      <4>1. CASE u \in Likers(p)
        <5>1. Cardinality(new) = n - 1 /\ n > 0
          BY <1>4, <3>2, <4>1, FS_RemoveElement, FS_EmptySet
        <5> QED
          BY <1>4, <5>1
      <4>2. CASE u \notin Likers(p)
        <5>1. new = Likers(p)
          BY <3>2, <4>2
        <5> QED
          BY <1>4, <5>1
      <4> QED
        BY <4>1, <4>2
    <3>4. post'[p].likes <= Cardinality(Likers(p))' + 1
      BY <1>4, <2>1, <2>2, <3>2, <3>3
    <3>5. Counting(r, p, "unlike")' /\ \A q \in Request : ~Counting(q, p, "like")'
      BY <2>4, <2>6, <3>1
    <3>6. \A q \in Request : Counting(q, p, "unlike")' => post'[p].likes <= Cardinality(Likers(p))' + 1
      BY <3>4
    <3> QED
      BY <2>5, <3>5, <3>6 DEF LikesHold
  <2> QED
    BY <1>7, <2>7, <2>8
<1>8. CASE CountLike(r) \/ UncountLike(r)
  <2>1. req'[r] = Idle /\ Likers(p)' = Likers(p)
    BY <1>8 DEF CountLike, UncountLike, Finish, IInv, TypeOK, Likers, parts
  <2>2. \A q \in Request : ~UnderWay(q, p)'
    BY <1>3, <2>1 DEF UnderWay
  <2>3. post'[p].likes <= n
    <3>1. CASE CountLike(r)
      <4>1. post'[p] = [post[p] EXCEPT !.likes = @ + 1]
        BY <3>1, <1>4 DEF CountLike, Found, HasData, IInv, TypeOK
      <4>2. post[p].likes + 1 <= n
        BY <3>1, <1>2, <1>3, LikesHere DEF Counting, CountLike, At
      <4> QED
        BY <4>1, <4>2, <1>4 DEF PostItem
    <3>2. CASE UncountLike(r)
      <4>1. post'[p] = [post[p] EXCEPT !.likes = Decrement(@)]
        BY <3>2, <1>4 DEF UncountLike, HasData, IInv, TypeOK
      <4>2. post[p].likes <= n + 1
        BY <3>2, <1>2, <1>3, LikesHere DEF Counting, UncountLike, At
      <4>3. Decrement(post[p].likes) <= n
        BY <4>2, <1>4 DEF Decrement
      <4> QED
        BY <4>1, <4>3, <1>4 DEF PostItem
    <3> QED
      BY <3>1, <3>2, <1>8
  <2> QED
    BY <2>1, <2>2, <2>3 DEF LikesHold, Counting
<1> QED
  BY <1>6, <1>7, <1>8 DEF ChangeLike

LEMMA StepLikes ==
    ASSUME IInv, NEW p \in Post, Sound(p), NEW r \in Request, InFlightStep(r), ~Uncounted(p), ~LikedAgain(p),
           HasData(p) => LikesHold(p), HasData(p)'
    PROVE  LikesHold(p)'
<1>1. CASE P(r) # p
  BY <1>1, LikesElsewhere
<1>2. CASE P(r) = p
  <2>1. HasData(p)
    <3>1. Advances(r)
      BY StepAdvances
    <3>2. CASE FetchPost(r)
      BY <3>2 DEF FetchPost, HasData
    <3>3. CASE ~FetchPost(r) /\ req[r].pc # "fetch"
      BY <1>2, <3>1, <3>3, KnownHere
    <3>4. CASE ~FetchPost(r) /\ req[r].pc = "fetch"
      <4>1. post' = post
        BY <3>4 DEF InFlightStep, ChangePost, ChangeLike, ChangeComment, ChangePart,
           Abort, PutPost, DeletePost, SetTaskStatus, SetTaskTime, LookForLike, PutLike, CountLike,
           DeleteLike, UncountLike, PutComment, CountComment, FetchComment, FetchPostAgain, EditComment, DeleteComment,
           UncountComment, ChangeCommentLike, ChangeVote, PutItem, DeleteItem, ToggleItem, At
      <4> QED
        BY <4>1 DEF HasData
    <3> QED
      BY <3>2, <3>3, <3>4
  <2>2. Abort(r) => req[r].pc # "count"
    BY <1>2 DEF Uncounted, UnderWay, Abort
  <2>3. LikesHold(p)
    BY <2>1
  <2>4. CASE FetchPost(r)
    BY <1>2, <2>3, <2>4, FetchLikes
  <2>5. CASE ChangeLike(r)
    BY <1>2, <2>3, <2>5, LikeLikes
  <2>6. CASE ChangePost(r) \/ ChangeComment(r) \/ ChangePart(r) \/ Abort(r)
    <3>1. ChangePost(r) \/ ChangeComment(r) \/ ChangePart(r) \/ (Abort(r) /\ req[r].pc # "count")
      BY <2>2, <2>6
    <3> QED
      BY <1>2, <2>3, <3>1, OthersLikes
  <2> QED
    BY <2>4, <2>5, <2>6 DEF InFlightStep
<1> QED
  BY <1>1, <1>2

LEMMA StartLikes ==
    ASSUME IInv, NEW p \in Post, LikesHold(p), NEW r \in Request, Start(r)
    PROVE  LikesHold(p)'
<1>1. /\ req[r] = Idle /\ UNCHANGED <<post, created, parts>>
      /\ \A q \in Request \ {r} : req'[q] = req[q]
      /\ req'[r].pc = "fetch"
  <2>1. PICK op \in Operation, q \in created, u \in User : \E x \in Targets(op) :
            req' = [req EXCEPT ![r] = [pc |-> "fetch", op |-> op, post |-> q,
                                       user |-> u, on |-> x, read |-> None]]
    BY DEF Start
  <2> QED
    BY <2>1 DEF IInv, TypeOK, Start
<1>2. \A q \in Request, op \in {"like", "unlike"} : Counting(q, p, op)' <=> Counting(q, p, op)
  BY <1>1 DEF Counting, UnderWay, P
<1>3. \A q \in Request : UnderWay(q, p)' /\ At(q, "like", "write")' =>
          UnderWay(q, p) /\ At(q, "like", "write") /\ U(q)' = U(q)
  BY <1>1 DEF UnderWay, At, P, U
<1>4. Likers(p)' = Likers(p)
  BY <1>1 DEF Likers, parts
<1> QED
  BY <1>1, <1>2, <1>3, <1>4 DEF LikesHold

LEMMA CreateLikes ==
    ASSUME IInv, KInv, NEW p \in Post, HasData(p) => LikesHold(p), HasData(p)',
           NEW q \in Post, NEW u \in User, NEW kind \in Kind, CreatePost(q, u, kind)
    PROVE  LikesHold(p)'
<1>1. /\ UNCHANGED <<parts, req>> /\ Bare(q)
      /\ \A x \in Post \ {q} : post'[x] = post[x]
      /\ post'[q] = [Ghost EXCEPT !.kind = kind, !.author = u]
  BY DEF CreatePost, KInv, Drawings, IInv, TypeOK
<1>2. Likers(p)' = Likers(p)
  BY <1>1 DEF Likers, parts
<1>3. CASE p # q
  <2>1. post'[p] = post[p] /\ LikesHold(p)
    BY <1>1, <1>3 DEF HasData
  <2>2. \A x \in Request, op \in {"like", "unlike"} : Counting(x, p, op)' <=> Counting(x, p, op)
    BY <1>1 DEF Counting, UnderWay, P
  <2>3. \A x \in Request : UnderWay(x, p)' /\ At(x, "like", "write")' =>
            UnderWay(x, p) /\ At(x, "like", "write") /\ U(x)' = U(x)
    BY <1>1 DEF UnderWay, At, P, U
  <2> QED
    BY <1>2, <2>1, <2>2, <2>3 DEF LikesHold
<1>4. CASE p = q
  <2>1. \A x \in Request : ~UnderWay(x, p)'
    BY <1>1, <1>4 DEF Bare, UnderWay, P
  <2>2. post'[p].likes = 0
    BY <1>1, <1>4 DEF Ghost
  <2>3. post'[p].likes <= Cardinality(Likers(p))'
    BY <1>2, <2>2, LikersFinite
  <2> QED
    BY <2>1, <2>3 DEF LikesHold, Counting
<1> QED
  BY <1>3, <1>4

LEMMA NextLikes == IInv /\ KInv /\ SInv /\ LInv /\ [HNext]_hvars => LInv'
<1> SUFFICES ASSUME IInv, KInv, SInv, LInv, [HNext]_hvars,
                    NEW p \in Post, p \notin disturbed', p \notin overlooked', HasData(p)'
             PROVE  LikesHold(p)'
  BY DEF LInv
<1>1. CASE UNCHANGED hvars
  <2>1. LikesHold(p)
    BY <1>1 DEF LInv, HasData, hvars, vars
  <2>2. Likers(p)' = Likers(p) /\ post' = post
    BY <1>1 DEF Likers, hvars, vars
  <2>3. \A q \in Request, op \in {"like", "unlike"} : Counting(q, p, op)' <=> Counting(q, p, op)
    BY <1>1 DEF Counting, UnderWay, P, hvars, vars
  <2>4. \A q \in Request : UnderWay(q, p)' /\ At(q, "like", "write")' =>
            UnderWay(q, p) /\ At(q, "like", "write") /\ U(q)' = U(q)
    BY <1>1 DEF UnderWay, At, P, U, hvars, vars
  <2> QED
    BY <2>1, <2>2, <2>3, <2>4 DEF LikesHold
<1>2. CASE HNext
  <2>1. p \notin disturbed /\ p \notin overlooked /\ ~Uncounted(p) /\ ~LikedAgain(p)
    BY <1>2 DEF HNext, Remember
  <2>2. Sound(p) /\ (HasData(p) => LikesHold(p))
    BY <2>1 DEF SInv, LInv
  <2>3. ASSUME NEW r \in Request, Start(r) PROVE LikesHold(p)'
    <3>1. HasData(p)
      BY <2>3 DEF Start, HasData
    <3> QED
      BY <2>2, <2>3, <3>1, StartLikes
  <2> QED
    BY <1>2, <2>1, <2>2, <2>3, StepLikes, CreateLikes DEF HNext, Next, HandleWithGroup, InFlightStep
<1> QED
  BY <1>1, <1>2

\* likeCount is never more than the likes of a post at which no two requests met, none
\* died before its count and no look-up failed over a like: a like is counted for an
\* item that is new, and every item that goes is counted off.
THEOREM LikesAreNotOverstated == HSpec => []LikesNotOverstatedUnlessDisturbed
<1>1. HInit => LInv
  BY DEF HInit, Init, LInv, HasData
<1>2. IInv /\ KInv /\ SInv /\ LInv /\ [HNext]_hvars => LInv'
  BY NextLikes
<1>3. LInv => LikesNotOverstatedUnlessDisturbed
  BY DEF LInv, LikesHold, Likers, Counting, LikesNotOverstatedUnlessDisturbed, Real, Rests
<1> QED
  BY <1>1, <1>2, <1>3, SoundnessIsInductive, PTL DEF HSpec
-----------------------------------------------------------------------------
(* Of the posts that no request names with another post's comment, the       *)
(* counter is the number of the comments, but for the one a request is about *)
(* to count: the comment that is counted off was there, and no edit makes    *)
(* one.                                                                      *)

Reckoned(p) ==
    LET n == Cardinality(Comments(p)) IN
    /\ \A r \in Request : Counting(r, p, "comment") => post[p].comments + 1 = n
    /\ \A r \in Request : Counting(r, p, "deleteComment") => post[p].comments = n + 1
    /\ (\A r \in Request : ~Counting(r, p, "comment") /\ ~Counting(r, p, "deleteComment"))
          => post[p].comments = n

FoundHere(r, p) ==
    UnderWay(r, p) /\ req[r].op \in {"editComment", "deleteComment"} /\ req[r].pc \in {"again", "write"} =>
        comment[p][req[r].on] = "real"

Tallied(p) == /\ \A r \in Request : FoundHere(r, p)
              /\ HasData(p) => Reckoned(p)
TInv == \A p \in Post \ (disturbed \cup strayed) : ~Astray(p) /\ Tallied(p)

LEMMA CommentsFinite == ASSUME NEW p PROVE IsFiniteSet(Comments(p)) /\ Cardinality(Comments(p)) \in Nat
<1>1. Comments(p) \subseteq Comment
  BY DEF Comments
<1> QED
  BY <1>1, PartAssumption, FS_Subset, FS_CardinalityType

LEMMA TallyElsewhere ==
    ASSUME IInv, NEW r \in Request, InFlightStep(r), NEW p \in Post, P(r) # p, Tallied(p)
    PROVE  Tallied(p)'
<1>1. Comments(p)' = Comments(p) /\ (HasData(p)' <=> HasData(p))
  BY Elsewhere DEF Comments, HasData
<1>2. \A q \in Request, op \in {"comment", "deleteComment"} : Counting(q, p, op)' <=> Counting(q, p, op)
  BY Elsewhere DEF Counting
<1>3. HasData(p)' => Reckoned(p)'
  BY <1>1, <1>2, Elsewhere DEF Tallied, Reckoned
<1>4. \A q \in Request : FoundHere(q, p)'
  BY Elsewhere DEF Tallied, FoundHere
<1> QED
  BY <1>3, <1>4 DEF Tallied

\* A step at a post that neither adds a comment, nor takes one away, nor counts.
LEMMA TallyHere ==
    ASSUME NEW p \in Post, Sound(p), Tallied(p), NEW r \in Request, Advances(r), P(r) = p,
           ~Counting(r, p, "comment"), ~Counting(r, p, "deleteComment"),
           comment'[p] = comment[p],
           HasData(p)' => HasData(p) /\ post'[p].comments = post[p].comments,
           req'[r] # Idle => /\ req'[r].pc = "count" => req[r].op \in {"like", "unlike"}
                             /\ FoundHere(r, p)'
    PROVE  Tallied(p)'
<1>1. \A q \in Request \ {r} : ~UnderWay(q, p) /\ ~UnderWay(q, p)'
  BY NobodyElse DEF Sound
<1>2. \A q \in Request : FoundHere(q, p)'
  BY <1>1 DEF FoundHere, UnderWay
<1>3. \A q \in Request : ~Counting(q, p, "comment") /\ ~Counting(q, p, "deleteComment")
  BY <1>1 DEF Counting
<1>4. \A q \in Request : ~Counting(q, p, "comment")' /\ ~Counting(q, p, "deleteComment")'
  BY <1>1 DEF Counting, UnderWay, Advances
<1>5. Comments(p)' = Comments(p)
  BY DEF Comments
<1>6. HasData(p)' => Reckoned(p)'
  BY <1>3, <1>4, <1>5 DEF Tallied, Reckoned
<1> QED
  BY <1>2, <1>6 DEF Tallied

\* What the index shows of a comment of this post is the item under its key.
LEMMA IndexedHere ==
    ASSUME KInv, NEW c \in Comment, NEW p \in Post, origin[c].post = p, Indexed(c)
    PROVE  comment[p][c] = "real"
BY DEF Indexed, KInv, Homes, Made

\* Whoever gets to a write of a comment has found it.
LEMMA TallyOthers ==
    ASSUME IInv, KInv, NEW p \in Post, Sound(p), ~Astray(p), Tallied(p), NEW r \in Request,
           InFlightStep(r), P(r) = p, ~Uncounted(p),
           ~PutComment(r), ~CountComment(r), ~DeleteComment(r), ~UncountComment(r)
    PROVE  Tallied(p)'
<1>1. Advances(r) /\ UnderWay(r, p)
  BY StepAdvances DEF Advances, UnderWay
<1>2. ~Counting(r, p, "comment") /\ ~Counting(r, p, "deleteComment")
  <2>1. ~Abort(r) \/ req[r].pc # "count"
    BY <1>1 DEF Uncounted
  <2> QED
    BY <2>1 DEF Counting, InFlightStep, FetchPost, ChangePost, ChangeLike, ChangeComment, ChangePart, PutPost,
       DeletePost, SetTaskStatus, SetTaskTime, LookForLike, PutLike, CountLike, DeleteLike, UncountLike,
       FetchComment, FetchPostAgain, EditComment, ChangeCommentLike, ChangeVote, PutItem, DeleteItem,
       ToggleItem, At
<1>3. req[r].op \in {"editComment", "deleteComment"} =>
          req[r].on \in Comment /\ origin[req[r].on].post = p
  BY <1>1 DEF Astray, IInv, InFlight, Names, CommentOps, UnderWay
<1>4. comment'[p] = comment[p]
  <2>1. CASE EditComment(r)
    <3>1. comment[p][req[r].on] = "real"
      BY <1>1, <2>1 DEF EditComment, At, Tallied, FoundHere
    <3> QED
      BY <2>1, <3>1, <1>3 DEF EditComment, At, IInv, TypeOK
  <2>2. CASE ~EditComment(r)
    BY <2>2 DEF InFlightStep, FetchPost, ChangePost, ChangeLike, ChangeComment, ChangePart, Abort, PutPost,
       DeletePost, SetTaskStatus, SetTaskTime, LookForLike, PutLike, CountLike, DeleteLike, UncountLike,
       FetchComment, FetchPostAgain, ChangeCommentLike, ChangeVote, PutItem, DeleteItem, ToggleItem, parts
  <2> QED
    BY <2>1, <2>2
<1>5. HasData(p)' => HasData(p) /\ post'[p].comments = post[p].comments
  <2>1. CASE ChangePost(r)
    BY <2>1, ChangePostCounts DEF HasData
  <2>2. CASE CountLike(r) \/ UncountLike(r)
    <3>1. HasData(p) /\ post[p] \in PostItem
      BY <1>1, <2>2, KnownHere DEF CountLike, UncountLike, At
    <3>2. \/ post'[p] = [post[p] EXCEPT !.likes = @ + 1]
          \/ post'[p] = [post[p] EXCEPT !.likes = Decrement(@)]
      BY <2>2, <3>1 DEF CountLike, UncountLike, Found, HasData, IInv, TypeOK
    <3> QED
      BY <3>1, <3>2 DEF PostItem
  <2>3. CASE ~(ChangePost(r) \/ CountLike(r) \/ UncountLike(r))
    <3>1. post' = post
      BY <2>3 DEF InFlightStep, FetchPost, ChangeLike, ChangeComment, ChangePart, Abort, LookForLike, PutLike,
         DeleteLike, FetchComment, FetchPostAgain, EditComment, ChangeCommentLike, ChangeVote, PutItem,
         DeleteItem, ToggleItem
    <3> QED
      BY <3>1 DEF HasData
  <2> QED
    BY <2>1, <2>2, <2>3
<1>6. ASSUME req'[r] # Idle
      PROVE  (req'[r].pc = "count" => req[r].op \in {"like", "unlike"}) /\ FoundHere(r, p)'
  <2>1. ~Finish(r) /\ ~Abort(r) /\ req'[r].op = req[r].op /\ req'[r].on = req[r].on
    BY <1>1, <1>6 DEF Finish, Abort, Advances, IInv, TypeOK
  <2>2. CASE FetchPost(r)
    <3>1. req'[r].pc \in {"look", "write"} /\ (req[r].op \in {"editComment", "deleteComment"} => req'[r].pc = "look")
      BY <1>6, <2>2, FetchAdvances
    <3> QED
      BY <2>1, <3>1 DEF FoundHere
  <2>3. CASE FetchComment(r)
    <3>1. /\ Indexed(req[r].on) /\ req[r].op \in {"editComment", "deleteComment"}
          /\ Goto(r, "write") \/ Goto(r, "again")
      BY <2>1, <2>3 DEF FetchComment, At
    <3>2. req'[r].pc \in {"write", "again"}
      BY <1>1, <3>1, GoneTo DEF Advances
    <3>3. comment[p][req[r].on] = "real"
      BY <1>3, <3>1, IndexedHere
    <3> QED
      BY <1>4, <2>1, <3>2, <3>3 DEF FoundHere
  <2>4. CASE FetchPostAgain(r)
    <3>1. comment[p][req[r].on] = "real"
      BY <1>1, <2>4 DEF FetchPostAgain, At, Tallied, FoundHere
    <3>2. req'[r].pc = "write"
      BY <1>6, <2>4, AgainAdvances
    <3> QED
      BY <1>4, <2>1, <3>1, <3>2 DEF FoundHere
  <2>5. CASE ~(FetchPost(r) \/ FetchComment(r) \/ FetchPostAgain(r))
    <3>1. req[r].op \in {"like", "unlike"}
      BY <2>1, <2>5 DEF InFlightStep, ChangePost, ChangeLike, ChangeComment, ChangePart, PutPost, DeletePost,
         SetTaskStatus, SetTaskTime, LookForLike, PutLike, CountLike, DeleteLike, UncountLike, EditComment,
         ChangeCommentLike, ChangeVote, PutItem, DeleteItem, ToggleItem, At
    <3> QED
      BY <2>1, <3>1 DEF FoundHere
  <2> QED
    BY <2>2, <2>3, <2>4, <2>5
<1> QED
  BY <1>1, <1>2, <1>4, <1>5, <1>6, TallyHere

LEMMA TallyPuts ==
    ASSUME IInv, KInv, NEW p \in Post, Sound(p), Tallied(p), NEW r \in Request, P(r) = p, PutComment(r)
    PROVE  Tallied(p)'
<1> DEFINE n == Cardinality(Comments(p))
           c == req[r].on
<1>1. /\ Advances(r) /\ req'[r].pc = "count" /\ req[r].pc = "write" /\ req[r].op = "comment" /\ post' = post
  BY GoingAdvances DEF PutComment, At
<1>2. UnderWay(r, p) /\ \A q \in Request \ {r} : ~UnderWay(q, p) /\ ~UnderWay(q, p)'
  BY <1>1, NobodyElse DEF Sound
<1>3. c \in Comment /\ origin[c] = None
  BY <1>1 DEF IInv, InFlight, Names, Advances, KInv, Fresh, Draws
<1>4. Comments(p)' = Comments(p) \cup {c} /\ c \notin Comments(p)
  BY <1>3 DEF PutComment, Comments, IInv, TypeOK, KInv, Homes
<1>5. Cardinality(Comments(p))' = n + 1
  <2>1. PICK new : new = Comments(p)'
    OBVIOUS
  <2>2. Cardinality(new) = n + 1
    BY <1>4, <2>1, CommentsFinite, FS_AddElement
  <2> QED
    BY <2>1, <2>2
<1>6. HasData(p) /\ Reckoned(p)
  BY <1>1, KnownHere DEF Tallied
<1>7. post[p].comments = n
  BY <1>1, <1>2, <1>6 DEF Reckoned, Counting
<1>8. req'[r].op = "comment" /\ \A q \in Request : UnderWay(q, p)' => q = r
  BY <1>1, <1>2 DEF Advances, Idle
<1>9. UnderWay(r, p)'
  BY <1>1, <1>2 DEF UnderWay, Advances, P, Idle
<1>10. \A q \in Request : FoundHere(q, p)'
  BY <1>8 DEF FoundHere
<1>11. Reckoned(p)'
  BY <1>1, <1>5, <1>7, <1>8, <1>9 DEF Reckoned, Counting
<1> QED
  BY <1>10, <1>11 DEF Tallied

LEMMA TallyDeletes ==
    ASSUME IInv, NEW p \in Post, Sound(p), Tallied(p), NEW r \in Request, P(r) = p, DeleteComment(r)
    PROVE  Tallied(p)'
<1> DEFINE n == Cardinality(Comments(p))
           c == req[r].on
<1>1. Advances(r) /\ req[r].pc = "write" /\ req[r].op = "deleteComment" /\ post' = post
  BY StepAdvances DEF InFlightStep, ChangeComment, DeleteComment, At
<1>2. UnderWay(r, p) /\ \A q \in Request \ {r} : ~UnderWay(q, p) /\ ~UnderWay(q, p)'
  BY <1>1, NobodyElse DEF Sound
<1>3. Current(r, p) /\ HasData(p) /\ post[p].comments \in Int
  BY <1>1, KnownHere
<1>4. Goto(r, "count")
  BY <1>1, <1>3 DEF Current, DeleteComment
<1>5. req'[r].pc = "count"
  BY <1>1, <1>4, GoneTo DEF Advances
<1>6. c \in Comment /\ comment[p][c] = "real"
  BY <1>1, <1>2 DEF IInv, InFlight, Names, CommentOps, Advances, Tallied, FoundHere
<1>7. Comments(p)' = Comments(p) \ {c} /\ c \in Comments(p)
  BY <1>6 DEF DeleteComment, Comments, IInv, TypeOK
<1>8. Cardinality(Comments(p))' = n - 1
  <2>1. PICK new : new = Comments(p)'
    OBVIOUS
  <2>2. new = Comments(p) \ {c} /\ IsFiniteSet(Comments(p)) /\ n \in Nat
    BY <1>7, <2>1, CommentsFinite
  <2>3. Cardinality(new) = n - 1
    BY <1>7, <2>2, FS_RemoveElement
  <2> QED
    BY <2>1, <2>3
<1>9. post[p].comments = n
  BY <1>1, <1>2, <1>3 DEF Tallied, Reckoned, Counting
<1>10. req'[r].op = "deleteComment" /\ \A q \in Request : UnderWay(q, p)' => q = r
  BY <1>1, <1>2, <1>5 DEF Advances, Idle
<1>11. UnderWay(r, p)'
  BY <1>1, <1>2, <1>5 DEF UnderWay, Advances, P, Idle
<1>12. \A q \in Request : FoundHere(q, p)'
  BY <1>5, <1>10 DEF FoundHere
<1>13. post'[p].comments = Cardinality(Comments(p))' + 1
  BY <1>1, <1>3, <1>8, <1>9
<1>14. Reckoned(p)'
  BY <1>5, <1>10, <1>11, <1>13 DEF Reckoned, Counting
<1> QED
  BY <1>12, <1>14 DEF Tallied

LEMMA TallyCounts ==
    ASSUME IInv, NEW p \in Post, Sound(p), Tallied(p), NEW r \in Request, P(r) = p,
           CountComment(r) \/ UncountComment(r)
    PROVE  Tallied(p)'
<1> DEFINE n == Cardinality(Comments(p))
<1>1. Advances(r) /\ req[r].pc = "count" /\ req'[r] = Idle /\ comment' = comment
  BY StepAdvances DEF InFlightStep, ChangeComment, CountComment, UncountComment, At, parts, Finish, IInv, TypeOK
<1>2. UnderWay(r, p) /\ \A q \in Request \ {r} : ~UnderWay(q, p) /\ ~UnderWay(q, p)'
  BY <1>1, NobodyElse DEF Sound
<1>3. HasData(p) /\ Reckoned(p) /\ post[p] \in PostItem /\ post[p].comments \in Int
  BY <1>1, KnownHere DEF Tallied
<1>4. \A q \in Request : ~UnderWay(q, p)'
  BY <1>1, <1>2 DEF UnderWay
<1>5. post'[p].comments = n
  <2>1. CASE CountComment(r)
    <3>1. post'[p] = [post[p] EXCEPT !.comments = @ + 1]
      BY <2>1, <1>3 DEF CountComment, Found, HasData, IInv, TypeOK
    <3>2. post[p].comments + 1 = n
      BY <2>1, <1>2, <1>3 DEF CountComment, At, Reckoned, Counting
    <3> QED
      BY <3>1, <3>2, <1>3 DEF PostItem
  <2>2. CASE UncountComment(r)
    <3>1. post'[p] = [post[p] EXCEPT !.comments = Decrement(@)]
      BY <2>2, <1>3 DEF UncountComment, HasData, IInv, TypeOK
    <3>2. post[p].comments = n + 1
      BY <2>2, <1>2, <1>3 DEF UncountComment, At, Reckoned, Counting
    <3>3. Decrement(post[p].comments) = n
      BY <3>2, CommentsFinite DEF Decrement
    <3> QED
      BY <3>1, <3>3, <1>3 DEF PostItem
  <2> QED
    BY <2>1, <2>2
<1>6. Comments(p)' = Comments(p)
  BY <1>1 DEF Comments
<1>7. Reckoned(p)' /\ \A q \in Request : FoundHere(q, p)'
  BY <1>4, <1>5, <1>6 DEF Reckoned, Counting, FoundHere
<1> QED
  BY <1>7 DEF Tallied

LEMMA TallyStarts ==
    ASSUME IInv, NEW p \in Post, Tallied(p), NEW r \in Request, Start(r)
    PROVE  Tallied(p)'
<1>1. \A q \in Request : UnderWay(q, p)' /\ req'[q].pc # "fetch" => UnderWay(q, p) /\ req'[q] = req[q]
  BY StartStarts DEF UnderWay, P
<1>2. \A q \in Request : FoundHere(q, p)'
  BY <1>1, StartStarts DEF Tallied, FoundHere, parts
<1>3. \A q \in Request, op \in {"comment", "deleteComment"} : Counting(q, p, op)' <=> Counting(q, p, op)
  BY StartStarts DEF Counting, UnderWay, P, Idle
<1>4. Comments(p)' = Comments(p) /\ post' = post
  BY StartStarts DEF Comments, parts
<1>5. HasData(p)' => Reckoned(p)'
  BY <1>3, <1>4 DEF HasData, Tallied, Reckoned
<1> QED
  BY <1>2, <1>5 DEF Tallied

LEMMA TallyCreates ==
    ASSUME IInv, KInv, NEW p \in Post, Tallied(p), NEW q \in Post, NEW u \in User, NEW kind \in Kind,
           CreatePost(q, u, kind)
    PROVE  Tallied(p)'
<1>1. /\ UNCHANGED <<parts, req>> /\ Bare(q)
      /\ \A x \in Post \ {q} : post'[x] = post[x]
      /\ post'[q] = [Ghost EXCEPT !.kind = kind, !.author = u]
  BY DEF CreatePost, KInv, Drawings, IInv, TypeOK
<1>2. /\ \A x \in Request : (UnderWay(x, p)' <=> UnderWay(x, p)) /\ (FoundHere(x, p)' <=> FoundHere(x, p))
      /\ Comments(p)' = Comments(p)
  BY <1>1 DEF UnderWay, P, FoundHere, Comments, parts
<1>3. HasData(p)' => Reckoned(p)'
  <2>1. CASE p # q
    BY <1>1, <1>2, <2>1 DEF Tallied, HasData, Reckoned, Counting
  <2>2. CASE p = q
    <3>1. Comments(p)' = {}
      BY <1>1, <1>2, <2>2 DEF Bare, Comments
    <3>2. Cardinality(Comments(p))' = 0
      BY <3>1, FS_EmptySet
    <3>3. [Ghost EXCEPT !.kind = kind, !.author = u].comments = 0
      BY DEF Ghost
    <3>4. \A x \in Request : ~UnderWay(x, p)'
      BY <1>1, <1>2, <2>2 DEF Bare
    <3> QED
      BY <1>1, <2>2, <3>2, <3>3, <3>4 DEF Reckoned, Counting
  <2> QED
    BY <2>1, <2>2
<1> QED
  BY <1>2, <1>3 DEF Tallied

LEMMA NextTallied == IInv /\ KInv /\ SInv /\ TInv /\ [HNext]_hvars => TInv'
<1> SUFFICES ASSUME IInv, KInv, SInv, TInv, [HNext]_hvars, NEW p \in Post, p \notin disturbed', p \notin strayed'
             PROVE  ~Astray(p)' /\ Tallied(p)'
  BY DEF TInv
<1>1. CASE UNCHANGED hvars
  <2>1. ~Astray(p) /\ Tallied(p)
    BY <1>1 DEF TInv, hvars
  <2>2. /\ \A r \in Request : (UnderWay(r, p)' <=> UnderWay(r, p)) /\ (FoundHere(r, p)' <=> FoundHere(r, p))
        /\ Astray(p)' <=> Astray(p)
    BY <1>1 DEF UnderWay, FoundHere, Astray, P, hvars, vars
  <2>3. Comments(p)' = Comments(p) /\ (HasData(p)' <=> HasData(p)) /\ post' = post /\ req' = req
    BY <1>1 DEF Comments, HasData, hvars, vars
  <2> QED
    BY <2>1, <2>2, <2>3 DEF Tallied, Reckoned, Counting
<1>2. CASE HNext
  <2>1. p \notin disturbed /\ p \notin strayed /\ ~Astray(p)' /\ ~Uncounted(p)
    BY <1>2 DEF HNext, Remember
  <2>2. Sound(p) /\ ~Astray(p) /\ Tallied(p)
    BY <2>1 DEF SInv, TInv
  <2>3. ASSUME NEW r \in Request, InFlightStep(r) PROVE Tallied(p)'
    BY <2>1, <2>2, <2>3, TallyElsewhere, TallyOthers, TallyPuts, TallyDeletes, TallyCounts
  <2> QED
    BY <1>2, <2>1, <2>2, <2>3, TallyStarts, TallyCreates DEF HNext, Next, HandleWithGroup, InFlightStep
<1> QED
  BY <1>1, <1>2

\* commentCount is the number of comments of a post at which no two requests met, none
\* died before its count, and which none named with a comment of another post, once the
\* requests there are done, whatever is done by the URLs of the other posts: the comment
\* counted off was there, and the post is neither deleted nor put back meanwhile.
THEOREM CommentsAreCounted == HSpec => []CommentsCountedUnlessDisturbed
<1>1. HInit => TInv
  BY DEF HInit, Init, TInv, Tallied, FoundHere, Astray, UnderWay, HasData
<1>2. IInv /\ KInv /\ SInv /\ TInv /\ [HNext]_hvars => TInv'
  BY NextTallied
<1>3. TInv => CommentsCountedUnlessDisturbed
  BY DEF TInv, Tallied, Reckoned, Counting, CommentsCountedUnlessDisturbed, Rests, Real
<1> QED
  BY <1>1, <1>2, <1>3, SoundnessIsInductive, PTL DEF HSpec
=============================================================================
