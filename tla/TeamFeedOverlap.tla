-------------------------- MODULE TeamFeedOverlap --------------------------
(***************************************************************************)
(* TeamFeed and the history of the posts at which two requests met, or at  *)
(* which one ended between what it wrote and its count; of those at which  *)
(* a like was overlooked, because the look-up failed; and of those that    *)
(* were named together with a comment of another post.  They forbid no     *)
(* step: they let a property say what a post keeps that requests come to   *)
(* one by one, whatever happens at the other posts.                        *)
(***************************************************************************)
EXTENDS TeamFeedViews

VARIABLES disturbed, overlooked, strayed

hvars == <<vars, disturbed, overlooked, strayed>>

UnderWay(r, p) == req[r] # Idle /\ P(r) = p
Meet(p) == \E r, s \in Request : r # s /\ UnderWay(r, p) /\ UnderWay(s, p)
Uncounted(p) == \E r \in Request : UnderWay(r, p) /\ req[r].pc = "count" /\ Abort(r)
LikedAgain(p) == \E r \in Request :
    UnderWay(r, p) /\ At(r, "like", "look") /\ Like(r) \in liked /\ Goto(r, "write")

\* An edit or a deletion of a comment that is another post's.
Astray(p) == \E r \in Request :
    /\ UnderWay(r, p) /\ req[r].op \in {"editComment", "deleteComment"}
    /\ origin[req[r].on].post # p

HInit == Init /\ disturbed = {} /\ overlooked = {} /\ strayed = {}
Remember == /\ disturbed' = disturbed \cup {p \in Post : Meet(p)' \/ Uncounted(p)}
            /\ overlooked' = overlooked \cup {p \in Post : LikedAgain(p)}
            /\ strayed' = strayed \cup {p \in Post : Astray(p)'}
HNext == Next /\ Remember
HSpec == HInit /\ [][HNext]_hvars
-----------------------------------------------------------------------------
Rests(p) == Real(p) /\ \A r \in Request : ~UnderWay(r, p)

\* commentCount is the number of comments of a post that no request is at, unless
\* two met there, one died between a comment and its count, or one named the post
\* with a comment of another, whatever is done to its own comments elsewhere.
CommentsCountedUnlessDisturbed ==
    \A p \in Post \ (disturbed \cup strayed) :
        Rests(p) => post[p].comments = Cardinality(Comments(p))

\* The same of every post that requests come to one by one, whichever comment they
\* name: no deletion counts off a comment, and no edit makes one, of another post.
CommentsCountedWhoeverIsNamed ==
    \A p \in Post \ disturbed : Rests(p) => post[p].comments = Cardinality(Comments(p))

\* likeCount is at most the number of likes of such a post: taking back a like never given
\* counts off another's, but no like is counted twice and none is kept that was taken back,
\* unless a like was given again because the look-up failed.
LikesNotOverstatedUnlessDisturbed ==
    \A p \in Post \ (disturbed \cup overlooked) :
        Rests(p) =>
            post[p].likes <= Cardinality({u \in User : <<p, u>> \in liked})

\* At a post that requests come to one by one no write undoes another: deleted it is
\* gone, logged time adds up, and an edit keeps counters, status and time.
NothingIsUndoneUnlessDisturbed ==
    [][/\ \A p \in created \ disturbed : post[p] = None => post'[p] = None
       /\ \A r \in Request :
             /\ SetTaskTime(r) /\ P(r) \notin disturbed /\ Real(P(r)) =>
                    post'[P(r)].hours = post[P(r)].hours + 1
             /\ PutPost(r) /\ P(r) \notin disturbed /\ post[P(r)] # None =>
                    post'[P(r)] = post[P(r)]]_vars
=============================================================================
