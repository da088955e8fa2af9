--------------------------- MODULE TeamFeedViews ---------------------------
(***************************************************************************)
(* What the feed answers to reads: the list of a team's posts, a post with *)
(* its comments and checklist, the likes of a post, its comments and the   *)
(* results of a poll.  The list is read from an index and shows the        *)
(* counters; the rest is read from the items under the key of the post,    *)
(* which are shown according to the kind of the post or not at all.  Texts *)
(* and the division into pages are left out.                               *)
(***************************************************************************)
EXTENDS TeamFeed

NotFound == [status |-> "not found"]
NotAPoll == [status |-> "not a poll"]

fetchChecklistItems(p) == Under(p, Item) \cap item
userHasLikedPost(p, u) == <<p, u>> \in liked
Voters(p) == {u \in User : <<p, u>> \in vote}

\* Of comments and checklist items it shows what the caller has fetched; a poll's
\* votes it never shows: totalVotes is 0.
buildPostResponse(p, u, comments, items) ==
    [postId |-> p, type |-> post[p].kind, author |-> post[p].author,
     likeCount |-> post[p].likes, commentCount |-> post[p].comments, userHasLiked |-> userHasLikedPost(p, u),
     taskStatus |-> post[p].status, timeSpent |-> post[p].hours, totalVotes |-> 0,
     comments |-> comments, items |-> IF post[p].kind = "checklist" THEN items ELSE {}]

\* A ghost has no attribute of the index, and is in no list; with no filter the
\* kinds are all of them.
listTeamFeed(u, kinds) ==
    {buildPostResponse(p, u, {}, {}) : p \in {p \in Post : Real(p) /\ post[p].kind \in kinds}}

\* Membership is asked of the team in the URL, so that a ghost is shown too.
getPost(p, u) ==
    IF post[p] = None THEN NotFound
    ELSE [status |-> "ok", post |-> buildPostResponse(p, u, Comments(p), fetchChecklistItems(p))]

\* Membership is asked of the post: there is nothing to see of one that is gone.
getPostLikes(p) == IF Real(p) THEN [status |-> "ok", users |-> {u \in User : userHasLikedPost(p, u)}] ELSE NotFound
listComments(p) == IF Real(p) THEN [status |-> "ok", comments |-> Comments(p)] ELSE NotFound

getPollResults(p, u) ==
    CASE ~Real(p) -> NotFound
      [] Real(p) /\ post[p].kind # "poll" -> NotAPoll
      [] Real(p) /\ post[p].kind = "poll" ->
            [status |-> "ok", totalVotes |-> Cardinality(Voters(p)), userVoted |-> u \in Voters(p)]
-----------------------------------------------------------------------------
\* What was voted or put on a list under a post of the feed can be seen there by
\* everybody, and a post opened from the feed is the one the feed showed: edits,
\* deletions and stale writes never leave a vote on what is no poll, nor a checklist
\* item under what is no checklist, where no read would show it.
FeedShowsWhatItKeeps ==
    \A u \in User : \A entry \in listTeamFeed(u, Kind) :
        LET p == entry.postId   opened == getPost(p, u) IN
        /\ opened.status = "ok" /\ [opened.post EXCEPT !.comments = {}, !.items = {}] = entry
        /\ Voters(p) # {} => /\ getPollResults(p, u).status = "ok"
                             /\ getPollResults(p, u).totalVotes > 0
        /\ opened.post.items = fetchChecklistItems(p)
        /\ opened.post.comments = listComments(p).comments
        /\ entry.userHasLiked <=> u \in getPostLikes(p).users
=============================================================================
