----------------------------- MODULE MCTeamFeed -----------------------------
\* Small instances of TeamFeed: all operations, two comments and one request at a
\* time; or two requests in flight on the counters of a post, on its parts, or on a
\* comment of two posts.
EXTENDS TeamFeedOverlap, TLC

CONSTANTS c1, p1

VARIABLE together   \* bound: the operations that may meet; if none, all operations
                    \* come one at a time, and no call fails

MCAllOperations == PostOps \cup PartOps \cup CommentOps \cup ItemOps
MCCounted == {"edit", "delete", "unlike", "like"}
MCComments == {"edit", "delete", "comment", "editComment", "deleteComment"}
MCParts == {"edit", "delete", "vote", "addItem", "removeItem", "toggle"}

Busy == {r \in Request : req[r] # Idle}

\* Bound: nothing is liked once there is a second comment, an item or a vote, and
\* none of these is made of a post while something is liked.
Asked == {req[r].op : r \in Busy}
Apart == /\ Asked \cap {"like", "likeComment"} # {} =>
               vote = {} /\ \A x \in (Comment \cup Item) \ {c1} : origin[x] = None
         /\ Asked \cap {"comment", "vote", "addItem"} # {} => liked = {}

OneAtATime == /\ \E r \in Request : HandleWithGroup(r)
              /\ Cardinality(Busy') <= 1 /\ Apart'
              /\ \A p \in Post : ~LikedAgain(p)

\* Bounds: the operations and the comment of two requests that meet; none meets
\* another once a like was overlooked.
TwoAtOnce == /\ Next
             /\ \A r \in Busy' : req'[r].op \in together /\ req'[r].on \notin Comment \ {c1}
             /\ overlooked # {} => Busy' = Busy \/ Cardinality(Busy') <= 1

\* Bounds: there is a second post only for the comments, of which either post may be
\* named with the other's; then an administrator posts updates, and no request meets
\* another once a post was disturbed.
Posts == IF together = MCComments
         THEN /\ \A p \in created' : HasData(p)' => post'[p].kind = "update" /\ post'[p].author \in Admin
              /\ disturbed # {} => Busy' = Busy \/ Cardinality(Busy') <= 1
         ELSE created' \subseteq {p1}

MCInit == HInit /\ together \in {{}, MCCounted, MCParts, MCComments}
MCNext == /\ UNCHANGED together
          /\ (IF together = {} THEN OneAtATime ELSE TwoAtOnce)
          /\ Posts /\ Remember
MCSpec == MCInit /\ [][MCNext]_<<hvars, together>>

RequestSymmetry == Permutations(Request)
=============================================================================
