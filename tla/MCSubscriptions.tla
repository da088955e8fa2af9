-------------------------- MODULE MCSubscriptions --------------------------
\* Small instances of SubscriptionsOverlap: two organizations and one application at a
\* time, or one organization and two applications; a code that may be used once,
\* extends the trial and is for starters only, and an unlimited discount.
EXTENDS SubscriptionsOverlap, TLC

CONSTANTS c1, c2, o1

VARIABLE alone   \* whether applications come one at a time

MCOffer == c1 :> [max |-> 1, days |-> 2, from |-> 0, until |-> 1, plans |-> {"starter"}]
        @@ c2 :> [max |-> 0, days |-> 0, from |-> 1, until |-> 2, plans |-> {}]

Busy == {r \in Request : req[r] # Idle}

\* Bounds: where two applications may meet one organization changes; one alone is
\* applied twice.  No code tells the two plans of a paying organization apart.
MCInit == HInit /\ alone \in BOOLEAN
MCNext == /\ HNext /\ UNCHANGED alone
          /\ \A o \in Org : org'[o].plan # "enterprise"
          /\ alone => /\ Cardinality(Busy') <= 1
                      /\ \A c \in Code : usages'[c] < MaxApplied
          /\ ~alone => /\ \A o \in Org \ {o1} : org'[o] = org[o] /\ o \notin ghost'
                       /\ \A r \in Busy' : req'[r].org = o1
MCSpec == MCInit /\ [][MCNext]_<<hvars, alone>>

RequestSymmetry == Permutations(Request)
=============================================================================
