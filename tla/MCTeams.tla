------------------------------ MODULE MCTeams ------------------------------
\* Small instances of TeamsOverlap, with the symmetry of the requests.
EXTENDS TeamsOverlap, TLC

Busy == {r \in Request : req[r] # Idle}

\* Bound: no request begins once two of a kind have overlapped; those under way run
\* to their end.
MCNext == HNext /\ (overlapped # {} => Busy' \subseteq Busy)
MCSpec == HInit /\ [][MCNext]_hvars

RequestSymmetry == Permutations(Request)
=============================================================================
