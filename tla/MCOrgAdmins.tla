---------------------------- MODULE MCOrgAdmins ----------------------------
\* Small instances of OrgAdmins: two organizations and one request at a time, or
\* one organization and two requests.
EXTENDS OrgAdminsOverlap, TLC

CONSTANT o1

VARIABLE alone       \* whether requests come one at a time

Busy == {r \in Request : req[r] # Idle}

\* Bound: where two requests may meet there is one organization and nobody is
\* invited, for the members' items are read by no request; and no request begins once
\* two of a kind have overlapped, but those under way run to their end.
OneOrg == /\ \A o \in Org \ {o1} : creator[o] = None
          /\ \A r \in Busy : req[r].key[1] = o1
          /\ member = {}

MCInit == HInit /\ alone \in BOOLEAN
MCNext == /\ HNext
          /\ IF alone THEN Cardinality(Busy') <= 1 ELSE OneOrg'
          /\ overlapped # {} => Busy' \subseteq Busy
          /\ UNCHANGED alone
MCSpec == MCInit /\ [][MCNext]_<<vars, overlapped, alone>>

RequestSymmetry == Permutations(Request)
=============================================================================
