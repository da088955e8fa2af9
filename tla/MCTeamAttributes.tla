--------------------------- MODULE MCTeamAttributes ---------------------------
\* Small instances of TeamAttributes, with the history of what overlapped.
EXTENDS TeamAttributesOverlap, TLC

CONSTANTS d1, a1, u1, x1, x2

MCDefault == d1 :> "SKILL"

\* Bounds: one user's role changes, a member's; the other remains an administrator.
\* What is made is a metric, named like the defaults; a patch changes one field.
MCInit == HInit /\ \A t \in Team, u \in User : role[t][u] = IF u = u1 THEN "MEMBER" ELSE "ADMIN"
MCNext == /\ Next
          /\ \A t \in Team, u \in User : role'[t][u] # role[t][u] => u = u1
          /\ \A r \in Request :
                /\ req'[r].pc = "put" => req'[r].id = a1 /\ req'[r].item.type = "METRIC" /\ req'[r].item.name = x1
                /\ req'[r].pc = "read" => {req'[r].patch[f] : f \in Field} = {x2, None}
          /\ \A k \in DOMAIN table : table'[k] # None /\ table'[k].isDefault => table'[k].createdBy # u1
          /\ Remember
MCSpec == MCInit /\ [][MCNext]_<<vars, overlapped>>

RequestSymmetry == Permutations(Request)
=============================================================================
