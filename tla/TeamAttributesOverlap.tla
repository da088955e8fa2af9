------------------------ MODULE TeamAttributesOverlap ------------------------
(***************************************************************************)
(* TeamAttributes and the history of the attributes two requests were      *)
(* about to change at once.  The history forbids no step: it lets a        *)
(* property say what becomes of an attribute that requests change one by   *)
(* one, whatever happens to the others.                                    *)
(***************************************************************************)
EXTENDS TeamAttributes

VARIABLE overlapped

Changes(r, k) == req[r] # Idle /\ Key(r) = k
Meet(k) == \E r, s \in Request : r # s /\ Changes(r, k) /\ Changes(s, k)

HInit == Init /\ overlapped = {}
Remember == overlapped' = overlapped \cup {k \in Attribute \X Team : Meet(k)'}
HNext == Next /\ Remember
HSpec == HInit /\ [][HNext]_<<vars, overlapped>>
-----------------------------------------------------------------------------
\* Every attribute a team has is shown, once and under its type, and counted; what
\* an update leaves of an attribute deleted meanwhile is not.
EveryAttributeIsShown ==
    \A t \in Team :
        LET answer == listTeamAttributes(t, Type)
            Shown == {s \in Type \X Attribute : s[2] \in answer.attributes[s[1]]} IN
        /\ Cardinality(Shown) = answer.total
        /\ \A a \in Attribute : table[<<a, t>>] # None /\ <<a, t>> \notin overlapped =>
              \E type \in Type : <<type, a>> \in Shown

\* A change of the name alone keeps the description, and the other way round, unless
\* two requests are at work on the attribute: both are written as they were read.
OneFieldKeepsTheOther ==
    [][\A r \in Request :
          req[r].pc = "update" /\ Key(r) \notin overlapped' /\ table'[Key(r)] # table[Key(r)] =>
              \A f \in Field : req[r].patch[f] = None => table'[Key(r)][f] = table[Key(r)][f]]_vars
=============================================================================
