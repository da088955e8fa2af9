-------------------------- MODULE OrgAdminsOverlap --------------------------
(***************************************************************************)
(* OrgAdmins and the history of the operations of which two requests were  *)
(* half-way at once.  The history forbids no step: it lets a property say  *)
(* what the checks of an operation are worth while it runs alone, whatever *)
(* the other operations do beside it.                                      *)
(***************************************************************************)
EXTENDS OrgAdminsViews

VARIABLE overlapped

Steps == [add |-> AddSteps, remove |-> RemoveSteps]

Overlapping(op) ==
    \E r, s \in Request : r # s /\ req[r].pc \in Steps[op] /\ req[s].pc \in Steps[op]

HInit == Init /\ overlapped = {}
HNext == Next /\ overlapped' = overlapped \cup {op \in DOMAIN Steps : Overlapping(op)'}
HSpec == HInit /\ [][HNext]_<<vars, overlapped>>
-----------------------------------------------------------------------------
\* "Cannot remove the last owner" holds for as long as no two removals and no
\* two additions overlap: an addition beside a removal does no harm.
OwnerRemainsUnlessOverlapped == overlapped = {} => OwnerRemains

\* The checks of AddOrgAdmin, with the reactivation, bring nobody into two
\* organizations for as long as no two additions overlap, for every form of the
\* organization id: neither removals nor new organizations make them go stale.
JoinedOneOrgUnlessOverlapped == "add" \notin overlapped => JoinedOneOrg

\* "user is already an admin": adding an active administrator is refused, so for as
\* long as no two additions overlap the role of an administrator who stays active
\* stays as it is.
RoleKeptUnlessOverlapped ==
    [][\A o \in Org, u \in User :
          "add" \notin overlapped /\ Active(<<o, 1>>, u) /\ Active(<<o, 1>>, u)'
              => admin'[<<o, 1>>][u].role = admin[<<o, 1>>][u].role]_vars
=============================================================================
