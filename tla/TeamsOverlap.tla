---------------------------- MODULE TeamsOverlap ----------------------------
(***************************************************************************)
(* Teams and two histories: the operations of which two requests were      *)
(* half-way at once, and what an addition of members could have found at   *)
(* some time since its last account was created.  They forbid no step:     *)
(* they let properties say what the checks of an operation are worth while *)
(* it runs alone, and how old an answer the last checks go by may be.      *)
(***************************************************************************)
EXTENDS TeamsViews

VARIABLES overlapped, \* operations of which two requests met
          standing    \* of what AddTeamMembers asks, what has held while it ran

hvars == <<vars, overlapped, standing>>

Steps == [role |-> {"role", "countAdmins", "setRole"}, invite |-> {"inOrg", "link"}]

Overlapping(op) ==
    \E r, s \in Request : r # s /\ req[r].pc \in Steps[op] /\ req[s].pc \in Steps[op]

\* Requests past their accounts, and which of its two conditions such a one meets.
Adding(r) == req[r].pc \in {"add2", "status2", "commit"}
Standing(r) == {x \in {"admin", "active"} :
                   /\ x = "admin" => IsTeamAdmin(req[r].team, req[r].by)
                   /\ x = "active" => status[req[r].team] = "ACTIVE"}

HInit == Init /\ overlapped = {} /\ standing = [r \in Request |-> {}]
HNext == /\ Next
         /\ overlapped' = overlapped \cup {op \in DOMAIN Steps : Overlapping(op)'}
         /\ standing' = [r \in Request |-> IF Adding(r)' THEN standing[r] \cup Standing(r)' ELSE {}]
HSpec == HInit /\ [][HNext]_hvars
-----------------------------------------------------------------------------
\* "Cannot demote the last admin of a team" holds for as long as no two role
\* changes overlap, whatever additions, invitations and changes of the team's
\* status run beside them: GetAdminCount goes stale through another demotion
\* and through nothing else.
AdminRemainsUnlessOverlapped == "role" \notin overlapped => AdminRemains

\* An invitation to a team that was processed leaves the invitee in the team,
\* for as long as no two invitations overlap: no addition of members and no
\* sign-in makes the transaction of createInvitedEmployee fail as a whole.
InviteLinksUnlessOverlapped ==
    [][\A r \in Request :
          LinkInvitee(r) /\ req[r].team # NoTeam /\ "invite" \notin overlapped
              => row'[req[r].team][req[r].user] # None]_vars

\* "cannot add members to inactive team", nor for somebody who is no administrator of it:
\* the transaction asks neither, and either may have changed; but both were so at some time
\* after the last account was created, however long Cognito took.
AddsOnFreshStanding ==
    [][\A r \in Request : CommitMembers(r) /\ row' # row => standing[r] = {"admin", "active"}]_hvars
=============================================================================
