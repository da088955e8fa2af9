----------------------------- MODULE TeamsViews -----------------------------
(***************************************************************************)
(* What the Lambdas list-user-teams, list-org-teams and                    *)
(* manage-team-operations answer about teams.  They find the same items by *)
(* three keys: the partition of the team, the index on the member and the  *)
(* index on the organization.  A team whose METADATA is missing is left    *)
(* out of the first list without a word.                                   *)
(***************************************************************************)
EXTENDS Teams

NotFound == [status |-> "not found"]
Forbidden == [status |-> "forbidden"]

\* The METADATA item of a team, if there is one.
GetTeamMetadata(t) ==
    IF status[t] = "NONE" THEN {} ELSE {[teamId |-> t, status |-> status[t], count |-> count[t]]}

\* A member's item, or None.
GetTeamMemberDetails(t, u) == row[t][u]

\* OrgId-Index; the teams of the model belong to one organization.
GetOrganizationTeams == UNION {GetTeamMetadata(t) : t \in Team}

\* GSI1, and the metadata of each team it names; those not found are skipped.
GetUserTeams(u) ==
    UNION {{[teamId |-> m.teamId, role |-> row[t][u].role, status |-> m.status, memberCount |-> m.count,
             isLoggedIn |-> IsLoggedIn(u, m.teamId)] : m \in GetTeamMetadata(t)}
           : t \in {t \in Team : u \in Members(t)}}
-----------------------------------------------------------------------------
getTeamDetails(t) ==
    IF GetTeamMetadata(t) = {} THEN NotFound ELSE [status |-> "ok", team |-> GetTeamMetadata(t)]

\* Whoever asks: the list of a team that does not exist is empty.
getTeamMembers(t) == [members |-> Members(t), count |-> Cardinality(Members(t))]

\* The current team is asked by Cognito id, the mark isLoggedIn of each by name.
listUserTeams(u) ==
    [teams |-> GetUserTeams(u), currentTeam |-> current[<<"cognitoId", u>>], count |-> Cardinality(GetUserTeams(u))]

\* Only to administrators of exactly one organization, as those of the model are.
listOrgTeams(u) ==
    IF u \notin Founder THEN Forbidden
    ELSE [status |-> "ok", teams |-> GetOrganizationTeams, totalTeams |-> Cardinality(GetOrganizationTeams)]
-----------------------------------------------------------------------------
\* Nobody's team is skipped: who is on a team's list of members, by whichever way
\* they came, sees the team in theirs, can open it, and finds the current team
\* there too; and what a member sees of a team is what the organization sees.
MembersSeeTheirTeams ==
    \A u \in User :
        LET mine == listUserTeams(u).teams IN
        /\ {entry.teamId : entry \in mine} = {t \in Team : u \in getTeamMembers(t).members}
        /\ listUserTeams(u).currentTeam \in {NoTeam} \cup {entry.teamId : entry \in mine}
        /\ \A entry \in mine :
              /\ getTeamDetails(entry.teamId) # NotFound
              /\ GetTeamMemberDetails(entry.teamId, u).role = entry.role
              /\ \A f \in Founder : \E seen \in listOrgTeams(f).teams :
                    seen.teamId = entry.teamId /\ seen.count = entry.memberCount

\* The list names the current team and marks it: isLoggedIn of an entry says whether
\* it is the currentTeam of the same answer, the one SetCurrentTeam stored.
ListShowsCurrent ==
    \A u \in User : LET answer == listUserTeams(u) IN
        \A entry \in answer.teams : entry.isLoggedIn <=> entry.teamId = answer.currentTeam
=============================================================================
