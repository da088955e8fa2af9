------------------------------- MODULE Teams -------------------------------
(***************************************************************************)
(* Teams and their members: TeamsServiceV2 of                              *)
(* lambdas/lib/company-lib/company-teams-v2.go behind the create-team,     *)
(* manage-team-operations and set-current-team Lambdas, and the team half  *)
(* of the send-invitations Lambda, which writes the same table.            *)
(*                                                                         *)
(* Requests interleave call by call, as in OrgAdmins.  Adding members asks *)
(* the same two questions twice (AddTeamMembersCheckCognito, then          *)
(* AddTeamMembers), creates Cognito accounts one by one in between, and    *)
(* commits all memberships in one transaction.  No operation ever removes  *)
(* a member or makes one inactive, so a row that exists is an active one.  *)
(***************************************************************************)
EXTENDS Naturals, FiniteSets

CONSTANTS Team, User, Request,
          Founder,  \* organization administrators, who may create teams
          NoTeam,   \* no current team, or an invitation to no team
          None      \* a row that does not exist

ASSUME UserAssumption == IsFiniteSet(User) /\ Founder \subseteq User
ASSUME NoTeamAssumption == NoTeam \notin Team

\* Roles of the invitations are not validated: any other text acts as MEMBER.
Role == {"ADMIN", "MEMBER"}
Row == [role : Role, invited : BOOLEAN]

ASSUME NoneAssumption == None \notin Row

\* An item of the employee table is found under the Cognito id of the user or
\* under the user's name; signing in makes the former.
EmployeeKey == {"cognitoId", "name"} \X User

VARIABLES status,   \* Status of METADATA, NONE before the team exists
          count,    \* MemberCount of METADATA
          row,      \* USER# items: row[t][u], a Row or None
          account,  \* users with a Cognito account
          signedIn, \* users with an employee item
          current,  \* CurrentTeamId of the employee items
          orgUser,  \* USER# items of the organization
          req       \* the requests in flight

vars == <<status, count, row, account, signedIn, current, orgUser, req>>
team == <<status, count, row>>
people == <<account, signedIn, current, orgUser>>

Idle == [pc |-> "idle"]
AddCall == [pc : {"add1", "status1", "accounts", "add2", "status2", "commit"},
            team : Team, by : User, users : SUBSET User \ {{}}, todo : SUBSET User]
RoleCall == [pc : {"role", "countAdmins", "setRole"},
             team : Team, by : User, user : User, role : Role]
StatusCall == [pc : {"status", "setStatus"},
               team : Team, by : User, status : {"ACTIVE", "INACTIVE"}]
InviteCall == [pc : {"inOrg", "link"},
               team : Team \cup {NoTeam}, user : User, role : Role, known : BOOLEAN]

\* Every member item is a whole one: a role change never makes an item.
TypeOK == /\ status \in [Team -> {"NONE", "ACTIVE", "INACTIVE"}]
          /\ count \in [Team -> Nat]
          /\ row \in [Team -> [User -> Row \cup {None}]]
          /\ account \subseteq User /\ signedIn \subseteq User /\ orgUser \subseteq User
          /\ current \in [EmployeeKey -> Team \cup {NoTeam}]
          /\ req \in [Request -> {Idle} \cup AddCall \cup RoleCall \cup StatusCall \cup InviteCall]

Init == /\ status = [t \in Team |-> "NONE"]
        /\ count = [t \in Team |-> 0]
        /\ row = [t \in Team |-> [u \in User |-> None]]
        /\ account = Founder
        /\ signedIn = Founder
        /\ current = [k \in EmployeeKey |-> NoTeam]
        /\ orgUser = {}
        /\ req = [r \in Request |-> Idle]
-----------------------------------------------------------------------------
Members(t) == {u \in User : row[t][u] # None}
IsTeamAdmin(t, u) == u \in Members(t) /\ row[t][u].role = "ADMIN"
Admins(t) == {u \in User : IsTeamAdmin(t, u)}

At(r, label) == req[r].pc = label
Goto(r, label) == req' = [req EXCEPT ![r].pc = label]
Finish(r) == req' = [req EXCEPT ![r] = Idle]

\* A read that decides: go on to label, or answer with an error.
Check(r, from, test, label) ==
    /\ At(r, from)
    /\ IF test THEN Goto(r, label) ELSE Finish(r)
    /\ UNCHANGED <<team, people>>

\* Plausible error: two puts in place of a transaction, and the first of them fails.
CreateTeamTorn(t, u) ==
    /\ status[t] = "NONE"
    /\ row' = [row EXCEPT ![t][u] = [role |-> "ADMIN", invited |-> FALSE]]
    /\ UNCHANGED <<status, count, people, req>>

\* The team id is a fresh uuid; one transaction puts METADATA and the creator.
CreateTeam(t, u) ==
    /\ status[t] = "NONE"
    /\ status' = [status EXCEPT ![t] = "ACTIVE"]
    /\ count' = [count EXCEPT ![t] = 1]
    /\ row' = [row EXCEPT ![t][u] = [role |-> "ADMIN", invited |-> FALSE]]
    /\ UNCHANGED <<people, req>>

\* The handler asks for an employee who administers an organization.
createTeam(t, u) == u \in signedIn /\ u \in Founder /\ CreateTeam(t, u)

\* The membership is read, then the employee item of the Cognito id updated;
\* nothing that happens in between takes the membership away.
SetCurrentTeam(u, t) ==
    /\ u \in signedIn
    /\ u \in Members(t)
    /\ current' = [current EXCEPT ![<<"cognitoId", u>>] = t]
    /\ UNCHANGED <<team, account, signedIn, orgUser, req>>

\* The handler asks for an employee of that Cognito id.
setCurrentTeam(u, t) == u \in signedIn /\ SetCurrentTeam(u, t)

\* IsLoggedIn of GetUserTeams, whose GetCurrentTeam is asked by name.
IsLoggedIn(u, t) == current[<<"name", u>>] = t

\* A user signs up or signs in; sync-cognito-to-ddb makes the employee item.
SignIn(u) ==
    /\ u \notin signedIn
    /\ account' = account \cup {u}
    /\ signedIn' = signedIn \cup {u}
    /\ UNCHANGED <<team, current, orgUser, req>>
-----------------------------------------------------------------------------
(* AddTeamMembersCheckCognito and AddTeamMembers.                          *)

StartAdd(r, t, by, users) ==
    /\ At(r, "idle")
    /\ req' = [req EXCEPT ![r] = [pc |-> "add1", team |-> t, by |-> by,
                                  users |-> users, todo |-> users]]
    /\ UNCHANGED <<team, people>>

AddIsAdmin(r) == \/ Check(r, "add1", IsTeamAdmin(req[r].team, req[r].by), "status1")
                 \/ Check(r, "add2", IsTeamAdmin(req[r].team, req[r].by), "status2")

\* Plausible error: the status is asked for before the accounts are made, and not again.
AddStatusOnce(r) == \/ Check(r, "status1", status[req[r].team] = "ACTIVE", "accounts")
                    \/ Check(r, "status2", TRUE, "commit")

AddStatus(r) == \/ Check(r, "status1", status[req[r].team] = "ACTIVE", "accounts")
                \/ Check(r, "status2", status[req[r].team] = "ACTIVE", "commit")

\* GetEmployeeDataByUserName finds no Cognito id under a name, so an account
\* is created for every user; where there is one already AdminCreateUser fails
\* and CreateCognitoUser dereferences the output it did not get: the
\* invocation dies.
CreateCognitoUser(r, u) ==
    /\ At(r, "accounts")
    /\ u \in req[r].todo
    /\ IF u \in account
       THEN Finish(r) /\ UNCHANGED account
       ELSE /\ account' = account \cup {u}
            /\ req' = [req EXCEPT ![r].todo = @ \ {u},
                                  ![r].pc = IF req[r].todo = {u} THEN "add2" ELSE @]
    /\ UNCHANGED <<team, signedIn, current, orgUser>>

WithMembers(t, users) ==
    [row EXCEPT ![t] = [u \in User |-> IF u \in users THEN [role |-> "MEMBER", invited |-> FALSE]
                                       ELSE row[t][u]]]

\* The condition of the puts, attribute_not_exists(PK).
NoneIsMember(t, users) == users \cap Members(t) = {}

\* One transaction: a conditional put per user, and the count.
CommitMembers(r) ==
    LET t == req[r].team   users == req[r].users IN
    /\ At(r, "commit")
    /\ IF NoneIsMember(t, users)
       THEN /\ row' = WithMembers(t, users)
            /\ count' = [count EXCEPT ![t] = @ + Cardinality(users)]
       ELSE UNCHANGED <<row, count>>
    /\ Finish(r)
    /\ UNCHANGED <<status, people>>

AddMembers(r) == \/ AddIsAdmin(r) \/ AddStatus(r) \/ CommitMembers(r)
                 \/ \E u \in User : CreateCognitoUser(r, u)
-----------------------------------------------------------------------------
(* UpdateMemberRole and UpdateTeamStatus.                                  *)

StartRole(r, t, by, u, role) ==
    /\ At(r, "idle")
    /\ req' = [req EXCEPT ![r] = [pc |-> "role", team |-> t, by |-> by,
                                  user |-> u, role |-> role]]
    /\ UNCHANGED <<team, people>>

RoleIsAdmin(r) ==
    Check(r, "role", IsTeamAdmin(req[r].team, req[r].by),
          IF req[r].by = req[r].user /\ req[r].role = "MEMBER" THEN "countAdmins" ELSE "setRole")

RoleCountAdminsOffByOne(r) ==
    Check(r, "countAdmins", Cardinality(Admins(req[r].team)) >= 1, "setRole")

\* GetAdminCount, asked only when admins demote themselves.
RoleCountAdmins(r) == Check(r, "countAdmins", Cardinality(Admins(req[r].team)) > 1, "setRole")

SetRole(r) ==
    LET t == req[r].team   u == req[r].user IN
    /\ At(r, "setRole")
    /\ row' = IF u \in Members(t) THEN [row EXCEPT ![t][u].role = req[r].role] ELSE row
    /\ Finish(r)
    /\ UNCHANGED <<status, count, people>>

UpdateRole(r) == RoleIsAdmin(r) \/ RoleCountAdmins(r) \/ SetRole(r)

StartStatus(r, t, by, new) ==
    /\ At(r, "idle")
    /\ req' = [req EXCEPT ![r] = [pc |-> "status", team |-> t, by |-> by, status |-> new]]
    /\ UNCHANGED <<team, people>>

StatusIsAdmin(r) == Check(r, "status", IsTeamAdmin(req[r].team, req[r].by), "setStatus")

SetStatus(r) ==
    /\ At(r, "setStatus")
    /\ status' = [status EXCEPT ![req[r].team] = req[r].status]
    /\ Finish(r)
    /\ UNCHANGED <<count, row, people>>

UpdateStatus(r) == StatusIsAdmin(r) \/ SetStatus(r)
-----------------------------------------------------------------------------
(* createInvitedEmployee, after the invitation e-mail was sent.            *)

StartInvite(r, t, u, role) ==
    /\ At(r, "idle")
    /\ t # NoTeam => status[t] # "NONE"
    /\ req' = [req EXCEPT ![r] = [pc |-> "inOrg", team |-> t, user |-> u,
                                  role |-> role, known |-> FALSE]]
    /\ UNCHANGED <<team, people>>

InviteForgetsOrg(r) == Check(r, "inOrg", TRUE, "link")

InviteReadOrg(r) ==
    /\ At(r, "inOrg")
    /\ req' = [req EXCEPT ![r].pc = "link", ![r].known = req[r].user \in orgUser]
    /\ UNCHANGED <<team, people>>

\* The condition of the put of the team's item.
NotAsked(t, u) == TRUE
NotYetMember(t, u) == t # NoTeam => u \notin Members(t)

\* One transaction of conditional puts: the organization's item unless the
\* user was seen there, the team's item if there is a team.  A condition that
\* fails cancels both, silently; the count of members is left alone.
LinkInvitee(r) ==
    LET t == req[r].team   u == req[r].user IN
    /\ At(r, "link")
    /\ IF /\ u \in orgUser => req[r].known
          /\ NotYetMember(t, u)
       THEN /\ orgUser' = orgUser \cup {u}
            /\ row' = IF t = NoTeam THEN row
                      ELSE [row EXCEPT ![t][u] = [role |-> req[r].role, invited |-> TRUE]]
       ELSE UNCHANGED <<orgUser, row>>
    /\ Finish(r)
    /\ UNCHANGED <<status, count, account, signedIn, current>>

Invite(r) == InviteReadOrg(r) \/ LinkInvitee(r)

\* A call fails or the invocation dies: what was written stays.
Abort(r) == /\ req[r] # Idle
            /\ Finish(r)
            /\ UNCHANGED <<team, people>>
-----------------------------------------------------------------------------
Start(r) ==
    \/ \E t \in Team, by \in signedIn :
          \/ \E users \in SUBSET User \ {{}} : StartAdd(r, t, by, users)
          \/ \E u \in User, role \in Role : StartRole(r, t, by, u, role)
          \/ \E new \in {"ACTIVE", "INACTIVE"} : StartStatus(r, t, by, new)
    \/ \E t \in Team \cup {NoTeam}, u \in User, role \in Role : StartInvite(r, t, u, role)

Next == \/ \E t \in Team, u \in User : createTeam(t, u) \/ setCurrentTeam(u, t)
        \/ \E u \in User : SignIn(u)
        \/ \E r \in Request : \/ Start(r) \/ AddMembers(r) \/ UpdateRole(r)
                              \/ UpdateStatus(r) \/ Invite(r) \/ Abort(r)

Spec == Init /\ [][Next]_vars
-----------------------------------------------------------------------------
Created == {t \in Team : status[t] # "NONE"}
Invited(t) == {u \in Members(t) : row[t][u].invited}

\* "Cannot demote the last admin of a team": a team that was created has an
\* administrator at all times.  UpdateMemberRole counts them for the requester
\* only, which is enough as long as one request runs at a time.
AdminRemains == \A t \in Created : Admins(t) # {}

\* MemberCount against the membership items: the transaction of AddTeamMembers
\* keeps them together whatever adds, invitations and role changes overlap;
\* members who came by invitation are the ones it does not count.
MembersCounted ==
    \A t \in Team : Cardinality(Members(t)) = count[t] + Cardinality(Invited(t))

\* "Member Count: Maintained automatically".
CountIsExact == \A t \in Team : Cardinality(Members(t)) = count[t]

\* "adds the user to that team (inactive until they accept)": whoever is
\* invited is no active member before the first sign-in.
InviteeWaits == \A t \in Team : Invited(t) \subseteq signedIn

\* "Cannot add members to an inactive team", at the moment they are added.
AddsToActiveTeam ==
    [][\A r \in Request : CommitMembers(r) /\ row' # row => status[req[r].team] = "ACTIVE"]_vars

\* "Check and create users in Cognito if they don't exist": an account is
\* created only for users who have none, so the call does not fail.
CreatesOnlyMissing ==
    [][\A r \in Request, u \in User : CreateCognitoUser(r, u) => u \notin account]_vars

\* An invitation to a team that was processed leaves the invitee in the team;
\* with one request in flight no condition of the transaction can fail for
\* another reason than that the membership exists.
InviteLinks ==
    [][\A r \in Request :
          LinkInvitee(r) /\ req[r].team # NoTeam => row'[req[r].team][req[r].user] # None]_vars
=============================================================================
