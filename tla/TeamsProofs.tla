---------------------------- MODULE TeamsProofs ----------------------------
(***************************************************************************)
(* What Teams keeps for every set of teams, users and requests, however    *)
(* the calls of the requests interleave: its types, the count of members   *)
(* beside the member items, current teams that are one's own and lists     *)
(* that skip no team; what the checks of a role change and of an           *)
(* invitation are worth while no other of the kind runs; and how old what  *)
(* an addition of members goes by may be.                                  *)
(***************************************************************************)
EXTENDS TeamsOverlap, FiniteSetTheorems, TLAPS

\* Before its first check of the requester a request may name any team; from
\* then on it is one that exists.
Unchecked == {"idle", "add1", "role", "status"}
TeamIsKnown == \A r \in Request :
    req[r].pc \notin Unchecked => req[r].team = NoTeam \/ status[req[r].team] # "NONE"
\* SetCurrentTeam stores no team the employee does not belong to.
CurrentIsMember ==
    \A u \in User, t \in Team : current[<<"cognitoId", u>>] = t => u \in Members(t)
NobodyYet == \A t \in Team : status[t] = "NONE" => Members(t) = {}

\* MembersCounted alone is not inductive: CreateTeam starts the count at one,
\* which is right only for a team that nobody joined before it was created.
IInv == /\ TypeOK /\ TeamIsKnown /\ NobodyYet
        /\ MembersCounted /\ CurrentIsMember

LEMMA InitInv == Init => IInv
<1> SUFFICES ASSUME Init PROVE IInv
  OBVIOUS
<1>1. TypeOK
  BY UserAssumption DEF Init, TypeOK
<1>2. TeamIsKnown
  BY DEF Init, TeamIsKnown, Unchecked, Idle
<1>3. \A t \in Team : Members(t) = {} /\ Invited(t) = {}
  BY DEF Init, Members, Invited
<1>4. NobodyYet
  BY <1>3 DEF NobodyYet
<1>5. MembersCounted
  <2>1. Cardinality({}) = 0
    BY FS_EmptySet
  <2> QED
    BY <1>3, <2>1 DEF Init, MembersCounted
<1>6. CurrentIsMember
  BY NoTeamAssumption DEF Init, CurrentIsMember, EmployeeKey
<1> QED
  BY <1>1, <1>2, <1>4, <1>5, <1>6 DEF IInv
-----------------------------------------------------------------------------
(* What a step that leaves the teams alone keeps.                          *)

Calls == AddCall \cup RoleCall \cup StatusCall \cup InviteCall

LEMMA MembersFinite ==
    ASSUME NEW t
    PROVE  /\ IsFiniteSet(Members(t)) /\ Cardinality(Members(t)) \in Nat
           /\ IsFiniteSet(Invited(t)) /\ Cardinality(Invited(t)) \in Nat
<1>1. Members(t) \subseteq User /\ Invited(t) \subseteq User
  BY DEF Members, Invited
<1> QED
  BY <1>1, UserAssumption, FS_Subset, FS_CardinalityType

\* The request moves, to a call on the same team or on one that is known.
LEMMA RequestMoves ==
    ASSUME IInv, NEW r \in Request, NEW call \in {Idle} \cup Calls,
           req' = [req EXCEPT ![r] = call],
           call.pc \notin Unchecked => call.team = NoTeam \/ status[call.team] # "NONE"
    PROVE  /\ req' \in [Request -> {Idle} \cup Calls]
           /\ status' = status => TeamIsKnown'
<1>1. req \in [Request -> {Idle} \cup Calls]
  BY DEF IInv, TypeOK, Calls
<1>2. req' \in [Request -> {Idle} \cup Calls]
  BY <1>1
<1>3. ASSUME status' = status, NEW q \in Request, req'[q].pc \notin Unchecked
      PROVE  req'[q].team = NoTeam \/ status'[req'[q].team] # "NONE"
  <2>1. CASE q = r
    BY <1>1, <1>3, <2>1
  <2>2. CASE q # r
    BY <1>1, <1>3, <2>2 DEF IInv, TeamIsKnown
  <2> QED
    BY <2>1, <2>2
<1> QED
  BY <1>2, <1>3 DEF TeamIsKnown

LEMMA TeamsAlone ==
    ASSUME IInv, UNCHANGED <<team, current>>, TypeOK', TeamIsKnown'
    PROVE  IInv'
<1>1. \A t : Members(t)' = Members(t) /\ Invited(t)' = Invited(t)
  BY DEF team, Members, Invited
<1>2. NobodyYet'
  BY <1>1 DEF IInv, NobodyYet, team
<1>3. MembersCounted'
  BY <1>1 DEF IInv, MembersCounted, team
<1>4. CurrentIsMember'
  BY <1>1 DEF IInv, CurrentIsMember
<1> QED
  BY <1>2, <1>3, <1>4 DEF IInv

LEMMA MoveKeeps ==
    ASSUME IInv, NEW r \in Request, NEW call \in {Idle} \cup Calls,
           req' = [req EXCEPT ![r] = call],
           call.pc \notin Unchecked => call.team = NoTeam \/ status[call.team] # "NONE",
           UNCHANGED <<team, people>>
    PROVE  IInv'
<1>1. req' \in [Request -> {Idle} \cup Calls] /\ TeamIsKnown'
  BY RequestMoves DEF team
<1>2. TypeOK'
  BY <1>1 DEF IInv, TypeOK, Calls, team, people
<1> QED
  BY <1>1, <1>2, TeamsAlone DEF people

LEMMA FinishKeeps ==
    ASSUME IInv, NEW r \in Request, Finish(r), UNCHANGED <<team, people>>
    PROVE  IInv'
<1>1. Idle.pc \in Unchecked /\ Idle \in {Idle} \cup Calls
  BY DEF Idle, Unchecked
<1> QED
  BY <1>1, MoveKeeps DEF Finish

\* A request that goes on after it was checked.
LEMMA GotoKeeps ==
    ASSUME IInv, NEW r \in Request, req[r] \in Calls, NEW label, Goto(r, label),
           [req[r] EXCEPT !.pc = label] \in Calls,
           req[r].team = NoTeam \/ status[req[r].team] # "NONE",
           UNCHANGED <<team, people>>
    PROVE  IInv'
<1> DEFINE call == [req[r] EXCEPT !.pc = label]
<1>1. call.team = req[r].team
  BY DEF Calls, AddCall, RoleCall, StatusCall, InviteCall
<1>2. req' = [req EXCEPT ![r] = call]
  BY DEF Goto
<1> HIDE DEF call
<1> QED
  BY <1>1, <1>2, MoveKeeps DEF call

\* The administrator of a team makes it known.
LEMMA AdminKnows ==
    ASSUME IInv, NEW t \in Team, NEW u, IsTeamAdmin(t, u)
    PROVE  status[t] # "NONE"
BY DEF IInv, NobodyYet, IsTeamAdmin
-----------------------------------------------------------------------------
(* The operations of a team.                                               *)

LEMMA AddCallAt ==
    ASSUME TypeOK, NEW r \in Request,
           req[r].pc \in {"add1", "status1", "accounts", "add2", "status2", "commit"}
    PROVE  req[r] \in AddCall
BY DEF TypeOK, Idle, AddCall, RoleCall, StatusCall, InviteCall

LEMMA RoleCallAt ==
    ASSUME TypeOK, NEW r \in Request, req[r].pc \in {"role", "countAdmins", "setRole"}
    PROVE  req[r] \in RoleCall
BY DEF TypeOK, Idle, AddCall, RoleCall, StatusCall, InviteCall

LEMMA StatusCallAt ==
    ASSUME TypeOK, NEW r \in Request, req[r].pc \in {"status", "setStatus"}
    PROVE  req[r] \in StatusCall
BY DEF TypeOK, Idle, AddCall, RoleCall, StatusCall, InviteCall

LEMMA InviteCallAt ==
    ASSUME TypeOK, NEW r \in Request, req[r].pc \in {"inOrg", "link"}
    PROVE  req[r] \in InviteCall
BY DEF TypeOK, Idle, AddCall, RoleCall, StatusCall, InviteCall

LEMMA NewRow ==
    ASSUME NEW role \in Role, NEW invited \in BOOLEAN
    PROVE  /\ [role |-> role, invited |-> invited] \in Row
           /\ [role |-> role, invited |-> invited] # None
<1>1. [role |-> role, invited |-> invited] \in Row
  BY DEF Row
<1> QED
  BY <1>1, NoneAssumption

LEMMA CreateTeamKeeps ==
    ASSUME IInv, NEW t \in Team, NEW u \in User, CreateTeam(t, u)
    PROVE  IInv'
<1> DEFINE new == [role |-> "ADMIN", invited |-> FALSE]
<1>1. new \in Row /\ new # None
  BY NewRow DEF Role
<1>2. TypeOK'
  BY <1>1 DEF IInv, TypeOK, CreateTeam, people
<1>3. TeamIsKnown'
  BY DEF IInv, TypeOK, TeamIsKnown, CreateTeam
<1>4. Members(t) = {}
  BY DEF IInv, NobodyYet, CreateTeam
<1>5. Members(t)' = {u} /\ Invited(t)' = {}
  BY <1>1, <1>4 DEF IInv, TypeOK, Members, Invited, CreateTeam
<1>6. \A s \in Team \ {t} : Members(s)' = Members(s) /\ Invited(s)' = Invited(s)
  BY DEF IInv, TypeOK, Members, Invited, CreateTeam
<1>7. NobodyYet'
  BY <1>6 DEF IInv, TypeOK, NobodyYet, CreateTeam
<1>8. MembersCounted'
  <2>1. Cardinality({u}) = 1 /\ Cardinality({}) = 0
    BY FS_Singleton, FS_EmptySet
  <2>2. count'[t] = 1 /\ \A s \in Team \ {t} : count'[s] = count[s]
    BY DEF IInv, TypeOK, CreateTeam
  <2> QED
    BY <1>5, <1>6, <2>1, <2>2 DEF IInv, MembersCounted
<1>9. CurrentIsMember'
  BY <1>4, <1>5, <1>6 DEF IInv, CurrentIsMember, CreateTeam, people
<1> QED
  BY <1>2, <1>3, <1>7, <1>8, <1>9 DEF IInv

LEMMA SetCurrentKeeps ==
    ASSUME IInv, NEW t \in Team, NEW u \in User, SetCurrentTeam(u, t)
    PROVE  IInv'
<1>1. TypeOK'
  BY DEF IInv, TypeOK, SetCurrentTeam, team
<1>2. \A s : Members(s)' = Members(s) /\ Invited(s)' = Invited(s)
  BY DEF Members, Invited, SetCurrentTeam, team
<1>3. TeamIsKnown' /\ NobodyYet' /\ MembersCounted'
  BY <1>2 DEF IInv, TeamIsKnown, NobodyYet, MembersCounted, SetCurrentTeam, team
<1>4. CurrentIsMember'
  BY <1>2 DEF IInv, TypeOK, CurrentIsMember, SetCurrentTeam
<1> QED
  BY <1>1, <1>3, <1>4 DEF IInv

LEMMA SignInKeeps == ASSUME IInv, NEW u \in User, SignIn(u) PROVE IInv'
<1>1. TypeOK' /\ TeamIsKnown'
  BY DEF IInv, TypeOK, TeamIsKnown, SignIn, team
<1> QED
  BY <1>1, TeamsAlone DEF SignIn

LEMMA CreateUserKeeps ==
    ASSUME IInv, NEW r \in Request, NEW u \in User, CreateCognitoUser(r, u)
    PROVE  IInv'
<1>1. req[r] \in AddCall
  BY AddCallAt DEF IInv, CreateCognitoUser, At
<1> DEFINE call == [req[r] EXCEPT !.todo = req[r].todo \ {u},
                                  !.pc = IF req[r].todo = {u} THEN "add2" ELSE req[r].pc]
<1>2. CASE u \in account
  <2>1. UNCHANGED <<team, people>>
    BY <1>2 DEF CreateCognitoUser, people
  <2> QED
    BY <1>2, <2>1, FinishKeeps DEF CreateCognitoUser
<1>3. CASE u \notin account
  <2>1. call \in AddCall /\ call.team = req[r].team /\ call \in {Idle} \cup Calls
    BY <1>1 DEF AddCall, Calls
  <2>2. req[r].pc \notin Unchecked
    BY DEF CreateCognitoUser, At, Unchecked
  <2>3. req' = [req EXCEPT ![r] = call] /\ UNCHANGED <<team, current>>
    BY <1>3 DEF CreateCognitoUser
  <2>4. call.team = NoTeam \/ status[call.team] # "NONE"
    BY <2>1, <2>2 DEF IInv, TeamIsKnown
  <2> HIDE DEF call
  <2>5. req' \in [Request -> {Idle} \cup Calls] /\ TeamIsKnown'
    BY <2>1, <2>3, <2>4, RequestMoves DEF team
  <2>6. TypeOK'
    BY <1>3, <2>5 DEF IInv, TypeOK, Calls, CreateCognitoUser, team
  <2> QED
    BY <2>3, <2>5, <2>6, TeamsAlone
<1> QED
  BY <1>2, <1>3

\* Members joined by a transaction that counts exactly them.
LEMMA CommitKeeps == ASSUME IInv, NEW r \in Request, CommitMembers(r) PROVE IInv'
<1> DEFINE new == [role |-> "MEMBER", invited |-> FALSE]
<1>1. PICK t \in Team, users \in SUBSET User : t = req[r].team /\ users = req[r].users
  BY AddCallAt DEF IInv, CommitMembers, At, AddCall
<1>2. status[t] # "NONE"
  BY <1>1, NoTeamAssumption DEF IInv, TeamIsKnown, CommitMembers, At, Unchecked
<1>3. CASE ~NoneIsMember(t, users)
  <2>1. UNCHANGED <<team, people>>
    BY <1>1, <1>3 DEF CommitMembers, team
  <2> QED
    BY <2>1, FinishKeeps DEF CommitMembers
<1>4. CASE NoneIsMember(t, users)
  <2>1. new \in Row /\ new # None /\ new.invited = FALSE
    BY NewRow DEF Role
  <2>2. /\ row' = [row EXCEPT ![t] = [u \in User |-> IF u \in users THEN new ELSE row[t][u]]]
        /\ count' = [count EXCEPT ![t] = @ + Cardinality(users)]
        /\ Finish(r) /\ UNCHANGED <<status, people>>
    BY <1>1, <1>4 DEF CommitMembers, WithMembers
  <2>3. IsFiniteSet(users) /\ Cardinality(users) \in Nat
    BY <1>1, UserAssumption, FS_Subset, FS_CardinalityType
  <2> HIDE DEF new
  <2>4. TypeOK'
    BY <1>1, <2>1, <2>2, <2>3 DEF IInv, TypeOK, Finish, people
  <2>5. TeamIsKnown'
    BY <2>2 DEF IInv, TypeOK, TeamIsKnown, Finish, Unchecked, Idle
  <2>6. Members(t)' = Members(t) \cup users
    BY <1>1, <2>1, <2>2 DEF IInv, TypeOK, Members
  <2>7. Members(t) \cap users = {}
    BY <1>4 DEF NoneIsMember
  <2>8. Invited(t)' = Invited(t)
    <3>1. \A u \in Members(t) : row'[t][u] = row[t][u]
      BY <1>1, <2>2, <2>7 DEF IInv, TypeOK, Members
    <3>2. \A u \in users : ~row'[t][u].invited
      BY <1>1, <2>1, <2>2 DEF IInv, TypeOK
    <3> QED
      BY <2>6, <3>1, <3>2 DEF Invited
  <2>9. \A s \in Team \ {t} : Members(s)' = Members(s) /\ Invited(s)' = Invited(s)
    BY <1>1, <2>2 DEF IInv, TypeOK, Members, Invited
  <2>10. NobodyYet'
    BY <1>2, <2>2, <2>9 DEF IInv, NobodyYet
  <2>11. MembersCounted'
    <3>1. Cardinality(Members(t)') = Cardinality(Members(t)) + Cardinality(users)
      <4>1. Cardinality(Members(t) \cup users) = Cardinality(Members(t)) + Cardinality(users)
        <5>1. Cardinality(Members(t) \cap users) = 0
          BY <2>7, FS_EmptySet, Zenon
        <5>2. IsFiniteSet(Members(t)) /\ Cardinality(Members(t)) \in Nat
          BY MembersFinite
        <5>3. Cardinality(Members(t) \cup users)
                = Cardinality(Members(t)) + Cardinality(users) - Cardinality(Members(t) \cap users)
          BY <2>3, <5>2, FS_Union
        <5> QED
          BY <2>3, <5>1, <5>2, <5>3
      <4> QED
        BY <2>6, <4>1
    <3>2. count'[t] = count[t] + Cardinality(users) /\ \A s \in Team \ {t} : count'[s] = count[s]
      BY <1>1, <2>2 DEF IInv, TypeOK
    <3>3. count[t] \in Nat
      BY <1>1 DEF IInv, TypeOK
    <3>4. Cardinality(Members(t)') = count'[t] + Cardinality(Invited(t)')
      BY <1>1, <2>3, <2>8, <3>1, <3>2, <3>3, MembersFinite DEF IInv, MembersCounted
    <3>5. ASSUME NEW s \in Team \ {t}
          PROVE  Cardinality(Members(s)') = count'[s] + Cardinality(Invited(s)')
      BY <2>9, <3>2 DEF IInv, MembersCounted
    <3> QED
      BY <3>4, <3>5 DEF MembersCounted
  <2>12. CurrentIsMember'
    BY <2>2, <2>6, <2>9 DEF IInv, CurrentIsMember, people
  <2> QED
    BY <2>4, <2>5, <2>10, <2>11, <2>12 DEF IInv
<1> QED
  BY <1>3, <1>4

LEMMA AddMembersKeeps == ASSUME IInv, NEW r \in Request, AddMembers(r) PROVE IInv'
<1>1. CASE AddIsAdmin(r)
  <2>1. req[r].pc \in {"add1", "add2"} /\ req[r] \in AddCall
    BY <1>1, AddCallAt DEF IInv, AddIsAdmin, Check, At
  <2>2. CASE Finish(r)
    BY <1>1, <2>2, FinishKeeps DEF AddIsAdmin, Check
  <2>3. CASE ~Finish(r)
    <3>1. PICK label \in {"status1", "status2"} :
              Goto(r, label) /\ IsTeamAdmin(req[r].team, req[r].by) /\ UNCHANGED <<team, people>>
      BY <1>1, <2>3 DEF AddIsAdmin, Check
    <3>2. status[req[r].team] # "NONE"
      BY <2>1, <3>1, AdminKnows DEF AddCall
    <3>3. [req[r] EXCEPT !.pc = label] \in Calls /\ req[r] \in Calls
      BY <2>1, <3>1 DEF AddCall, Calls
    <3> QED
      BY <3>1, <3>2, <3>3, GotoKeeps
  <2> QED
    BY <2>2, <2>3
<1>2. CASE AddStatus(r)
  <2>1. req[r].pc \in {"status1", "status2"} /\ req[r] \in AddCall
    BY <1>2, AddCallAt DEF IInv, AddStatus, Check, At
  <2>2. CASE Finish(r)
    BY <1>2, <2>2, FinishKeeps DEF AddStatus, Check
  <2>3. CASE ~Finish(r)
    <3>1. PICK label \in {"accounts", "commit"} :
              Goto(r, label) /\ status[req[r].team] = "ACTIVE" /\ UNCHANGED <<team, people>>
      BY <1>2, <2>3 DEF AddStatus, Check
    <3>2. [req[r] EXCEPT !.pc = label] \in Calls /\ req[r] \in Calls
      BY <2>1, <3>1 DEF AddCall, Calls
    <3> QED
      BY <3>1, <3>2, GotoKeeps
  <2> QED
    BY <2>2, <2>3
<1> QED
  BY <1>1, <1>2, CommitKeeps, CreateUserKeeps DEF AddMembers

\* A change of role makes nobody a member and nobody an invitee.
LEMMA SetRoleKeeps == ASSUME IInv, NEW r \in Request, SetRole(r) PROVE IInv'
<1>1. PICK t \in Team, u \in User, role \in Role :
          t = req[r].team /\ u = req[r].user /\ role = req[r].role
  BY RoleCallAt DEF IInv, SetRole, At, RoleCall
<1>2. CASE u \notin Members(t)
  BY <1>1, <1>2, FinishKeeps DEF SetRole, team
<1>3. CASE u \in Members(t)
  <2>1. row[t][u] \in Row
    BY <1>3 DEF IInv, TypeOK, Members
  <2> DEFINE new == [row[t][u] EXCEPT !.role = role]
  <2>2. new \in Row /\ new.invited = row[t][u].invited
    BY <2>1 DEF Row
  <2>3. new # None
    BY <2>2, NoneAssumption
  <2>4. row' = [row EXCEPT ![t][u] = new] /\ Finish(r) /\ UNCHANGED <<status, count, people>>
    BY <1>1, <1>3 DEF SetRole
  <2> HIDE DEF new
  <2>5. TypeOK'
    BY <2>2, <2>4 DEF IInv, TypeOK, Finish, people
  <2>6. TeamIsKnown'
    BY <2>4 DEF IInv, TypeOK, TeamIsKnown, Finish, Unchecked, Idle
  <2>7. \A s \in Team : Members(s)' = Members(s)
    BY <1>3, <2>3, <2>4 DEF IInv, TypeOK, Members
  <2>8. \A s \in Team : Invited(s)' = Invited(s)
    <3>1. \A s \in Team, v \in User : <<s, v>> # <<t, u>> => row'[s][v] = row[s][v]
      BY <2>4 DEF IInv, TypeOK
    <3>2. row'[t][u].invited = row[t][u].invited
      BY <2>2, <2>4 DEF IInv, TypeOK
    <3>3. \A s \in Team, v \in User : row'[s][v].invited = row[s][v].invited
      BY <3>1, <3>2
    <3>4. \A s : Members(s) \subseteq User
      BY DEF Members
    <3> QED
      BY <2>7, <3>3, <3>4 DEF Invited
  <2>9. NobodyYet' /\ MembersCounted' /\ CurrentIsMember'
    BY <2>4, <2>7, <2>8 DEF IInv, NobodyYet, MembersCounted, CurrentIsMember, people
  <2> QED
    BY <2>5, <2>6, <2>9 DEF IInv
<1> QED
  BY <1>2, <1>3

LEMMA UpdateRoleKeeps == ASSUME IInv, NEW r \in Request, UpdateRole(r) PROVE IInv'
<1>1. CASE RoleIsAdmin(r)
  <2>1. req[r].pc = "role" /\ req[r] \in RoleCall
    BY <1>1, RoleCallAt DEF IInv, RoleIsAdmin, Check, At
  <2>2. CASE Finish(r)
    BY <1>1, <2>2, FinishKeeps DEF RoleIsAdmin, Check
  <2>3. CASE ~Finish(r)
    <3>1. PICK label \in {"countAdmins", "setRole"} :
              Goto(r, label) /\ IsTeamAdmin(req[r].team, req[r].by) /\ UNCHANGED <<team, people>>
      BY <1>1, <2>3 DEF RoleIsAdmin, Check
    <3>2. status[req[r].team] # "NONE"
      BY <2>1, <3>1, AdminKnows DEF RoleCall
    <3>3. [req[r] EXCEPT !.pc = label] \in Calls /\ req[r] \in Calls
      BY <2>1, <3>1 DEF RoleCall, Calls
    <3> QED
      BY <3>1, <3>2, <3>3, GotoKeeps
  <2> QED
    BY <2>2, <2>3
<1>2. CASE RoleCountAdmins(r)
  <2>1. req[r].pc = "countAdmins" /\ req[r] \in RoleCall
    BY <1>2, RoleCallAt DEF IInv, RoleCountAdmins, Check, At
  <2>2. CASE Finish(r)
    BY <1>2, <2>2, FinishKeeps DEF RoleCountAdmins, Check
  <2>3. CASE Goto(r, "setRole")
    <3>1. req[r].team = NoTeam \/ status[req[r].team] # "NONE"
      BY <2>1 DEF IInv, TeamIsKnown, Unchecked
    <3>2. [req[r] EXCEPT !.pc = "setRole"] \in Calls /\ req[r] \in Calls
      BY <2>1 DEF RoleCall, Calls
    <3> QED
      BY <1>2, <2>3, <3>1, <3>2, GotoKeeps DEF RoleCountAdmins, Check
  <2> QED
    BY <1>2, <2>2, <2>3 DEF RoleCountAdmins, Check
<1> QED
  BY <1>1, <1>2, SetRoleKeeps DEF UpdateRole

LEMMA UpdateStatusKeeps == ASSUME IInv, NEW r \in Request, UpdateStatus(r) PROVE IInv'
<1>1. CASE StatusIsAdmin(r)
  <2>1. req[r].pc = "status" /\ req[r] \in StatusCall
    BY <1>1, StatusCallAt DEF IInv, StatusIsAdmin, Check, At
  <2>2. CASE Finish(r)
    BY <1>1, <2>2, FinishKeeps DEF StatusIsAdmin, Check
  <2>3. CASE ~Finish(r)
    <3>1. Goto(r, "setStatus") /\ IsTeamAdmin(req[r].team, req[r].by) /\ UNCHANGED <<team, people>>
      BY <1>1, <2>3 DEF StatusIsAdmin, Check
    <3>2. status[req[r].team] # "NONE"
      BY <2>1, <3>1, AdminKnows DEF StatusCall
    <3>3. [req[r] EXCEPT !.pc = "setStatus"] \in Calls /\ req[r] \in Calls
      BY <2>1 DEF StatusCall, Calls
    <3> QED
      BY <3>1, <3>2, <3>3, GotoKeeps
  <2> QED
    BY <2>2, <2>3
<1>2. CASE SetStatus(r)
  <2>1. PICK t \in Team, new \in {"ACTIVE", "INACTIVE"} : t = req[r].team /\ new = req[r].status
    BY <1>2, StatusCallAt DEF IInv, SetStatus, At, StatusCall
  <2>2. status' = [status EXCEPT ![t] = new] /\ Finish(r) /\ UNCHANGED <<count, row, people>>
    BY <1>2, <2>1 DEF SetStatus
  <2>3. TypeOK'
    BY <2>2 DEF IInv, TypeOK, Finish, people
  <2>4. TeamIsKnown'
    BY <2>2 DEF IInv, TypeOK, TeamIsKnown, Finish, Unchecked, Idle
  <2>5. NobodyYet'
    BY <2>2 DEF IInv, TypeOK, NobodyYet, Members
  <2>6. MembersCounted' /\ CurrentIsMember'
    BY <2>2 DEF IInv, MembersCounted, CurrentIsMember, Members, Invited, people
  <2> QED
    BY <2>3, <2>4, <2>5, <2>6 DEF IInv
<1> QED
  BY <1>1, <1>2 DEF UpdateStatus
-----------------------------------------------------------------------------
(* Invitations.                                                            *)

LEMMA ReadOrgKeeps == ASSUME IInv, NEW r \in Request, InviteReadOrg(r) PROVE IInv'
<1>1. req[r] \in InviteCall /\ req[r].pc = "inOrg"
  BY InviteCallAt DEF IInv, InviteReadOrg, At
<1>2. PICK known \in BOOLEAN : known <=> req[r].user \in orgUser
  OBVIOUS
<1> DEFINE call == [req[r] EXCEPT !.pc = "link", !.known = known]
<1>3. call \in InviteCall /\ call.team = req[r].team
  BY <1>1 DEF InviteCall
<1>4. call \in {Idle} \cup Calls
  BY <1>3 DEF Calls
<1>5. req[r].team = NoTeam \/ status[req[r].team] # "NONE"
  BY <1>1 DEF IInv, TeamIsKnown, Unchecked
<1>6. req' = [req EXCEPT ![r] = call]
  <2>1. (req[r].user \in orgUser) = known
    BY <1>2
  <2>2. req' = [req EXCEPT ![r].pc = "link", ![r].known = req[r].user \in orgUser]
    BY DEF InviteReadOrg
  <2> QED
    BY <2>1, <2>2, Zenon
<1>7. UNCHANGED <<team, people>>
  BY DEF InviteReadOrg
<1> HIDE DEF call
<1> QED
  BY <1>3, <1>4, <1>5, <1>6, <1>7, MoveKeeps

\* An invitee is one member more and one invitee more.
LEMMA LinkKeeps == ASSUME IInv, NEW r \in Request, LinkInvitee(r) PROVE IInv'
<1>1. PICK t \in Team \cup {NoTeam}, u \in User, role \in Role :
          t = req[r].team /\ u = req[r].user /\ role = req[r].role
  BY InviteCallAt DEF IInv, LinkInvitee, At, InviteCall
<1>2. Finish(r) /\ UNCHANGED <<status, count, account, signedIn, current>> /\ orgUser' \subseteq User
  BY <1>1 DEF IInv, TypeOK, LinkInvitee
<1>3. TeamIsKnown'
  BY <1>2 DEF IInv, TypeOK, TeamIsKnown, Finish, Unchecked, Idle
<1>4. CASE row' = row
  <2>1. TypeOK'
    BY <1>2, <1>4 DEF IInv, TypeOK, Finish
  <2> QED
    BY <1>2, <1>3, <1>4, <2>1, TeamsAlone DEF team
<1>5. CASE row' # row
  <2> DEFINE new == [role |-> role, invited |-> TRUE]
  <2>1. new \in Row /\ new # None /\ new.invited
    BY NewRow
  <2>2. t \in Team /\ u \notin Members(t) /\ row' = [row EXCEPT ![t][u] = new]
    BY <1>1, <1>5 DEF LinkInvitee, NotYetMember
  <2>3. status[t] # "NONE"
    BY <1>1, <2>2, NoTeamAssumption DEF IInv, TeamIsKnown, LinkInvitee, At, Unchecked
  <2> HIDE DEF new
  <2>4. TypeOK'
    BY <1>2, <2>1, <2>2 DEF IInv, TypeOK, Finish
  <2>5. \A s \in Team \ {t} : Members(s)' = Members(s) /\ Invited(s)' = Invited(s)
    BY <2>2 DEF IInv, TypeOK, Members, Invited
  <2>6. Members(t)' = Members(t) \cup {u}
    BY <2>1, <2>2 DEF IInv, TypeOK, Members
  <2>7. Invited(t)' = Invited(t) \cup {u} /\ u \notin Invited(t)
    <3>1. \A v \in Members(t) : row'[t][v] = row[t][v]
      BY <2>2 DEF IInv, TypeOK, Members
    <3>2. row'[t][u].invited
      BY <2>1, <2>2 DEF IInv, TypeOK
    <3> QED
      BY <2>2, <2>6, <3>1, <3>2 DEF Invited
  <2>8. NobodyYet'
    BY <1>2, <2>3, <2>5 DEF IInv, NobodyYet
  <2>9. MembersCounted'
    <3>1. /\ Cardinality(Members(t) \cup {u}) = Cardinality(Members(t)) + 1
          /\ Cardinality(Invited(t) \cup {u}) = Cardinality(Invited(t)) + 1
      BY <2>2, <2>7, MembersFinite, FS_AddElement
    <3>2. Cardinality(Members(t)') = Cardinality(Members(t)) + 1
      BY <2>6, <3>1
    <3>3. Cardinality(Invited(t)') = Cardinality(Invited(t)) + 1
      BY <2>7, <3>1
    <3>4. count[t] \in Nat /\ count' = count
      BY <1>2, <2>2 DEF IInv, TypeOK
    <3>5. Cardinality(Members(t)') = count'[t] + Cardinality(Invited(t)')
      BY <2>2, <3>2, <3>3, <3>4, MembersFinite DEF IInv, MembersCounted
    <3>6. ASSUME NEW s \in Team \ {t}
          PROVE  Cardinality(Members(s)') = count'[s] + Cardinality(Invited(s)')
      BY <2>5, <3>4 DEF IInv, MembersCounted
    <3> QED
      BY <3>5, <3>6 DEF MembersCounted
  <2>10. CurrentIsMember'
    BY <1>2, <2>5, <2>6 DEF IInv, CurrentIsMember
  <2> QED
    BY <1>3, <2>4, <2>8, <2>9, <2>10 DEF IInv
<1> QED
  BY <1>4, <1>5
-----------------------------------------------------------------------------
LEMMA StartKeeps == ASSUME IInv, NEW r \in Request, Start(r) PROVE IInv'
<1>1. ASSUME NEW t \in Team, NEW by \in signedIn, NEW users \in SUBSET User \ {{}},
             StartAdd(r, t, by, users)
      PROVE  IInv'
  <2> DEFINE call == [pc |-> "add1", team |-> t, by |-> by, users |-> users, todo |-> users]
  <2>1. call \in {Idle} \cup Calls /\ call.pc \in Unchecked
    BY DEF IInv, TypeOK, Calls, AddCall, Unchecked
  <2>2. req' = [req EXCEPT ![r] = call] /\ UNCHANGED <<team, people>>
    BY <1>1 DEF StartAdd
  <2> HIDE DEF call
  <2> QED
    BY <2>1, <2>2, MoveKeeps
<1>2. ASSUME NEW t \in Team, NEW by \in signedIn, NEW u \in User, NEW role \in Role,
             StartRole(r, t, by, u, role)
      PROVE  IInv'
  <2> DEFINE call == [pc |-> "role", team |-> t, by |-> by, user |-> u, role |-> role]
  <2>1. call \in {Idle} \cup Calls /\ call.pc \in Unchecked
    BY DEF IInv, TypeOK, Calls, RoleCall, Unchecked
  <2>2. req' = [req EXCEPT ![r] = call] /\ UNCHANGED <<team, people>>
    BY <1>2 DEF StartRole
  <2> HIDE DEF call
  <2> QED
    BY <2>1, <2>2, MoveKeeps
<1>3. ASSUME NEW t \in Team, NEW by \in signedIn, NEW new \in {"ACTIVE", "INACTIVE"},
             StartStatus(r, t, by, new)
      PROVE  IInv'
  <2> DEFINE call == [pc |-> "status", team |-> t, by |-> by, status |-> new]
  <2>1. call \in {Idle} \cup Calls /\ call.pc \in Unchecked
    BY DEF IInv, TypeOK, Calls, StatusCall, Unchecked
  <2>2. req' = [req EXCEPT ![r] = call] /\ UNCHANGED <<team, people>>
    BY <1>3 DEF StartStatus
  <2> HIDE DEF call
  <2> QED
    BY <2>1, <2>2, MoveKeeps
<1>4. ASSUME NEW t \in Team \cup {NoTeam}, NEW u \in User, NEW role \in Role,
             StartInvite(r, t, u, role)
      PROVE  IInv'
  <2> DEFINE call == [pc |-> "inOrg", team |-> t, user |-> u, role |-> role, known |-> FALSE]
  <2>1. call \in {Idle} \cup Calls /\ call.team = t
    BY DEF Calls, InviteCall
  <2>2. req' = [req EXCEPT ![r] = call] /\ UNCHANGED <<team, people>>
    BY <1>4 DEF StartInvite
  <2>3. t = NoTeam \/ status[t] # "NONE"
    BY <1>4 DEF StartInvite
  <2> HIDE DEF call
  <2> QED
    BY <2>1, <2>2, <2>3, MoveKeeps
<1> QED
  BY <1>1, <1>2, <1>3, <1>4 DEF Start

LEMMA NextInv == IInv /\ [Next]_vars => IInv'
<1> SUFFICES ASSUME IInv, [Next]_vars PROVE IInv'
  OBVIOUS
<1>1. CASE UNCHANGED vars
  <2>1. TypeOK' /\ TeamIsKnown'
    BY <1>1 DEF IInv, TypeOK, TeamIsKnown, vars
  <2> QED
    BY <1>1, <2>1, TeamsAlone DEF vars, team
<1>2. ASSUME NEW r \in Request, Abort(r) PROVE IInv'
  BY <1>2, FinishKeeps DEF Abort
<1>3. ASSUME NEW r \in Request, Invite(r) PROVE IInv'
  BY <1>3, ReadOrgKeeps, LinkKeeps DEF Invite
<1> QED
  BY <1>1, <1>2, <1>3, CreateTeamKeeps, SetCurrentKeeps, SignInKeeps, StartKeeps,
     AddMembersKeeps, UpdateRoleKeeps, UpdateStatusKeeps DEF Next, createTeam, setCurrentTeam

LEMMA InvIsInductive == Spec => []IInv
<1> QED
  BY InitInv, NextInv, PTL DEF Spec

\* Every reachable state of Teams is well typed; a role change in particular
\* never makes a member item of its own.
THEOREM TypeCorrect == Spec => []TypeOK
<1>1. IInv => TypeOK
  BY DEF IInv
<1> QED
  BY <1>1, InvIsInductive, PTL

\* MemberCount is the number of member items that did not come by invitation,
\* whatever additions, retries, invitations and role changes overlap.
THEOREM CountKept == Spec => []MembersCounted
<1>1. IInv => MembersCounted
  BY DEF IInv
<1> QED
  BY <1>1, InvIsInductive, PTL
-----------------------------------------------------------------------------
(* Role changes and invitations that do not overlap with their own kind.   *)

Apart == \A op \in DOMAIN Steps : op \notin overlapped => ~Overlapping(op)

\* Whoever is about to lose the role leaves an administrator behind.
RoleChecksHold ==
    /\ AdminRemains
    /\ \A r \in Request : At(r, "setRole") /\ req[r].role = "MEMBER" =>
          \E v \in Admins(req[r].team) : v # req[r].user

\* Whoever is in the organization by the time of the transaction was seen there.
InviteChecksHold ==
    \A r \in Request : At(r, "link") /\ req[r].user \in orgUser => req[r].known

HInv == /\ IInv
        /\ Apart
        /\ "role" \notin overlapped => RoleChecksHold
        /\ "invite" \notin overlapped => InviteChecksHold

\* Every step but those of requests leaves the requests alone, and with them the rows
\* of those who are administrators already.
Turn(r) == Start(r) \/ AddMembers(r) \/ UpdateRole(r) \/ UpdateStatus(r) \/ Invite(r) \/ Abort(r)

LEMMA ActorOrNone ==
    ASSUME [Next]_vars
    PROVE  \/ \E r \in Request : Turn(r)
           \/ req' = req /\ UNCHANGED <<status, row, orgUser>>
           \/ req' = req /\ orgUser' = orgUser /\ \E t \in Team, u \in User : CreateTeam(t, u)
BY DEF Next, Turn, createTeam, CreateTeam, setCurrentTeam, SetCurrentTeam, SignIn, team, people, vars

Demotes(r, t, v) == /\ At(r, "setRole") /\ req[r].team = t /\ req[r].user = v
                    /\ req[r].role = "MEMBER" /\ req'[r] = Idle

\* Only a role change takes the role of an administrator.
LEMMA StaysAdmin ==
    ASSUME IInv, [Next]_vars, NEW t \in Team, NEW v \in Admins(t)
    PROVE  v \in Admins(t)' \/ \E r \in Request : Demotes(r, t, v)
<1>1. v \in User /\ row[t][v] \in Row /\ row[t][v] # None /\ row[t][v].role = "ADMIN" /\ v \in Members(t)
  BY DEF Admins, IsTeamAdmin, Members, IInv, TypeOK
<1>2. row'[t][v] = row[t][v] => v \in Admins(t)'
  BY <1>1 DEF Admins, IsTeamAdmin, Members
<1>3. row' = row => v \in Admins(t)'
  BY <1>2
<1>4. ASSUME NEW s \in Team, NEW u \in User, CreateTeam(s, u) PROVE v \in Admins(t)'
  <2>1. s # t
    BY <1>1, <1>4 DEF IInv, NobodyYet, CreateTeam
  <2> QED
    BY <1>2, <1>4, <2>1 DEF CreateTeam, IInv, TypeOK
<1>5. ASSUME NEW r \in Request, CommitMembers(r) PROVE v \in Admins(t)'
  <2>1. PICK s \in Team, users \in SUBSET User : s = req[r].team /\ users = req[r].users
    BY <1>5, AddCallAt DEF IInv, CommitMembers, At, AddCall
  <2>2. row' = row \/ (NoneIsMember(s, users) /\ row' = WithMembers(s, users))
    <3>1. CASE NoneIsMember(s, users)
      BY <1>5, <2>1, <3>1 DEF CommitMembers
    <3>2. CASE ~NoneIsMember(s, users)
      BY <1>5, <2>1, <3>2 DEF CommitMembers, NoneIsMember
    <3> QED
      BY <3>1, <3>2
  <2>3. ASSUME NoneIsMember(s, users), row' = WithMembers(s, users) PROVE row'[t][v] = row[t][v]
    <3>1. CASE s = t
      <4>1. v \notin users
        BY <1>1, <2>3, <3>1 DEF NoneIsMember
      <4> QED
        BY <1>1, <2>3, <3>1, <4>1 DEF WithMembers, IInv, TypeOK
    <3>2. CASE s # t
      BY <2>3, <3>2 DEF WithMembers, IInv, TypeOK
    <3> QED
      BY <3>1, <3>2
  <2> QED
    BY <1>2, <1>3, <2>2, <2>3
<1>6. ASSUME NEW r \in Request, LinkInvitee(r) PROVE v \in Admins(t)'
  <2>1. PICK s \in Team \cup {NoTeam}, u \in User : s = req[r].team /\ u = req[r].user
    BY <1>6, InviteCallAt DEF IInv, LinkInvitee, At, InviteCall
  <2>2. PICK new : new = [role |-> req[r].role, invited |-> TRUE]
    OBVIOUS
  <2>3. row' = row \/ (s # NoTeam /\ u \notin Members(s) /\ row' = [row EXCEPT ![s][u] = new])
    <3>1. CASE row' # row
      BY <1>6, <2>1, <2>2, <3>1 DEF LinkInvitee, NotYetMember
    <3> QED
      BY <3>1
  <2>4. row'[t][v] = row[t][v]
    <3>1. CASE row' = row
      BY <3>1
    <3>2. CASE s # NoTeam /\ u \notin Members(s) /\ row' = [row EXCEPT ![s][u] = new]
      <4>1. ~(s = t /\ u = v) /\ s \in Team
        BY <1>1, <2>1, <3>2
      <4> QED
        BY <3>2, <4>1 DEF IInv, TypeOK
    <3> QED
      BY <2>3, <3>1, <3>2
  <2> QED
    BY <1>2, <2>4
<1>7. ASSUME NEW r \in Request, SetRole(r)
      PROVE  v \in Admins(t)' \/ Demotes(r, t, v)
  <2>1. PICK s \in Team, u \in User, role \in Role : s = req[r].team /\ u = req[r].user /\ role = req[r].role
    BY <1>7, RoleCallAt DEF IInv, SetRole, At, RoleCall
  <2>2. row' = IF u \in Members(s) THEN [row EXCEPT ![s][u].role = role] ELSE row
    BY <1>7, <2>1 DEF SetRole
  <2>3. At(r, "setRole") /\ req'[r] = Idle
    BY <1>7 DEF SetRole, Finish, IInv, TypeOK
  <2>4. CASE s = t /\ u = v
    <3>1. row'[t][v] = [row[t][v] EXCEPT !.role = role]
      BY <1>1, <2>2, <2>4 DEF IInv, TypeOK
    <3>2. row'[t][v] \in Row /\ row'[t][v].role = role
      BY <1>1, <3>1 DEF Row
    <3>3. CASE role = "ADMIN"
      BY <1>1, <3>2, <3>3, NoneAssumption DEF Admins, IsTeamAdmin, Members
    <3>4. CASE role = "MEMBER"
      BY <2>1, <2>3, <2>4, <3>4 DEF Demotes
    <3> QED
      BY <3>3, <3>4 DEF Role
  <2>5. CASE ~(s = t /\ u = v)
    <3>1. row'[t][v] = row[t][v]
      BY <2>2, <2>5 DEF IInv, TypeOK
    <3> QED
      BY <1>2, <3>1
  <2> QED
    BY <2>4, <2>5
<1>8. ASSUME NEW r \in Request, Turn(r), row' # row
      PROVE  CommitMembers(r) \/ LinkInvitee(r) \/ SetRole(r)
  BY <1>8 DEF Turn, Start, StartAdd, StartRole, StartStatus, StartInvite, AddMembers, AddIsAdmin, AddStatus,
     CreateCognitoUser, UpdateRole, RoleIsAdmin, RoleCountAdmins, UpdateStatus, StatusIsAdmin, SetStatus,
     Invite, InviteReadOrg, Check, Abort, team
<1> QED
  BY <1>3, <1>4, <1>5, <1>6, <1>7, <1>8, ActorOrNone

LEMMA OnlyItsTurn ==
    ASSUME IInv, NEW r \in Request, Turn(r)
    PROVE  \A q \in Request \ {r} : req'[q] = req[q]
<1>1. req \in [Request -> {Idle} \cup Calls]
  BY DEF IInv, TypeOK, Calls
<1>2. ASSUME NEW call, req' = [req EXCEPT ![r] = call] PROVE \A q \in Request \ {r} : req'[q] = req[q]
  BY <1>1, <1>2
<1>3. \A label : Goto(r, label) => \E call : req' = [req EXCEPT ![r] = call]
  BY DEF Goto
<1>4. Finish(r) => \E call : req' = [req EXCEPT ![r] = call]
  BY DEF Finish
<1>5. \E call : req' = [req EXCEPT ![r] = call]
  <2>1. CASE Start(r)
    BY <2>1 DEF Start, StartAdd, StartRole, StartStatus, StartInvite
  <2>2. CASE AddMembers(r)
    <3>1. ASSUME NEW u \in User, CreateCognitoUser(r, u) PROVE \E call : req' = [req EXCEPT ![r] = call]
      BY <3>1, <1>4 DEF CreateCognitoUser
    <3>2. CASE AddIsAdmin(r) \/ AddStatus(r) \/ CommitMembers(r)
      BY <3>2, <1>3, <1>4 DEF AddIsAdmin, AddStatus, Check, CommitMembers
    <3> QED
      BY <2>2, <3>1, <3>2 DEF AddMembers
  <2>3. CASE UpdateRole(r) \/ UpdateStatus(r) \/ Abort(r)
    BY <2>3, <1>3, <1>4 DEF UpdateRole, UpdateStatus, RoleIsAdmin, RoleCountAdmins, SetRole, StatusIsAdmin,
       SetStatus, Check, Abort
  <2>4. CASE Invite(r)
    BY <2>4, <1>4 DEF Invite, InviteReadOrg, LinkInvitee
  <2> QED
    BY <2>1, <2>2, <2>3, <2>4 DEF Turn
<1> QED
  BY <1>2, <1>5

\* How a request comes to the write of a role change, and to that of an invitation.
LEMMA ToSetRole ==
    ASSUME IInv, [Next]_vars, NEW r \in Request, req'[r].pc = "setRole", req'[r] # req[r]
    PROVE  /\ row' = row /\ req[r] \in RoleCall
           /\ req'[r] = [req[r] EXCEPT !.pc = "setRole"]
           /\ \/ /\ At(r, "role") /\ IsTeamAdmin(req[r].team, req[r].by)
                 /\ ~(req[r].by = req[r].user /\ req[r].role = "MEMBER")
              \/ At(r, "countAdmins") /\ Cardinality(Admins(req[r].team)) > 1
<1>1. Turn(r)
  BY ActorOrNone, OnlyItsTurn
<1>2. req \in [Request -> {Idle} \cup Calls]
  BY DEF IInv, TypeOK, Calls
<1>3. ~Finish(r)
  BY <1>2 DEF Finish, Idle
<1>4. ~\E label \in {"status1", "status2", "accounts", "commit", "countAdmins", "setStatus"} :
          Goto(r, label) /\ req[r] \in Calls
  BY <1>2 DEF Goto, Calls, AddCall, RoleCall, StatusCall, InviteCall
<1>5. CASE UpdateRole(r)
  <2>1. req[r] \in RoleCall /\ req[r] \in Calls
    BY <1>3, <1>5, RoleCallAt DEF UpdateRole, RoleIsAdmin, RoleCountAdmins, SetRole, Check, At, IInv, Calls
  <2>2. CASE RoleIsAdmin(r)
    <3>1. IsTeamAdmin(req[r].team, req[r].by) /\ At(r, "role") /\ row' = row
      BY <1>3, <2>2 DEF RoleIsAdmin, Check, team
    <3>2. CASE req[r].by = req[r].user /\ req[r].role = "MEMBER"
      BY <1>3, <1>4, <2>1, <2>2, <3>2 DEF RoleIsAdmin, Check
    <3>3. CASE ~(req[r].by = req[r].user /\ req[r].role = "MEMBER")
      <4>1. Goto(r, "setRole")
        BY <1>3, <2>2, <3>3 DEF RoleIsAdmin, Check
      <4> QED
        BY <1>2, <2>1, <3>1, <3>3, <4>1 DEF Goto
    <3> QED
      BY <3>2, <3>3
  <2>3. CASE RoleCountAdmins(r)
    <3>1. Goto(r, "setRole") /\ At(r, "countAdmins") /\ row' = row /\ Cardinality(Admins(req[r].team)) > 1
      BY <1>3, <2>3 DEF RoleCountAdmins, Check, team
    <3> QED
      BY <1>2, <2>1, <3>1 DEF Goto
  <2> QED
    BY <1>3, <1>5, <2>2, <2>3 DEF UpdateRole, SetRole
<1>6. CASE Start(r)
  BY <1>2, <1>6 DEF Start, StartAdd, StartRole, StartStatus, StartInvite
<1>7. CASE AddMembers(r)
  <2>1. req[r] \in AddCall /\ req[r] \in Calls
    BY <1>7, AddCallAt DEF AddMembers, AddIsAdmin, AddStatus, CommitMembers, CreateCognitoUser, Check, At, IInv, Calls
  <2>2. CASE AddIsAdmin(r) \/ AddStatus(r)
    BY <1>3, <1>4, <2>1, <2>2 DEF AddIsAdmin, AddStatus, Check
  <2>3. ASSUME NEW u \in User, CreateCognitoUser(r, u) PROVE FALSE
    <3>1. req' = [req EXCEPT ![r].todo = @ \ {u}, ![r].pc = IF req[r].todo = {u} THEN "add2" ELSE @]
      BY <1>3, <2>3 DEF CreateCognitoUser
    <3>2. req'[r].pc \in {"add2", req[r].pc}
      BY <1>2, <2>1, <3>1 DEF AddCall
    <3> QED
      BY <2>1, <3>2 DEF AddCall
  <2> QED
    BY <1>3, <1>7, <2>2, <2>3 DEF AddMembers, CommitMembers
<1>8. CASE UpdateStatus(r)
  <2>1. req[r] \in Calls
    BY <1>8, StatusCallAt DEF UpdateStatus, StatusIsAdmin, SetStatus, Check, At, IInv, Calls
  <2> QED
    BY <1>3, <1>4, <1>8, <2>1 DEF UpdateStatus, StatusIsAdmin, SetStatus, Check
<1>9. CASE Invite(r)
  <2>1. req[r] \in InviteCall
    BY <1>9, InviteCallAt DEF Invite, InviteReadOrg, LinkInvitee, At, IInv
  <2> QED
    BY <1>2, <1>3, <1>9, <2>1 DEF Invite, InviteReadOrg, LinkInvitee, InviteCall
<1> QED
  BY <1>1, <1>3, <1>5, <1>6, <1>7, <1>8, <1>9 DEF Turn, Abort

LEMMA ToLink ==
    ASSUME IInv, [Next]_vars, NEW r \in Request, req'[r].pc = "link", req'[r] # req[r]
    PROVE  At(r, "inOrg") /\ orgUser' = orgUser /\ req'[r].user = req[r].user
           /\ (req'[r].user \in orgUser => req'[r].known)
<1>1. Turn(r)
  BY ActorOrNone, OnlyItsTurn
<1>2. req \in [Request -> {Idle} \cup Calls]
  BY DEF IInv, TypeOK, Calls
<1>3. ~Finish(r)
  BY <1>2 DEF Finish, Idle
<1>4. ~\E label \in {"status1", "status2", "accounts", "commit", "countAdmins", "setRole", "setStatus"} :
          Goto(r, label) /\ req[r] \in Calls
  BY <1>2 DEF Goto, Calls, AddCall, RoleCall, StatusCall, InviteCall
<1>5. CASE Invite(r)
  <2>1. InviteReadOrg(r)
    BY <1>3, <1>5 DEF Invite, LinkInvitee
  <2>2. req[r] \in InviteCall /\ At(r, "inOrg")
    BY <2>1, InviteCallAt DEF InviteReadOrg, At, IInv
  <2>3. PICK known \in BOOLEAN : known = (req[r].user \in orgUser)
    <3>1. CASE req[r].user \in orgUser
      BY <3>1, Zenon
    <3>2. CASE req[r].user \notin orgUser
      <4>1. FALSE = (req[r].user \in orgUser)
        BY <3>2
      <4> QED
        BY <4>1
    <3> QED
      BY <3>1, <3>2
  <2>4. req' = [req EXCEPT ![r].pc = "link", ![r].known = known]
    BY <2>1, <2>3 DEF InviteReadOrg
  <2>5. req'[r].known = known /\ req'[r].user = req[r].user
    BY <1>2, <2>2, <2>4 DEF InviteCall
  <2> QED
    BY <2>1, <2>2, <2>3, <2>5 DEF InviteReadOrg, people
<1>6. CASE Start(r)
  BY <1>2, <1>6 DEF Start, StartAdd, StartRole, StartStatus, StartInvite
<1>7. CASE AddMembers(r)
  <2>1. req[r] \in AddCall /\ req[r] \in Calls
    BY <1>7, AddCallAt DEF AddMembers, AddIsAdmin, AddStatus, CommitMembers, CreateCognitoUser, Check, At, IInv, Calls
  <2>2. CASE AddIsAdmin(r) \/ AddStatus(r)
    BY <1>3, <1>4, <2>1, <2>2 DEF AddIsAdmin, AddStatus, Check
  <2>3. ASSUME NEW u \in User, CreateCognitoUser(r, u) PROVE FALSE
    <3>1. req' = [req EXCEPT ![r].todo = @ \ {u}, ![r].pc = IF req[r].todo = {u} THEN "add2" ELSE @]
      BY <1>3, <2>3 DEF CreateCognitoUser
    <3>2. req'[r].pc \in {"add2", req[r].pc}
      BY <1>2, <2>1, <3>1 DEF AddCall
    <3> QED
      BY <2>1, <3>2 DEF AddCall
  <2> QED
    BY <1>3, <1>7, <2>2, <2>3 DEF AddMembers, CommitMembers
<1>8. CASE UpdateStatus(r) \/ UpdateRole(r)
  <2>1. req[r] \in Calls
    BY <1>8, StatusCallAt, RoleCallAt DEF UpdateStatus, StatusIsAdmin, SetStatus, UpdateRole, RoleIsAdmin,
       RoleCountAdmins, SetRole, Check, At, IInv, Calls
  <2> QED
    BY <1>3, <1>4, <1>8, <2>1 DEF UpdateStatus, StatusIsAdmin, SetStatus, UpdateRole, RoleIsAdmin,
       RoleCountAdmins, SetRole, Check
<1> QED
  BY <1>1, <1>3, <1>5, <1>6, <1>7, <1>8 DEF Turn, Abort

\* GetAdminCount above one: besides the administrator who steps down there is another.
LEMMA AnotherAdmin ==
    ASSUME NEW S \in SUBSET User, Cardinality(S) > 1, NEW u
    PROVE  \E v \in S : v # u
<1> SUFFICES ASSUME S \subseteq {u} PROVE FALSE
  OBVIOUS
<1>1. IsFiniteSet({u}) /\ Cardinality({u}) = 1
  BY FS_Singleton
<1>2. Cardinality(S) <= 1 /\ Cardinality(S) \in Nat
  BY <1>1, FS_Subset, FS_CardinalityType
<1> QED
  BY <1>2

LEMMA RoleChecksKept ==
    ASSUME IInv, Apart, "role" \notin overlapped, RoleChecksHold, [Next]_vars
    PROVE  RoleChecksHold'
<1>1. \A t \in Team : \A v \in Admins(t) : v \in Admins(t)' \/ \E r \in Request : Demotes(r, t, v)
  BY StaysAdmin
<1>2. \A r, s \in Request : req[r].pc \in Steps["role"] /\ req[s].pc \in Steps["role"] => r = s
  BY DEF Apart, Overlapping, Steps
<1>3. \A r \in Request, t \in Team : \A v : Demotes(r, t, v) =>
          /\ req[r].pc \in Steps["role"] /\ At(r, "setRole") /\ req[r].role = "MEMBER" /\ req'[r] = Idle
          /\ req[r].team = t /\ req[r].user = v
  BY DEF Demotes, Steps, At
\* One demotion alone, and it leaves an administrator.
<1>4. AdminRemains'
  <2> SUFFICES ASSUME NEW t \in Team, status'[t] # "NONE" PROVE Admins(t)' # {}
    BY DEF AdminRemains, Created
  <2>1. CASE status[t] = "NONE"
    <3>1. PICK u \in User : CreateTeam(t, u)
      <4>1. ASSUME NEW r \in Request, Turn(r) PROVE status'[t] = status[t]
        <5>1. CASE ~SetStatus(r)
          BY <4>1, <5>1 DEF Turn, Start, StartAdd, StartRole, StartStatus, StartInvite, AddMembers, AddIsAdmin,
             AddStatus, CreateCognitoUser, CommitMembers, UpdateRole, RoleIsAdmin, RoleCountAdmins, SetRole,
             UpdateStatus, StatusIsAdmin, Invite, InviteReadOrg, LinkInvitee, Check, Abort, team
        <5>2. CASE SetStatus(r)
          <6>1. req[r] \in StatusCall /\ req[r].pc = "setStatus"
            BY <5>2, StatusCallAt DEF IInv, SetStatus, At
          <6>2. status[req[r].team] # "NONE" /\ req[r].team \in Team
            BY <6>1, NoTeamAssumption DEF IInv, TeamIsKnown, Unchecked, StatusCall
          <6> QED
            BY <2>1, <5>2, <6>2 DEF SetStatus, IInv, TypeOK
        <5> QED
          BY <5>1, <5>2
      <4>2. ASSUME NEW s \in Team, NEW u \in User, CreateTeam(s, u) PROVE s = t
        BY <2>1, <4>2 DEF CreateTeam, IInv, TypeOK
      <4> QED
        BY <2>1, <4>1, <4>2, ActorOrNone
    <3>2. PICK new \in Row : new = [role |-> "ADMIN", invited |-> FALSE] /\ new.role = "ADMIN" /\ new # None
      BY NewRow DEF Role
    <3>3. row' = [row EXCEPT ![t][u] = new]
      BY <3>1, <3>2 DEF CreateTeam
    <3>4. row'[t][u] = new
      BY <3>3 DEF IInv, TypeOK
    <3> QED
      BY <3>2, <3>4 DEF Admins, IsTeamAdmin, Members
  <2>2. CASE status[t] # "NONE"
    <3>1. PICK v \in Admins(t) : TRUE
      BY <2>2 DEF RoleChecksHold, AdminRemains, Created
    <3>2. CASE \E r \in Request : Demotes(r, t, v)
      <4>1. PICK r \in Request : Demotes(r, t, v)
        BY <3>2
      <4>2. PICK w \in Admins(t) : w # v
        BY <1>3, <4>1 DEF RoleChecksHold
      <4>3. ASSUME NEW s \in Request, Demotes(s, t, w) PROVE FALSE
        BY <1>2, <1>3, <4>1, <4>2, <4>3
      <4> QED
        BY <1>1, <4>2, <4>3
    <3> QED
      BY <1>1, <3>1, <3>2
  <2> QED
    BY <2>1, <2>2
<1>5. ASSUME NEW r \in Request, (At(r, "setRole") /\ req[r].role = "MEMBER")'
      PROVE  (\E v \in Admins(req[r].team) : v # req[r].user)'
  <2>1. req'[r].pc = "setRole" /\ req'[r].role = "MEMBER"
    BY <1>5 DEF At
  <2>2. /\ req'[r].team = req[r].team /\ req'[r].user = req[r].user /\ req[r] \in RoleCall
        /\ req'[r] = req[r] \/ row' = row
        /\ \E v \in Admins(req[r].team) : v # req[r].user
    <3>1. CASE req'[r] = req[r]
      BY <2>1, <3>1, RoleCallAt DEF RoleChecksHold, At, IInv
    <3>2. CASE req'[r] # req[r]
      <4>1. /\ row' = row /\ req[r] \in RoleCall /\ req'[r] = [req[r] EXCEPT !.pc = "setRole"]
            /\ \/ /\ At(r, "role") /\ IsTeamAdmin(req[r].team, req[r].by)
                  /\ ~(req[r].by = req[r].user /\ req[r].role = "MEMBER")
               \/ At(r, "countAdmins") /\ Cardinality(Admins(req[r].team)) > 1
        BY <2>1, <3>2, ToSetRole
      <4>2. req'[r].team = req[r].team /\ req'[r].user = req[r].user /\ req[r].role = "MEMBER"
        BY <2>1, <4>1 DEF RoleCall
      <4>3. Admins(req[r].team) \in SUBSET User
        BY DEF Admins
      <4>4. CASE Cardinality(Admins(req[r].team)) > 1
        BY <4>1, <4>2, <4>3, <4>4, AnotherAdmin
      <4>5. CASE IsTeamAdmin(req[r].team, req[r].by) /\ req[r].by # req[r].user
        BY <4>1, <4>2, <4>5 DEF Admins, RoleCall
      <4> QED
        BY <4>1, <4>2, <4>4, <4>5
    <3> QED
      BY <3>1, <3>2
  <2>3. PICK t \in Team : t = req[r].team
    BY <2>2 DEF RoleCall
  <2>4. PICK v \in Admins(t) : v # req[r].user
    BY <2>2, <2>3
  <2>5. ASSUME NEW s \in Request, Demotes(s, t, v), req'[r] = req[r] PROVE FALSE
    BY <1>2, <1>3, <2>1, <2>4, <2>5 DEF Steps
  <2>6. v \in Admins(t)'
    BY <1>1, <2>2, <2>5 DEF Admins, IsTeamAdmin, Members
  <2> QED
    BY <2>2, <2>3, <2>4, <2>6
<1> QED
  BY <1>4, <1>5 DEF RoleChecksHold

LEMMA InviteChecksKept ==
    ASSUME IInv, Apart, "invite" \notin overlapped, InviteChecksHold, [Next]_vars
    PROVE  InviteChecksHold'
<1> SUFFICES ASSUME NEW r \in Request, (At(r, "link") /\ req[r].user \in orgUser)'
             PROVE  req'[r].known
  BY DEF InviteChecksHold
<1>1. req'[r].pc = "link" /\ req'[r].user \in orgUser'
  BY DEF At
<1>2. CASE req'[r] # req[r]
  BY <1>1, <1>2, ToLink
<1>3. CASE req'[r] = req[r]
  <2>1. CASE orgUser' = orgUser
    BY <1>1, <1>3, <2>1 DEF InviteChecksHold, At
  \* Another transaction would be that of an invitation.
  <2>2. CASE orgUser' # orgUser
    <3>1. PICK s \in Request : Turn(s)
      BY <2>2, ActorOrNone
    <3>2. LinkInvitee(s)
      BY <2>2, <3>1 DEF Turn, Start, StartAdd, StartRole, StartStatus, StartInvite, AddMembers, AddIsAdmin,
         AddStatus, CreateCognitoUser, CommitMembers, UpdateRole, RoleIsAdmin, RoleCountAdmins, SetRole,
         UpdateStatus, StatusIsAdmin, SetStatus, Invite, InviteReadOrg, Check, Abort, people
    <3>3. req[s].pc = "link" /\ req'[s] = Idle
      BY <3>2 DEF LinkInvitee, At, Finish, IInv, TypeOK
    <3>4. s = r
      BY <1>1, <1>3, <3>3 DEF Apart, Overlapping, Steps
    <3> QED
      BY <1>1, <3>3, <3>4 DEF Idle
  <2> QED
    BY <2>1, <2>2
<1> QED
  BY <1>2, <1>3
-----------------------------------------------------------------------------
LEMMA HInitInv == HInit => HInv
<1> SUFFICES ASSUME HInit PROVE HInv
  OBVIOUS
<1>1. IInv
  BY InitInv DEF HInit
<1>2. \A r \in Request : req[r].pc = "idle"
  BY DEF HInit, Init, Idle
<1>3. Apart
  BY <1>2 DEF Apart, Overlapping, Steps
<1>4. RoleChecksHold /\ InviteChecksHold
  BY <1>2 DEF RoleChecksHold, InviteChecksHold, AdminRemains, Created, HInit, Init, At
<1> QED
  BY <1>1, <1>3, <1>4 DEF HInv

LEMMA HNextInv == HInv /\ [HNext]_hvars => HInv'
<1> SUFFICES ASSUME HInv, [HNext]_hvars PROVE HInv'
  OBVIOUS
<1>1. [Next]_vars /\ overlapped \subseteq overlapped'
  BY DEF HNext, hvars, vars
<1>2. IInv'
  BY <1>1, NextInv DEF HInv
<1>3. Apart'
  <2>1. CASE HNext
    BY <2>1 DEF HNext, Apart
  <2>2. CASE UNCHANGED hvars
    BY <2>2 DEF HInv, Apart, Overlapping, hvars, vars
  <2> QED
    BY <2>1, <2>2
<1>4. "role" \notin overlapped' => RoleChecksHold'
  BY <1>1, RoleChecksKept DEF HInv
<1>5. "invite" \notin overlapped' => InviteChecksHold'
  BY <1>1, InviteChecksKept DEF HInv
<1> QED
  BY <1>2, <1>3, <1>4, <1>5 DEF HInv

LEMMA HInvIsInductive == HSpec => []HInv
BY HInitInv, HNextInv, PTL DEF HSpec

\* "Cannot demote the last admin of a team" for every number of members and of requests,
\* whatever additions, invitations, changes of status and deaths of requests come
\* between the count and the write: as long as no two role changes have overlapped.
THEOREM AdminsRemain == HSpec => []AdminRemainsUnlessOverlapped
<1>1. HInv => AdminRemainsUnlessOverlapped
  BY DEF HInv, RoleChecksHold, AdminRemainsUnlessOverlapped
<1> QED
  BY <1>1, HInvIsInductive, PTL

\* The transaction of an invitation fails as a whole only where another invitation
\* overtook it: what it read of the organization is otherwise still so, and the team's
\* item is there already if its own put is refused.
THEOREM InvitationsLink == HSpec => InviteLinksUnlessOverlapped
<1>1. HInv /\ [HNext]_hvars =>
          [\A r \in Request :
              LinkInvitee(r) /\ req[r].team # NoTeam /\ "invite" \notin overlapped
                  => row'[req[r].team][req[r].user] # None]_vars
  <2> SUFFICES ASSUME HInv, NEW r \in Request, LinkInvitee(r), req[r].team # NoTeam, "invite" \notin overlapped
               PROVE  row'[req[r].team][req[r].user] # None
    OBVIOUS
  <2>1. IInv /\ InviteChecksHold
    BY DEF HInv
  <2>2. PICK t \in Team, u \in User, role \in Role, known \in BOOLEAN :
            t = req[r].team /\ u = req[r].user /\ role = req[r].role /\ known = req[r].known
    BY <2>1, InviteCallAt DEF IInv, LinkInvitee, At, InviteCall
  <2>3. u \in orgUser => known
    BY <2>1, <2>2 DEF InviteChecksHold, LinkInvitee
  <2>4. PICK new \in Row : new = [role |-> role, invited |-> TRUE] /\ new # None
    BY NewRow
  <2>5. CASE u \notin Members(t)
    <3>1. row' = [row EXCEPT ![t][u] = new]
      BY <2>2, <2>3, <2>4, <2>5, NoTeamAssumption DEF LinkInvitee, NotYetMember
    <3> QED
      BY <2>1, <2>2, <2>4, <3>1 DEF IInv, TypeOK
  <2>6. CASE u \in Members(t)
    <3>1. row' = row
      BY <2>2, <2>6, NoTeamAssumption DEF LinkInvitee, NotYetMember
    <3> QED
      BY <2>2, <2>6, <3>1 DEF Members
  <2> QED
    BY <2>5, <2>6
<1> QED
  BY <1>1, HInvIsInductive, PTL DEF HSpec, InviteLinksUnlessOverlapped
-----------------------------------------------------------------------------
(* What an addition of members goes by.                                    *)

\* A request past its last account knows what held since, and what held at its checks.
StandingsHold ==
    \A r \in Request :
        Adding(r) => /\ Standing(r) \subseteq standing[r]
                     /\ At(r, "status2") \/ At(r, "commit") => "admin" \in standing[r]
                     /\ At(r, "commit") => "active" \in standing[r]

PInv == /\ IInv
        /\ standing \in [Request -> SUBSET {"admin", "active"}]
        /\ StandingsHold

\* How a request comes to what follows the accounts, and from there to its transaction.
LEMMA ToCommit ==
    ASSUME IInv, [Next]_vars, NEW r \in Request, Adding(r)', req'[r] # req[r]
    PROVE  \/ req'[r].pc = "add2"
           \/ req'[r].pc = "status2" /\ At(r, "add2") /\ IsTeamAdmin(req[r].team, req[r].by)
           \/ req'[r].pc = "commit" /\ At(r, "status2") /\ status[req[r].team] = "ACTIVE"
<1>1. Turn(r)
  BY ActorOrNone, OnlyItsTurn
<1>2. req \in [Request -> {Idle} \cup Calls]
  BY DEF IInv, TypeOK, Calls
<1>3. ~Finish(r)
  BY <1>2 DEF Finish, Idle, Adding
<1>4. ~\E label \in {"status1", "accounts", "countAdmins", "setRole", "setStatus"} :
          Goto(r, label) /\ req[r] \in Calls
  BY <1>2 DEF Goto, Calls, AddCall, RoleCall, StatusCall, InviteCall, Adding
<1>5. CASE AddMembers(r)
  <2>1. req[r] \in AddCall /\ req[r] \in Calls
    BY <1>5, AddCallAt DEF AddMembers, AddIsAdmin, AddStatus, CommitMembers, CreateCognitoUser, Check, At, IInv, Calls
  <2>2. CASE AddIsAdmin(r)
    <3>1. At(r, "add2") /\ IsTeamAdmin(req[r].team, req[r].by) /\ Goto(r, "status2")
      BY <1>3, <1>4, <2>1, <2>2 DEF AddIsAdmin, Check
    <3> QED
      BY <1>2, <2>1, <3>1 DEF Goto, AddCall
  <2>3. CASE AddStatus(r)
    <3>1. At(r, "status2") /\ status[req[r].team] = "ACTIVE" /\ Goto(r, "commit")
      BY <1>3, <1>4, <2>1, <2>3 DEF AddStatus, Check
    <3> QED
      BY <1>2, <2>1, <3>1 DEF Goto, AddCall
  <2>4. ASSUME NEW u \in User, CreateCognitoUser(r, u) PROVE req'[r].pc = "add2"
    <3>1. req' = [req EXCEPT ![r].todo = @ \ {u}, ![r].pc = IF req[r].todo = {u} THEN "add2" ELSE @]
      BY <1>3, <2>4 DEF CreateCognitoUser
    <3>2. req'[r].pc \in {"add2", req[r].pc} /\ req[r].pc = "accounts"
      BY <1>2, <2>1, <2>4, <3>1 DEF AddCall, CreateCognitoUser, At
    <3> QED
      BY <3>2 DEF Adding
  <2> QED
    BY <1>3, <1>5, <2>2, <2>3, <2>4 DEF AddMembers, CommitMembers
<1>6. CASE Start(r)
  BY <1>2, <1>6 DEF Start, StartAdd, StartRole, StartStatus, StartInvite, Adding
<1>7. CASE UpdateStatus(r) \/ UpdateRole(r)
  <2>1. req[r] \in Calls
    BY <1>7, StatusCallAt, RoleCallAt DEF UpdateStatus, StatusIsAdmin, SetStatus, UpdateRole, RoleIsAdmin,
       RoleCountAdmins, SetRole, Check, At, IInv, Calls
  <2> QED
    BY <1>3, <1>4, <1>7, <2>1 DEF UpdateStatus, StatusIsAdmin, SetStatus, UpdateRole, RoleIsAdmin,
       RoleCountAdmins, SetRole, Check
<1>8. CASE Invite(r)
  <2>1. req[r] \in InviteCall
    BY <1>8, InviteCallAt DEF Invite, InviteReadOrg, LinkInvitee, At, IInv
  <2> QED
    BY <1>2, <1>3, <1>8, <2>1 DEF Invite, InviteReadOrg, LinkInvitee, InviteCall, Adding
<1> QED
  BY <1>1, <1>3, <1>5, <1>6, <1>7, <1>8 DEF Turn, Abort

LEMMA StandingsKept ==
    ASSUME PInv, HNext
    PROVE  PInv'
<1>1. IInv' /\ [Next]_vars
  BY NextInv DEF PInv, HNext
<1>2. \A r : Standing(r) \subseteq {"admin", "active"} /\ Standing(r)' \subseteq {"admin", "active"}
  BY DEF Standing
<1>3. standing' \in [Request -> SUBSET {"admin", "active"}]
  BY <1>2 DEF PInv, HNext
<1>4. ASSUME NEW r \in Request, Adding(r)'
      PROVE  /\ Standing(r)' \subseteq standing'[r]
             /\ At(r, "status2")' \/ At(r, "commit")' => "admin" \in standing'[r]
             /\ At(r, "commit")' => "active" \in standing'[r]
  <2>1. standing'[r] = standing[r] \cup Standing(r)'
    BY <1>4 DEF HNext
  <2>2. CASE req'[r] = req[r]
    BY <1>4, <2>1, <2>2 DEF PInv, StandingsHold, At, Adding
  <2>3. CASE req'[r] # req[r] /\ req'[r].pc = "add2"
    BY <2>1, <2>3 DEF At
  <2>4. CASE req'[r].pc = "status2" /\ At(r, "add2") /\ IsTeamAdmin(req[r].team, req[r].by)
    <3>1. "admin" \in Standing(r) /\ Adding(r)
      BY <2>4 DEF Standing, Adding, At
    <3> QED
      BY <2>1, <2>4, <3>1 DEF PInv, StandingsHold, At
  <2>5. CASE req'[r].pc = "commit" /\ At(r, "status2") /\ status[req[r].team] = "ACTIVE"
    <3>1. "active" \in Standing(r) /\ Adding(r)
      BY <2>5 DEF Standing, Adding, At
    <3> QED
      BY <2>1, <2>5, <3>1 DEF PInv, StandingsHold, At
  <2> QED
    BY <1>1, <1>4, <2>2, <2>3, <2>4, <2>5, ToCommit DEF PInv
<1> QED
  BY <1>1, <1>3, <1>4 DEF PInv, StandingsHold

LEMMA PInvIsInductive == HSpec => []PInv
<1>1. HInit => PInv
  BY InitInv DEF HInit, Init, PInv, StandingsHold, Adding, Idle
<1>2. PInv /\ [HNext]_hvars => PInv'
  <2>1. PInv /\ UNCHANGED hvars => PInv'
    <3> SUFFICES ASSUME PInv, UNCHANGED hvars PROVE PInv'
      OBVIOUS
    <3>1. IInv'
      BY NextInv DEF PInv, hvars
    <3> QED
      BY <3>1 DEF PInv, StandingsHold, Adding, Standing, IsTeamAdmin, Members, At, hvars, vars
  <2> QED
    BY <2>1, StandingsKept
<1> QED
  BY <1>1, <1>2, PTL DEF HSpec

\* Whatever becomes of the team and of the requester while the transaction is on its way,
\* members are added only where the requester was an administrator and the team active at
\* some time after the last account was created: what AddTeamMembers asks again, it asks
\* late enough that the wait for Cognito makes no answer old.
THEOREM AdditionsAreAllowed == HSpec => AddsOnFreshStanding
<1>1. PInv /\ [HNext]_hvars =>
          [\A r \in Request : CommitMembers(r) /\ row' # row => standing[r] = {"admin", "active"}]_hvars
  <2> SUFFICES ASSUME PInv, NEW r \in Request, CommitMembers(r) PROVE standing[r] = {"admin", "active"}
    OBVIOUS
  <2>1. Adding(r) /\ At(r, "commit")
    BY DEF CommitMembers, Adding, At
  <2> QED
    BY <2>1 DEF PInv, StandingsHold
<1> QED
  BY <1>1, PInvIsInductive, PTL DEF HSpec, AddsOnFreshStanding
-----------------------------------------------------------------------------
(* What the lists show.                                                    *)

Metadata(t) == [teamId |-> t, status |-> status[t], count |-> count[t]]
Entry(t, u) == [teamId |-> t, role |-> row[t][u].role, status |-> status[t], memberCount |-> count[t],
                isLoggedIn |-> IsLoggedIn(u, t)]

LEMMA ListOfTeams ==
    ASSUME IInv, NEW u \in User
    PROVE  /\ listUserTeams(u).teams = {Entry(t, u) : t \in {t \in Team : u \in Members(t)}}
           /\ \A t \in Team : u \in Members(t) => GetTeamMetadata(t) = {Metadata(t)}
<1>1. \A t \in Team : u \in Members(t) => GetTeamMetadata(t) = {Metadata(t)}
  BY DEF IInv, NobodyYet, GetTeamMetadata, Metadata
<1>2. \A t : Metadata(t).teamId = t /\ Metadata(t).status = status[t] /\ Metadata(t).count = count[t]
  BY DEF Metadata
<1> DEFINE mine == {t \in Team : u \in Members(t)}
           Of(t) == {[teamId |-> m.teamId, role |-> row[t][u].role, status |-> m.status, memberCount |-> m.count,
                      isLoggedIn |-> IsLoggedIn(u, m.teamId)] : m \in GetTeamMetadata(t)}
<1>3. \A t \in mine : Of(t) = {Entry(t, u)}
  BY <1>1, <1>2 DEF Entry
<1>4. GetUserTeams(u) = UNION {Of(t) : t \in mine}
  BY DEF GetUserTeams
<1> HIDE DEF mine, Of
<1>5. GetUserTeams(u) = {Entry(t, u) : t \in mine}
  BY <1>3, <1>4
<1> QED
  BY <1>1, <1>5 DEF listUserTeams, mine

LEMMA ViewsInv == IInv => MembersSeeTheirTeams
<1> SUFFICES ASSUME IInv, NEW u \in User
             PROVE  LET mine == listUserTeams(u).teams IN
                    /\ {entry.teamId : entry \in mine} = {t \in Team : u \in getTeamMembers(t).members}
                    /\ listUserTeams(u).currentTeam \in {NoTeam} \cup {entry.teamId : entry \in mine}
                    /\ \A entry \in mine :
                          /\ getTeamDetails(entry.teamId) # NotFound
                          /\ GetTeamMemberDetails(entry.teamId, u).role = entry.role
                          /\ \A f \in Founder : \E seen \in listOrgTeams(f).teams :
                                seen.teamId = entry.teamId /\ seen.count = entry.memberCount
  BY DEF MembersSeeTheirTeams
<1>1. /\ listUserTeams(u).teams = {Entry(t, u) : t \in {t \in Team : u \in Members(t)}}
      /\ \A t \in Team : u \in Members(t) => GetTeamMetadata(t) = {Metadata(t)}
  BY ListOfTeams
<1>2. \A t : Entry(t, u).teamId = t /\ Entry(t, u).role = row[t][u].role /\ Entry(t, u).memberCount = count[t]
  BY DEF Entry
<1>3. \A t : getTeamMembers(t).members = Members(t)
  BY DEF getTeamMembers
<1>4. {entry.teamId : entry \in listUserTeams(u).teams} = {t \in Team : u \in Members(t)}
  BY <1>1, <1>2
<1>5. listUserTeams(u).currentTeam \in {NoTeam} \cup {t \in Team : u \in Members(t)}
  <2>1. listUserTeams(u).currentTeam = current[<<"cognitoId", u>>]
    BY DEF listUserTeams
  <2>2. current[<<"cognitoId", u>>] \in Team \cup {NoTeam}
    BY DEF IInv, TypeOK, EmployeeKey
  <2> QED
    BY <2>1, <2>2 DEF IInv, CurrentIsMember
<1>6. ASSUME NEW t \in Team, u \in Members(t)
      PROVE  /\ getTeamDetails(t) # NotFound
             /\ GetTeamMemberDetails(t, u).role = row[t][u].role
             /\ \A f \in Founder : \E seen \in listOrgTeams(f).teams : seen.teamId = t /\ seen.count = count[t]
  <2>1. GetTeamMetadata(t) = {Metadata(t)} /\ Metadata(t).teamId = t /\ Metadata(t).count = count[t]
    BY <1>1, <1>6 DEF Metadata
  <2>2. getTeamDetails(t).status = "ok" /\ NotFound.status = "not found"
    BY <2>1 DEF getTeamDetails, NotFound
  <2>3. Metadata(t) \in GetOrganizationTeams
    BY <2>1 DEF GetOrganizationTeams
  <2>4. \A f \in Founder : listOrgTeams(f).teams = GetOrganizationTeams
    BY DEF listOrgTeams
  <2> QED
    BY <2>1, <2>2, <2>3, <2>4 DEF GetTeamMemberDetails
<1>7. \A entry \in listUserTeams(u).teams : \E t \in Team : u \in Members(t) /\ entry = Entry(t, u)
  BY <1>1
<1> QED
  BY <1>2, <1>3, <1>4, <1>5, <1>6, <1>7

\* In every state who is on a team's list of members sees the team in theirs, can open
\* it, finds the current team there and sees what the organization sees of it: nobody
\* joins a team before its METADATA is there to be found.
THEOREM NoTeamIsSkipped == Spec => []MembersSeeTheirTeams
BY ViewsInv, InvIsInductive, PTL
=============================================================================
