-------------------------- MODULE OrgAdminsProofs --------------------------
(***************************************************************************)
(* What OrgAdmins keeps for every set of organizations, users and          *)
(* requests, however the calls of the requests interleave: its types, that *)
(* no administrator is ever written where no reader looks, what the three  *)
(* lookups of an administrator agree on, and what the checks of an         *)
(* addition and of a removal are worth while no other of the kind runs.    *)
(***************************************************************************)
EXTENDS OrgAdminsOverlap, FiniteSetTheorems, TLAPS

Label == AddSteps \cup RemoveSteps \cup {"deleteUser"}

\* NoGhostPartition alone is not inductive: the put of AddOrgAdmin carries no
\* condition on the organization, so whoever is about to write must have been
\* admitted by an organization that exists.
InFlight == \A r \in Request : req[r] # Idle => creator[req[r].key[1]] # None

IInv == TypeOK /\ NoGhostPartition /\ InFlight

LEMMA InitInv == Init => IInv
<1> SUFFICES ASSUME Init PROVE IInv
  OBVIOUS
<1>1. TypeOK
  BY DEF Init, TypeOK
<1>2. NoGhostPartition
  BY DEF Init, NoGhostPartition, Exists, Key
<1>3. InFlight
  BY DEF Init, InFlight
<1> QED
  BY <1>1, <1>2, <1>3 DEF IInv
-----------------------------------------------------------------------------
(* The control of a request.                                               *)

\* A request past its start holds the arguments of a call.
LEMMA InCall ==
    ASSUME TypeOK, NEW r \in Request, NEW label \in Label, At(r, label)
    PROVE  req[r] \in Call /\ req[r] # Idle
<1>1. req[r] \in Call \cup {Idle}
  BY DEF TypeOK
<1>2. req[r] # Idle
  BY DEF At, Idle, Label, AddSteps, RemoveSteps
<1> QED
  BY <1>1, <1>2

LEMMA GotoKeeps ==
    ASSUME IInv, NEW r \in Request, req[r] # Idle, NEW label \in Label, Goto(r, label),
           UNCHANGED <<admin, member, creator>>
    PROVE  IInv'
<1>1. req[r] \in Call
  BY DEF IInv, TypeOK
<1>2. [req[r] EXCEPT !.pc = label] \in Call /\ [req[r] EXCEPT !.pc = label].key = req[r].key
  BY <1>1 DEF Call, Label
<1>3. req' = [req EXCEPT ![r] = [req[r] EXCEPT !.pc = label]]
  BY DEF Goto
<1>4. TypeOK'
  BY <1>2, <1>3 DEF IInv, TypeOK
<1>5. InFlight'
  BY <1>2, <1>3 DEF IInv, TypeOK, InFlight
<1>6. NoGhostPartition'
  BY DEF IInv, NoGhostPartition, Exists
<1> QED
  BY <1>4, <1>5, <1>6 DEF IInv

LEMMA FinishKeeps ==
    ASSUME IInv, NEW r \in Request, Finish(r), UNCHANGED <<admin, member, creator>>
    PROVE  IInv'
<1>1. TypeOK'
  BY DEF IInv, TypeOK, Finish
<1>2. InFlight'
  BY DEF IInv, TypeOK, InFlight, Finish
<1>3. NoGhostPartition'
  BY DEF IInv, NoGhostPartition, Exists
<1> QED
  BY <1>1, <1>2, <1>3 DEF IInv

\* A read, whatever it decides, keeps the invariant.
LEMMA ReadKeeps ==
    ASSUME IInv, NEW r \in Request, NEW from \in Label, At(r, from),
           Finish(r) \/ \E next \in Label : Goto(r, next),
           UNCHANGED <<admin, member, creator>>
    PROVE  IInv'
<1>1. req[r] # Idle
  BY InCall DEF IInv
<1> QED
  BY <1>1, GotoKeeps, FinishKeeps
-----------------------------------------------------------------------------
(* The operations that write.                                              *)

LEMMA CreateKeeps ==
    ASSUME IInv, NEW o \in Org, NEW u \in User, CreateOrganization(o, u)
    PROVE  IInv'
<1> DEFINE row == [role |-> "OWNER", active |-> TRUE]
<1>1. row \in AdminRow /\ <<o, 1>> \in Key
  BY DEF AdminRow, Role, Key
<1>2. TypeOK'
  BY <1>1 DEF IInv, TypeOK, CreateOrganization
<1>3. InFlight'
  BY NoneAssumption DEF IInv, TypeOK, InFlight, CreateOrganization
<1>4. NoGhostPartition'
  <2> SUFFICES ASSUME NEW q \in Org, NEW v \in User
               PROVE  /\ ~Exists(<<q, 2>>, v)'
                      /\ \A p \in 0..2 : Exists(<<q, p>>, v)' => creator'[q] # None
    BY DEF NoGhostPartition
  <2>1. \A p \in 0..2 : <<q, p>> \in Key
    BY DEF Key
  <2>2. \A k \in Key : k # <<o, 1>> => admin'[k] = admin[k]
    BY DEF IInv, TypeOK, CreateOrganization
  <2>3. ~Exists(<<q, 2>>, v)'
    BY <2>1, <2>2 DEF IInv, NoGhostPartition, Exists
  <2>4. ASSUME NEW p \in 0..2, Exists(<<q, p>>, v)' PROVE creator'[q] # None
    <3>1. CASE q = o
      BY <3>1, NoneAssumption DEF IInv, TypeOK, CreateOrganization
    <3>2. CASE q # o
      <4>1. Exists(<<q, p>>, v)
        BY <2>1, <2>2, <2>4, <3>2 DEF Exists
      <4> QED
        BY <4>1, <3>2 DEF IInv, TypeOK, NoGhostPartition, CreateOrganization
    <3> QED
      BY <3>1, <3>2
  <2> QED
    BY <2>3, <2>4
<1> QED
  BY <1>2, <1>3, <1>4 DEF IInv

LEMMA InviteKeeps ==
    ASSUME IInv, NEW by \in User, NEW u \in User, InviteUser(by, u)
    PROVE  IInv'
<1>1. TypeOK'
  BY DEF IInv, TypeOK, InviteUser, AdminsOrganizations
<1>2. InFlight' /\ NoGhostPartition'
  BY DEF IInv, InFlight, NoGhostPartition, Exists, InviteUser
<1> QED
  BY <1>1, <1>2 DEF IInv

\* Admission: the key of a request is that of an organization that exists.
LEMMA StartKeeps ==
    ASSUME IInv, NEW r \in Request, NEW o \in Org, NEW p \in 0..1, NEW by \in User,
           NEW target \in User, NEW role \in Role, NEW label \in Label,
           StartRequest(r, <<o, p>>, by, target, role, label)
    PROVE  IInv'
<1> DEFINE call == [pc |-> label, key |-> <<o, p>>, by |-> by, target |-> target, role |-> role]
<1>1. call \in Call /\ call.key[1] = o
  BY DEF Call, Label
<1>2. creator[o] # None
  <2>1. Normalised(<<o, p>>) = <<o, 1>>
    BY DEF Normalised
  <2>2. Exists(<<o, 1>>, by)
    BY <2>1 DEF StartRequest, IsOrgAdmin, Active
  <2>3. 1 \in 0..2
    OBVIOUS
  <2> QED
    BY <2>2, <2>3 DEF IInv, NoGhostPartition, Exists
<1>3. req' = [req EXCEPT ![r] = call] /\ UNCHANGED <<admin, member, creator>>
  BY DEF StartRequest
<1> HIDE DEF call
<1>4. TypeOK'
  BY <1>1, <1>3 DEF IInv, TypeOK
<1>5. InFlight'
  BY <1>1, <1>2, <1>3 DEF IInv, TypeOK, InFlight
<1>6. NoGhostPartition'
  BY <1>3 DEF IInv, NoGhostPartition, Exists
<1> QED
  BY <1>4, <1>5, <1>6 DEF IInv

\* A step that may write the administrator of a request, at the key k that the
\* step computed from the id: harmless while k is no doubly prefixed id.
LEMMA WriteKeeps ==
    ASSUME IInv, NEW r \in Request, req[r] \in Call, req[r] # Idle,
           NEW k \in Key, k[1] = req[r].key[1], NEW row \in AdminRow,
           NEW u \in User, k[2] = 2 => Exists(k, u),
           \/ admin' = admin
           \/ admin' = [admin EXCEPT ![k][u] = row],
           Finish(r), UNCHANGED <<member, creator>>
    PROVE  IInv'
<1>1. admin' \in [Key -> [User -> AdminRow \cup {None}]]
  BY DEF IInv, TypeOK
<1>2. TypeOK'
  BY <1>1 DEF IInv, TypeOK, Finish
<1>3. InFlight'
  BY DEF IInv, TypeOK, InFlight, Finish
<1>4. NoGhostPartition'
  <2> SUFFICES ASSUME NEW q \in Org, NEW v \in User
               PROVE  /\ ~Exists(<<q, 2>>, v)'
                      /\ \A p \in 0..2 : Exists(<<q, p>>, v)' => creator'[q] # None
    BY DEF NoGhostPartition
  <2>1. \A p \in 0..2 : <<q, p>> \in Key
    BY DEF Key
  <2>2. creator[k[1]] # None
    BY DEF IInv, InFlight
  <2>3. \A j \in Key, w \in User : <<j, w>> # <<k, u>> => admin'[j][w] = admin[j][w]
    BY DEF IInv, TypeOK
  <2>4. k = <<k[1], k[2]>>
    BY DEF Key
  <2>5. ~Exists(<<q, 2>>, v)'
    <3>1. ASSUME k = <<q, 2>>, u = v PROVE FALSE
      <4>1. k[2] = 2
        BY <3>1
      <4>2. ~Exists(<<q, 2>>, v)
        BY DEF IInv, NoGhostPartition
      <4> QED
        BY <3>1, <4>1, <4>2
    <3> QED
      BY <2>1, <2>3, <3>1 DEF IInv, NoGhostPartition, Exists
  <2>6. ASSUME NEW p \in 0..2, Exists(<<q, p>>, v)' PROVE creator'[q] # None
    <3>1. CASE <<q, p>> = k
      BY <2>2, <3>1
    <3>2. CASE <<q, p>> # k
      BY <2>1, <2>3, <2>6, <3>2 DEF IInv, NoGhostPartition, Exists
    <3> QED
      BY <3>1, <3>2
  <2> QED
    BY <2>5, <2>6
<1> QED
  BY <1>2, <1>3, <1>4 DEF IInv

LEMMA PutKeeps == ASSUME IInv, NEW r \in Request, PutAdmin(r) PROVE IInv'
<1> DEFINE row == [role |-> req[r].role, active |-> TRUE]
<1>1. req[r] \in Call /\ req[r] # Idle
  BY InCall DEF IInv, PutAdmin, Label, AddSteps
<1>2. req[r].key \in Key /\ req[r].key[2] # 2 /\ req[r].target \in User /\ row \in AdminRow
  BY <1>1 DEF Call, Key, AdminRow
<1>3. \/ admin' = admin
      \/ admin' = [admin EXCEPT ![req[r].key][req[r].target] = row]
  BY DEF PutAdmin
<1>4. Finish(r) /\ UNCHANGED <<member, creator>>
  BY DEF PutAdmin
<1> HIDE DEF row
<1> QED
  BY <1>1, <1>2, <1>3, <1>4, WriteKeeps

\* The update is conditional on the item, and there is none at a key that was
\* prefixed twice.
LEMMA ReactivateKeeps == ASSUME IInv, NEW r \in Request, ReactivateAdmin(r) PROVE IInv'
<1> DEFINE row == [role |-> req[r].role, active |-> TRUE]
           k == Prefixed(req[r].key)
<1>1. req[r] \in Call /\ req[r] # Idle
  BY InCall DEF IInv, ReactivateAdmin, Label, AddSteps
<1>2. k \in Key /\ k[1] = req[r].key[1] /\ req[r].target \in User /\ row \in AdminRow
  BY <1>1 DEF Call, Key, AdminRow, Prefixed
<1>3. CASE Exists(k, req[r].target)
  <2>1. admin' = [admin EXCEPT ![k][req[r].target] = row] /\ Finish(r) /\ UNCHANGED <<member, creator>>
    BY <1>3 DEF ReactivateAdmin
  <2> HIDE DEF row, k
  <2> QED
    BY <1>1, <1>2, <1>3, <2>1, WriteKeeps
<1>4. CASE ~Exists(k, req[r].target)
  BY <1>4, FinishKeeps DEF ReactivateAdmin
<1> QED
  BY <1>3, <1>4

LEMMA DeactivateKeeps == ASSUME IInv, NEW r \in Request, Deactivate(r) PROVE IInv'
<1> DEFINE k == Prefixed(req[r].key)
           u == req[r].target
           row == [admin[k][u] EXCEPT !.active = FALSE]
<1>1. req[r] \in Call /\ req[r] # Idle
  BY InCall DEF IInv, Deactivate, Label, RemoveSteps
<1>2. k \in Key /\ k[1] = req[r].key[1] /\ u \in User
  BY <1>1 DEF Call, Key, Prefixed
<1>3. CASE Exists(k, u)
  <2>1. admin[k][u] \in AdminRow
    BY <1>2, <1>3 DEF IInv, TypeOK, Exists
  <2>2. row \in AdminRow
    BY <2>1 DEF AdminRow
  <2>3. admin' = [admin EXCEPT ![k][u] = row] /\ Finish(r) /\ UNCHANGED <<member, creator>>
    BY <1>3 DEF Deactivate
  <2> HIDE DEF row, k, u
  <2> QED
    BY <1>1, <1>2, <1>3, <2>2, <2>3, WriteKeeps
<1>4. CASE ~Exists(k, u)
  BY <1>1, <1>4, GotoKeeps DEF Deactivate, Label
<1> QED
  BY <1>3, <1>4

LEMMA RemoveUserKeeps == ASSUME IInv, NEW r \in Request, RemoveOrgUser(r) PROVE IInv'
<1>1. TypeOK'
  BY DEF IInv, TypeOK, RemoveOrgUser, Finish
<1>2. InFlight' /\ NoGhostPartition'
  BY DEF IInv, TypeOK, InFlight, NoGhostPartition, Exists, RemoveOrgUser, Finish
<1> QED
  BY <1>1, <1>2 DEF IInv
-----------------------------------------------------------------------------
LEMMA AddKeeps == ASSUME IInv, NEW r \in Request, AddOrgAdmin(r) PROVE IInv'
<1> USE DEF Label, AddSteps
<1>1. CASE AddCanJoin(r)
  BY <1>1, ReadKeeps DEF AddCanJoin, Check
<1>2. CASE AddIsAdmin(r)
  BY <1>2, ReadKeeps DEF AddIsAdmin, Check
<1>3. CASE AddRequesterRole(r)
  BY <1>3, ReadKeeps DEF AddRequesterRole, Check
<1>4. CASE AddReadTarget(r)
  BY <1>4, ReadKeeps DEF AddReadTarget, Check
<1> QED
  BY <1>1, <1>2, <1>3, <1>4, PutKeeps, ReactivateKeeps DEF AddOrgAdmin

LEMMA RemoveKeeps == ASSUME IInv, NEW r \in Request, RemoveOrgAdmin(r) PROVE IInv'
<1> USE DEF Label, RemoveSteps
<1>1. CASE RemoveIsAdmin(r)
  BY <1>1, ReadKeeps DEF RemoveIsAdmin, CheckOrDeleteUser
<1>2. CASE RemoveRequesterRole(r)
  BY <1>2, ReadKeeps DEF RemoveRequesterRole, CheckOrDeleteUser
<1>3. CASE RemoveCountOwners(r)
  BY <1>3, ReadKeeps DEF RemoveCountOwners, CheckOrDeleteUser
<1>4. CASE RemoveReadTarget(r)
  BY <1>4, ReadKeeps DEF RemoveReadTarget, CheckOrDeleteUser
<1>5. CASE RemoveCallFails(r)
  BY <1>5, GotoKeeps DEF RemoveCallFails, Idle
<1> QED
  BY <1>1, <1>2, <1>3, <1>4, <1>5, DeactivateKeeps DEF RemoveOrgAdmin

LEMMA NextInv == IInv /\ [Next]_vars => IInv'
<1> SUFFICES ASSUME IInv, [Next]_vars PROVE IInv'
  OBVIOUS
<1>1. CASE UNCHANGED vars
  BY <1>1 DEF IInv, TypeOK, InFlight, NoGhostPartition, Exists, vars
<1>2. ASSUME NEW r \in Request, Start(r) PROVE IInv'
  <2>1. PICK o \in Org, p \in 0..1, by \in User, target \in User :
            \/ \E role \in Role : StartAdd(r, <<o, p>>, by, target, role)
            \/ StartRemove(r, <<o, p>>, by, target)
    BY <1>2 DEF Start
  <2>2. "canJoin" \in Label /\ "rmIsAdmin" \in Label /\ "ADMIN" \in Role
    BY DEF Label, AddSteps, RemoveSteps, Role
  <2> QED
    BY <2>1, <2>2, StartKeeps DEF StartAdd, StartRemove
<1>3. ASSUME NEW r \in Request, Abort(r) PROVE IInv'
  BY <1>3, FinishKeeps DEF Abort
<1> QED
  BY <1>1, <1>2, <1>3, InviteeAssumption, CreateKeeps, InviteKeeps, AddKeeps, RemoveKeeps,
     RemoveUserKeeps DEF Next, createOrganization

LEMMA InvIsInductive == Spec => []IInv
<1> QED
  BY InitInv, NextInv, PTL DEF Spec

\* Every reachable state of OrgAdmins is well typed; in particular the two
\* conditional updates never make an item of their own with half a row in it.
THEOREM TypeCorrect == Spec => []TypeOK
<1>1. IInv => TypeOK
  BY DEF IInv
<1> QED
  BY <1>1, InvIsInductive, PTL

\* Whatever form of the id clients send to however many requests at once, no
\* administrator is written under a doubly prefixed id, nor before there is an
\* organization.
THEOREM NoGhosts == Spec => []NoGhostPartition
<1>1. IInv => NoGhostPartition
  BY DEF IInv
<1> QED
  BY <1>1, InvIsInductive, PTL

\* The rows that GSI1 lists are those of the one partition readers look at.
LEMMA OnlyPrefixedRows ==
    ASSUME IInv, NEW u \in User, NEW k \in Key
    PROVE  k \in AdminsOrganizations(u) <=> k = <<k[1], 1>> /\ Active(<<k[1], 1>>, u)
<1>1. k = <<k[1], k[2]>> /\ k[1] \in Org /\ k[2] \in 0..2
  BY DEF Key
<1>2. k[2] = 2 => ~Active(k, u)
  BY <1>1 DEF IInv, NoGhostPartition, Active
<1>3. k[2] > 0 <=> k[2] = 1 \/ k[2] = 2
  BY <1>1
<1> QED
  BY <1>1, <1>2, <1>3 DEF AdminsOrganizations

LEMMA ViewsInv == IInv => AdministratorsFindTheirOrg
<1> SUFFICES ASSUME IInv, NEW u \in User
             PROVE  LET Shown == {o \in Org : checkOrgAdmin(u, o).isOrgAdmin} IN
                    /\ Shown = {o \in Org : Active(<<o, 1>>, u)}
                    /\ \A o \in Shown :
                          LET k == <<o, 1>> IN
                          /\ listUserOrganizations(u, o).organization = o
                          /\ listOrgUsers(k, u).allowed /\ <<"admin", u>> \in listOrgUsers(k, u).users
                          /\ getOrganization(k, u).organization = {o}
  BY DEF AdministratorsFindTheirOrg
<1>1. \A o \in Org : <<o, 1>> \in Key /\ <<o, 1>>[1] = o /\ Normalised(<<o, 1>>) = <<o, 1>>
  BY DEF Key, Normalised
<1>2. \A o \in Org : Active(<<o, 1>>, u) => creator[o] # None
  <2>1. 1 \in 0..2
    OBVIOUS
  <2> QED
    BY <2>1 DEF IInv, NoGhostPartition, Active
<1>3. \A o \in Org : Active(<<o, 1>>, u) => GetOrganization(<<o, 1>>) = {o}
  <2> SUFFICES ASSUME NEW o \in Org, Active(<<o, 1>>, u) PROVE GetOrganization(<<o, 1>>) = {o}
    OBVIOUS
  <2>1. \A q \in Org : <<q, 1>> = <<o, 1>> <=> q = o
    OBVIOUS
  <2> QED
    BY <1>1, <1>2, <2>1 DEF GetOrganization
<1>4. \A k \in AdminsOrganizations(u) : \E o \in Org : k = <<o, 1>> /\ Active(<<o, 1>>, u)
  BY OnlyPrefixedRows DEF AdminsOrganizations, Key
<1>5. GetAdminOrganization(u) = {o \in Org : Active(<<o, 1>>, u)}
  <2>1. ~\E k \in AdminsOrganizations(u) : GetOrganization(k) = {}
    BY <1>3, <1>4
  <2>2. GetAdminOrganization(u) = UNION {GetOrganization(k) : k \in AdminsOrganizations(u)}
    BY <2>1 DEF GetAdminOrganization, GetAdminsOrganizations
  <2>3. ASSUME NEW o \in Org, Active(<<o, 1>>, u)
        PROVE  o \in UNION {GetOrganization(k) : k \in AdminsOrganizations(u)}
    <3>1. <<o, 1>> \in AdminsOrganizations(u)
      BY <1>1, <2>3, OnlyPrefixedRows
    <3> QED
      BY <1>3, <2>3, <3>1
  <2>4. ASSUME NEW o \in UNION {GetOrganization(k) : k \in AdminsOrganizations(u)}
        PROVE  o \in Org /\ Active(<<o, 1>>, u)
    <3>1. PICK k \in AdminsOrganizations(u) : o \in GetOrganization(k)
      BY <2>4
    <3>2. PICK q \in Org : k = <<q, 1>> /\ Active(<<q, 1>>, u)
      BY <1>4
    <3>3. GetOrganization(k) = {q}
      BY <1>3, <3>2
    <3> QED
      BY <3>1, <3>2, <3>3
  <2> QED
    BY <2>2, <2>3, <2>4
<1>6. {o \in Org : checkOrgAdmin(u, o).isOrgAdmin} = {o \in Org : Active(<<o, 1>>, u)}
  <2>1. \A o \in Org : checkOrgAdmin(u, o).isOrgAdmin <=> o \in GetAdminOrganization(u)
    BY DEF checkOrgAdmin
  <2> QED
    BY <1>5, <2>1
<1>7. ASSUME NEW o \in Org, Active(<<o, 1>>, u)
      PROVE  /\ listUserOrganizations(u, o).organization = o
             /\ listOrgUsers(<<o, 1>>, u).allowed /\ <<"admin", u>> \in listOrgUsers(<<o, 1>>, u).users
             /\ getOrganization(<<o, 1>>, u).organization = {o}
  <2>1. IsOrgAdmin(<<o, 1>>, u)
    BY <1>1, <1>7 DEF IsOrgAdmin
  <2>2. listUserOrganizations(u, o).organization = o
    BY <1>5, <1>7 DEF listUserOrganizations
  <2>3. u \in GetOrgAdmins(<<o, 1>>)
    BY <1>1, <1>7 DEF GetOrgAdmins
  <2>4. listOrgUsers(<<o, 1>>, u).allowed /\ <<"admin", u>> \in listOrgUsers(<<o, 1>>, u).users
    BY <2>1, <2>3 DEF listOrgUsers
  <2>5. getOrganization(<<o, 1>>, u).organization = {o}
    BY <1>3, <1>7, <2>1 DEF getOrganization
  <2> QED
    BY <2>2, <2>4, <2>5
<1> QED
  BY <1>6, <1>7

\* In every state who administers an organization, and nobody else, is told so by
\* every Lambda and finds it: since no row is written under a doubly prefixed id, the
\* rows the index lists are those of the partition the item is read from.
THEOREM LookupsAgree == Spec => []AdministratorsFindTheirOrg
BY ViewsInv, InvIsInductive, PTL
-----------------------------------------------------------------------------
(* Operations that do not overlap with their own kind.                     *)

Row(r) == <<req[r].key[1], 1>>
Joined(o, u) == Active(<<o, 1>>, u) /\ creator[o] # u

Apart == \A op \in DOMAIN Steps : op \notin overlapped => ~Overlapping(op)

\* While additions run one at a time what AddOrgAdmin read stays true to its write:
\* the organizations its user has joined, and that the administrator is not active.
JoinChecksHold ==
    /\ \A r \in Request :
          /\ req[r].pc \in AddSteps \ {"canJoin"} =>
                \A o \in Org : Joined(o, req[r].target) => req[r].key[1] = o
          /\ At(r, "reactivate") => ~Active(Row(r), req[r].target)
    /\ \A u \in User, o, q \in Org : Joined(o, u) /\ Joined(q, u) => o = q

\* While removals do too, whoever passed the checks leaves an owner behind.
OwnerChecksHold ==
    /\ OwnerRemains
    /\ \A r \in Request :
          /\ At(r, "rmRole") => Active(Row(r), req[r].by)
          /\ req[r].pc \in {"rmTarget", "deactivate"} /\ req[r].key[2] = 0 =>
                \E v \in ActiveOwners(Row(r)) : v # req[r].target

HInv == /\ IInv
        /\ Apart
        /\ "add" \notin overlapped => JoinChecksHold
        /\ overlapped = {} => OwnerChecksHold

LEMMA KeyForms ==
    ASSUME NEW key \in Org \X (0..1)
    PROVE  /\ key = <<key[1], key[2]>> /\ key[1] \in Org /\ key[2] \in {0, 1}
           /\ Normalised(key) = <<key[1], 1>>
           /\ key[2] = 0 => Prefixed(key) = <<key[1], 1>>
           /\ key[2] = 1 => Prefixed(key) = <<key[1], 2>>
           /\ <<key[1], 1>> \in Key /\ <<key[1], 2>> \in Key /\ Prefixed(key) \in Key /\ key \in Key
BY DEF Normalised, Prefixed, Key

\* What request r goes through in one step, as far as its checks are concerned.
ReadStep(r) ==
    /\ UNCHANGED <<admin, creator>>
    /\ req'[r].key = req[r].key /\ req'[r].by = req[r].by /\ req'[r].target = req[r].target
    /\ \/ At(r, "canJoin") /\ req'[r].pc = "addIsAdmin"
          /\ AdminsOrganizations(req[r].target) \subseteq {req[r].key}
       \/ req[r].pc \in {"addIsAdmin", "addRole"} /\ req'[r].pc \in {"addRole", "addTarget"}
       \/ At(r, "addTarget") /\ req'[r].pc \in {"put", "reactivate"} /\ ~Active(Row(r), req[r].target)
       \/ At(r, "rmIsAdmin") /\ req'[r].pc = "rmRole" /\ Active(Row(r), req[r].by)
       \/ At(r, "rmRole") /\ req'[r].pc = "rmCount"
       \/ At(r, "rmRole") /\ req'[r].pc = "rmTarget" /\ req[r].by # req[r].target
          /\ Exists(Row(r), req[r].by) /\ admin[Row(r)][req[r].by].role = "OWNER"
       \/ At(r, "rmCount") /\ req'[r].pc = "rmTarget"
          /\ Cardinality(ActiveOwners(Prefixed(req[r].key))) > 1
       \/ At(r, "rmTarget") /\ req'[r].pc = "deactivate"

Turn(r) == Start(r) \/ AddOrgAdmin(r) \/ RemoveOrgAdmin(r) \/ RemoveOrgUser(r) \/ Abort(r)

ReqStep(r) == \/ req'[r] = req[r]
              \/ req'[r].pc \in {"idle", "canJoin", "rmIsAdmin", "deleteUser"}
              \/ ReadStep(r)

LEMMA TurnOfOne ==
    ASSUME IInv, NEW r \in Request, Turn(r)
    PROVE  /\ \A s \in Request \ {r} : req'[s] = req[s]
           /\ ReqStep(r)
<1>1. req \in [Request -> Call \cup {Idle}]
  BY DEF IInv, TypeOK
<1>2. ASSUME NEW call, req' = [req EXCEPT ![r] = call]
      PROVE  req'[r] = call /\ \A s \in Request \ {r} : req'[s] = req[s]
  BY <1>1, <1>2
<1>3. ASSUME NEW label, Goto(r, label), req[r] \in Call
      PROVE  /\ req'[r].pc = label /\ req'[r].key = req[r].key /\ req'[r].by = req[r].by
             /\ req'[r].target = req[r].target /\ \A s \in Request \ {r} : req'[s] = req[s]
  BY <1>1, <1>3 DEF Goto, Call
<1>4. ASSUME Finish(r)
      PROVE  req'[r].pc = "idle" /\ \A s \in Request \ {r} : req'[s] = req[s]
  BY <1>2, <1>4 DEF Finish, Idle
<1>5. req[r] \in Call =>
        /\ Normalised(req[r].key) = Row(r)
        /\ IsOrgAdmin(req[r].key, req[r].by) <=> Active(Row(r), req[r].by)
        /\ IsOwnerRow(req[r].key, req[r].by) <=> Exists(Row(r), req[r].by) /\ admin[Row(r)][req[r].by].role = "OWNER"
  BY KeyForms DEF Call, Row, IsOrgAdmin, IsOwnerRow
<1>6. \A label \in Label : At(r, label) => req[r] \in Call
  BY InCall DEF IInv
<1>7. CASE Start(r)
  <2>1. PICK o \in Org, p \in 0..1, by \in User, target \in User, role \in Role, label \in {"canJoin", "rmIsAdmin"} :
            StartRequest(r, <<o, p>>, by, target, role, label)
    <3>1. "ADMIN" \in Role
      BY DEF Role
    <3> QED
      BY <1>7, <3>1 DEF Start, StartAdd, StartRemove
  <2> QED
    BY <1>2, <2>1 DEF StartRequest, ReqStep
<1>8. CASE AddOrgAdmin(r)
  <2> USE DEF Label, AddSteps
  <2>1. CASE AddCanJoin(r)
    BY <2>1, <1>3, <1>4, <1>6 DEF AddCanJoin, Check, ReqStep, ReadStep, At
  <2>2. CASE AddIsAdmin(r)
    BY <2>2, <1>3, <1>4, <1>6 DEF AddIsAdmin, Check, ReqStep, ReadStep, At
  <2>3. CASE AddRequesterRole(r)
    BY <2>3, <1>3, <1>4, <1>6 DEF AddRequesterRole, Check, ReqStep, ReadStep, At
  <2>4. CASE AddReadTarget(r)
    <3>1. req[r] \in Call /\ At(r, "addTarget")
      BY <2>4, <1>6 DEF AddReadTarget, Check
    <3> QED
      BY <2>4, <3>1, <1>3, <1>4, <1>5 DEF AddReadTarget, Check, ReqStep, ReadStep
  <2>5. CASE PutAdmin(r) \/ ReactivateAdmin(r)
    BY <2>5, <1>4 DEF PutAdmin, ReactivateAdmin, ReqStep
  <2> QED
    BY <1>8, <2>1, <2>2, <2>3, <2>4, <2>5 DEF AddOrgAdmin
<1>9. CASE RemoveOrgAdmin(r)
  <2> USE DEF Label, RemoveSteps
  <2>1. CASE RemoveIsAdmin(r)
    BY <2>1, <1>3, <1>5, <1>6 DEF RemoveIsAdmin, CheckOrDeleteUser, ReqStep, ReadStep, At
  <2>2. CASE RemoveRequesterRole(r)
    <3>1. req[r] \in Call /\ At(r, "rmRole") /\ UNCHANGED <<admin, member, creator>>
      BY <2>2, <1>6 DEF RemoveRequesterRole, CheckOrDeleteUser
    <3>2. \/ IsOwnerRow(req[r].key, req[r].by) /\ req[r].by = req[r].target /\ Goto(r, "rmCount")
          \/ IsOwnerRow(req[r].key, req[r].by) /\ req[r].by # req[r].target /\ Goto(r, "rmTarget")
          \/ Goto(r, "deleteUser")
      BY <2>2 DEF RemoveRequesterRole, CheckOrDeleteUser
    <3> QED
      BY <3>1, <3>2, <1>3, <1>5 DEF ReqStep, ReadStep
  <2>3. CASE RemoveCountOwners(r)
    BY <2>3, <1>3, <1>6 DEF RemoveCountOwners, CheckOrDeleteUser, ReqStep, ReadStep, At
  <2>4. CASE RemoveReadTarget(r)
    BY <2>4, <1>3, <1>6 DEF RemoveReadTarget, CheckOrDeleteUser, ReqStep, ReadStep, At
  <2>5. CASE RemoveCallFails(r)
    <3>1. req[r] \in Call
      BY <2>5, <1>6 DEF RemoveCallFails, At
    <3> QED
      BY <2>5, <3>1, <1>3 DEF RemoveCallFails, ReqStep
  <2>6. CASE Deactivate(r)
    <3>1. req[r] \in Call
      BY <2>6, <1>6 DEF Deactivate
    <3> QED
      BY <2>6, <3>1, <1>3, <1>4 DEF Deactivate, ReqStep
  <2> QED
    BY <1>9, <2>1, <2>2, <2>3, <2>4, <2>5, <2>6 DEF RemoveOrgAdmin
<1>10. CASE RemoveOrgUser(r) \/ Abort(r)
  BY <1>10, <1>4 DEF RemoveOrgUser, Abort, ReqStep
<1> QED
  BY <1>7, <1>8, <1>9, <1>10 DEF Turn

Writes(r, o, u) ==
    /\ req[r].pc \in {"put", "reactivate"} /\ req[r].key[1] = o /\ req[r].target = u /\ req'[r] = Idle
    /\ At(r, "put") => ~Exists(<<o, 1>>, u)

Takes(r, o, u) ==
    /\ At(r, "deactivate") /\ req[r].key = <<o, 0>> /\ req[r].target = u /\ req'[r] = Idle
    /\ ~Active(<<o, 1>>, u)'

\* The ways in which a step changes the row of an administrator.
RowStep(o, u) == \/ admin'[<<o, 1>>][u] = admin[<<o, 1>>][u]
                 \/ creator[o] = None /\ creator'[o] = u /\ u \in ActiveOwners(<<o, 1>>)'
                 \/ \E r \in Request : Writes(r, o, u) \/ Takes(r, o, u)

LEMMA RowOfTurn ==
    ASSUME IInv, NEW r \in Request, Turn(r), NEW o \in Org, NEW u \in User
    PROVE  RowStep(o, u)
<1>1. <<o, 1>> \in Key
  BY DEF Key
<1>2. ASSUME NEW k \in Key, NEW v \in User, NEW row, admin' = [admin EXCEPT ![k][v] = row]
      PROVE  \/ k = <<o, 1>> /\ v = u /\ admin'[<<o, 1>>][u] = row
             \/ admin'[<<o, 1>>][u] = admin[<<o, 1>>][u]
  BY <1>1, <1>2 DEF IInv, TypeOK
<1>3. Finish(r) => req'[r] = Idle
  BY DEF Finish, IInv, TypeOK
<1>4. \A label \in Label : At(r, label) => req[r] \in Call /\ req[r].key \in Org \X (0..1) /\ req[r].target \in User
  BY InCall DEF IInv, Call
<1>5. CASE PutAdmin(r)
  <2>1. At(r, "put") /\ req[r].key \in Key /\ req[r].target \in User
    BY <1>4, <1>5, KeyForms DEF PutAdmin, Label, AddSteps
  <2>2. PICK row : row = [role |-> req[r].role, active |-> TRUE]
    OBVIOUS
  <2>3. \/ admin' = admin
        \/ ~Exists(req[r].key, req[r].target) /\ admin' = [admin EXCEPT ![req[r].key][req[r].target] = row]
    BY <1>5, <2>2 DEF PutAdmin
  <2>4. CASE ~Exists(req[r].key, req[r].target) /\ admin' = [admin EXCEPT ![req[r].key][req[r].target] = row]
    BY <2>1, <2>4, <1>2, <1>3, <1>5 DEF PutAdmin, RowStep, Writes, At
  <2> QED
    BY <2>3, <2>4, <1>5 DEF PutAdmin, RowStep
<1>6. CASE ReactivateAdmin(r)
  <2>1. /\ At(r, "reactivate") /\ req[r].key \in Org \X (0..1) /\ Prefixed(req[r].key) \in Key
        /\ req[r].target \in User /\ Prefixed(req[r].key)[1] = req[r].key[1]
    BY <1>4, <1>6, KeyForms DEF ReactivateAdmin, Label, AddSteps, Prefixed
  <2>2. PICK row : row = [role |-> req[r].role, active |-> TRUE]
    OBVIOUS
  <2>3. \/ admin' = admin
        \/ admin' = [admin EXCEPT ![Prefixed(req[r].key)][req[r].target] = row]
    BY <1>6, <2>2 DEF ReactivateAdmin
  <2>4. CASE admin' = [admin EXCEPT ![Prefixed(req[r].key)][req[r].target] = row]
    <3>1. \/ Prefixed(req[r].key) = <<o, 1>> /\ req[r].target = u
          \/ admin'[<<o, 1>>][u] = admin[<<o, 1>>][u]
      BY <2>1, <2>4, <1>2
    <3> QED
      BY <2>1, <3>1, <1>3, <1>6 DEF ReactivateAdmin, RowStep, Writes, At
  <2> QED
    BY <2>3, <2>4, <1>6 DEF ReactivateAdmin, RowStep
<1>7. CASE Deactivate(r)
  <2>1. /\ At(r, "deactivate") /\ req[r].key \in Org \X (0..1) /\ Prefixed(req[r].key) \in Key
        /\ req[r].target \in User
    BY <1>4, <1>7, KeyForms DEF Deactivate, Label, RemoveSteps
  <2>2. PICK row : row = [admin[Prefixed(req[r].key)][req[r].target] EXCEPT !.active = FALSE]
    OBVIOUS
  <2>3. CASE Exists(Prefixed(req[r].key), req[r].target)
    <3>1. /\ admin' = [admin EXCEPT ![Prefixed(req[r].key)][req[r].target] = row]
          /\ UNCHANGED <<member, creator>> /\ req'[r] = Idle
      BY <1>3, <1>7, <2>2, <2>3 DEF Deactivate
    <3>2. ~row.active
      <4>1. admin[Prefixed(req[r].key)][req[r].target] \in AdminRow
        BY <2>1, <2>3 DEF IInv, TypeOK, Exists
      <4> QED
        BY <2>2, <4>1 DEF AdminRow
    <3>3. CASE Prefixed(req[r].key) = <<o, 1>> /\ req[r].target = u /\ admin'[<<o, 1>>][u] = row
      <4>1. req[r].key = <<o, 0>>
        <5>1. /\ req[r].key = <<req[r].key[1], req[r].key[2]>> /\ req[r].key[2] \in {0, 1}
              /\ Prefixed(req[r].key) = <<req[r].key[1], req[r].key[2] + 1>>
          BY <2>1 DEF Prefixed
        <5>2. req[r].key[1] = o /\ req[r].key[2] + 1 = 1
          BY <3>3, <5>1
        <5> QED
          BY <5>1, <5>2
      <4>2. ~Active(<<o, 1>>, u)'
        BY <3>2, <3>3 DEF Active
      <4> QED
        BY <2>1, <3>1, <3>3, <4>1, <4>2 DEF RowStep, Takes
    <3>4. CASE admin'[<<o, 1>>][u] = admin[<<o, 1>>][u]
      BY <3>1, <3>4 DEF RowStep
    <3> QED
      BY <2>1, <3>1, <3>3, <3>4, <1>2
  <2> QED
    BY <2>3, <1>7 DEF Deactivate, RowStep
<1>8. admin' = admin => RowStep(o, u)
  BY DEF RowStep
<1>9. CASE Start(r) \/ RemoveOrgUser(r) \/ Abort(r)
  BY <1>8, <1>9 DEF Start, StartAdd, StartRemove, StartRequest, RemoveOrgUser, Abort
<1>10. CASE AddOrgAdmin(r)
  BY <1>5, <1>6, <1>8, <1>10 DEF AddOrgAdmin, AddCanJoin, AddIsAdmin, AddRequesterRole, AddReadTarget,
     Check, PutAdmin, ReactivateAdmin
<1>11. CASE RemoveOrgAdmin(r)
  BY <1>7, <1>8, <1>11 DEF RemoveOrgAdmin, RemoveIsAdmin, RemoveRequesterRole, RemoveCountOwners,
     RemoveReadTarget, CheckOrDeleteUser, RemoveCallFails, Deactivate
<1> QED
  BY <1>9, <1>10, <1>11 DEF Turn

\* A step is the turn of one request, or creates, or changes neither rows nor requests.
LEMMA StepByStep ==
    ASSUME IInv, [Next]_vars
    PROVE  /\ \A o \in Org, u \in User : RowStep(o, u)
           /\ \A r \in Request : ReqStep(r)
           /\ \A o \in Org : \/ creator'[o] = creator[o]
                             \/ creator[o] = None /\ \E u \in User : u \in ActiveOwners(<<o, 1>>)'
<1>1. CASE \E r \in Request : Turn(r)
  <2>1. PICK r \in Request : Turn(r)
    BY <1>1
  <2>2. \A o \in Org, u \in User : RowStep(o, u)
    BY <2>1, RowOfTurn
  <2>3. \A s \in Request : ReqStep(s)
    BY <2>1, TurnOfOne DEF ReqStep
  <2>4. creator' = creator
    BY <2>1 DEF Turn, Start, StartAdd, StartRemove, StartRequest, RemoveOrgUser, Abort, AddOrgAdmin,
       AddCanJoin, AddIsAdmin, AddRequesterRole, AddReadTarget, Check, PutAdmin, ReactivateAdmin,
       RemoveOrgAdmin, RemoveIsAdmin, RemoveRequesterRole, RemoveCountOwners, RemoveReadTarget,
       CheckOrDeleteUser, RemoveCallFails, Deactivate
  <2> QED
    BY <2>2, <2>3, <2>4
<1>2. CASE \E q \in Org, v \in User : CreateOrganization(q, v)
  <2>1. PICK q \in Org, v \in User : CreateOrganization(q, v)
    BY <1>2
  <2>2. <<q, 1>> \in Key /\ \A o \in Org : <<o, 1>> \in Key /\ (<<o, 1>> = <<q, 1>> <=> o = q)
    BY DEF Key
  <2>3. PICK row \in AdminRow : row = [role |-> "OWNER", active |-> TRUE] /\ row.role = "OWNER" /\ row.active
    <3>1. [role |-> "OWNER", active |-> TRUE] \in AdminRow
      BY DEF AdminRow, Role
    <3> QED
      BY <3>1
  <2>4. /\ admin' = [admin EXCEPT ![<<q, 1>>][v] = row]
        /\ creator[q] = None /\ creator' = [creator EXCEPT ![q] = v] /\ req' = req
    BY <2>1, <2>3 DEF CreateOrganization
  <2>5. creator'[q] = v /\ \A o \in Org \ {q} : creator'[o] = creator[o]
    BY <2>4 DEF IInv, TypeOK
  <2>6. admin'[<<q, 1>>][v] = row
    BY <2>2, <2>4 DEF IInv, TypeOK
  <2>7. v \in ActiveOwners(<<q, 1>>)'
    <3>1. row # None
      BY NoneAssumption
    <3> QED
      BY <2>3, <2>6, <3>1 DEF ActiveOwners, Active, Exists
  <2>8. \A o \in Org, u \in User : (o = q /\ u = v) \/ admin'[<<o, 1>>][u] = admin[<<o, 1>>][u]
    BY <2>2, <2>4 DEF IInv, TypeOK
  <2> QED
    BY <2>4, <2>5, <2>7, <2>8 DEF RowStep, ReqStep
<1>3. CASE UNCHANGED <<admin, creator, req>>
  BY <1>3 DEF RowStep, ReqStep
<1> QED
  BY <1>1, <1>2, <1>3 DEF Next, createOrganization, InviteUser, vars, Turn
-----------------------------------------------------------------------------
(* What the checks of one addition at a time are worth.                    *)

\* Additions that do not overlap are one.
LEMMA OneAddition ==
    ASSUME Apart, "add" \notin overlapped, NEW r \in Request, NEW s \in Request,
           req[r].pc \in AddSteps, req[s].pc \in AddSteps
    PROVE  r = s
BY DEF Apart, Overlapping, Steps

LEMMA OneRemoval ==
    ASSUME Apart, "remove" \notin overlapped, NEW r \in Request, NEW s \in Request,
           req[r].pc \in RemoveSteps, req[s].pc \in RemoveSteps
    PROVE  r = s
BY DEF Apart, Overlapping, Steps

\* An active row stays what it is, or a removal takes it.
LEMMA StaysActive ==
    ASSUME IInv, JoinChecksHold, NEW o \in Org, NEW u \in User, RowStep(o, u), Active(<<o, 1>>, u)
    PROVE  \/ admin'[<<o, 1>>][u] = admin[<<o, 1>>][u]
           \/ \E r \in Request : Takes(r, o, u)
<1>1. creator[o] # None
  <2>1. 1 \in 0..2
    OBVIOUS
  <2> QED
    BY <2>1 DEF IInv, NoGhostPartition, Active
<1>2. ~\E r \in Request : Writes(r, o, u)
  <2> SUFFICES ASSUME NEW r \in Request, Writes(r, o, u) PROVE FALSE
    OBVIOUS
  <2>1. At(r, "reactivate") /\ Row(r) = <<o, 1>> /\ req[r].target = u
    BY DEF Writes, At, Active, Row
  <2> QED
    BY <2>1 DEF JoinChecksHold
<1> QED
  BY <1>1, <1>2 DEF RowStep

\* A user joins an organization by the write of an addition.
LEMMA JoinStep ==
    ASSUME IInv, NEW o \in Org, NEW u \in User, RowStep(o, u), Joined(o, u)',
           \/ creator'[o] = creator[o]
           \/ creator[o] = None
    PROVE  Joined(o, u) \/ \E r \in Request : Writes(r, o, u)
<1>1. CASE admin'[<<o, 1>>][u] = admin[<<o, 1>>][u]
  <2>1. Active(<<o, 1>>, u) /\ 1 \in 0..2
    BY <1>1 DEF Joined, Active, Exists
  <2>2. creator[o] # None
    BY <2>1 DEF IInv, NoGhostPartition, Active
  <2> QED
    BY <2>1, <2>2 DEF Joined
<1> QED
  BY <1>1 DEF RowStep, Joined, Takes

LEMMA JoinChecksKept ==
    ASSUME IInv, IInv', Apart, Apart', "add" \notin overlapped, JoinChecksHold, [Next]_vars
    PROVE  JoinChecksHold'
<1>1. /\ \A o \in Org, u \in User : RowStep(o, u)
      /\ \A r \in Request : ReqStep(r)
      /\ \A o \in Org : creator'[o] = creator[o] \/ creator[o] = None
  BY StepByStep
<1>2. \A o \in Org, u \in User : Joined(o, u)' => Joined(o, u) \/ \E r \in Request : Writes(r, o, u)
  BY <1>1, JoinStep
<1>3. \A r \in Request, o \in Org, u \in User :
          Writes(r, o, u) => req[r].pc \in AddSteps \ {"canJoin"} /\ req[r].key[1] = o /\ req[r].target = u
  BY DEF Writes, AddSteps
<1>4. ASSUME NEW r \in Request, req'[r].pc \in AddSteps \ {"canJoin"}, NEW o \in Org, Joined(o, req[r].target)'
      PROVE  req'[r].key[1] = o
  <2>1. ~(req'[r].pc \in {"idle", "canJoin", "rmIsAdmin", "deleteUser"})
    BY <1>4 DEF AddSteps
  <2>2. req'[r].key = req[r].key /\ req'[r].target = req[r].target /\ req[r].pc \in AddSteps
    BY <1>1, <1>4, <2>1 DEF ReqStep, ReadStep, AddSteps, RemoveSteps, At
  <2>3. req[r].target \in User /\ req[r].key \in Org \X (0..1)
    BY <2>2 DEF IInv, TypeOK, Call, Idle, AddSteps
  <2> PICK u \in User : u = req[r].target
    BY <2>3
  <2>0. Joined(o, u)'
    BY <1>4, <2>2 DEF Joined, Active, Exists
  <2>4. CASE Joined(o, u)
    <3>1. CASE req[r].pc # "canJoin"
      BY <2>2, <2>4, <3>1 DEF JoinChecksHold
    <3>2. CASE req[r].pc = "canJoin"
      <4>1. AdminsOrganizations(req[r].target) \subseteq {req[r].key}
        BY <1>1, <1>4, <2>1, <3>2 DEF ReqStep, ReadStep, At
      <4>2. <<o, 1>> \in AdminsOrganizations(req[r].target)
        BY <2>4 DEF AdminsOrganizations, Joined, Key
      <4> QED
        BY <2>2, <4>1, <4>2
    <3> QED
      BY <3>1, <3>2
  <2>5. CASE \E s \in Request : Writes(s, o, u)
    <3>1. PICK s \in Request : Writes(s, o, u)
      BY <2>5
    <3>2. s = r
      BY <1>3, <2>2, <2>3, <3>1, OneAddition
    <3> QED
      BY <1>3, <2>2, <2>3, <3>1, <3>2
  <2> QED
    BY <1>2, <2>0, <2>4, <2>5
<1>5. ASSUME NEW r \in Request, At(r, "reactivate")' PROVE ~Active(Row(r), req[r].target)'
  <2>1. ~(req'[r].pc \in {"idle", "canJoin", "rmIsAdmin", "deleteUser"})
    BY <1>5 DEF At
  <2>2. req'[r].key = req[r].key /\ req'[r].target = req[r].target /\ req[r].pc \in AddSteps
    BY <1>1, <1>5, <2>1 DEF ReqStep, ReadStep, AddSteps, RemoveSteps, At
  <2>3. req[r].target \in User /\ req[r].key[1] \in Org /\ req[r] # Idle
    BY <2>2 DEF IInv, TypeOK, Call, Idle, AddSteps
  <2>4. Row(r)' = Row(r) /\ Row(r) = <<req[r].key[1], 1>>
    BY <2>2 DEF Row
  <2>5. ~Active(Row(r), req[r].target)
    BY <1>1, <1>5, <2>1 DEF ReqStep, ReadStep, JoinChecksHold, At
  <2>6. RowStep(req[r].key[1], req[r].target)
    BY <1>1, <2>3
  <2>7. CASE admin'[Row(r)][req[r].target] = admin[Row(r)][req[r].target]
    BY <2>2, <2>4, <2>5, <2>7 DEF Active, Exists
  <2>8. CASE \E s \in Request : Writes(s, req[r].key[1], req[r].target)
    <3>1. PICK s \in Request : Writes(s, req[r].key[1], req[r].target)
      BY <2>8
    <3>2. s = r
      BY <1>3, <2>2, <2>3, <3>1, OneAddition
    <3> QED
      BY <1>5, <3>1, <3>2 DEF Writes, At, Idle
  <2>9. CASE \E s \in Request : Takes(s, req[r].key[1], req[r].target)
    BY <2>2, <2>4, <2>9 DEF Takes, Active, Exists
  <2> QED
    BY <2>3, <2>4, <2>6, <2>7, <2>8, <2>9 DEF RowStep, IInv, InFlight
<1>6. ASSUME NEW u \in User, NEW o \in Org, NEW q \in Org, Joined(o, u)', Joined(q, u)'
      PROVE  o = q
  <2>1. ASSUME NEW s \in Request, NEW p \in Org, Writes(s, p, u)
        PROVE  (Joined(o, u) => o = p) /\ (Joined(q, u) => q = p)
    BY <1>3, <2>1 DEF JoinChecksHold
  <2>2. ASSUME NEW s \in Request, NEW t \in Request, Writes(s, o, u), Writes(t, q, u)
        PROVE  o = q
    <3>1. s = t
      BY <1>3, <2>2, OneAddition
    <3> QED
      BY <1>3, <2>2, <3>1
  <2>3. Joined(o, u) /\ Joined(q, u) => o = q
    BY DEF JoinChecksHold
  <2> QED
    BY <1>2, <1>6, <2>1, <2>2, <2>3
<1>7. \A r \in Request : (req[r].pc \in AddSteps \ {"canJoin"})' =>
          \A o \in Org : Joined(o, req[r].target)' => (req[r].key[1])' = o
  BY <1>4
<1> QED
  BY <1>5, <1>6, <1>7 DEF JoinChecksHold
-----------------------------------------------------------------------------
(* What the checks of one removal at a time are worth.                     *)

\* countActiveOwners above one: besides the owner who leaves there is another.
LEMMA AnotherOwner ==
    ASSUME NEW S, IsFiniteSet(S), Cardinality(S) > 1, NEW u
    PROVE  \E v \in S : v # u
<1> SUFFICES ASSUME S \subseteq {u} PROVE FALSE
  OBVIOUS
<1>1. IsFiniteSet({u}) /\ Cardinality({u}) = 1
  BY FS_Singleton
<1>2. Cardinality(S) <= 1 /\ Cardinality(S) \in Nat
  BY <1>1, FS_Subset, FS_CardinalityType
<1> QED
  BY <1>2

LEMMA OwnerChecksKept ==
    ASSUME IInv, IInv', Apart, overlapped = {}, JoinChecksHold, OwnerChecksHold, [Next]_vars
    PROVE  OwnerChecksHold'
<1>1. /\ \A o \in Org, u \in User : RowStep(o, u)
      /\ \A r \in Request : ReqStep(r)
      /\ \A o \in Org : \/ creator'[o] = creator[o]
                        \/ creator[o] = None /\ \E u \in User : u \in ActiveOwners(<<o, 1>>)'
  BY StepByStep
<1>2. \A o \in Org, u \in User : Active(<<o, 1>>, u) =>
          admin'[<<o, 1>>][u] = admin[<<o, 1>>][u] \/ \E r \in Request : Takes(r, o, u)
  BY <1>1, StaysActive
<1>3. \A r \in Request, o \in Org, u \in User :
          Takes(r, o, u) => /\ At(r, "deactivate") /\ req[r].pc \in RemoveSteps /\ req'[r] = Idle
                            /\ req[r].key[2] = 0 /\ Row(r) = <<o, 1>> /\ req[r].target = u
  BY DEF Takes, RemoveSteps, Row, At
<1>4. ASSUME NEW o \in Org, NEW v \in ActiveOwners(<<o, 1>>)
      PROVE  v \in ActiveOwners(<<o, 1>>)' \/ \E r \in Request : Takes(r, o, v)
  BY <1>2 DEF ActiveOwners, Active, Exists
\* The removals among them are one, and it spares an owner.
<1>5. OwnerRemains'
  <2> SUFFICES ASSUME NEW o \in Org, creator'[o] # None PROVE ActiveOwners(<<o, 1>>)' # {}
    BY DEF OwnerRemains, Created
  <2>1. CASE creator[o] = None
    BY <1>1, <2>1
  <2>2. CASE creator[o] # None
    <3>1. PICK v \in ActiveOwners(<<o, 1>>) : TRUE
      BY <2>2 DEF OwnerChecksHold, OwnerRemains, Created
    <3>2. CASE \E r \in Request : Takes(r, o, v)
      <4>1. PICK r \in Request : Takes(r, o, v)
        BY <3>2
      <4>2. v \in User /\ At(r, "deactivate") /\ req[r].key[2] = 0 /\ Row(r) = <<o, 1>> /\ req[r].target = v
        BY <1>3, <4>1 DEF ActiveOwners
      <4>3. PICK w \in ActiveOwners(<<o, 1>>) : w # v
        BY <4>2 DEF OwnerChecksHold, At
      <4>4. ASSUME NEW s \in Request, Takes(s, o, w) PROVE FALSE
        <5>1. w \in User
          BY DEF ActiveOwners
        <5>2. s = r
          BY <1>3, <4>1, <4>2, <4>4, <5>1, OneRemoval
        <5> QED
          BY <1>3, <4>2, <4>3, <4>4, <5>1, <5>2
      <4> QED
        BY <1>4, <4>3, <4>4
    <3> QED
      BY <1>4, <3>1, <3>2
  <2> QED
    BY <2>1, <2>2
<1>6. ASSUME NEW r \in Request, At(r, "rmRole")' PROVE Active(Row(r), req[r].by)'
  <2>1. req'[r].pc = "rmRole" /\ ~(req'[r].pc \in {"idle", "canJoin", "rmIsAdmin", "deleteUser"})
    BY <1>6 DEF At
  <2>2. /\ req'[r].key = req[r].key /\ req'[r].by = req[r].by /\ req[r].pc \in RemoveSteps
        /\ Active(Row(r), req[r].by)
        /\ req'[r] = req[r] \/ UNCHANGED admin
    BY <1>1, <2>1 DEF ReqStep, ReadStep, RemoveSteps, At, OwnerChecksHold
  <2>3. req[r].by \in User /\ req[r].key[1] \in Org
    BY <2>2 DEF IInv, TypeOK, Call, Idle, RemoveSteps
  <2>4. Row(r)' = Row(r) /\ Row(r) = <<req[r].key[1], 1>>
    BY <2>2 DEF Row
  <2>5. PICK o \in Org, u \in User : o = req[r].key[1] /\ u = req[r].by
    BY <2>3
  <2>6. ASSUME NEW s \in Request, Takes(s, o, u), req'[r] = req[r] PROVE FALSE
    <3>1. s = r
      BY <1>3, <2>2, <2>6, OneRemoval
    <3> QED
      BY <1>3, <2>1, <2>6, <3>1 DEF Idle
  <2>7. admin'[<<o, 1>>][u] = admin[<<o, 1>>][u]
    BY <1>2, <2>2, <2>4, <2>5, <2>6
  <2> QED
    BY <2>2, <2>4, <2>5, <2>7 DEF Active, Exists
<1>7. ASSUME NEW r \in Request, (req[r].pc \in {"rmTarget", "deactivate"} /\ req[r].key[2] = 0)'
      PROVE  (\E v \in ActiveOwners(Row(r)) : v # req[r].target)'
  <2>1. /\ req'[r].pc \in {"rmTarget", "deactivate"} /\ req'[r].key[2] = 0
        /\ ~(req'[r].pc \in {"idle", "canJoin", "rmIsAdmin", "deleteUser"})
    BY <1>7
  <2>2. /\ req'[r].key = req[r].key /\ req'[r].target = req[r].target /\ req[r].pc \in RemoveSteps
        /\ req'[r] = req[r] \/ UNCHANGED admin
    BY <1>1, <2>1 DEF ReqStep, ReadStep, RemoveSteps, At
  <2>3. req[r].target \in User /\ req[r].by \in User /\ req[r].key \in Org \X (0..1)
    BY <2>2 DEF IInv, TypeOK, Call, Idle, RemoveSteps
  <2>4. Row(r)' = Row(r) /\ Row(r) = <<req[r].key[1], 1>> /\ Prefixed(req[r].key) = Row(r)
    BY <2>1, <2>2, <2>3, KeyForms DEF Row
  <2>5. \E v \in ActiveOwners(Row(r)) : v # req[r].target
    <3>1. CASE req[r].pc \in {"rmTarget", "deactivate"}
      BY <3>1, <2>1, <2>2 DEF OwnerChecksHold
    <3>2. CASE req[r].pc = "rmRole"
      <4>1. req[r].by # req[r].target /\ admin[Row(r)][req[r].by].role = "OWNER"
        BY <1>1, <2>1, <3>2 DEF ReqStep, ReadStep, At
      <4>2. Active(Row(r), req[r].by)
        BY <3>2 DEF OwnerChecksHold, At
      <4> QED
        BY <2>3, <4>1, <4>2 DEF ActiveOwners
    <3>3. CASE req[r].pc = "rmCount"
      <4>1. Cardinality(ActiveOwners(Row(r))) > 1
        BY <1>1, <2>1, <2>4, <3>3 DEF ReqStep, ReadStep, At
      <4>2. IsFiniteSet(ActiveOwners(Row(r)))
        BY UserAssumption, FS_Subset DEF ActiveOwners
      <4> QED
        BY <4>1, <4>2, AnotherOwner
    <3> QED
      BY <1>1, <2>1, <3>1, <3>2, <3>3 DEF ReqStep, ReadStep, At
  <2> PICK o \in Org : o = req[r].key[1]
    BY <2>3
  <2>6. PICK v \in ActiveOwners(<<o, 1>>) : v # req[r].target
    BY <2>4, <2>5
  <2>7. v \in User
    BY DEF ActiveOwners
  <2>8. ASSUME NEW s \in Request, Takes(s, o, v), req'[r] = req[r] PROVE FALSE
    <3>1. s = r
      BY <1>3, <2>2, <2>7, <2>8, OneRemoval
    <3> QED
      BY <1>3, <2>6, <2>7, <2>8, <3>1
  <2>9. v \in ActiveOwners(<<o, 1>>)'
    BY <1>4, <2>2, <2>8 DEF ActiveOwners, Active, Exists
  <2> QED
    BY <2>2, <2>4, <2>6, <2>9
<1> QED
  BY <1>5, <1>6, <1>7 DEF OwnerChecksHold
-----------------------------------------------------------------------------
LEMMA HInitInv == HInit => HInv
<1> SUFFICES ASSUME HInit PROVE HInv
  OBVIOUS
<1>1. IInv
  BY InitInv DEF HInit
<1>2. \A r \in Request : req[r].pc = "idle"
  BY DEF HInit, Init, Idle
<1>3. Apart
  BY <1>2 DEF Apart, Overlapping, Steps, AddSteps, RemoveSteps
<1>4. JoinChecksHold
  <2>1. \A o \in Org, u \in User : ~Active(<<o, 1>>, u)
    BY DEF HInit, Init, Key, Active, Exists
  <2> QED
    BY <1>2, <2>1 DEF JoinChecksHold, Joined, AddSteps, At
<1>5. OwnerChecksHold
  BY <1>2 DEF OwnerChecksHold, OwnerRemains, Created, HInit, Init, At
<1> QED
  BY <1>1, <1>3, <1>4, <1>5 DEF HInv

LEMMA HNextInv == HInv /\ [HNext]_<<vars, overlapped>> => HInv'
<1> SUFFICES ASSUME HInv, [HNext]_<<vars, overlapped>> PROVE HInv'
  OBVIOUS
<1>1. [Next]_vars
  BY DEF HNext, vars
<1>2. IInv'
  BY <1>1, NextInv DEF HInv
<1>3. overlapped \subseteq overlapped'
  BY DEF HNext, vars
<1>4. Apart'
  <2>1. CASE HNext
    BY <2>1 DEF HNext, Apart
  <2>2. CASE UNCHANGED <<vars, overlapped>>
    BY <2>2 DEF HInv, Apart, Overlapping, vars
  <2> QED
    BY <2>1, <2>2
<1>5. "add" \notin overlapped' => JoinChecksHold'
  BY <1>1, <1>2, <1>3, <1>4, JoinChecksKept DEF HInv
<1>6. overlapped' = {} => OwnerChecksHold'
  BY <1>1, <1>2, <1>3, OwnerChecksKept DEF HInv
<1> QED
  BY <1>2, <1>4, <1>5, <1>6 DEF HInv

LEMMA HInvIsInductive == HSpec => []HInv
BY HInitInv, HNextInv, PTL DEF HSpec

\* "Cannot remove the last owner" for every number of owners, organizations and
\* requests, beside additions, creations and requests that die half-way: as long as no
\* two removals and no two additions have overlapped.
THEOREM OwnersRemain == HSpec => []OwnerRemainsUnlessOverlapped
<1>1. HInv => OwnerRemainsUnlessOverlapped
  BY DEF HInv, OwnerChecksHold, OwnerRemainsUnlessOverlapped
<1> QED
  BY <1>1, HInvIsInductive, PTL

\* All organizations joined are the same: they are one at most.
LEMMA AtMostOne ==
    ASSUME NEW S, \A x, y \in S : x = y
    PROVE  IsFiniteSet(S) /\ Cardinality(S) <= 1
<1>1. CASE S = {}
  BY <1>1, FS_EmptySet
<1>2. CASE S # {}
  <2>1. PICK x \in S : S = {x}
    BY <1>2
  <2>2. IsFiniteSet({x}) /\ Cardinality({x}) = 1
    BY FS_Singleton
  <2> QED
    BY <2>1, <2>2
<1> QED
  BY <1>1, <1>2

\* The checks of AddOrgAdmin bring nobody into two organizations, however removals,
\* creations and other requests come between them: as long as no two additions have
\* overlapped.
THEOREM JoinsAreChecked == HSpec => []JoinedOneOrgUnlessOverlapped
<1>1. HInv => JoinedOneOrgUnlessOverlapped
  <2> SUFFICES ASSUME HInv, "add" \notin overlapped, NEW u \in User
               PROVE  Cardinality({o \in Org : Active(<<o, 1>>, u) /\ creator[o] # u}) <= 1
    BY DEF JoinedOneOrgUnlessOverlapped, JoinedOneOrg
  <2>1. \A o, q \in {o \in Org : Active(<<o, 1>>, u) /\ creator[o] # u} : o = q
    BY DEF HInv, JoinChecksHold, Joined
  <2> QED
    BY <2>1, AtMostOne
<1> QED
  BY <1>1, HInvIsInductive, PTL

\* No addition changes the role of an administrator who is active, as long as no two
\* additions have overlapped: what AddOrgAdmin read of its target is still so when it
\* writes.
THEOREM RolesAreKept == HSpec => RoleKeptUnlessOverlapped
<1>1. HInv /\ [HNext]_<<vars, overlapped>> =>
          [\A o \in Org, u \in User :
              "add" \notin overlapped /\ Active(<<o, 1>>, u) /\ Active(<<o, 1>>, u)'
                  => admin'[<<o, 1>>][u].role = admin[<<o, 1>>][u].role]_vars
  <2> SUFFICES ASSUME HInv, [HNext]_<<vars, overlapped>>, NEW o \in Org, NEW u \in User,
                      "add" \notin overlapped, Active(<<o, 1>>, u), Active(<<o, 1>>, u)'
               PROVE  admin'[<<o, 1>>][u].role = admin[<<o, 1>>][u].role
    OBVIOUS
  <2>1. [Next]_vars /\ IInv /\ JoinChecksHold
    BY DEF HNext, vars, HInv
  <2>2. RowStep(o, u)
    BY <2>1, StepByStep
  <2>3. admin'[<<o, 1>>][u] = admin[<<o, 1>>][u]
    BY <2>1, <2>2, StaysActive DEF Takes
  <2> QED
    BY <2>3
<1> QED
  BY <1>1, HInvIsInductive, PTL DEF HSpec, RoleKeptUnlessOverlapped
=============================================================================
