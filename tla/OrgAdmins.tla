----------------------------- MODULE OrgAdmins -----------------------------
(***************************************************************************)
(* The administrators of organizations: OrgServiceV2 of                    *)
(* lambdas/lib/company-lib/company-org-v2.go behind the manage-org-users   *)
(* and create-organization Lambdas.                                        *)
(*                                                                         *)
(* Every HTTP request runs in a Lambda invocation of its own, with no lock *)
(* of any kind: a request is a sequence of DynamoDB calls, each of them    *)
(* atomic, and the calls of two requests interleave freely.  What a        *)
(* request read is only as good as the condition of its last write.        *)
(*                                                                         *)
(* A partition key of OrganizationTable is modelled as <<o, p>>: the       *)
(* organization's uuid o behind p copies of the text "ORG#".  Clients send *)
(* the id either bare (p = 0) or as the API returned it (p = 1); some      *)
(* functions normalise it, others prepend "ORG#" whatever it looks like.   *)
(***************************************************************************)
EXTENDS Naturals, FiniteSets

CONSTANTS Org,      \* uuids CreateOrganization may draw
          User,     \* e-mail addresses, the key of an employee
          Request,  \* Lambda invocations that may be in flight together
          Invitee,  \* the users invitations are sent to (bounds the member items)
          None      \* an item that does not exist

ASSUME InviteeAssumption == Invitee \subseteq User
\* E-mail addresses come from sign-ups: there are as many as there have been, not infinitely many.
ASSUME UserAssumption == IsFiniteSet(User)

Role == {"OWNER", "ADMIN"}     \* BILLING_ONLY and PERFORMANCE_ONLY act as ADMIN here
Key == Org \X (0..2)
AdminRow == [role : Role, active : BOOLEAN]

ASSUME NoneAssumption == None \notin User \cup AdminRow

VARIABLES admin,   \* the ADMIN# items: admin[k][u], an AdminRow or None
          member,  \* the USER# items, pairs <<k, u>>
          creator, \* CreatorUserName of the METADATA item, None before creation
          req      \* the requests in flight

vars == <<admin, member, creator, req>>

AddSteps == {"canJoin", "addIsAdmin", "addRole", "addTarget", "put", "reactivate"}
RemoveSteps == {"rmIsAdmin", "rmRole", "rmCount", "rmTarget", "deactivate"}

Idle == [pc |-> "idle"]
Call == [pc : AddSteps \cup RemoveSteps \cup {"deleteUser"},
         key : Org \X (0..1), by : User, target : User, role : Role]

\* Every ADMIN# item is a whole one: no conditional update makes half an item.
TypeOK == /\ admin \in [Key -> [User -> AdminRow \cup {None}]]
          /\ member \subseteq Key \X User
          /\ creator \in [Org -> User \cup {None}]
          /\ req \in [Request -> Call \cup {Idle}]

Init == /\ admin = [k \in Key |-> [u \in User |-> None]]
        /\ member = {}
        /\ creator = [o \in Org |-> None]
        /\ req = [r \in Request |-> Idle]
-----------------------------------------------------------------------------
\* strings.HasPrefix(id, "ORG#"): prefix only when there is none.
Normalised(k) == <<k[1], IF k[2] = 0 THEN 1 ELSE k[2]>>
\* fmt.Sprintf("ORG#%s", id): prefix in any case.
Prefixed(k) == <<k[1], k[2] + 1>>

Exists(k, u) == admin[k][u] # None
Active(k, u) == Exists(k, u) /\ admin[k][u].active
IsOrgAdmin(k, u) == Active(Normalised(k), u)
IsOwnerRow(k, u) == Exists(Normalised(k), u) /\ admin[Normalised(k)][u].role = "OWNER"

ActiveOwners(k) == {u \in User : Active(k, u) /\ admin[k][u].role = "OWNER"}

\* GSI1 lists the active ADMIN# items whose sort key begins with "ORG#".
AdminsOrganizations(u) == {k \in Key : k[2] > 0 /\ Active(k, u)}

Goto(r, label) == req' = [req EXCEPT ![r].pc = label]
Finish(r) == req' = [req EXCEPT ![r] = Idle]
At(r, label) == req[r].pc = label
-----------------------------------------------------------------------------
\* One transaction puts METADATA and the creator's ADMIN# item; the uuid is new.
CreateOrganization(o, u) ==
    /\ creator[o] = None
    /\ creator' = [creator EXCEPT ![o] = u]
    /\ admin' = [admin EXCEPT ![<<o, 1>>][u] = [role |-> "OWNER", active |-> TRUE]]
    /\ UNCHANGED <<member, req>>

\* Any employee may, who administers one already not excepted.
createOrganization == \E o \in Org, u \in User : CreateOrganization(o, u)

\* send-invitations: the organization half of createInvitedEmployee, whose put
\* is conditional on the item being absent.
InviteUser(by, u) ==
    /\ \E k \in AdminsOrganizations(by) :
          /\ <<k, u>> \notin member
          /\ member' = member \cup {<<k, u>>}
    /\ UNCHANGED <<admin, creator, req>>

\* The handler of manage-org-users checks the requester before it dispatches.
StartRequest(r, k, by, target, role, label) ==
    /\ At(r, "idle")
    /\ IsOrgAdmin(k, by)
    /\ req' = [req EXCEPT ![r] = [pc |-> label, key |-> k, by |-> by,
                                  target |-> target, role |-> role]]
    /\ UNCHANGED <<admin, member, creator>>

\* The role is no input of a removal.
StartAdd(r, k, by, target, role) == StartRequest(r, k, by, target, role, "canJoin")
StartRemove(r, k, by, target) == StartRequest(r, k, by, target, "ADMIN", "rmIsAdmin")
-----------------------------------------------------------------------------
(* AddOrgAdmin: five reads, then one conditional write.                    *)

\* A read that decides: go on to label, or answer with an error.
Check(r, from, test, label) ==
    /\ At(r, from)
    /\ IF test THEN Goto(r, label) ELSE Finish(r)
    /\ UNCHANGED <<admin, member, creator>>

AddCanJoinUnchecked(r) == Check(r, "canJoin", TRUE, "addIsAdmin")
AddCanJoin(r) ==
    Check(r, "canJoin", AdminsOrganizations(req[r].target) \subseteq {req[r].key}, "addIsAdmin")

AddIsAdmin(r) == Check(r, "addIsAdmin", IsOrgAdmin(req[r].key, req[r].by), "addRole")

AddRequesterRole(r) == Check(r, "addRole", IsOwnerRow(req[r].key, req[r].by), "addTarget")

AddReadTarget(r) ==
    LET k == Normalised(req[r].key) IN
    Check(r, "addTarget", ~Active(k, req[r].target),
          IF Exists(k, req[r].target) THEN "reactivate" ELSE "put")

\* Plausible error: the id is prefixed whatever it looks like, as in the updates.
PutAdminPrefixed(r) ==
    LET k == Prefixed(req[r].key)   u == req[r].target IN
    /\ At(r, "put")
    /\ admin' = IF Exists(k, u) THEN admin
                ELSE [admin EXCEPT ![k][u] = [role |-> req[r].role, active |-> TRUE]]
    /\ Finish(r)
    /\ UNCHANGED <<member, creator>>

\* PutItem under the id exactly as the client wrote it.
PutAdmin(r) ==
    LET k == req[r].key   u == req[r].target IN
    /\ At(r, "put")
    /\ admin' = IF Exists(k, u) THEN admin
                ELSE [admin EXCEPT ![k][u] = [role |-> req[r].role, active |-> TRUE]]
    /\ Finish(r)
    /\ UNCHANGED <<member, creator>>

\* Plausible error: of the two users the requester's item is updated.
ReactivateRequester(r) ==
    LET k == Prefixed(req[r].key)   u == req[r].by IN
    /\ At(r, "reactivate")
    /\ admin' = IF Exists(k, u)
                THEN [admin EXCEPT ![k][u] = [role |-> req[r].role, active |-> TRUE]]
                ELSE admin
    /\ Finish(r)
    /\ UNCHANGED <<member, creator>>

ReactivateAdmin(r) ==
    LET k == Prefixed(req[r].key)   u == req[r].target IN
    /\ At(r, "reactivate")
    /\ admin' = IF Exists(k, u)
                THEN [admin EXCEPT ![k][u] = [role |-> req[r].role, active |-> TRUE]]
                ELSE admin
    /\ Finish(r)
    /\ UNCHANGED <<member, creator>>
-----------------------------------------------------------------------------
(* RemoveOrgAdmin.  Whatever makes it fail, the handler goes on to         *)
(* RemoveOrgUser and answers with success.                                 *)

CheckOrDeleteUser(r, from, test, label) ==
    /\ At(r, from)
    /\ Goto(r, IF test THEN label ELSE "deleteUser")
    /\ UNCHANGED <<admin, member, creator>>

RemoveIsAdmin(r) == CheckOrDeleteUser(r, "rmIsAdmin", IsOrgAdmin(req[r].key, req[r].by), "rmRole")

RemoveRequesterRole(r) ==
    CheckOrDeleteUser(r, "rmRole", IsOwnerRow(req[r].key, req[r].by),
                      IF req[r].by = req[r].target THEN "rmCount" ELSE "rmTarget")

RemoveCountOwnersOffByOne(r) ==
    CheckOrDeleteUser(r, "rmCount", Cardinality(ActiveOwners(Prefixed(req[r].key))) >= 1, "rmTarget")

\* countActiveOwners, asked only when an owner removes themselves.
RemoveCountOwners(r) ==
    CheckOrDeleteUser(r, "rmCount", Cardinality(ActiveOwners(Prefixed(req[r].key))) > 1, "rmTarget")

RemoveReadTarget(r) ==
    CheckOrDeleteUser(r, "rmTarget", Active(Normalised(req[r].key), req[r].target), "deactivate")

\* An update without attribute_exists makes the item it does not find.
DeactivateUpserts(r) ==
    LET k == Prefixed(req[r].key)   u == req[r].target IN
    /\ At(r, "deactivate")
    /\ admin' = [admin EXCEPT ![k][u] = IF @ = None THEN [active |-> FALSE]
                                       ELSE [@ EXCEPT !.active = FALSE]]
    /\ Finish(r)
    /\ UNCHANGED <<member, creator>>

Deactivate(r) ==
    LET k == Prefixed(req[r].key)   u == req[r].target IN
    /\ At(r, "deactivate")
    /\ IF Exists(k, u)
       THEN admin' = [admin EXCEPT ![k][u].active = FALSE] /\ Finish(r)
       ELSE UNCHANGED admin /\ Goto(r, "deleteUser")
    /\ UNCHANGED <<member, creator>>

\* A DynamoDB call of RemoveOrgAdmin returns an error.
RemoveCallFails(r) ==
    /\ req[r].pc \in RemoveSteps
    /\ Goto(r, "deleteUser")
    /\ UNCHANGED <<admin, member, creator>>

RemoveOrgUser(r) ==
    /\ At(r, "deleteUser")
    /\ member' = member \ {<<Prefixed(req[r].key), req[r].target>>}
    /\ Finish(r)
    /\ UNCHANGED <<admin, creator>>

\* The invocation times out or dies, or a call of AddOrgAdmin returns an error.
Abort(r) ==
    /\ req[r] # Idle
    /\ Finish(r)
    /\ UNCHANGED <<admin, member, creator>>
-----------------------------------------------------------------------------
Start(r) == \E o \in Org, p \in 0..1, by \in User, target \in User :
                \/ \E role \in Role : StartAdd(r, <<o, p>>, by, target, role)
                \/ StartRemove(r, <<o, p>>, by, target)

AddOrgAdmin(r) == \/ AddCanJoin(r) \/ AddIsAdmin(r) \/ AddRequesterRole(r)
                  \/ AddReadTarget(r) \/ PutAdmin(r) \/ ReactivateAdmin(r)

RemoveOrgAdmin(r) == \/ RemoveIsAdmin(r) \/ RemoveRequesterRole(r) \/ RemoveCountOwners(r)
                     \/ RemoveReadTarget(r) \/ Deactivate(r) \/ RemoveCallFails(r)

Next == \/ createOrganization
        \/ \E by \in User, u \in Invitee : InviteUser(by, u)
        \/ \E r \in Request : Start(r) \/ AddOrgAdmin(r) \/ RemoveOrgAdmin(r)
                              \/ RemoveOrgUser(r) \/ Abort(r)

Spec == Init /\ [][Next]_vars
-----------------------------------------------------------------------------
Created == {o \in Org : creator[o] # None}

\* "Cannot remove the last owner": an organization that was created has an
\* active owner at all times.  With one request in flight the guard of
\* RemoveOrgAdmin is enough; with two it is a check that has gone stale.
OwnerRemains == \A o \in Created : ActiveOwners(<<o, 1>>) # {}

\* A user may own several organizations they created themselves, for
\* CreateOrganization asks nothing; but AddOrgAdmin, reactivation included,
\* brings a user into one organization at most.
JoinedOneOrg ==
    \A u \in User :
        Cardinality({o \in Org : Active(<<o, 1>>, u) /\ creator[o] # u}) <= 1

\* The rule the API states: a user belongs to one organization at most.
OneOrganization == \A u \in User : Cardinality(AdminsOrganizations(u)) <= 1

\* Functions that prepend "ORG#" to an id that has it already must not leave
\* items in a partition no reader looks at; and no item precedes its
\* organization.
NoGhostPartition ==
    \A o \in Org, u \in User :
        /\ ~Exists(<<o, 2>>, u)
        /\ \A p \in 0..2 : Exists(<<o, p>>, u) => creator[o] # None

\* The answer "User removed successfully" tells the truth: the user is no
\* longer an admin of the organization.
RemovalIsTrue ==
    [][\A r \in Request :
          RemoveOrgUser(r) => ~Active(Normalised(req[r].key), req[r].target)]_vars
=============================================================================
