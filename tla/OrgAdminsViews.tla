--------------------------- MODULE OrgAdminsViews ---------------------------
(***************************************************************************)
(* What the Lambdas answer about organizations and their administrators:   *)
(* check-org-admin, list-user-organizations, manage-organization and the   *)
(* list of manage-org-users.  They look an administrator up in three ways  *)
(* that nothing keeps together: by the item, by the partition of the       *)
(* organization, and by the index, whose rows name the organization by the *)
(* text the addition was given.                                            *)
(***************************************************************************)
EXTENDS OrgAdmins

\* GetOrganization prefixes a bare id; an id prefixed twice is that of nothing.
GetOrganization(k) == {o \in Org : <<o, 1>> = Normalised(k) /\ creator[o] # None}

\* One row whose organization is not found makes the whole lookup fail.
GetAdminsOrganizations(u) ==
    IF \E k \in AdminsOrganizations(u) : GetOrganization(k) = {} THEN {}
    ELSE UNION {GetOrganization(k) : k \in AdminsOrganizations(u)}

\* Any of them may come first; none is the error "no organization found for user".
GetAdminOrganization(u) == GetAdminsOrganizations(u)

GetOrgAdmins(k) == {u \in User : Active(Normalised(k), u)}

GetOrgUsers(k) == {u \in User : <<Normalised(k), u>> \in member}
-----------------------------------------------------------------------------
(* The answers.  Who is not let in is told so, and nothing else.           *)

Forbidden == [allowed |-> FALSE]

\* An administrator who was also invited is on the list twice, as an
\* administrator and as a user.
listOrgUsers(k, by) ==
    IF ~IsOrgAdmin(k, by) THEN Forbidden
    ELSE [allowed |-> TRUE, users |-> ({"admin"} \X GetOrgAdmins(k)) \cup ({"user"} \X GetOrgUsers(k))]

\* The organization shown is first, an element of GetAdminOrganization(u).
checkOrgAdmin(u, first) ==
    IF first \notin GetAdminOrganization(u) THEN [isOrgAdmin |-> FALSE]
    ELSE [isOrgAdmin |-> TRUE, organizationId |-> first]

listUserOrganizations(u, first) ==
    IF first \notin GetAdminOrganization(u) THEN [allowed |-> FALSE]
    ELSE [allowed |-> TRUE, organization |-> first]

getOrganization(k, by) ==
    IF ~IsOrgAdmin(k, by) THEN Forbidden
    ELSE [allowed |-> TRUE, organization |-> GetOrganization(k)]

\* The update expression has blanks where DynamoDB wants commas, and loses its
\* first and its last letter: no update is ever carried out.
UpdateOrganization(k, by) == "failed"

updateOrganization(k, by) ==
    IF ~IsOrgAdmin(k, by) THEN Forbidden ELSE [allowed |-> TRUE, answer |-> UpdateOrganization(k, by)]

\* "Updating user roles is not yet implemented".
updateOrgUser(k, by) ==
    IF ~IsOrgAdmin(k, by) THEN Forbidden ELSE [allowed |-> TRUE, answer |-> "not implemented"]
-----------------------------------------------------------------------------
\* The three lookups agree: who administers organizations, and nobody else, is told
\* so and shown one of them by two Lambdas; and with the id they show the user is
\* let in, is on the list of administrators and finds the organization.
AdministratorsFindTheirOrg ==
    \A u \in User :
        LET Shown == {o \in Org : checkOrgAdmin(u, o).isOrgAdmin} IN
        /\ Shown = {o \in Org : Active(<<o, 1>>, u)}
        /\ \A o \in Shown :
              LET k == <<o, 1>> IN
              /\ listUserOrganizations(u, o).organization = o
              /\ listOrgUsers(k, u).allowed /\ <<"admin", u>> \in listOrgUsers(k, u).users
              /\ getOrganization(k, u).organization = {o}
=============================================================================
