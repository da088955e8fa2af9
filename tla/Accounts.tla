------------------------------- MODULE Accounts -------------------------------
(***************************************************************************)
(* The accounts the operator of the service keeps: tenants and suppliers,  *)
(* the stages they go through, their sub-domains and the administrators of *)
(* these.                                                                  *)
(*                                                                         *)
(* The code of the suppliers repeats that of the tenants on tables of its  *)
(* own; an account is one or the other.  Every write but one is a single   *)
(* update of one item.  AddSubDomainAdmin reads the sub-domain, has the    *)
(* user pool create a user, and then adds the user to the sub-domain.  It  *)
(* is of use only to sub-domains whose item got its user pool from outside *)
(* of this code: the call that should store it is always refused.          *)
(***************************************************************************)
EXTENDS Naturals, Sequences, SequencesExt, FiniteSets

CONSTANTS Tenant, Supplier, Contact, SubDomain,
          Pool,           \* user pools, one per stack
          Admin,          \* administrators of sub-domains
          Comment,
          Asked,          \* names of stages that requests give
          AdminRequest,   \* additions of an administrator in flight
          MaxComments,    \* bound: comments on one stage
          MaxFailures,    \* bound: failed calls
          Absent

ASSUME DisjointAssumption == Tenant \cap Supplier = {}

Account == Tenant \cup Supplier

\* Stage n has the id STGn, n in two digits; 0 is the id of any other name.
StageNames == <<"InitialOnboarding", "OnboardingDemo", "TrialSetup", "TrialInProg",
                "Trail_Discontinued", "PreProvisioningChecks", "Provisioning",
                "Active", "Inactive", "Deactivated">>
StageId == DOMAIN StageNames
StatusNames == {"IN_PROG", "COMPLETED"}

\* A request may give none, or leave it out; nothing looks at it.
Posted == StatusNames \cup {""}

VARIABLES profile,      \* the details of an account
          stages,       \* what was noted of each stage of an account
          subdomain,    \* under the key of a name and an account
          users,        \* of each user pool
          addition,
          failures

avars == <<profile, stages, subdomain, users, addition, failures>>

Profile == [stage : StageId \cup {0}, env : 0..1, contacts : [Contact -> {Absent, "primary", "other"}]]
StageItem == [count : Nat, comments : Seq(Comment), status : Posted]
SubDomainItem == [pool : Pool \cup {Absent}, admins : Seq(Admin)]
DomainKey == SubDomain \X Account
Addition == [key : DomainKey, pool : Pool, admin : Admin, at : {"create", "record"}]

\* What is not there is no item.
ASSUME NoItemAssumption == Absent \notin Profile \cup StageItem \cup SubDomainItem \cup Addition \cup Pool
ASSUME FailuresAssumption == MaxFailures \in Nat

\* The shape of the items of the four tables, and of the additions under way.
ATypeOK == /\ profile \in [Account -> Profile \cup {Absent}]
           /\ stages \in [Account \X StageId -> StageItem \cup {Absent}]
           /\ subdomain \in [DomainKey -> SubDomainItem \cup {Absent}]
           /\ users \in [Pool -> SUBSET Admin]
           /\ addition \in [AdminRequest -> Addition \cup {Absent}]
           /\ failures \in 0..MaxFailures

AInit == /\ profile = [a \in Account |-> Absent]
         /\ stages = [k \in Account \X StageId |-> Absent]
         /\ subdomain = [k \in DomainKey |-> Absent]
         /\ users = [p \in Pool |-> {}]
         /\ addition = [r \in AdminRequest |-> Absent]
         /\ failures = 0
-----------------------------------------------------------------------------
(* Profiles of tenants.                                                    *)

OnlyProfile == UNCHANGED <<stages, subdomain, users, addition, failures>>

\* A random id; the update has the condition that it is not in use.
CreateTenantProfile(a) ==
    /\ profile[a] = Absent
    /\ \E c \in Contact :
          profile' = [profile EXCEPT ![a] =
                        [stage |-> 1, env |-> 0,
                         contacts |-> [d \in Contact |-> IF d = c THEN "primary" ELSE Absent]]]
    /\ OnlyProfile

PatchTopLevelInfo(a, env) ==
    /\ profile[a] # Absent
    /\ profile' = [profile EXCEPT ![a].env = env]
    /\ OnlyProfile

\* The one entry of the map is set; an entry that is there is replaced.
WithContact(contacts, c, as) == [contacts EXCEPT ![c] = as]

\* Without a condition, but there is no map to add to in an item that is not there.
PatchTenantContacts(a, c, as) ==
    /\ profile[a] # Absent
    /\ profile' = [profile EXCEPT ![a].contacts = WithContact(@, c, as)]
    /\ OnlyProfile

\* Plausible error: two cases of the switch are swapped.
IdSwapped(name) ==
    CASE name = "Active" -> 9 [] name = "Inactive" -> 8
      [] OTHER -> IF \E n \in StageId : StageNames[n] = name
                    THEN CHOOSE n \in StageId : StageNames[n] = name ELSE 0

\* The switch of PatchOverallStageId; any other name has the id STG00.
SetStageIdFromStageName_PatchTenantOverallStage(name) ==
    IF \E n \in StageId : StageNames[n] = name
      THEN CHOOSE n \in StageId : StageNames[n] = name ELSE 0

\* Whatever stage the account was in: IsNextStepValid has no caller.
PatchOverallStageId(a, name) ==
    /\ profile[a] # Absent
    /\ profile' = [profile EXCEPT ![a].stage = SetStageIdFromStageName_PatchTenantOverallStage(name)]
    /\ OnlyProfile

\* The stage that is shown for an id, none for STG00, and the two lists.
SetStageIdFromStageName_GetTenantData(n) == IF n \in StageId THEN StageNames[n] ELSE Absent
SetStageIdFromStageName(n) == IF n \in StageId THEN StageNames[n] ELSE Absent

GetTenantProfileById(a) == SetStageIdFromStageName_GetTenantData(profile[a].stage)

ExecuteQueryDDB(accounts, ids) ==
    {[id |-> a, stage |-> SetStageIdFromStageName(profile[a].stage)] :
        a \in {b \in accounts : profile[b] # Absent /\ profile[b].stage \in ids}}

GetAllTenantDetails ==
    [OnboardingInProg |-> ExecuteQueryDDB(Tenant, 1..7), Active |-> ExecuteQueryDDB(Tenant, {8})]
-----------------------------------------------------------------------------
(* Stages.                                                                 *)

list_append(comments, c) == Append(comments, c)

\* The switch of manage-stages; another name leaves an empty key, which is refused.
SetStageIdFromStageName_Post(name) == {n \in StageId : StageNames[n] = name}

\* One update counts the comment, appends it and sets the status, whether there is
\* an item and an account or not.
AddNewStageData(a, n, c, status) ==
    /\ stages' = [stages EXCEPT ![<<a, n>>] =
                    IF @ = Absent THEN [count |-> 1, comments |-> <<c>>, status |-> status]
                    ELSE [count |-> @.count + 1, comments |-> list_append(@.comments, c), status |-> status]]
    /\ UNCHANGED <<profile, subdomain, users, addition, failures>>

GetAllTenantStages(a) == {n \in StageId : stages[<<a, n>>] # Absent}

\* The items, a stage without one as zero values; the count is left out for
\* OnboardingDemo.
MapStageDataToResponse(a, n) ==
    IF n \in GetAllTenantStages(a)
      THEN [OverallStatus |-> stages[<<a, n>>].status,
            CommentsCount |-> IF StageNames[n] = "OnboardingDemo" THEN 0 ELSE stages[<<a, n>>].count,
            FollowUpDetails |-> stages[<<a, n>>].comments]
      ELSE [OverallStatus |-> "", CommentsCount |-> 0, FollowUpDetails |-> <<>>]

\* "Set Default status if stage data not found", or if it has no status.
SetOverallStatus(stage) ==
    IF stage.OverallStatus = "" THEN [stage EXCEPT !.OverallStatus = "UNDEFINED", !.FollowUpDetails = <<>>]
    ELSE stage

GETStage(a, n) == SetOverallStatus(MapStageDataToResponse(a, n))
-----------------------------------------------------------------------------
(* Sub-domains.                                                            *)

\* Before the item is put, by the client alone.
CheckSubDomainsAvailability(s) == \A a \in Account : subdomain[<<s, a>>] = Absent

OnlySubDomain == UNCHANGED <<profile, stages, users, failures>>

\* A put without a condition: of a sub-domain that is there, the stack and the
\* administrators are lost.
CreateTenantSubDomain(k) ==
    /\ subdomain' = [subdomain EXCEPT ![k] = [pool |-> Absent, admins |-> <<>>]]
    /\ OnlySubDomain /\ UNCHANGED addition

\* The update names the attribute Status, a reserved word, as it is: DynamoDB
\* refuses the expression, whatever it is sent, and nothing is stored.
UpdateSubDomainStackInfo(k, p) == UNCHANGED avars

\* "To be updated after the Tenant Stack is deployed": whoever deploys the stack
\* of a sub-domain, for the first time or again, stores its pool in the table.
StackDeployed(k, p) ==
    /\ subdomain[k] # Absent
    /\ subdomain' = [subdomain EXCEPT ![k].pool = p]
    /\ OnlySubDomain /\ UNCHANGED addition

GetAllTenantSubDomains(a) == {k \in DomainKey : k[2] = a /\ subdomain[k] # Absent}

\* Plausible error: the user is added to the sub-domain before it is created.
RecordFirst(r, k, admin) ==
    /\ addition[r] = Absent
    /\ k \in GetAllTenantSubDomains(k[2]) /\ subdomain[k].pool # Absent
    /\ addition' = [addition EXCEPT ![r] = [key |-> k, pool |-> subdomain[k].pool, admin |-> admin, at |-> "record"]]
    /\ OnlySubDomain /\ UNCHANGED subdomain

AddSubDomainAdmin(r, k, admin) ==
    /\ addition[r] = Absent
    /\ k \in GetAllTenantSubDomains(k[2]) /\ subdomain[k].pool # Absent
    /\ addition' = [addition EXCEPT ![r] = [key |-> k, pool |-> subdomain[k].pool, admin |-> admin, at |-> "create"]]
    /\ OnlySubDomain /\ UNCHANGED subdomain

\* The user pool refuses a name that it has.
UserIsNew(pool, admin) == admin \notin users[pool]

AdminCreateUser(r) ==
    /\ addition[r] # Absent /\ addition[r].at = "create"
    /\ LET q == addition[r] IN
       IF UserIsNew(q.pool, q.admin)
         THEN /\ users' = [users EXCEPT ![q.pool] = @ \cup {q.admin}]
              /\ addition' = [addition EXCEPT ![r].at = "record"]
         ELSE /\ addition' = [addition EXCEPT ![r] = Absent]
              /\ UNCHANGED users
    /\ UNCHANGED <<profile, stages, subdomain, failures>>

AdminAppended(admins, admin) == Append(admins, admin)

RecordAdmin(r) ==
    /\ addition[r] # Absent /\ addition[r].at = "record"
    /\ subdomain' = [subdomain EXCEPT ![addition[r].key].admins = AdminAppended(@, addition[r].admin)]
    /\ addition' = [addition EXCEPT ![r] = Absent]
    /\ OnlySubDomain

\* A failure of the last update is logged and answered like its success.
FailAddition(r) ==
    /\ failures < MaxFailures /\ failures' = failures + 1
    /\ addition[r] # Absent
    /\ addition' = [addition EXCEPT ![r] = Absent]
    /\ UNCHANGED <<profile, stages, subdomain, users>>
-----------------------------------------------------------------------------
(* The suppliers: the same, of their own tables.                           *)

CreateSupplierProfile(a) == CreateTenantProfile(a)
PatchSupplierTopLevelInfo(a, env) == PatchTopLevelInfo(a, env)
PatchSupplierContacts(a, c, as) == PatchTenantContacts(a, c, as)
SetStageIdFromStageName_PatchSupplierOverallStage(name) ==
    SetStageIdFromStageName_PatchTenantOverallStage(name)
PatchSupplierOverallStageId(a, name) ==
    /\ profile[a] # Absent
    /\ profile' = [profile EXCEPT ![a].stage = SetStageIdFromStageName_PatchSupplierOverallStage(name)]
    /\ OnlyProfile
SetStageIdFromStageName_GetSupplierData(n) == IF n \in StageId THEN StageNames[n] ELSE Absent
GetSupplierProfileById(a) == SetStageIdFromStageName_GetSupplierData(profile[a].stage)
GetAllSupplierDetails ==
    [OnboardingInProg |-> ExecuteQueryDDB(Supplier, 1..7), Active |-> ExecuteQueryDDB(Supplier, {8})]
AddNewSupplierStageData(a, n, c, status) == AddNewStageData(a, n, c, status)
GetAllSupplierStages(a) == GetAllTenantStages(a)
CreateSupplierSubDomain(k) == CreateTenantSubDomain(k)
UpdateSupplierSubDomainStackInfo(k, p) == UpdateSubDomainStackInfo(k, p)
AddSupplierSubDomainAdmin(r, k, admin) == AddSubDomainAdmin(r, k, admin)
-----------------------------------------------------------------------------
(* The handlers.                                                           *)

manageTenantProfiles(a) ==
    \/ CreateTenantProfile(a)
    \/ \E env \in 0..1 : PatchTopLevelInfo(a, env)
    \/ \E c \in Contact, as \in {"primary", "other"} : PatchTenantContacts(a, c, as)
    \/ \E name \in Asked : PatchOverallStageId(a, name)

Room(a, n) == stages[<<a, n>>] # Absent => stages[<<a, n>>].count < MaxComments

manageTenantStages(a) ==
    \E name \in Asked, c \in Comment, status \in Posted :
        \E n \in SetStageIdFromStageName_Post(name) : Room(a, n) /\ AddNewStageData(a, n, c, status)

manageTenantSubDomains(a) ==
    \E s \in SubDomain : \/ CreateTenantSubDomain(<<s, a>>)
                         \/ \E p \in Pool : UpdateSubDomainStackInfo(<<s, a>>, p)
                         \/ \E r \in AdminRequest, admin \in Admin : AddSubDomainAdmin(r, <<s, a>>, admin)

manageSupplierProfiles(a) ==
    \/ CreateSupplierProfile(a)
    \/ \E env \in 0..1 : PatchSupplierTopLevelInfo(a, env)
    \/ \E c \in Contact, as \in {"primary", "other"} : PatchSupplierContacts(a, c, as)
    \/ \E name \in Asked : PatchSupplierOverallStageId(a, name)

manageSupplierStages(a) ==
    \E name \in Asked, c \in Comment, status \in Posted :
        \E n \in SetStageIdFromStageName_Post(name) : Room(a, n) /\ AddNewSupplierStageData(a, n, c, status)

manageSupplierSubDomains(a) ==
    \E s \in SubDomain : \/ CreateSupplierSubDomain(<<s, a>>)
                         \/ \E p \in Pool : UpdateSupplierSubDomainStackInfo(<<s, a>>, p)
                         \/ \E r \in AdminRequest, admin \in Admin : AddSupplierSubDomainAdmin(r, <<s, a>>, admin)

ANext == \/ \E a \in Tenant : manageTenantProfiles(a) \/ manageTenantStages(a) \/ manageTenantSubDomains(a)
         \/ \E a \in Supplier : manageSupplierProfiles(a) \/ manageSupplierStages(a) \/ manageSupplierSubDomains(a)
         \/ \E k \in DomainKey, p \in Pool : StackDeployed(k, p)
         \/ \E r \in AdminRequest : AdminCreateUser(r) \/ RecordAdmin(r) \/ FailAddition(r)

ASpec == AInit /\ [][ANext]_avars
-----------------------------------------------------------------------------
Shown(a) == IF a \in Tenant THEN GetTenantProfileById(a) ELSE GetSupplierProfileById(a)
Lists(a) == IF a \in Tenant THEN GetAllTenantDetails ELSE GetAllSupplierDetails
StagePatched(a, name) ==
    \/ a \in Tenant /\ PatchOverallStageId(a, name)
    \/ a \in Supplier /\ PatchSupplierOverallStageId(a, name)

Noted(a, n) == IF stages[<<a, n>>] = Absent THEN <<>> ELSE stages[<<a, n>>].comments

\* The name of a stage that was asked for is the one shown of the account, and the
\* lists have the account where that stage belongs: six switches agree.  Comments on a
\* stage stay ("This cannot be deleted"), whatever status they come with; and while
\* the last came with one, all are shown and counted, but for OnboardingDemo's.
StageShownAsAsked ==
    [][\A a \in Account :
          /\ \A name \in Asked : StagePatched(a, name) =>
                /\ Shown(a)' = IF name \in Range(StageNames) THEN name ELSE Absent
                /\ (name = "Active") = ([id |-> a, stage |-> name] \in Lists(a).Active')
                /\ name \in {"Inactive", "Deactivated"} =>
                       \A item \in Lists(a).OnboardingInProg' : item.id # a
          /\ \A n \in StageId :
                LET shown == GETStage(a, n)' IN
                /\ IsPrefix(Noted(a, n), Noted(a, n)')
                /\ shown.OverallStatus # "UNDEFINED" =>
                      /\ shown.FollowUpDetails = Noted(a, n)'
                      /\ StageNames[n] # "OnboardingDemo" => shown.CommentsCount = Len(shown.FollowUpDetails)
      ]_<<profile, stages>>

\* What is shown of a stage has the comments it counts: false of this code, which
\* hides the comments on a stage whose last comment came without a status.
CommentsAreShown ==
    \A a \in Account, n \in StageId :
        StageNames[n] # "OnboardingDemo" => GETStage(a, n).CommentsCount = Len(GETStage(a, n).FollowUpDetails)

\* "Function to verify if the next step in tenant lifecycle is valid".
IsNextStepValid(current, next) ==
    \/ current = "InitialOnboarding" /\ next = "OnboardingDemo"
    \/ current = "OnboardingDemo" /\ next = "PreProvisioningChecks"
    \/ current = "PreProvisioningChecks" /\ next \in {"TrialInProg", "Provisioning"}
    \/ current = "TrialInProg" /\ next \in {"Deactivated", "Active"}
    \/ current = "Provisioning" /\ next = "Active"

\* "only after a certain stage is completed, a tenant can move to another stage":
\* false of this code, which checks neither.
MovesFollowLifecycle ==
    [][\A a \in Tenant :
          profile[a] # Absent /\ profile'[a].stage # profile[a].stage =>
              /\ IsNextStepValid(GetTenantProfileById(a), GetTenantProfileById(a)')
              /\ GETStage(a, profile[a].stage).OverallStatus = "COMPLETED"]_avars
=============================================================================
