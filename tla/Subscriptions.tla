--------------------------- MODULE Subscriptions ---------------------------
(***************************************************************************)
(* Plans, trials and promotional codes of organizations:                   *)
(* UpdateSubscription and ApplyPromoCode of                                *)
(* lambdas/lib/company-lib/company-org-v2.go behind the                    *)
(* manage-subscription and manage-promo-codes Lambdas.                     *)
(*                                                                         *)
(* ApplyPromoCode reads the code, reads the organization, decides, and     *)
(* commits both in one transaction that carries no condition at all, so    *)
(* everything it decided may be stale.  Who is an administrator is the     *)
(* subject of OrgAdmins: requests that reach this module were admitted.    *)
(* Dates are days; the id of an organization is bare (p = 0) or as the API *)
(* returned it (p = 1), and only p = 0 reaches the METADATA item of the    *)
(* organization when "ORG#" is prepended to it (see OrgAdmins).            *)
(***************************************************************************)
EXTENDS Integers, FiniteSets

CONSTANTS Org, Code, Request,
          TrialDays,   \* the trial of a new organization, 30 in the code
          MaxDay,      \* bound: the last day of the clock
          MaxApplied,  \* bound: applications of one code that are explored
          NoCode       \* AppliedPromoCode is empty

Plan == {"starter", "professional", "enterprise"}
Day == Nat

\* What CreatePromoCode stores: usage limit (0: unlimited), trial days granted,
\* days of validity, and the plans it applies to ({}: all).
PromoDef == [max : Nat, days : Nat, from : Day, until : Day, plans : SUBSET Plan]

CONSTANT Offer  \* the definitions a system administrator may create, by code

ASSUME OfferAssumption == Offer \in [Code -> PromoDef]
ASSUME BoundAssumption == TrialDays \in Nat /\ MaxDay \in Nat /\ MaxApplied \in Nat
ASSUME NoCodeAssumption == NoCode \notin Code
ASSUME RequestAssumption == IsFiniteSet(Request)

VARIABLES today,   \* the clock
          org,     \* the billing attributes of METADATA
          ghost,   \* organizations with an item under "ORG#ORG#"
          promo,   \* codes that exist
          usages,  \* CurrentUsages of every code
          req      \* the requests in flight

vars == <<today, org, ghost, promo, usages, req>>

Billing == [plan : Plan, status : {"TRIAL", "ACTIVE"}, mode : {"FREE", "PAID"},
            trialEnd : Day, code : Code \cup {NoCode}]

Idle == [pc |-> "idle"]
ReadPromo == [pc : {"readPromo"}, org : Org, p : 0..1, code : Code]
ReadOrg == [pc : {"readOrg"}, org : Org, p : 0..1, code : Code, day : Day]
Commit == [pc : {"commit"}, org : Org, p : 0..1, code : Code,
           trialEnd : Day \cup {-1}]    \* -1: the transaction leaves the trial alone

\* Billing attributes keep their shape: a discount without days starts no trial.
TypeOK == /\ today \in Day
          /\ org \in [Org -> Billing]
          /\ ghost \subseteq Org
          /\ promo \subseteq Code
          /\ usages \in [Code -> Nat]
          /\ req \in [Request -> {Idle} \cup ReadPromo \cup ReadOrg \cup Commit]

\* What CreateOrganization writes.
NewBilling == [plan |-> "starter", status |-> "TRIAL", mode |-> "FREE",
               trialEnd |-> TrialDays, code |-> NoCode]

Init == /\ today = 0
        /\ org = [o \in Org |-> NewBilling]
        /\ ghost = {}
        /\ promo = {}
        /\ usages = [c \in Code |-> 0]
        /\ req = [r \in Request |-> Idle]
-----------------------------------------------------------------------------
Goto(r, call) == req' = [req EXCEPT ![r] = call]

\* The put is conditional on the code being new.
CreatePromoCode(c) ==
    /\ c \notin promo
    /\ promo' = promo \cup {c}
    /\ UNCHANGED <<today, org, ghost, usages, req>>

\* Validate, then one update with attribute_exists(OrganizationId): under an
\* id that was prefixed twice the condition fails and nothing is written.
UpdateSubscription(o, p, plan) ==
    /\ p = 0
    /\ org' = [org EXCEPT ![o].plan = plan, ![o].status = "ACTIVE", ![o].mode = "PAID"]
    /\ UNCHANGED <<today, ghost, promo, usages, req>>

StartApply(r, o, p, c) ==
    /\ req[r] = Idle
    /\ Goto(r, [pc |-> "readPromo", org |-> o, p |-> p, code |-> c])
    /\ UNCHANGED <<today, org, ghost, promo, usages>>

HasUsagesLeftUnchecked(c) == TRUE
HasUsagesLeft(c) == Offer[c].max > 0 => usages[c] < Offer[c].max

Redeemable(c) == /\ c \in promo
                 /\ today \in Offer[c].from .. Offer[c].until
                 /\ HasUsagesLeft(c)

\* GetPromoCode and the checks on what it returned; the clock is read once.
GetPromoCode(r) ==
    /\ req[r].pc = "readPromo"
    /\ LET c == req[r].code IN
       Goto(r, IF Redeemable(c)
               THEN [pc |-> "readOrg", org |-> req[r].org, p |-> req[r].p,
                     code |-> c, day |-> today]
               ELSE Idle)
    /\ UNCHANGED <<today, org, ghost, promo, usages>>

ApplicableToAny(c, plan) == Offer[c].plans = {} \/ Offer[c].plans \cap Plan # {}
Applicable(c, plan) == Offer[c].plans = {} \/ plan \in Offer[c].plans

TrialEndFromToday(c, billing, day) == IF Offer[c].days = 0 THEN -1 ELSE day + Offer[c].days

\* The new end of the trial: an extension of the current one, or a new trial.
TrialEndAfter(c, billing, day) ==
    IF Offer[c].days = 0 THEN -1
    ELSE (IF billing.status = "TRIAL" THEN billing.trialEnd ELSE day) + Offer[c].days

\* GetOrganization normalises the id, so it reads the METADATA item for both
\* forms; the plan and the trial of the decision are the ones read here.
GetOrganization(r) ==
    /\ req[r].pc = "readOrg"
    /\ LET o == req[r].org   c == req[r].code IN
       Goto(r, IF Applicable(c, org[o].plan)
               THEN [pc |-> "commit", org |-> o, p |-> req[r].p, code |-> c,
                     trialEnd |-> TrialEndAfter(c, org[o], req[r].day)]
               ELSE Idle)
    /\ UNCHANGED <<today, org, ghost, promo, usages>>

WithPromo(billing, call) ==
    IF call.trialEnd = -1 THEN [billing EXCEPT !.code = call.code]
    ELSE [billing EXCEPT !.code = call.code, !.trialEnd = call.trialEnd, !.status = "TRIAL"]

CountedIfLimited(c) == IF Offer[c].max > 0 THEN usages[c] + 1 ELSE usages[c]
Counted(c) == usages[c] + 1

\* The transaction: neither update has a condition, so the one on the
\* organization creates the item of a key that does not exist.
CommitPromo(r) ==
    /\ req[r].pc = "commit"
    /\ LET o == req[r].org   c == req[r].code IN
       /\ usages[c] < MaxApplied
       /\ usages' = [usages EXCEPT ![c] = Counted(c)]
       /\ IF req[r].p = 0
          THEN org' = [org EXCEPT ![o] = WithPromo(@, req[r])] /\ UNCHANGED ghost
          ELSE ghost' = ghost \cup {o} /\ UNCHANGED org
    /\ Goto(r, Idle)
    /\ UNCHANGED <<today, promo>>

\* A call fails or the invocation dies: nothing was written.
Abort(r) ==
    /\ req[r] # Idle
    /\ Goto(r, Idle)
    /\ UNCHANGED <<today, org, ghost, promo, usages>>

Tick == /\ today < MaxDay
        /\ today' = today + 1
        /\ UNCHANGED <<org, ghost, promo, usages, req>>

ApplyPromoCode(r) == GetPromoCode(r) \/ GetOrganization(r) \/ CommitPromo(r) \/ Abort(r)

Next == \/ Tick
        \/ \E c \in Code : CreatePromoCode(c)
        \/ \E o \in Org, p \in 0..1, plan \in Plan : UpdateSubscription(o, p, plan)
        \/ \E r \in Request, o \in Org, p \in 0..1, c \in Code : StartApply(r, o, p, c)
        \/ \E r \in Request : ApplyPromoCode(r)

Spec == Init /\ [][Next]_vars
-----------------------------------------------------------------------------
\* Requests that passed the usage check of code c and have not committed.
Admitted(c) == {r \in Request : req[r].pc \in {"readOrg", "commit"} /\ req[r].code = c}

\* A limited code is used MaxUsages times at most ("promo code usage limit
\* exceeded").  True of one request at a time.
UsageLimit == \A c \in Code : Offer[c].max > 0 => usages[c] <= Offer[c].max

\* What the check-then-increment of ApplyPromoCode does guarantee: the limit
\* is overrun by the other requests in flight and by no more.
OvershootBounded ==
    \A c \in Code : Offer[c].max > 0 =>
        usages[c] <= Offer[c].max + Cardinality(Request) - 1

\* "Extended if promo includes trial days": while an organization is in its
\* trial no step brings the end of the trial forward.
TrialNeverShortened ==
    [][\A o \in Org : org[o].status = "TRIAL" /\ org'[o].status = "TRIAL" =>
          org'[o].trialEnd >= org[o].trialEnd]_vars

\* A code is attached to an organization on a plan the code applies to: the
\* plan GetOrganization read is still the plan when the transaction commits.
AppliedToItsPlan ==
    [][\A r \in Request : CommitPromo(r) /\ req[r].p = 0 =>
          Applicable(req[r].code, org[req[r].org].plan)]_vars

\* "Promo code applied successfully" with the code in appliedPromoCode: after
\* the transaction the organization shows the code.
ApplicationIsVisible ==
    [][\A r \in Request : CommitPromo(r) => org'[req[r].org].code = req[r].code]_vars
=============================================================================
