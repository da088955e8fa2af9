------------------------- MODULE SubscriptionsViews -------------------------
(***************************************************************************)
(* What manage-subscription and manage-promo-codes answer about the plan   *)
(* and the code of an organization, to an administrator of it and of no    *)
(* other.  The reads normalise an id, so they find the item whether it is  *)
(* bare (p = 0) or prefixed (p = 1); the details of a code are given only  *)
(* to who writes the id as it is stored, which is prefixed.                *)
(***************************************************************************)
EXTENDS Subscriptions

Failed == [status |-> "failed"]
NoActivePromoCode == [status |-> "success", promoDetails |-> {}]

\* The code a read of PromoCodesTable finds.
GetPromoCodeItem(c) == {c} \cap promo

getSubscriptionPlans(o) ==
    [planId |-> org[o].plan, billingMode |-> org[o].mode, billingStatus |-> org[o].status,
     trialEndDate |-> org[o].trialEnd, appliedPromoCode |-> org[o].code, availablePlans |-> Plan]

\* Answered after UpdateSubscription(o, p, plan): the name is that of the plan that
\* was asked for, the rest is read again, and may be another request's.
updateSubscription(o, p, plan) ==
    IF p = 1 THEN Failed
    ELSE [planId |-> org[o].plan, planName |-> plan, billingMode |-> org[o].mode, billingStatus |-> org[o].status]

\* Answered after CommitPromo, from what is read again, under either form of the id.
applyPromoCode(o, c) ==
    [appliedPromo |-> c, known |-> GetPromoCodeItem(c) # {}, billingStatus |-> org[o].status,
     trialEndDate |-> org[o].trialEnd, appliedPromoCode |-> org[o].code]

\* Refused unless the id is, to the letter, that of the administrator's organization.
getActivePromoCode(o, p) ==
    CASE p = 0 -> [status |-> "forbidden"]
      [] p = 1 /\ org[o].code = NoCode -> NoActivePromoCode
      [] p = 1 /\ org[o].code # NoCode ->
            IF GetPromoCodeItem(org[o].code) = {} THEN Failed
            ELSE [status |-> "success",
                  promoDetails |-> {[promoCode |-> c, definition |-> Offer[c]] : c \in GetPromoCodeItem(org[o].code)}]
-----------------------------------------------------------------------------
\* Every organization that shows a code was counted in its usages, and can be told
\* its details: neither code nor count is ever behind, though the transaction that
\* attaches a code asks for neither.
AppliedCodesAreCounted ==
    /\ \A c \in Code :
          Cardinality({o \in Org : getSubscriptionPlans(o).appliedPromoCode = c}) <= usages[c]
    /\ \A o \in Org :
          LET code == getSubscriptionPlans(o).appliedPromoCode IN
          /\ code = NoCode <=> getActivePromoCode(o, 1) = NoActivePromoCode
          /\ code # NoCode => getActivePromoCode(o, 1) # Failed /\ applyPromoCode(o, code).known
=============================================================================
