------------------------ MODULE SubscriptionsProofs ------------------------
(***************************************************************************)
(* What Subscriptions keeps for every set of organizations, codes and      *)
(* requests: its types, the bound on how far concurrent applications       *)
(* overrun a limited code, that the codes shown are counted and known,     *)
(* that applications that do not meet never shorten a trial, and that a    *)
(* code fits a plan its organization had while it was applied.             *)
(***************************************************************************)
EXTENDS SubscriptionsOverlap, FiniteSetTheorems, TLAPS

LEMMA InitType == Init => TypeOK
<1> SUFFICES ASSUME Init PROVE TypeOK
  OBVIOUS
<1>1. NewBilling \in Billing
  BY BoundAssumption DEF NewBilling, Billing, Plan, Day
<1> QED
  BY <1>1 DEF Init, TypeOK, Day

\* The calls GetPromoCode and GetOrganization go on to are well typed.
LEMMA GetPromoCodeType ==
    ASSUME TypeOK, NEW r \in Request, GetPromoCode(r)
    PROVE  TypeOK'
<1>1. req[r] \in ReadPromo
  BY DEF TypeOK, GetPromoCode, Idle, ReadPromo, ReadOrg, Commit
<1> DEFINE call == [pc |-> "readOrg", org |-> req[r].org, p |-> req[r].p,
                    code |-> req[r].code, day |-> today]
<1>2. call \in ReadOrg
  BY <1>1 DEF TypeOK, ReadPromo, ReadOrg
<1>3. \E next \in {Idle} \cup ReadPromo \cup ReadOrg \cup Commit :
          req' = [req EXCEPT ![r] = next]
  BY <1>2 DEF GetPromoCode, Goto
<1> QED
  BY <1>3 DEF TypeOK, GetPromoCode

LEMMA GetOrganizationType ==
    ASSUME TypeOK, NEW r \in Request, GetOrganization(r)
    PROVE  TypeOK'
<1>1. req[r] \in ReadOrg
  BY DEF TypeOK, GetOrganization, Idle, ReadPromo, ReadOrg, Commit
<1> DEFINE trialEnd == TrialEndAfter(req[r].code, org[req[r].org], req[r].day)
           call == [pc |-> "commit", org |-> req[r].org, p |-> req[r].p,
                    code |-> req[r].code, trialEnd |-> trialEnd]
<1>2. req[r].org \in Org /\ req[r].code \in Code /\ req[r].p \in 0..1 /\ req[r].day \in Nat
  BY <1>1 DEF ReadOrg, Day
<1>3. trialEnd \in Nat \cup {-1}
  <2>1. org[req[r].org].trialEnd \in Nat
    BY <1>2 DEF TypeOK, Billing, Day
  <2>2. Offer[req[r].code].days \in Nat
    BY <1>2, OfferAssumption DEF PromoDef
  <2> QED
    BY <1>2, <2>1, <2>2 DEF TrialEndAfter
<1>4. call \in Commit
  BY <1>2, <1>3 DEF Commit, Day
<1>5. \E next \in {Idle} \cup ReadPromo \cup ReadOrg \cup Commit :
          req' = [req EXCEPT ![r] = next]
  BY <1>4 DEF GetOrganization, Goto
<1> QED
  BY <1>5 DEF TypeOK, GetOrganization

LEMMA CommitPromoType ==
    ASSUME TypeOK, NEW r \in Request, CommitPromo(r)
    PROVE  TypeOK'
<1> DEFINE o == req[r].org
           c == req[r].code
<1>1. req[r] \in Commit
  BY DEF TypeOK, CommitPromo, Idle, ReadPromo, ReadOrg, Commit
<1>2. o \in Org /\ c \in Code /\ req[r].trialEnd \in Nat \cup {-1}
  BY <1>1 DEF Commit, Day
<1>3. WithPromo(org[o], req[r]) \in Billing
  <2>1. org[o] \in Billing
    BY <1>2 DEF TypeOK
  <2> QED
    BY <1>2, <2>1 DEF WithPromo, Billing, Day
<1>4. org' \in [Org -> Billing]
  BY <1>2, <1>3 DEF TypeOK, CommitPromo
<1>5. ghost' \subseteq Org
  BY <1>2 DEF TypeOK, CommitPromo
<1>6. usages' \in [Code -> Nat]
  BY <1>2 DEF TypeOK, CommitPromo, Counted
<1>7. req' \in [Request -> {Idle} \cup ReadPromo \cup ReadOrg \cup Commit]
  BY DEF TypeOK, CommitPromo, Goto
<1> QED
  BY <1>4, <1>5, <1>6, <1>7 DEF TypeOK, CommitPromo

LEMMA NextType == TypeOK /\ [Next]_vars => TypeOK'
<1> SUFFICES ASSUME TypeOK, [Next]_vars PROVE TypeOK'
  OBVIOUS
<1>1. CASE UNCHANGED vars
  BY <1>1 DEF TypeOK, vars
<1>2. CASE Tick
  BY <1>2 DEF TypeOK, Tick, Day
<1>3. ASSUME NEW c \in Code, CreatePromoCode(c) PROVE TypeOK'
  BY <1>3 DEF TypeOK, CreatePromoCode
<1>4. ASSUME NEW o \in Org, NEW p \in 0..1, NEW plan \in Plan, UpdateSubscription(o, p, plan)
      PROVE  TypeOK'
  <2>1. [org[o] EXCEPT !.plan = plan, !.status = "ACTIVE", !.mode = "PAID"] \in Billing
    BY DEF TypeOK, Billing
  <2> QED
    BY <1>4, <2>1 DEF TypeOK, UpdateSubscription
<1>5. ASSUME NEW r \in Request, NEW o \in Org, NEW p \in 0..1, NEW c \in Code, StartApply(r, o, p, c)
      PROVE  TypeOK'
  <2>1. [pc |-> "readPromo", org |-> o, p |-> p, code |-> c] \in ReadPromo
    BY DEF ReadPromo
  <2> QED
    BY <1>5, <2>1 DEF TypeOK, StartApply, Goto
<1>6. ASSUME NEW r \in Request, Abort(r) PROVE TypeOK'
  BY <1>6 DEF TypeOK, Abort, Goto
<1> QED
  BY <1>1, <1>2, <1>3, <1>4, <1>5, <1>6,
     GetPromoCodeType, GetOrganizationType, CommitPromoType DEF Next, ApplyPromoCode

\* Every reachable state of Subscriptions is well typed: no sequence of calls
\* leaves an organization with a date or a plan that is none, nor a request
\* that resumes with attributes it never read.
THEOREM TypeCorrect == Spec => []TypeOK
<1> QED
  BY InitType, NextType, PTL DEF Spec
-----------------------------------------------------------------------------
\* The limit alone is not inductive: a request that was admitted will count
\* one more.  Usages and admitted requests together stay within the limit and
\* the other requests, because a request is admitted only below the limit.
Budget(c) == Offer[c].max > 0 =>
                 usages[c] + Cardinality(Admitted(c)) <= Offer[c].max - 1 + Cardinality(Request)
IInv == TypeOK /\ \A c \in Code : Budget(c)

LEMMA AdmittedFinite ==
    ASSUME NEW c
    PROVE  /\ IsFiniteSet(Admitted(c)) /\ IsFiniteSet(Admitted(c)')
           /\ Cardinality(Admitted(c)) \in Nat /\ Cardinality(Admitted(c)') \in Nat
           /\ Cardinality(Admitted(c)) <= Cardinality(Request)
           /\ Cardinality(Admitted(c)') <= Cardinality(Request)
           /\ Cardinality(Request) \in Nat
<1>1. Admitted(c) \in SUBSET Request /\ Admitted(c)' \in SUBSET Request
  BY DEF Admitted
<1> HIDE DEF Admitted
<1> QED
  BY <1>1, RequestAssumption, FS_Subset, FS_CardinalityType

\* A step that counts nothing and admits no request keeps the budget.
LEMMA BudgetKept ==
    ASSUME TypeOK, NEW c \in Code, Budget(c),
           usages' = usages, Admitted(c)' \subseteq Admitted(c)
    PROVE  Budget(c)'
<1>1. Cardinality(Admitted(c)') <= Cardinality(Admitted(c))
  BY AdmittedFinite, FS_Subset
<1>2. usages[c] \in Nat /\ Offer[c].max \in Nat
  BY OfferAssumption DEF TypeOK, PromoDef
<1> QED
  BY <1>1, <1>2, AdmittedFinite DEF Budget

LEMMA BudgetAdmits ==
    ASSUME TypeOK, NEW r \in Request, GetPromoCode(r), NEW c \in Code, Budget(c)
    PROVE  Budget(c)'
<1>1. usages[c] \in Nat /\ Offer[c].max \in Nat
  BY OfferAssumption DEF TypeOK, PromoDef
<1>2. CASE HasUsagesLeft(c)
  <2>1. usages' = usages
    BY DEF GetPromoCode
  <2> QED
    BY <1>1, <1>2, <2>1, AdmittedFinite DEF Budget, HasUsagesLeft
<1>3. CASE ~HasUsagesLeft(c)
  <2>1. Admitted(c)' \subseteq Admitted(c)
    <3>1. req[r].code = c => req'[r] = Idle
      BY <1>3 DEF TypeOK, GetPromoCode, Redeemable, Goto
    <3>2. req[r].code # c => req'[r] = Idle \/ req'[r].code # c
      BY DEF TypeOK, GetPromoCode, Goto
    <3>3. \A q \in Request : q # r => req'[q] = req[q]
      BY DEF TypeOK, GetPromoCode, Goto
    <3> QED
      BY <3>1, <3>2, <3>3 DEF Admitted, Idle
  <2> QED
    BY <2>1, BudgetKept DEF GetPromoCode
<1> QED
  BY <1>2, <1>3

LEMMA BudgetCommits ==
    ASSUME TypeOK, NEW r \in Request, CommitPromo(r), NEW c \in Code, Budget(c)
    PROVE  Budget(c)'
<1>1. usages[c] \in Nat /\ Offer[c].max \in Nat
  BY OfferAssumption DEF TypeOK, PromoDef
<1>2. req' = [req EXCEPT ![r] = Idle]
  BY DEF CommitPromo, Goto
<1>3. CASE req[r].code = c
  <2>1. usages'[c] = usages[c] + 1
    BY <1>3 DEF TypeOK, CommitPromo, Counted
  <2>2. r \in Admitted(c)
    BY <1>3 DEF Admitted, CommitPromo
  <2>3. Admitted(c)' = Admitted(c) \ {r}
    BY <1>2 DEF TypeOK, Admitted, Idle
  <2>4. Cardinality(Admitted(c)') = Cardinality(Admitted(c)) - 1
    BY <2>2, <2>3, AdmittedFinite, FS_RemoveElement
  <2> QED
    BY <1>1, <2>1, <2>4, AdmittedFinite DEF Budget
<1>4. CASE req[r].code # c
  <2>1. usages'[c] = usages[c]
    BY <1>4 DEF TypeOK, CommitPromo
  <2>2. Admitted(c)' = Admitted(c)
    BY <1>2, <1>4 DEF TypeOK, Admitted, Idle
  <2> QED
    BY <2>1, <2>2 DEF Budget
<1> QED
  BY <1>3, <1>4

LEMMA InitBudget == Init => IInv
<1> SUFFICES ASSUME Init, NEW c \in Code PROVE Budget(c)
  BY InitType DEF IInv
<1>1. Admitted(c) = {}
  BY DEF Init, Admitted, Idle
<1>2. Offer[c].max \in Nat
  BY OfferAssumption DEF PromoDef
<1> QED
  BY <1>1, <1>2, AdmittedFinite, FS_EmptySet DEF Init, Budget

LEMMA NextBudget == IInv /\ [Next]_vars => IInv'
<1> SUFFICES ASSUME IInv, [Next]_vars, NEW c \in Code PROVE Budget(c)'
  BY NextType DEF IInv
<1> USE DEF IInv
<1>1. CASE UNCHANGED vars
  BY <1>1, BudgetKept DEF vars, Admitted
<1>2. CASE Tick
  BY <1>2, BudgetKept DEF Tick, Admitted
<1>3. ASSUME NEW d \in Code, CreatePromoCode(d) PROVE Budget(c)'
  BY <1>3, BudgetKept DEF CreatePromoCode, Admitted
<1>4. ASSUME NEW o \in Org, NEW p \in 0..1, NEW plan \in Plan, UpdateSubscription(o, p, plan)
      PROVE  Budget(c)'
  BY <1>4, BudgetKept DEF UpdateSubscription, Admitted
<1>5. ASSUME NEW r \in Request, NEW o \in Org, NEW p \in 0..1, NEW d \in Code, StartApply(r, o, p, d)
      PROVE  Budget(c)'
  <2>1. Admitted(c)' \subseteq Admitted(c)
    BY <1>5 DEF TypeOK, StartApply, Goto, Admitted
  <2> QED
    BY <1>5, <2>1, BudgetKept DEF StartApply
<1>6. ASSUME NEW r \in Request, GetPromoCode(r) PROVE Budget(c)'
  BY <1>6, BudgetAdmits
<1>7. ASSUME NEW r \in Request, GetOrganization(r) PROVE Budget(c)'
  <2>1. req[r].pc = "readOrg" /\ (req'[r] = Idle \/ req'[r].code = req[r].code)
    BY <1>7 DEF TypeOK, GetOrganization, Goto
  <2>2. \A q \in Request : q # r => req'[q] = req[q]
    BY <1>7 DEF TypeOK, GetOrganization, Goto
  <2>3. Admitted(c)' \subseteq Admitted(c)
    BY <2>1, <2>2 DEF Admitted, Idle
  <2> QED
    BY <1>7, <2>3, BudgetKept DEF GetOrganization
<1>8. ASSUME NEW r \in Request, CommitPromo(r) PROVE Budget(c)'
  BY <1>8, BudgetCommits
<1>9. ASSUME NEW r \in Request, Abort(r) PROVE Budget(c)'
  <2>1. Admitted(c)' \subseteq Admitted(c)
    BY <1>9 DEF TypeOK, Abort, Goto, Admitted, Idle
  <2> QED
    BY <1>9, <2>1, BudgetKept DEF Abort
<1> QED
  BY <1>1, <1>2, <1>3, <1>4, <1>5, <1>6, <1>7, <1>8, <1>9 DEF Next, ApplyPromoCode

LEMMA BudgetBounds == IInv => OvershootBounded
<1> SUFFICES ASSUME IInv, NEW c \in Code, Offer[c].max > 0
             PROVE  usages[c] <= Offer[c].max + Cardinality(Request) - 1
  BY DEF OvershootBounded
<1>1. usages[c] \in Nat /\ Offer[c].max \in Nat
  BY OfferAssumption DEF IInv, TypeOK, PromoDef
<1> QED
  BY <1>1, AdmittedFinite DEF IInv, Budget

\* However many requests apply a limited code at the same time, it is used at
\* most MaxUsages times plus once for every other request in flight: the check
\* of ApplyPromoCode that goes stale is at least never further behind.
THEOREM OvershootIsBounded == Spec => []OvershootBounded
<1> QED
  BY InitBudget, NextBudget, BudgetBounds, PTL DEF Spec
-----------------------------------------------------------------------------
(* The codes that organizations show.                                      *)

Shown(c) == {o \in Org : org[o].code = c}

\* A code is there before it is read, shown only after it was read, and every
\* organization that begins to show it is one usage more.
CodesHold ==
    /\ \A r \in Request : req[r].pc \in {"readOrg", "commit"} => req[r].code \in promo
    /\ \A o \in Org : org[o].code # NoCode => org[o].code \in promo
    /\ \A c \in Code : IsFiniteSet(Shown(c)) /\ Cardinality(Shown(c)) <= usages[c]

CInv == TypeOK /\ CodesHold

LEMMA InitCodes == Init => CInv
<1> SUFFICES ASSUME Init PROVE CodesHold
  BY InitType DEF CInv
<1>1. \A c \in Code : Shown(c) = {}
  BY NoCodeAssumption DEF Init, Shown, NewBilling
<1>2. IsFiniteSet({}) /\ Cardinality({}) = 0
  BY FS_EmptySet
<1>3. \A c \in Code : IsFiniteSet(Shown(c)) /\ Cardinality(Shown(c)) <= usages[c]
  BY <1>1, <1>2 DEF Init
<1> QED
  BY <1>3 DEF Init, CodesHold, NewBilling, Idle

\* A step that shows no new code and reads none keeps them.
LEMMA CodesKept ==
    ASSUME CInv, promo \subseteq promo', usages' = usages,
           \A o \in Org : org'[o].code = org[o].code,
           \A r \in Request : \/ req'[r].pc \notin {"readOrg", "commit"}
                              \/ req'[r].code \in promo
    PROVE  CodesHold'
<1>1. \A c \in Code : Shown(c)' = Shown(c)
  BY DEF Shown
<1> QED
  BY <1>1 DEF CInv, CodesHold

LEMMA CommitCodes ==
    ASSUME CInv, NEW r \in Request, CommitPromo(r)
    PROVE  CodesHold'
<1>1. req[r] \in Commit
  BY DEF CInv, TypeOK, CommitPromo, Idle, ReadPromo, ReadOrg, Commit
<1>2. PICK o \in Org, c \in Code : o = req[r].org /\ c = req[r].code
  BY <1>1 DEF Commit
<1>3. usages' = [usages EXCEPT ![c] = usages[c] + 1] /\ promo' = promo /\ req' = [req EXCEPT ![r] = Idle]
  BY <1>2 DEF CommitPromo, Counted, Goto
<1>4. c \in promo
  BY <1>2 DEF CInv, CodesHold, CommitPromo
<1>5. \/ org' = org
      \/ org'[o].code = c /\ \A q \in Org \ {o} : org'[q] = org[q]
  <2>1. WithPromo(org[o], req[r]).code = c
    <3>1. org[o] \in Billing
      BY DEF CInv, TypeOK
    <3> QED
      BY <1>2, <3>1 DEF WithPromo, Billing
  <2>2. org' = org \/ org' = [org EXCEPT ![o] = WithPromo(org[o], req[r])]
    BY <1>2 DEF CommitPromo
  <2> QED
    BY <2>1, <2>2 DEF CInv, TypeOK
<1>6. \A d \in Code : usages[d] \in Nat /\ usages'[d] = IF d = c THEN usages[c] + 1 ELSE usages[d]
  BY <1>3 DEF CInv, TypeOK
<1>7. \A q \in Request : req'[q] = req[q] \/ req'[q].pc \notin {"readOrg", "commit"}
  BY <1>3 DEF CInv, TypeOK, Idle
<1>8. \A q \in Org : org'[q].code # NoCode => org'[q].code \in promo'
  BY <1>3, <1>4, <1>5 DEF CInv, CodesHold
<1>9. ASSUME NEW d \in Code PROVE IsFiniteSet(Shown(d)') /\ Cardinality(Shown(d)') <= usages'[d]
  <2>1. /\ IsFiniteSet(Shown(d)) /\ Cardinality(Shown(d)) <= usages[d] /\ Cardinality(Shown(d)) \in Nat
    BY FS_CardinalityType DEF CInv, CodesHold
  <2>2. CASE d # c
    <3>1. Shown(d)' \subseteq Shown(d)
      BY <1>5, <2>2 DEF Shown
    <3>2. IsFiniteSet(Shown(d)') /\ Cardinality(Shown(d)') <= Cardinality(Shown(d)) /\ Cardinality(Shown(d)') \in Nat
      BY <2>1, <3>1, FS_Subset, FS_CardinalityType
    <3> QED
      BY <1>6, <2>1, <2>2, <3>2
  <2>3. CASE d = c
    <3>1. Shown(d)' \subseteq Shown(d) \cup {o}
      BY <1>5 DEF Shown
    <3>2. IsFiniteSet(Shown(d) \cup {o}) /\ Cardinality(Shown(d) \cup {o}) <= Cardinality(Shown(d)) + 1
          /\ Cardinality(Shown(d) \cup {o}) \in Nat
      <4>1. /\ IsFiniteSet(Shown(d) \cup {o})
            /\ \/ Cardinality(Shown(d) \cup {o}) = Cardinality(Shown(d))
               \/ Cardinality(Shown(d) \cup {o}) = Cardinality(Shown(d)) + 1
        BY <2>1, FS_AddElement
      <4> QED
        BY <2>1, <4>1
    <3>3. IsFiniteSet(Shown(d)') /\ Cardinality(Shown(d)') <= Cardinality(Shown(d) \cup {o})
          /\ Cardinality(Shown(d)') \in Nat
      BY <3>1, <3>2, FS_Subset, FS_CardinalityType
    <3> QED
      BY <1>6, <2>1, <2>3, <3>2, <3>3
  <2> QED
    BY <2>2, <2>3
<1> QED
  BY <1>3, <1>7, <1>8, <1>9 DEF CInv, CodesHold

LEMMA NextCodes == CInv /\ [Next]_vars => CInv'
<1> SUFFICES ASSUME CInv, [Next]_vars PROVE CodesHold'
  BY NextType DEF CInv
<1>0. /\ req \in [Request -> {Idle} \cup ReadPromo \cup ReadOrg \cup Commit]
      /\ \A r \in Request : req[r].pc \notin {"readOrg", "commit"} \/ req[r].code \in promo
  BY DEF CInv, TypeOK, CodesHold
<1>1. CASE UNCHANGED vars
  BY <1>0, <1>1, CodesKept DEF vars
<1>2. CASE Tick
  BY <1>0, <1>2, CodesKept DEF Tick
<1>3. ASSUME NEW c \in Code, CreatePromoCode(c) PROVE CodesHold'
  BY <1>0, <1>3, CodesKept DEF CreatePromoCode
<1>4. ASSUME NEW o \in Org, NEW p \in 0..1, NEW plan \in Plan, UpdateSubscription(o, p, plan)
      PROVE  CodesHold'
  <2>1. \A q \in Org : org'[q].code = org[q].code
    BY <1>4 DEF UpdateSubscription, CInv, TypeOK, Billing
  <2> QED
    BY <1>0, <1>4, <2>1, CodesKept DEF UpdateSubscription
<1>5. ASSUME NEW r \in Request, NEW o \in Org, NEW p \in 0..1, NEW c \in Code, StartApply(r, o, p, c)
      PROVE  CodesHold'
  BY <1>0, <1>5, CodesKept DEF StartApply, Goto
<1>6. ASSUME NEW r \in Request, GetPromoCode(r) PROVE CodesHold'
  <2>1. \A q \in Request : req'[q].pc \notin {"readOrg", "commit"} \/ req'[q].code \in promo
    BY <1>0, <1>6 DEF GetPromoCode, Goto, Redeemable, Idle
  <2> QED
    BY <1>6, <2>1, CodesKept DEF GetPromoCode
<1>7. ASSUME NEW r \in Request, GetOrganization(r) PROVE CodesHold'
  <2>1. \A q \in Request : req'[q].pc \notin {"readOrg", "commit"} \/ req'[q].code \in promo
    BY <1>0, <1>7 DEF GetOrganization, Goto, Idle
  <2> QED
    BY <1>7, <2>1, CodesKept DEF GetOrganization
<1>8. ASSUME NEW r \in Request, Abort(r) PROVE CodesHold'
  BY <1>0, <1>8, CodesKept DEF Abort, Goto, Idle
<1> QED
  BY <1>1, <1>2, <1>3, <1>4, <1>5, <1>6, <1>7, <1>8, CommitCodes DEF Next, ApplyPromoCode

LEMMA CodesShow == CInv => AppliedCodesAreCounted
<1> SUFFICES ASSUME CInv PROVE AppliedCodesAreCounted
  OBVIOUS
<1>1. \A o : getSubscriptionPlans(o).appliedPromoCode = org[o].code
  BY DEF getSubscriptionPlans
<1>2. ASSUME NEW c \in Code
      PROVE  Cardinality({o \in Org : getSubscriptionPlans(o).appliedPromoCode = c}) <= usages[c]
  <2>1. {o \in Org : getSubscriptionPlans(o).appliedPromoCode = c} = Shown(c)
    BY <1>1 DEF Shown
  <2> QED
    BY <2>1 DEF CInv, CodesHold
<1>3. ASSUME NEW o \in Org
      PROVE  /\ org[o].code = NoCode <=> getActivePromoCode(o, 1) = NoActivePromoCode
             /\ org[o].code # NoCode => getActivePromoCode(o, 1) # Failed /\ applyPromoCode(o, org[o].code).known
  <2>1. CASE org[o].code = NoCode
    BY <2>1 DEF getActivePromoCode
  <2>2. CASE org[o].code # NoCode
    <3>1. PICK c \in promo : c = org[o].code /\ c # NoCode /\ GetPromoCodeItem(c) = {c}
      BY <2>2 DEF CInv, CodesHold, GetPromoCodeItem
    <3>2. PICK details : details = {[promoCode |-> d, definition |-> Offer[d]] : d \in {c}} /\ details # {}
      OBVIOUS
    <3>3. getActivePromoCode(o, 1) = [status |-> "success", promoDetails |-> details]
      BY <3>1, <3>2 DEF getActivePromoCode
    <3>4. applyPromoCode(o, c).known
      BY <3>1 DEF applyPromoCode
    <3>5. /\ getActivePromoCode(o, 1).status = "success" /\ getActivePromoCode(o, 1).promoDetails = details
          /\ Failed.status = "failed" /\ NoActivePromoCode.promoDetails = {}
      BY <3>3 DEF Failed, NoActivePromoCode
    <3> QED
      BY <2>2, <3>1, <3>2, <3>4, <3>5
  <2> QED
    BY <2>1, <2>2
<1> QED
  BY <1>1, <1>2, <1>3 DEF AppliedCodesAreCounted

\* Whatever applications, purchases and clocks interleave, no organization shows a code
\* that was not counted for it, nor one whose details cannot be told, though the
\* transaction that attaches a code checks neither.
THEOREM CodesAreCounted == Spec => []AppliedCodesAreCounted
BY InitCodes, NextCodes, CodesShow, PTL DEF Spec
-----------------------------------------------------------------------------
(* The trial of an organization.                                           *)

Apart == \A o \in Org : o \notin overlapped => ~Overlapping(o)

\* What a transaction is about to write extends the trial that is there, if there is one:
\* only another commit could have made it later or begun it since.
TrialsExtend ==
    \A r \in Request, o \in Org \ overlapped :
        AboutToCommit(r, o) /\ org[o].status = "TRIAL" /\ req[r].trialEnd # -1
            => req[r].trialEnd >= org[o].trialEnd

HInv == TypeOK /\ Apart /\ TrialsExtend

\* An organization changes its trial by the one commit to it, and ends it by a purchase.
LEMMA TrialStep ==
    ASSUME TypeOK, [Next]_vars, NEW o \in Org
    PROVE  \/ org'[o].trialEnd = org[o].trialEnd /\ org'[o].status \in {org[o].status, "ACTIVE"}
           \/ \E r \in Request : /\ AboutToCommit(r, o) /\ req[r].trialEnd # -1 /\ req'[r] = Idle
                                 /\ org'[o].trialEnd = req[r].trialEnd
<1>1. org[o] \in Billing
  BY DEF TypeOK
<1>2. org' = org => org'[o].trialEnd = org[o].trialEnd /\ org'[o].status \in {org[o].status, "ACTIVE"}
  OBVIOUS
<1>3. ASSUME NEW q \in Org, NEW p \in 0..1, NEW plan \in Plan, UpdateSubscription(q, p, plan)
      PROVE  org'[o].trialEnd = org[o].trialEnd /\ org'[o].status \in {org[o].status, "ACTIVE"}
  <2>1. org'[o] = org[o] \/ org'[o] = [org[o] EXCEPT !.plan = plan, !.status = "ACTIVE", !.mode = "PAID"]
    BY <1>3 DEF UpdateSubscription, TypeOK
  <2> QED
    BY <1>1, <2>1 DEF Billing
<1>4. ASSUME NEW r \in Request, CommitPromo(r)
      PROVE  \/ org'[o].trialEnd = org[o].trialEnd /\ org'[o].status \in {org[o].status, "ACTIVE"}
             \/ /\ AboutToCommit(r, o) /\ req[r].trialEnd # -1 /\ req'[r] = Idle
                /\ org'[o].trialEnd = req[r].trialEnd
  <2>1. req[r].pc = "commit" /\ req'[r] = Idle
    BY <1>4 DEF CommitPromo, Goto, TypeOK
  <2>2. CASE req[r].org = o /\ org' = [org EXCEPT ![o] = WithPromo(org[o], req[r])]
    <3>1. org'[o] = WithPromo(org[o], req[r])
      BY <2>2 DEF TypeOK
    <3>2. CASE req[r].trialEnd = -1
      BY <1>1, <3>1, <3>2 DEF WithPromo, Billing
    <3>3. CASE req[r].trialEnd # -1
      BY <1>1, <2>1, <2>2, <3>1, <3>3 DEF WithPromo, Billing, AboutToCommit
    <3> QED
      BY <3>2, <3>3
  <2>3. CASE org'[o] = org[o]
    BY <2>3
  <2>4. req[r].org \in Org
    BY <2>1 DEF TypeOK, Idle, ReadPromo, ReadOrg, Commit
  <2> QED
    BY <1>4, <2>2, <2>3, <2>4 DEF CommitPromo, TypeOK
<1> QED
  BY <1>2, <1>3, <1>4 DEF Next, vars, Tick, CreatePromoCode, StartApply, ApplyPromoCode, GetPromoCode,
     GetOrganization, Abort

\* A request comes to its transaction from the read of the organization.
LEMMA ToCommit ==
    ASSUME TypeOK, [Next]_vars, NEW r \in Request, req'[r].pc = "commit", req'[r] # req[r]
    PROVE  /\ org' = org /\ req[r].org \in Org /\ req'[r].org = req[r].org
           /\ req'[r].trialEnd = TrialEndAfter(req[r].code, org[req[r].org], req[r].day) /\ req[r].code \in Code
<1>1. ASSUME NEW s \in Request, NEW call, Goto(s, call)
      PROVE  req'[r] = IF r = s THEN call ELSE req[r]
  BY <1>1 DEF Goto, TypeOK
<1>2. Idle.pc # "commit"
  BY DEF Idle
<1>3. GetOrganization(r)
  <2>1. ASSUME NEW s \in Request, ApplyPromoCode(s) PROVE s = r
    BY <1>1, <2>1 DEF ApplyPromoCode, GetPromoCode, GetOrganization, CommitPromo, Abort
  <2>2. ASSUME NEW s \in Request, NEW o \in Org, NEW p \in 0..1, NEW c \in Code, StartApply(s, o, p, c) PROVE FALSE
    <3>1. [pc |-> "readPromo", org |-> o, p |-> p, code |-> c].pc # "commit"
      OBVIOUS
    <3> QED
      BY <1>1, <2>2, <3>1 DEF StartApply
  <2>3. ~GetPromoCode(r) /\ ~CommitPromo(r) /\ ~Abort(r)
    <3>1. ~CommitPromo(r) /\ ~Abort(r)
      BY <1>1, <1>2 DEF CommitPromo, Abort
    <3>2. ASSUME GetPromoCode(r) PROVE FALSE
      <4>1. [pc |-> "readOrg", org |-> req[r].org, p |-> req[r].p, code |-> req[r].code, day |-> today].pc # "commit"
        OBVIOUS
      <4> QED
        BY <1>1, <1>2, <3>2, <4>1 DEF GetPromoCode
    <3> QED
      BY <3>1, <3>2
  <2> QED
    BY <2>1, <2>2, <2>3 DEF Next, vars, Tick, CreatePromoCode, UpdateSubscription, ApplyPromoCode
<1>4. req[r] \in ReadOrg
  BY <1>3 DEF GetOrganization, TypeOK, Idle, ReadPromo, ReadOrg, Commit
<1>5. req'[r] = [pc |-> "commit", org |-> req[r].org, p |-> req[r].p, code |-> req[r].code,
                 trialEnd |-> TrialEndAfter(req[r].code, org[req[r].org], req[r].day)]
  BY <1>1, <1>2, <1>3 DEF GetOrganization
<1> QED
  BY <1>3, <1>4, <1>5 DEF GetOrganization, ReadOrg

LEMMA TrialsKept ==
    ASSUME HInv, [Next]_vars, overlapped \subseteq overlapped'
    PROVE  TrialsExtend'
<1> SUFFICES ASSUME NEW r \in Request, NEW o \in Org, o \notin overlapped,
                    AboutToCommit(r, o)', org'[o].status = "TRIAL", req'[r].trialEnd # -1
             PROVE  req'[r].trialEnd >= org'[o].trialEnd
  BY DEF TrialsExtend
<1>1. org[o] \in Billing /\ org[o].trialEnd \in Nat
  BY DEF HInv, TypeOK, Billing, Day
<1>2. CASE req'[r] # req[r]
  <2>1. /\ org' = org /\ req[r].org = o /\ req[r].code \in Code
        /\ req'[r].trialEnd = TrialEndAfter(req[r].code, org[o], req[r].day)
    BY <1>2, ToCommit DEF AboutToCommit, HInv
  <2>2. Offer[req[r].code].days \in Nat
    BY <2>1, OfferAssumption DEF PromoDef
  <2> QED
    BY <1>1, <2>1, <2>2 DEF TrialEndAfter
<1>3. CASE req'[r] = req[r]
  <2>1. AboutToCommit(r, o) /\ req[r].trialEnd # -1
    BY <1>3 DEF AboutToCommit
  <2>2. ASSUME NEW s \in Request, AboutToCommit(s, o), req'[s] = Idle PROVE FALSE
    <3>1. s = r
      BY <2>1, <2>2 DEF HInv, Apart, Overlapping
    <3> QED
      BY <1>3, <2>1, <2>2, <3>1 DEF AboutToCommit, Idle
  <2>3. org'[o].trialEnd = org[o].trialEnd /\ org'[o].status \in {org[o].status, "ACTIVE"}
    BY <2>2, TrialStep DEF HInv
  <2> QED
    BY <1>3, <2>1, <2>3 DEF HInv, TrialsExtend
<1> QED
  BY <1>2, <1>3

LEMMA HInvIsInductive == HSpec => []HInv
<1>1. HInit => HInv
  BY InitType DEF HInit, HInv, Init, Apart, Overlapping, TrialsExtend, AboutToCommit, Idle
<1>2. HInv /\ [HNext]_hvars => HInv'
  <2> SUFFICES ASSUME HInv, [HNext]_hvars PROVE HInv'
    OBVIOUS
  <2>1. [Next]_vars /\ overlapped \subseteq overlapped'
    BY DEF HNext, hvars, vars
  <2>2. TypeOK' /\ TrialsExtend'
    BY <2>1, NextType, TrialsKept DEF HInv
  <2>3. Apart'
    <3>1. CASE HNext
      BY <3>1 DEF HNext, Apart
    <3>2. CASE UNCHANGED hvars
      BY <3>2 DEF HInv, Apart, Overlapping, AboutToCommit, hvars, vars
    <3> QED
      BY <3>1, <3>2
  <2> QED
    BY <2>2, <2>3 DEF HInv
<1> QED
  BY <1>1, <1>2, PTL DEF HSpec

\* While an organization is in its trial no step brings the end of the trial forward:
\* not a purchase, not a failed request, not an application, unless two applications
\* have read the same trial to extend.
THEOREM TrialsNeverShorten == HSpec => TrialNeverShortenedUnlessOverlapped
<1>1. HInv /\ [HNext]_hvars =>
          [\A o \in Org \ overlapped : org[o].status = "TRIAL" /\ org'[o].status = "TRIAL" =>
              org'[o].trialEnd >= org[o].trialEnd]_vars
  <2> SUFFICES ASSUME HInv, [HNext]_hvars, NEW o \in Org \ overlapped,
                      org[o].status = "TRIAL", org'[o].status = "TRIAL"
               PROVE  org'[o].trialEnd >= org[o].trialEnd
    OBVIOUS
  <2>1. [Next]_vars
    BY DEF HNext, hvars, vars
  <2>2. org[o].trialEnd \in Nat
    BY DEF HInv, TypeOK, Billing, Day
  <2>3. \/ org'[o].trialEnd = org[o].trialEnd
        \/ \E r \in Request : AboutToCommit(r, o) /\ req[r].trialEnd # -1 /\ org'[o].trialEnd = req[r].trialEnd
    BY <2>1, TrialStep DEF HInv
  <2> QED
    BY <2>2, <2>3 DEF HInv, TrialsExtend
<1> QED
  BY <1>1, HInvIsInductive, PTL DEF HSpec, TrialNeverShortenedUnlessOverlapped
-----------------------------------------------------------------------------
(* The plan a code was applied to.                                         *)

Fits(c, plans) == Offer[c].plans = {} \/ Offer[c].plans \cap plans # {}

\* The history knows the plan of the moment, which is what the check of a request
\* compares with; and what it knows of a request it knows until the request ends.
PlansHold ==
    \A r \in Request : /\ req[r] # Idle => org[req[r].org].plan \in meanwhile[r]
                       /\ req[r].pc = "commit" => Fits(req[r].code, meanwhile[r])

PInv == TypeOK /\ meanwhile \in [Request -> SUBSET Plan] /\ PlansHold

LEMMA FitsMore ==
    ASSUME NEW c, NEW plans, NEW more, Fits(c, plans), plans \subseteq more
    PROVE  Fits(c, more)
  BY DEF Fits

\* An organization shows another code because of one commit to it.
LEMMA CodeStep ==
    ASSUME TypeOK, [Next]_vars, NEW o \in Org, org'[o].code # org[o].code
    PROVE  \E r \in Request : AboutToCommit(r, o) /\ req[r].code = org'[o].code
<1>1. org[o] \in Billing
  BY DEF TypeOK
<1>2. ASSUME NEW q \in Org, NEW p \in 0..1, NEW plan \in Plan, UpdateSubscription(q, p, plan)
      PROVE  FALSE
  <2>1. org'[o] = org[o] \/ org'[o] = [org[o] EXCEPT !.plan = plan, !.status = "ACTIVE", !.mode = "PAID"]
    BY <1>2 DEF UpdateSubscription, TypeOK
  <2> QED
    BY <1>1, <2>1 DEF Billing
<1>3. ASSUME NEW r \in Request, CommitPromo(r)
      PROVE  AboutToCommit(r, o) /\ req[r].code = org'[o].code
  <2>1. req[r].pc = "commit" /\ req[r].org \in Org
    BY <1>3 DEF CommitPromo, TypeOK, Idle, ReadPromo, ReadOrg, Commit
  <2>2. org' = [org EXCEPT ![req[r].org] = WithPromo(org[req[r].org], req[r])]
    BY <1>3 DEF CommitPromo
  <2>3. req[r].org = o /\ org'[o] = WithPromo(org[o], req[r])
    BY <2>1, <2>2 DEF TypeOK
  <2> QED
    BY <1>1, <2>1, <2>3 DEF WithPromo, Billing, AboutToCommit
<1> QED
  BY <1>2, <1>3 DEF Next, vars, Tick, CreatePromoCode, StartApply, ApplyPromoCode, GetPromoCode,
     GetOrganization, Abort

\* A request comes to its transaction past the check of the plan.
LEMMA CheckedToCommit ==
    ASSUME TypeOK, [Next]_vars, NEW r \in Request, req'[r].pc = "commit", req[r].pc # "commit"
    PROVE  /\ req[r] # Idle /\ req'[r].code = req[r].code
           /\ Applicable(req[r].code, org[req[r].org].plan)
<1>1. ASSUME NEW s \in Request, NEW call, Goto(s, call)
      PROVE  req'[r] = IF r = s THEN call ELSE req[r]
  BY <1>1 DEF Goto, TypeOK
<1>2. Idle.pc = "idle"
  BY DEF Idle
<1>3. ASSUME NEW s \in Request, NEW o \in Org, NEW p \in 0..1, NEW c \in Code, StartApply(s, o, p, c) PROVE FALSE
  <2>1. [pc |-> "readPromo", org |-> o, p |-> p, code |-> c].pc # "commit"
    OBVIOUS
  <2> QED
    BY <1>1, <1>3, <2>1 DEF StartApply
<1>4. ASSUME NEW s \in Request, GetPromoCode(s) PROVE FALSE
  <2>1. [pc |-> "readOrg", org |-> req[s].org, p |-> req[s].p, code |-> req[s].code, day |-> today].pc # "commit"
    OBVIOUS
  <2> QED
    BY <1>1, <1>2, <1>4, <2>1 DEF GetPromoCode
<1>5. ASSUME NEW s \in Request, CommitPromo(s) \/ Abort(s) PROVE FALSE
  BY <1>1, <1>2, <1>5 DEF CommitPromo, Abort
<1>6. ASSUME NEW s \in Request, GetOrganization(s)
      PROVE  /\ req[r] # Idle /\ req'[r].code = req[r].code
             /\ Applicable(req[r].code, org[req[r].org].plan)
  <2>1. s = r
    BY <1>1, <1>6 DEF GetOrganization
  <2> QED
    BY <1>1, <1>2, <1>6, <2>1 DEF GetOrganization
<1> QED
  BY <1>3, <1>4, <1>5, <1>6 DEF Next, vars, Tick, CreatePromoCode, UpdateSubscription, ApplyPromoCode

\* And a request about to commit carries what it carried.
LEMMA CommitWaits ==
    ASSUME TypeOK, [Next]_vars, NEW r \in Request, req'[r].pc = "commit", req[r].pc = "commit"
    PROVE  req'[r] = req[r]
<1>1. ASSUME NEW s \in Request, NEW call, Goto(s, call)
      PROVE  req'[r] = IF r = s THEN call ELSE req[r]
  BY <1>1 DEF Goto, TypeOK
<1>2. Idle.pc = "idle"
  BY DEF Idle
<1>3. ASSUME NEW s \in Request, NEW o \in Org, NEW p \in 0..1, NEW c \in Code, StartApply(s, o, p, c)
      PROVE  req'[r] = req[r]
  BY <1>1, <1>2, <1>3 DEF StartApply
<1>4. ASSUME NEW s \in Request, ApplyPromoCode(s) PROVE req'[r] = req[r]
  BY <1>1, <1>2, <1>4 DEF ApplyPromoCode, GetPromoCode, GetOrganization, CommitPromo, Abort
<1> QED
  BY <1>3, <1>4 DEF Next, vars, Tick, CreatePromoCode, UpdateSubscription

LEMMA PlansKept ==
    ASSUME PInv, HNext
    PROVE  PInv'
<1>1. TypeOK' /\ [Next]_vars
  BY NextType DEF HNext, PInv
<1>2. ASSUME NEW r \in Request PROVE req'[r] # Idle => req'[r].org \in Org
  BY <1>1 DEF TypeOK, Idle, ReadPromo, ReadOrg, Commit
<1>3. ASSUME NEW o \in Org PROVE org'[o].plan \in Plan
  BY <1>1 DEF TypeOK, Billing
<1>4. meanwhile' \in [Request -> SUBSET Plan]
  BY <1>2, <1>3 DEF HNext, PInv
<1>5. ASSUME NEW r \in Request, req'[r] # Idle
      PROVE  meanwhile'[r] = meanwhile[r] \cup {org'[req'[r].org].plan}
  BY <1>5 DEF HNext
<1>6. ASSUME NEW r \in Request, req'[r].pc = "commit" PROVE Fits(req'[r].code, meanwhile'[r])
  <2>1. req'[r] # Idle
    BY <1>6 DEF Idle
  <2>2. CASE req[r].pc = "commit"
    <3>1. Fits(req[r].code, meanwhile[r])
      BY <2>2 DEF PInv, PlansHold
    <3>2. req'[r].code = req[r].code
      BY <1>1, <1>6, <2>2, CommitWaits DEF PInv
    <3> QED
      BY <1>5, <2>1, <3>1, <3>2, FitsMore
  <2>3. CASE req[r].pc # "commit"
    <3>1. /\ req[r] # Idle /\ req'[r].code = req[r].code
          /\ Applicable(req[r].code, org[req[r].org].plan)
      BY <1>1, <1>6, <2>3, CheckedToCommit DEF PInv
    <3>2. org[req[r].org].plan \in meanwhile[r]
      BY <3>1 DEF PInv, PlansHold
    <3>3. Fits(req[r].code, meanwhile[r])
      BY <3>1, <3>2 DEF Applicable, Fits
    <3> QED
      BY <1>5, <2>1, <3>1, <3>3, FitsMore
  <2> QED
    BY <2>2, <2>3
<1>7. ASSUME NEW r \in Request, req'[r] # Idle PROVE org'[req'[r].org].plan \in meanwhile'[r]
  BY <1>5, <1>7
<1> QED
  BY <1>1, <1>4, <1>6, <1>7 DEF PInv, PlansHold

LEMMA PInvIsInductive == HSpec => []PInv
<1>1. HInit => PInv
  BY InitType DEF HInit, Init, PInv, PlansHold, Idle
<1>2. PInv /\ [HNext]_hvars => PInv'
  <2>1. PInv /\ UNCHANGED hvars => PInv'
    BY DEF PInv, PlansHold, TypeOK, hvars, vars
  <2> QED
    BY <2>1, PlansKept
<1> QED
  BY <1>1, <1>2, PTL DEF HSpec

\* Though the transaction repeats no check, and any number of purchases may come between
\* the check and it, no organization begins to show a code that fits none of the plans it
\* had while the code was applied.
THEOREM CodesFitTheirTime == HSpec => AppliedToAPlanOfItsTime
<1>1. PInv /\ [HNext]_hvars =>
          [\A o \in Org : org'[o].code # org[o].code =>
              \E r \in Request : /\ AboutToCommit(r, o) /\ req[r].code = org'[o].code
                                /\ \/ Offer[req[r].code].plans = {}
                                   \/ Offer[req[r].code].plans \cap meanwhile[r] # {}]_hvars
  <2> SUFFICES ASSUME PInv, [HNext]_hvars, NEW o \in Org, org'[o].code # org[o].code
               PROVE  \E r \in Request : /\ AboutToCommit(r, o) /\ req[r].code = org'[o].code
                                         /\ Fits(req[r].code, meanwhile[r])
    BY DEF Fits
  <2>1. [Next]_vars
    BY DEF HNext, hvars, vars
  <2>2. PICK r \in Request : AboutToCommit(r, o) /\ req[r].code = org'[o].code
    BY <2>1, CodeStep DEF PInv
  <2> QED
    BY <2>2 DEF PInv, PlansHold, AboutToCommit
<1> QED
  BY <1>1, PInvIsInductive, PTL DEF HSpec, AppliedToAPlanOfItsTime
=============================================================================
