------------------------ MODULE SubscriptionsOverlap ------------------------
(***************************************************************************)
(* Subscriptions and two histories: the organizations two applications     *)
(* were about to commit to at once, each with the trial it had read, and   *)
(* the plans an organization had since an application for it began.  They  *)
(* forbid no step: they let properties say what applications are worth     *)
(* that do not meet, and how old what an application checked may be.       *)
(***************************************************************************)
EXTENDS SubscriptionsViews

VARIABLES overlapped,  \* organizations at which two applications met
          meanwhile    \* the plans of its organization since a request began

hvars == <<vars, overlapped, meanwhile>>

AboutToCommit(r, o) == req[r].pc = "commit" /\ req[r].org = o
Overlapping(o) == \E r, s \in Request : r # s /\ AboutToCommit(r, o) /\ AboutToCommit(s, o)

HInit == Init /\ overlapped = {} /\ meanwhile = [r \in Request |-> {}]
HNext == /\ Next
         /\ overlapped' = overlapped \cup {o \in Org : Overlapping(o)'}
         /\ meanwhile' = [r \in Request |-> IF req'[r] = Idle THEN {}
                                           ELSE meanwhile[r] \cup {org'[req'[r].org].plan}]
HSpec == HInit /\ [][HNext]_hvars
-----------------------------------------------------------------------------
\* "Extended if promo includes trial days": while an organization is in its trial no
\* step brings the end of the trial forward, whatever plans are bought meanwhile,
\* unless two applications have read the same trial to extend.
TrialNeverShortenedUnlessOverlapped ==
    [][\A o \in Org \ overlapped : org[o].status = "TRIAL" /\ org'[o].status = "TRIAL" =>
          org'[o].trialEnd >= org[o].trialEnd]_vars

\* "promo code not applicable to current plan": the transaction no longer asks, and the
\* plan may have been replaced; but a code an organization begins to show was applied by a
\* request during which the organization had a plan that the code applies to.
AppliedToAPlanOfItsTime ==
    [][\A o \in Org : org'[o].code # org[o].code =>
          \E r \in Request : /\ AboutToCommit(r, o) /\ req[r].code = org'[o].code
                            /\ \/ Offer[req[r].code].plans = {}
                               \/ Offer[req[r].code].plans \cap meanwhile[r] # {}]_hvars
=============================================================================
