--------------------------- MODULE AccountsOverlap ---------------------------
(***************************************************************************)
(* Accounts, with the user pools a sub-domain ever had and the sub-domains *)
(* that lost what they had: whose pool was taken away or replaced, or on   *)
(* which an addition failed, which its caller is not told.  The history    *)
(* forbids no step: it lets a property say what holds of the users and of  *)
(* the administrators of all the others.                                   *)
(***************************************************************************)
EXTENDS Accounts

VARIABLES pools,        \* the user pools a sub-domain ever had
          disturbed     \* sub-domains that lost their pool, or left by a failed addition

AHInit == /\ AInit
          /\ pools = [k \in DomainKey |-> {}]
          /\ disturbed = {}

PoolOf(k) == IF subdomain[k] = Absent THEN {} ELSE {subdomain[k].pool} \ {Absent}

ARemember ==
    /\ pools' = [k \in DomainKey |-> pools[k] \cup PoolOf(k)']
    /\ disturbed' = disturbed
          \cup {k \in DomainKey : ~(PoolOf(k) \subseteq PoolOf(k)')}
          \cup {addition[r].key : r \in {s \in AdminRequest : failures' > failures /\ addition'[s] # addition[s]}}

AHNext == ANext /\ ARemember
AHSpec == AHInit /\ [][AHNext]_<<avars, pools, disturbed>>
-----------------------------------------------------------------------------
GetSubDomains == {k \in DomainKey : subdomain[k] # Absent}

\* The sub-domains that ever had a user pool.
Shared(p) == {k \in DomainKey : p \in pools[k]}

\* The users created for a sub-domain that are still to be listed there.
AboutToList(k) == {r \in AdminRequest : addition[r] # Absent /\ addition[r].key = k /\ addition[r].at = "record"}

\* Administrators and users agree, whichever calls overlap.  Who is listed has a user
\* in a pool that was the sub-domain's; and a user that was created for a sub-domain
\* is listed there, once, or is about to be, unless the sub-domain was put again, given
\* another stack, or the update failed, which nobody is told.
AdminsMatchUsers ==
    /\ \A k \in GetSubDomains : \A admin \in Range(subdomain[k].admins) :
          \E p \in pools[k] : admin \in users[p]
    /\ \A k \in GetSubDomains \ disturbed :
          LET Listed == Range(subdomain[k].admins)
              Awaited == {addition[r].admin : r \in AboutToList(k)}
          IN /\ IsInjective(subdomain[k].admins)
             /\ Listed \cap Awaited = {}
             /\ \A p \in PoolOf(k) : Shared(p) = {k} => users[p] = Listed \cup Awaited
=============================================================================
