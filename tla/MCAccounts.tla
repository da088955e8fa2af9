------------------------------ MODULE MCAccounts ------------------------------
\* Small instances of Accounts: the profile, the stages or the sub-domains of one
\* account (one sub-domain of a supplier), which no action relates to others, with
\* what an addition may have lost.
EXTENDS AccountsOverlap, TLC

VARIABLES focus, account

mcVars == <<avars, focus, account, pools, disturbed>>

\* Bounds: a supplier has one sub-domain; one sub-domain at most loses its pool or fails.
MCInit == AHInit /\ focus \in {"profile", "stages", "subdomain"} /\ account \in Account

MCNext ==
    /\ ANext
    /\ focus # "profile" => profile' = profile
    /\ focus # "stages" => stages' = stages
    /\ focus # "subdomain" => subdomain' = subdomain
    /\ \A a \in Account \ {account} :
          /\ profile'[a] = profile[a]
          /\ \A n \in StageId : stages'[<<a, n>>] = stages[<<a, n>>]
          /\ \A s \in SubDomain : subdomain'[<<s, a>>] = subdomain[<<s, a>>]
    /\ account \in Supplier => Cardinality({k \in DomainKey : subdomain'[k] # Absent}) <= 1
    /\ ARemember
    /\ Cardinality(disturbed') <= 1
    /\ UNCHANGED <<focus, account>>

Symmetry == Permutations(AdminRequest) \cup Permutations(Pool) \cup Permutations(Admin)
            \cup Permutations(SubDomain)

MCSpec == MCInit /\ [][MCNext]_mcVars
=============================================================================
