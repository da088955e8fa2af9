-------------------------- MODULE MCOrgPerformance --------------------------
\* Small instances of OrgPerformance: one family of records at a time.
EXTENDS OrgPerformanceOverlap, TLC

CONSTANTS c1, q1, k1, k2, v1, o1, kr1, n1, e1, x1, t1, u2

VARIABLE family

\* A sub-KPI, a value, a task need a cycle and a KPI; in each family a deletion
\* and everything it may meet are possible.
Families == {{c1, q1, n1}, {c1, k1, k2}, {c1, k1, v1}, {c1, o1, kr1},
             {c1, q1, k1}, {c1, q1, o1},
             {c1, k1, e1}, {c1, k1, x1}, {c1, k1, <<k1, t1>>}}

MCPatch == {[field |-> "value", to |-> 1], [field |-> "owner", to |-> u2],
            [field |-> "parentKpiId", to |-> k1]}

\* Bound: no request begins once two have met or one has given up.
Begins == \E r \in Request : req[r] = Idle /\ req'[r] # Idle

\* Bound: it is k2 that a parent is named of, where k1 is in the family.
ParentsNamed == \A r \in Request : \A p \in Range(req'[r].puts) :
                    p.rec.parentKpiId # None => p.id = k2 /\ k1 \in family

MCInit == HInit /\ family \in Families
MCNext == /\ Next
          /\ \A r \in Request : Touched(r)' \cap Id \subseteq family
          /\ ParentsNamed
          /\ Remember
          /\ Begins => disturbed = {}
          /\ UNCHANGED family
MCSpec == MCInit /\ [][MCNext]_<<vars, family, disturbed>>

RequestSymmetry == Permutations(Request)
=============================================================================
