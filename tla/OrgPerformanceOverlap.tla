------------------------ MODULE OrgPerformanceOverlap ------------------------
(***************************************************************************)
(* OrgPerformance and the history of the records two requests were at work *)
(* on at once, or one gave up on.  The history forbids no step: it lets a  *)
(* property say what becomes of a record that requests come to one by one, *)
(* whatever happens to the others.                                         *)
(***************************************************************************)
EXTENDS OrgPerformanceViews

VARIABLE disturbed

\* The records a request still has to write, and those it hangs them from.
Touched(r) ==
    LET Puts == Range(req[r].puts) IN
    {req[r].target} \cup req[r].dels
        \cup UNION {{p.id, p.rec.parent, p.rec.quarter} : p \in Puts}

Overlapping == Id \cap UNION {Touched(r) \cap UNION {Touched(s) : s \in Request \ {r}} : r \in Request}
GivenUp == Id \cap UNION {Touched(r) : r \in {s \in Request : faults' > faults /\ req'[s] # req[s]}}

HInit == Init /\ disturbed = {}
Remember == disturbed' = disturbed \cup Overlapping' \cup GivenUp
HNext == Next /\ Remember
HSpec == HInit /\ [][HNext]_<<vars, disturbed>>
-----------------------------------------------------------------------------
AboutToBeDeleted(i) == \E r \in Request : i \in req[r].dels

\* Whatever is under the key of a cycle is deleted with it, and every key result
\* with its OKR, unless it is about to be, or two requests worked on one of the
\* records of its path at once, or one gave up on it.
NothingIsLeftBehind ==
    \A i \in Id : Present(i) /\ Head(table[i].sk) # "GOAL" =>
        \/ \E n \in DOMAIN table[i].sk : table[i].sk[n] \in disturbed
        \/ AboutToBeDeleted(i)
        \/ Present(Head(table[i].sk)) /\ (i \in KeyResult => Present(table[i].parent))

Ancestors(i) == {table[i].quarter, table[i].parent} \cup (Range(table[i].sk) \ {"GOAL"})

\* The totals of a cycle are those of its lists, each of its KPIs is on track, at
\* risk or behind, and those shown for a quarter are the cycle's.
AnalyticsMatchLists ==
    \A c \in DOMAIN ListPerformanceCycles :
        LET a == ListPerformanceCycles[c].analytics IN
        /\ a.totalKPIs = Cardinality(DOMAIN ListKPIs(c, Every, Every))
        /\ a.totalKPIs = a.kpisOnTrack + a.kpisAtRisk + a.kpisBehind
        /\ a.totalOKRs = Cardinality(DOMAIN ListOKRs(c, Every))
        /\ \A q \in ListQuarters(c) : GetQuarterAnalytics(q) = a

\* Every record can be seen, wherever it should be: in the details of its cycle,
\* in the list, in the details of its KPI, OKR, quarter or goal, and in the totals.
\* A sub-KPI is in the details of the KPI it was made under and, in the list, below
\* the KPI its Data names, which may be another.  Only what hangs from a quarter or
\* a goal that is gone is hidden, and stays in the table.
EveryRecordIsShown ==
    /\ AnalyticsMatchLists
    /\ \A i \in Id : Present(i) /\ i \notin disturbed /\ Ancestors(i) \cap disturbed = {} =>
           LET rec == table[i]
               c == Head(rec.sk)
               Listed == ListPerformanceCycles IN
           \/ AboutToBeDeleted(i)
           \/ /\ i \in Cycle => i \in DOMAIN Listed
              /\ i \in Quarter => i \in Listed[c].quarters
              /\ i \in KPI =>
                    /\ i \in Listed[c].kpis /\ i \in DOMAIN ListKPIs(c, rec.quarter, rec.parentKpiId)
                    /\ rec.parent \in Listed[c].kpis => i \in GetKPIDetails(rec.parent).subKPIs
                    /\ rec.parentKpiId \in Listed[c].kpis =>
                          i \in ListKPIs(Every, Every, Every)[rec.parentKpiId]
                    /\ rec.quarter \in Listed[c].quarters => i \in GetQuarterDetails(rec.quarter).kpis
              /\ i \in OKR =>
                    /\ i \in Listed[c].okrs /\ i \in DOMAIN ListOKRs(c, rec.quarter)
                    /\ rec.quarter \in Listed[c].quarters => i \in GetQuarterDetails(rec.quarter).okrs
              /\ i \in KeyResult => /\ i \in GetOKRDetails(rec.parent)
                                    /\ i \in ListOKRs(c, Every)[rec.parent]
              /\ i \in KPIValue /\ Present(rec.parent) => i \in GetKPIDetails(rec.parent).valueHistory
              /\ i \in MeetingNote /\ Present(rec.quarter) =>
                    i \in ListMeetingNotes(rec.quarter) \cap GetQuarterDetails(rec.quarter).meetingNotes
              /\ c = "GOAL" /\ Present(rec.parent) =>
                    LET goal == GetGoalDetails(rec.parent, rec.owner) IN
                    /\ i \in GoalEntry => i \in goal.subItems
                    /\ i \in Task => i \in goal.privateTasks
                    /\ i \in Tag => i[2] \in goal.taggedTeams /\ i[1] \in GetTeamGoals(i[2])

\* The details of a KPI show the sub-KPIs that the list shows below it, of its cycle.
SubKPIsAgree ==
    \A k \in KPI : Present(k) =>
        GetKPIDetails(k).subKPIs = ListKPIs(Head(table[k].sk), Every, Every)[k]

\* A record that was deleted comes back only where two requests worked on it at
\* once: AddKPIValue and every update write what they read, whatever became of it.
Writes(r, i) == req[r].puts # <<>> /\ Head(req[r].puts).id = i /\ req'[r] # req[r]
DeletedStaysDeleted ==
    [][\A i \in Named \ disturbed, r \in Request :
          Writes(r, i) /\ Present(i)' => Present(i) \/ req[r].target # i]_vars

\* A change of one attribute keeps the others, whoever else is at work on other
\* records: only requests on the same record lose each other's changes.
PatchKeepsTheRest ==
    [][\A i \in Id \ disturbed : Present(i) /\ Present(i)' =>
          \E f \in {"owner", "value", "parentKpiId"} :
             table'[i] = [table[i] EXCEPT ![f] = table'[i][f]]]_vars
=============================================================================
