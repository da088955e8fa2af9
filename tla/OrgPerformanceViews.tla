------------------------- MODULE OrgPerformanceViews -------------------------
(***************************************************************************)
(* What the routes of org-performance that read answer, over the table     *)
(* OrgPerformance writes.  Every list is a query by a prefix of the sort   *)
(* key, or of all cycles or goals, and a filter in the program.  Texts,    *)
(* sorting and pages are left out.                                         *)
(***************************************************************************)
EXTENDS OrgPerformance

CONSTANT Target        \* targetValue of a KPI

\* Every filter a list knows may be absent.
Every == "every"

ASSUME FilterAssumption == Every \notin Cycle \cup Quarter \cup KPI /\ Target \in Nat

queryByPrefix(kind, sk) == {i \in kind : Present(i) /\ IsPrefix(sk, table[i].sk)}

\* The routes answer that nothing was found.
NotFound == None
-----------------------------------------------------------------------------
(* Cycles and quarters.                                                    *)

ListQuarters(c) == queryByPrefix(Quarter, <<c>>)

Progress(i) == IF Target > 0 THEN (100 * table[i].value) \div Target ELSE 0

\* The states of an OKR are left out: it counts.
GetCycleAnalytics(c) ==
    LET kpis == queryByPrefix(KPI, <<c>>) IN
    [totalKPIs |-> Cardinality(kpis),
     kpisOnTrack |-> Cardinality({k \in kpis : Progress(k) >= 90}),
     kpisAtRisk |-> Cardinality({k \in kpis : Progress(k) >= 60 /\ Progress(k) < 90}),
     kpisBehind |-> Cardinality({k \in kpis : Progress(k) < 60}),
     totalOKRs |-> Cardinality(queryByPrefix(OKR, <<c>>))]

GetPerformanceCycleDetails(c) ==
    [quarters |-> ListQuarters(c),
     kpis |-> queryByPrefix(KPI, <<c>>),
     okrs |-> queryByPrefix(OKR, <<c>>),
     analytics |-> GetCycleAnalytics(c)]

\* With all they include.
ListPerformanceCycles ==
    [c \in {c \in Cycle : Present(c)} |-> GetPerformanceCycleDetails(c)]

ListMeetingNotes(q) == queryByPrefix(MeetingNote, table[q].sk)

GetQuarterDetails(q) ==
    IF ~Present(q) THEN NotFound
    ELSE LET Of(kind) == {i \in queryByPrefix(kind, <<Head(table[q].sk)>>) : table[i].quarter = q} IN
         [kpis |-> Of(KPI), okrs |-> Of(OKR), meetingNotes |-> Of(MeetingNote)]

\* Those of the whole cycle, under the name of the quarter.
GetQuarterAnalytics(q) == GetCycleAnalytics(Head(table[q].sk))
-----------------------------------------------------------------------------
(* KPIs and OKRs.                                                          *)

OfCycle(i, c) == c = Every \/ Head(table[i].sk) = c
OfQuarter(i, q) == q = Every \/ table[i].quarter = q

\* The sub-KPIs of each, whatever cycle they are of: those whose Data names it.
ListKPIs(c, q, parent) ==
    LET kpis == {k \in KPI : Present(k) /\ OfCycle(k, c) /\ OfQuarter(k, q)} IN
    [k \in {k \in kpis : parent = Every \/ table[k].parentKpiId = parent} |->
        {sub \in kpis : table[sub].parentKpiId = k}]

\* Plausible error: sub-KPIs are looked for under the key of the KPI.
DetailsUnderKey(k) ==
    IF ~Present(k) THEN NotFound
    ELSE [subKPIs |-> queryByPrefix(KPI, table[k].sk) \ {k},
          valueHistory |-> queryByPrefix(KPIValue, table[k].sk)]

\* Those of its own cycle only, which were made under it.
GetKPIDetails(k) ==
    IF ~Present(k) THEN NotFound
    ELSE [subKPIs |-> {sub \in queryByPrefix(KPI, <<Head(table[k].sk)>>) : table[sub].parent = k},
          valueHistory |-> queryByPrefix(KPIValue, table[k].sk)]

getKeyResultsForOKR(o) == queryByPrefix(KeyResult, table[o].sk)

ListOKRs(c, q) ==
    [o \in {o \in OKR : Present(o) /\ OfCycle(o, c) /\ OfQuarter(o, q)} |-> getKeyResultsForOKR(o)]

GetOKRDetails(o) == IF ~Present(o) THEN NotFound ELSE getKeyResultsForOKR(o)
-----------------------------------------------------------------------------
(* Goals.  findGoalBase looks for a KPI and then for an OKR of that id.    *)

findGoalBase(g) == IF Present(g) THEN table[g] ELSE NotFound

OfGoals(kind, g) == queryByPrefix(kind, <<"GOAL", g>>)

GetGoalTeams(g) == {i[2] : i \in OfGoals(Tag, g)}
\* A goal's values and sub-items are one kind of entry here.
GetGoalValueHistory(g) == OfGoals(GoalEntry, g)
GetGoalSubItems(g) == OfGoals(GoalEntry, g)
GetGoalTasks(g, user) == {x \in OfGoals(Task, g) : table[x].owner = user}

GetGoalDetails(g, user) ==
    IF findGoalBase(g) = NotFound THEN NotFound
    ELSE [taggedTeams |-> GetGoalTeams(g),
          valueHistory |-> GetGoalValueHistory(g),
          subItems |-> GetGoalSubItems(g),
          privateTasks |-> GetGoalTasks(g, user)]

TaggedGoals(t) == {i[1] : i \in {x \in Tag : Present(x) /\ x[2] = t}}

\* The tags of a goal that is gone are passed over.
GetTeamGoals(t) == {g \in TaggedGoals(t) : findGoalBase(g) # NotFound}
=============================================================================
