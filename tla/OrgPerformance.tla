--------------------------- MODULE OrgPerformance ---------------------------
(***************************************************************************)
(* Performance cycles of an organization, with their quarters, KPIs, OKRs  *)
(* and notes: PerformanceService behind the handler of org-performance.    *)
(*                                                                         *)
(* All records share one table.  A sort key is a path: a record of a cycle *)
(* is under the key of the cycle, what is attached to a goal (a KPI or an  *)
(* OKR) is under a key of its own that names the goal.  A request reads a  *)
(* record by its id and then writes one record per call; no write has a    *)
(* condition, and a change writes back the whole record that was read.     *)
(* The handler's own first read of the same record, which only decides on  *)
(* a 404, is merged with the service's.                                    *)
(***************************************************************************)
EXTENDS Naturals, Sequences, SequencesExt, FiniteSets

CONSTANTS Cycle, Quarter, KPI, KPIValue, OKR, KeyResult, MeetingNote,
          GoalEntry,    \* value entries and sub-items of a goal
          Task,         \* a user's private tasks for a goal
          Team, User,
          Patch,        \* changes a request may ask for, [field, to]
          Request,      \* requests in flight
          MaxFaults,    \* bound: calls that return an error, or the last of a request
          None          \* no record, and no quarter, parent or owner

Goal == KPI \cup OKR
Tag == Goal \X Team
Named == Cycle \cup Quarter \cup KPI \cup KPIValue \cup OKR \cup KeyResult
         \cup MeetingNote \cup GoalEntry \cup Task
Id == Named \cup Tag

Kinds == <<Cycle, Quarter, KPI, KPIValue, OKR, KeyResult, MeetingNote, GoalEntry, Task, Tag>>

\* Ids and keys begin with the name of their kind.
ASSUME KindAssumption == /\ \A m, n \in DOMAIN Kinds : m # n => Kinds[m] \cap Kinds[n] = {}
                         /\ Named \cap (Team \cup {"GOAL"}) = {}
\* The owner is an attribute of its own, every other change goes into Data: that of
\* a KPI's parentKpiId too, which leaves ParentId as it is.
ASSUME PatchAssumption == Patch \subseteq [field : {"owner"}, to : User] \cup [field : {"value"}, to : 0..1]
                                            \cup [field : {"parentKpiId"}, to : KPI]
\* A table holds finitely many records.
ASSUME FiniteAssumption == IsFiniteSet(KPI) /\ IsFiniteSet(KeyResult)
ASSUME BoundAssumption == MaxFaults \in Nat

VARIABLES table,     \* the record of each id, or None
          created,   \* ids given out: generateID never repeats one
          req,       \* the request each invocation is at work on
          faults

vars == <<table, created, req, faults>>

\* Of the attributes: QuarterId, ParentId, Owner; of those in Data, a KPI's parentKpiId
\* and a value.
Record == [sk : Seq(Named \cup Team \cup {"GOAL"}), quarter : Quarter \cup {None},
           parent : Goal \cup {None}, parentKpiId : KPI \cup {None},
           owner : User \cup {None}, value : 0..1]

ASSUME NoneAssumption == None \notin Id \cup Record

Idle == [target |-> None, at |-> <<>>, puts |-> <<>>, dels |-> {}, then |-> "end"]
InFlight == [target : Id \cup {None}, at : Seq(Named \cup Team \cup {"GOAL"}), puts : Seq([id : Id, rec : Record]),
             dels : SUBSET Id, then : {"related", "subs", "below", "record", "end"}]

\* Every record in the table, read, about to be put or deleted has a record's shape.
TypeOK == /\ table \in [Id -> Record \cup {None}]
          /\ created \subseteq Named
          /\ req \in [Request -> InFlight]
          /\ faults \in 0..MaxFaults

Init == /\ table = [i \in Id |-> None]
        /\ created = {}
        /\ req = [r \in Request |-> Idle]
        /\ faults = 0
-----------------------------------------------------------------------------
Present(i) == table[i] # None
Fresh(ids) == ids \cap created = {}

\* getRecordByGSI1 has found the target; what is left are the writes and, for
\* a deletion, the query that comes next.
Begin(r, target, puts, then) ==
    /\ req[r] = Idle
    /\ req' = [req EXCEPT ![r] = [target |-> target, puts |-> puts, dels |-> {}, then |-> then,
                                  at |-> IF target \in Id /\ Present(target)
                                           THEN table[target].sk ELSE <<>>]]
    /\ UNCHANGED <<table, faults>>

Create(r, target, puts) ==
    LET ids == ({puts[n].id : n \in DOMAIN puts} \cap Named) \ {target} IN
    /\ Fresh(ids)
    /\ created' = created \cup ids
    /\ Begin(r, target, puts, "end")

Change(r, target, puts, then) == Begin(r, target, puts, then) /\ UNCHANGED created

New(i, sk, parent, owner) ==
    [id |-> i, rec |-> [sk |-> sk, quarter |-> None, parent |-> parent, parentKpiId |-> None,
                          owner |-> owner, value |-> 0]]

NewIn(i, sk, quarter, parent) == [New(i, sk, parent, None) EXCEPT !.rec.quarter = quarter]

\* Plausible error: a change that builds the record anew.
patchRecordAnew(rec, patch) == [rec EXCEPT !.owner = None, !.value = 0, !.parentKpiId = None, ![patch.field] = patch.to]

patchRecord(rec, patch) == [rec EXCEPT ![patch.field] = patch.to]

Update(r, i, patch) ==
    /\ Present(i)
    /\ Change(r, i, <<[id |-> i, rec |-> patchRecord(table[i], patch)]>>, "end")

Delete(r, i, first) == Present(i) /\ Change(r, i, <<>>, first)
-----------------------------------------------------------------------------
(* Cycles, quarters and the notes of their meetings.                       *)

CreatePerformanceCycle(r, c) ==
    Create(r, None, <<New(c, <<c>>, None, None)>>)

UpdatePerformanceCycle(r, c, patch) == Update(r, c, patch)
DeletePerformanceCycle(r, c) == Delete(r, c, "related")

CreateQuarter(r, c, q) ==
    Present(c) /\ Create(r, c, <<New(q, <<c, q>>, None, None)>>)

UpdateQuarter(r, q, patch) == Update(r, q, patch)

\* Not the notes under its key, nor the KPIs and OKRs that name it.
DeleteQuarter(r, q) == Delete(r, q, "record")

CreateMeetingNote(r, q, n) ==
    Present(q) /\ Create(r, q, <<NewIn(n, Append(table[q].sk, n), q, None)>>)

UpdateMeetingNote(r, n, patch) == Update(r, n, patch)
DeleteMeetingNote(r, n) == Delete(r, n, "record")

Cycles(r) ==
    \E c \in Cycle : \/ CreatePerformanceCycle(r, c)
                     \/ \E patch \in Patch : UpdatePerformanceCycle(r, c, patch)
                     \/ DeletePerformanceCycle(r, c)
                     \/ \E q \in Quarter : CreateQuarter(r, c, q)

Quarters(r) ==
    \E q \in Quarter : \/ \E patch \in Patch : UpdateQuarter(r, q, patch)
                       \/ DeleteQuarter(r, q)
                       \/ \E n \in MeetingNote : CreateMeetingNote(r, q, n)

MeetingNotes(r) ==
    \E n \in MeetingNote : \/ \E patch \in Patch : UpdateMeetingNote(r, n, patch)
                           \/ DeleteMeetingNote(r, n)
-----------------------------------------------------------------------------
(* KPIs and their values, OKRs and their key results.                      *)

\* The cycle is looked up; the quarter the body names is not.  The body goes into Data
\* with the parentKpiId it may name, which is ParentId on the route of sub-KPIs only.
CreateKPI(r, c, k, quarter, parent, named) ==
    Present(c) /\ Create(r, c, <<[NewIn(k, <<c, k>>, quarter, parent) EXCEPT
                                    !.rec.parentKpiId = IF parent = None THEN named ELSE parent]>>)

\* The handler has found the parent; the cycle is again that of the body.
CreateSubKPI(r, parent, c, k, quarter) ==
    Present(parent) /\ CreateKPI(r, c, k, quarter, parent, parent)

\* Plausible error: a KPI that is gone is put, not refused.
UpdateOrPutKPI(r, k, patch) ==
    /\ k \in created
    /\ Change(r, k, <<IF Present(k) THEN [id |-> k, rec |-> patchRecord(table[k], patch)]
                       ELSE New(k, <<k>>, None, None)>>, "end")

UpdateKPI(r, k, patch) == Update(r, k, patch)

\* Sub-KPIs one level down, then the values of the KPI, then the KPI.
DeleteKPI(r, k, deleteSubKPIs) == Delete(r, k, IF deleteSubKPIs THEN "subs" ELSE "below")

\* The value goes into the history, then into the KPI as it was read before.
AddKPIValue(r, k, v, value) ==
    /\ Present(k)
    /\ LET entry == NewIn(v, Append(table[k].sk, v), table[k].quarter, k) IN
       Create(r, k, <<[entry EXCEPT !.rec.value = value],
                      [id |-> k, rec |-> patchRecord(table[k], [field |-> "value", to |-> value])]>>)

CreateOKR(r, c, o, quarter, keyResults) ==
    /\ Present(c)
    /\ Create(r, c, <<NewIn(o, <<c, o>>, quarter, None)>> \o
                    SetToSeq({NewIn(kr, <<c, o, kr>>, quarter, o) : kr \in keyResults}))

UpdateOKR(r, o, patch) == Update(r, o, patch)
UpdateKeyResult(r, kr, patch) == Update(r, kr, patch)
DeleteOKR(r, o) == Delete(r, o, "below")

KPIs(r) ==
    \E k \in KPI :
        \/ \E c \in Cycle, quarter \in Quarter \cup {None} :
              \/ \E named \in (KPI \cap created) \cup {None} : CreateKPI(r, c, k, quarter, None, named)
              \/ \E parent \in KPI : CreateSubKPI(r, parent, c, k, quarter)
        \/ \E patch \in Patch : UpdateKPI(r, k, patch)
        \/ \E deleteSubKPIs \in BOOLEAN : DeleteKPI(r, k, deleteSubKPIs)
        \/ \E v \in KPIValue, value \in 0..1 : AddKPIValue(r, k, v, value)

OKRs(r) ==
    \/ \E o \in OKR :
          \/ \E c \in Cycle, quarter \in Quarter \cup {None}, keyResults \in SUBSET KeyResult :
                CreateOKR(r, c, o, quarter, keyResults)
          \/ \E patch \in Patch : UpdateOKR(r, o, patch)
          \/ DeleteOKR(r, o)
    \/ \E kr \in KeyResult, patch \in Patch : UpdateKeyResult(r, kr, patch)
-----------------------------------------------------------------------------
(* What is attached to a goal.                                             *)

OfGoal(g, i) == <<"GOAL", g, i>>

UpdateGoal(r, g, patch) == Update(r, g, patch)

AddGoalValueEntry(r, g, e) ==
    Present(g) /\ Create(r, g, <<New(e, OfGoal(g, e), g, None)>>)

AddGoalSubItem(r, g, e) == AddGoalValueEntry(r, g, e)
UpdateSubItem(r, e, patch) == Update(r, e, patch)
DeleteSubItem(r, e) == Delete(r, e, "record")

\* A tag is put again when it is there already.
TagTeamToGoal(r, g, t) ==
    Present(g) /\ Create(r, g, <<New(<<g, t>>, OfGoal(g, t), g, None)>>)

RemoveGoalTeam(r, g, t) == Present(g) /\ Delete(r, <<g, t>>, "record")

CreateGoalTask(r, g, x, user) ==
    Present(g) /\ Create(r, g, <<New(x, OfGoal(g, x), g, user)>>)

Own(g, x, user) == Present(x) /\ table[x].owner = user /\ table[x].parent = g

\* The patch may name another owner.
UpdateGoalTask(r, g, x, user, patch) == Own(g, x, user) /\ Update(r, x, patch)
DeleteGoalTask(r, g, x, user) == Own(g, x, user) /\ Delete(r, x, "record")

Goals(r) ==
    \/ \E g \in Goal : \/ \E patch \in Patch : UpdateGoal(r, g, patch)
                       \/ \E e \in GoalEntry : AddGoalSubItem(r, g, e)
                       \/ \E t \in Team : TagTeamToGoal(r, g, t) \/ RemoveGoalTeam(r, g, t)
    \/ \E e \in GoalEntry : \/ \E patch \in Patch : UpdateSubItem(r, e, patch)
                            \/ DeleteSubItem(r, e)

GoalTasks(r) ==
    \E g \in Goal, x \in Task, user \in User :
        \/ CreateGoalTask(r, g, x, user)
        \/ \E patch \in Patch : UpdateGoalTask(r, g, x, user, patch)
        \/ DeleteGoalTask(r, g, x, user)
-----------------------------------------------------------------------------
(* The calls that follow.                                                  *)

Continue(r, q) ==
    req' = [req EXCEPT ![r] =
               IF q.puts = <<>> /\ q.dels = {} /\ q.then = "end" THEN Idle ELSE q]

putRecord(r) ==
    LET q == req[r] IN
    /\ q.puts # <<>>
    /\ table' = [table EXCEPT ![Head(q.puts).id] = Head(q.puts).rec]
    /\ Continue(r, [q EXCEPT !.puts = Tail(@)])
    /\ UNCHANGED <<created, faults>>

\* In the order of the sort keys: a record before those under its key.
NextDeleted(r) ==
    {i \in req[r].dels : \A j \in req[r].dels \ {i} :
        Present(i) /\ Present(j) => ~IsPrefix(table[j].sk, table[i].sk)}

deleteRecord(r) ==
    \E i \in NextDeleted(r) :
        /\ table' = [table EXCEPT ![i] = None]
        /\ Continue(r, [req[r] EXCEPT !.dels = @ \ {i}])
        /\ UNCHANGED <<created, faults>>

Below(sk) == {i \in Id : Present(i) /\ IsStrictPrefix(sk, table[i].sk)}

\* Plausible error: a deletion that looks for nothing under its record's key.
RelatedAlone(q) ==
    IF q.then = "record" \/ (q.then = "related" /\ Present(q.target)) THEN {q.target} ELSE {}

\* queryByOrgPrefix: once what the query before it found is deleted.
Related(q) ==
    CASE q.then = "related" -> Below(q.at) \cup {i \in {q.target} : Present(i)}
      [] q.then = "subs" -> {k \in KPI : Present(k) /\ table[k].parent = q.target
                                                    /\ Head(table[k].sk) = Head(q.at)}
      [] q.then = "below" -> Below(q.at)
      [] q.then = "record" -> {q.target}

After == [related |-> "record", subs |-> "below", below |-> "record", record |-> "end"]

queryByOrgPrefix(r) ==
    LET q == req[r] IN
    /\ q.puts = <<>> /\ q.dels = {} /\ q.then # "end"
    /\ Continue(r, [q EXCEPT !.dels = Related(q), !.then = After[q.then]])
    /\ UNCHANGED <<table, created, faults>>

\* What is below a KPI or an OKR is deleted as well as it can be.
Swallowed(r) == req[r].target \in Goal /\ req[r].then = "record"

FailedDelete(r) ==
    /\ Swallowed(r)
    /\ \E i \in NextDeleted(r) : Continue(r, [req[r] EXCEPT !.dels = @ \ {i}])

FailedQuery(r) ==
    /\ req[r].target \in Goal /\ req[r].then = "below" /\ req[r].dels = {}
    /\ Continue(r, [req[r] EXCEPT !.then = "record"])

\* Any other error ends the request, and so does its death.
GiveUp(r) == req[r] # Idle /\ req' = [req EXCEPT ![r] = Idle]

Fail(r) ==
    /\ faults < MaxFaults /\ faults' = faults + 1
    /\ FailedDelete(r) \/ FailedQuery(r) \/ GiveUp(r)
    /\ UNCHANGED <<table, created>>
-----------------------------------------------------------------------------
HandleWithGroup(r) ==
    Cycles(r) \/ Quarters(r) \/ MeetingNotes(r) \/ KPIs(r) \/ OKRs(r) \/ Goals(r) \/ GoalTasks(r)

Next == \E r \in Request :
            HandleWithGroup(r) \/ putRecord(r) \/ deleteRecord(r) \/ queryByOrgPrefix(r) \/ Fail(r)

Spec == Init /\ [][Next]_vars
-----------------------------------------------------------------------------
\* "delete cycle (with related data cleanup)": once its cycle is deleted, and no
\* request is at work, nothing of a goal of that cycle is left.
CleanupIsComplete ==
    (\A r \in Request : req[r] = Idle) =>
        \A i \in Id : Present(i) /\ Head(table[i].sk) = "GOAL" => Present(table[i].parent)
=============================================================================
