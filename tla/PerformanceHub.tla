---------------------------- MODULE PerformanceHub ----------------------------
(***************************************************************************)
(* What a user keeps in the performance hub of a team (goals, tasks,       *)
(* meetings, requests for feedback) and what others add to it: the Service *)
(* behind my-performance-hub.                                              *)
(*                                                                         *)
(* Nothing is ever deleted, and every write is a put without a condition,  *)
(* except updateTask and the task counter, which change attributes in      *)
(* place.  A request that reads first keeps its writes in req meanwhile.   *)
(* fetchGoal returns neither a goal nor an error for a goal that does not  *)
(* exist, so what follows it is done whatever it finds; updateGoal alone   *)
(* uses what it returns, and dies.                                         *)
(***************************************************************************)
EXTENDS Naturals, Sequences, FiniteSets, Functions

CONSTANTS User, Team, Goal,
          Uuid,        \* ids of tasks that are not numbered
          MaxNumber,   \* bound: tasks numbered in a team
          GoalType,    \* the code knows "okr" and "kpi" and accepts any other
          Request,     \* requests in flight
          MaxFaults,   \* bound: calls that return an error, or the last of a request
          None

Partition == User \X Team
Number == 1..MaxNumber
TaskId == Uuid \cup Number
Status == {"todo", "in-progress", "done", "closed"}

VARIABLES goals, tasks, comments,
          notes,      \* meetings, requests for feedback and remarks of managers
          counter,    \* taskCounter of a team
          req,        \* the writes a request has left
          faults

vars == <<goals, tasks, comments, notes, counter, req, faults>>

GoalStatus == {"on-track", "completed"}
GoalRecord == [type : GoalType, progress : 0..1, status : GoalStatus]
TaskRecord == [goal : Goal \cup {None}, status : Status \cup {None}, done : BOOLEAN,
               number : Number \cup {0}]
\* Ids are drawn as UUIDs and numbers are counted; what is absent is none of what can be stored.
ASSUME IdAssumption == Uuid \cap Number = {}
ASSUME BoundAssumption == MaxNumber \in Nat /\ MaxFaults \in Nat
ASSUME NoneAssumption == None \notin GoalRecord \cup TaskRecord \cup Status

Comment == [of : Partition, goal : Goal, author : User, role : {"member", "manager"}]
Note == [of : Partition, author : User, kind : {"meeting", "feedback", "remark"}]

PutRequest == [item : {"goal"}, of : Partition, id : Goal, rec : GoalRecord]
         \cup [item : {"task"}, of : Partition, id : TaskId, rec : TaskRecord]
         \cup [item : {"comment"}, rec : Comment]
         \cup [item : {"note"}, rec : Note]

\* Goals, tasks and what hangs from them have the shape the code gives them.
TypeOK == /\ goals \in [Partition -> [Goal -> GoalRecord \cup {None}]]
          /\ tasks \in [Partition -> [TaskId -> TaskRecord \cup {None}]]
          /\ comments \subseteq Comment
          /\ notes \subseteq Note
          /\ counter \in [Team -> 0..MaxNumber]
          /\ req \in [Request -> Seq(PutRequest)]
          /\ faults \in 0..MaxFaults

Init == /\ goals = [p \in Partition |-> [g \in Goal |-> None]]
        /\ tasks = [p \in Partition |-> [x \in TaskId |-> None]]
        /\ comments = {} /\ notes = {}
        /\ counter = [t \in Team |-> 0]
        /\ req = [r \in Request |-> <<>>]
        /\ faults = 0
-----------------------------------------------------------------------------
(* What a request writes, once it has read what it needs.                  *)

Begin(r, puts) ==
    /\ req[r] = <<>>
    /\ req' = [req EXCEPT ![r] = puts]
    /\ UNCHANGED <<goals, tasks, comments, notes, faults>>

Send(r, puts) == Begin(r, puts) /\ UNCHANGED counter

Unused(x) == \A p \in Partition : tasks[p][x] = None

Pending == UNION {Range(req[r]) : r \in Request}

createGoal(r, p, g, type, status) ==
    /\ \A o \in Partition : goals[o][g] = None
    /\ \A put \in Pending : put.item = "goal" => put.id # g
    /\ Send(r, <<[item |-> "goal", of |-> p, id |-> g,
                  rec |-> [type |-> type, progress |-> 0, status |-> status]]>>)

\* Plausible error: a goal is built anew from the body.
patchedGoalAnew(goal, patch) ==
    [[type |-> "growth", progress |-> 0, status |-> "on-track"] EXCEPT ![patch.field] = patch.to]

patchedGoal(goal, patch) == [goal EXCEPT ![patch.field] = patch.to]

TaskOfGoal(p, g, x, done) ==
    [item |-> "task", of |-> p, id |-> x,
     rec |-> [goal |-> g, status |-> None, done |-> done, number |-> 0]]

\* The goal as it was read, with the attribute changed; then each task of the body
\* under the id it has there, whose ever that is or nobody's yet (a uuid for none),
\* without what the body does not give.
updateGoal(r, p, g, patch, linkedTasks) ==
    /\ goals[p][g] # None
    /\ Send(r, <<[item |-> "goal", of |-> p, id |-> g, rec |-> patchedGoal(goals[p][g], patch)]>>
               \o [n \in DOMAIN linkedTasks |-> TaskOfGoal(p, g, linkedTasks[n].id, linkedTasks[n].done)])

addLinkedTask(r, p, g, x) ==
    /\ Unused(x)
    /\ Send(r, <<TaskOfGoal(p, g, x, FALSE)>>)

writeGoalComment(r, p, g, author, role) ==
    Send(r, <<[item |-> "comment", rec |-> [of |-> p, goal |-> g, author |-> author, role |-> role]]>>)

addGoalComment(r, p, g) == writeGoalComment(r, p, g, p[1], "member")

\* GetTeamMemberDetails reports no error for a user who is no member, and nothing
\* but the error is looked at.
assertTeamMember(p, user) == user \in User

\* Plausible error: fetchGoal, which reports no error for a goal that is absent.
GoalFetched(p, g) == goals[p] # None

GoalOfMember(p, g) == goals[p][g] # None

addManagerGoalComment(r, p, g, manager) ==
    /\ assertTeamMember(p, manager)
    /\ GoalOfMember(p, g)
    /\ writeGoalComment(r, p, g, manager, "manager")

Write(r, p, author, kind) ==
    Send(r, <<[item |-> "note", rec |-> [of |-> p, author |-> author, kind |-> kind]]>>)

addManagerComment(r, p, manager) == assertTeamMember(p, manager) /\ Write(r, p, manager, "remark")
createMeeting(r, p) == Write(r, p, p[1], "meeting")
sendFeedbackRequest(r, p) == Write(r, p, p[1], "feedback")
-----------------------------------------------------------------------------
(* Tasks on their own.                                                     *)

Finished == {"done", "closed"}

\* Plausible error: the tasks of the team are counted.
numberOfTasks(t) ==
    1 + Cardinality({k \in Partition \X Number : k[1][2] = t /\ tasks[k[1]][k[2]] # None})

\* ADD taskCounter 1, whose answer is the number.
nextTaskNumber(t) == counter[t] + 1

\* A number is spent when the put that should use it fails.
createTask(r, p, goal, status) ==
    LET n == nextTaskNumber(p[2]) IN
    /\ n \in Number
    /\ counter' = [counter EXCEPT ![p[2]] = n]
    /\ Begin(r, <<[item |-> "task", of |-> p, id |-> n,
                   rec |-> [goal |-> goal, status |-> status, done |-> status \in Finished, number |-> n]]>>)

\* Plausible error: done is forgotten.
WithStatusAlone(task, status) == [task EXCEPT !.status = status]

\* "status and done are synced bidirectionally"
WithStatus(task, status) == [task EXCEPT !.status = status, !.done = status \in Finished]
WithDone(task, done) == [task EXCEPT !.done = done, !.status = IF done THEN "done" ELSE "todo"]
WithGoal(task, goal) == [task EXCEPT !.goal = goal]

updateTask(p, x) ==
    /\ tasks[p][x] # None
    /\ \E task \in {WithStatus(tasks[p][x], status) : status \in Status}
                   \cup {WithDone(tasks[p][x], done) : done \in BOOLEAN}
                   \cup {WithGoal(tasks[p][x], goal) : goal \in Goal \cup {None}} :
          tasks' = [tasks EXCEPT ![p][x] = task]
    /\ UNCHANGED <<goals, comments, notes, counter, req, faults>>
-----------------------------------------------------------------------------
(* The writes, one by one.                                                 *)

Done(r) == req' = [req EXCEPT ![r] = Tail(@)] /\ UNCHANGED <<counter, faults>>

PutGoal(r) ==
    /\ Head(req[r]).item = "goal"
    /\ goals' = [goals EXCEPT ![Head(req[r]).of][Head(req[r]).id] = Head(req[r]).rec]
    /\ UNCHANGED <<tasks, comments, notes>>

PutTask(r) ==
    /\ Head(req[r]).item = "task"
    /\ tasks' = [tasks EXCEPT ![Head(req[r]).of][Head(req[r]).id] = Head(req[r]).rec]
    /\ UNCHANGED <<goals, comments, notes>>

PutComment(r) ==
    /\ Head(req[r]).item = "comment"
    /\ comments' = comments \cup {Head(req[r]).rec}
    /\ UNCHANGED <<goals, tasks, notes>>

PutNote(r) ==
    /\ Head(req[r]).item = "note"
    /\ notes' = notes \cup {Head(req[r]).rec}
    /\ UNCHANGED <<goals, tasks, comments>>

PutItem(r) ==
    /\ req[r] # <<>>
    /\ PutGoal(r) \/ PutTask(r) \/ PutComment(r) \/ PutNote(r)
    /\ Done(r)

\* The put of a task of a goal may fail without notice, after that of the goal;
\* any other failure, and the death of the invocation, ends the request.
Fail(r) ==
    /\ req[r] # <<>> /\ faults < MaxFaults
    /\ faults' = faults + 1
    /\ \/ req' = [req EXCEPT ![r] = <<>>]
       \/ /\ Head(req[r]).item = "task" /\ Head(req[r]).rec.number = 0
          /\ req' = [req EXCEPT ![r] = Tail(@)]
    /\ UNCHANGED <<goals, tasks, comments, notes, counter>>
-----------------------------------------------------------------------------
GoalPatch == [field : {"progress"}, to : 0..1] \cup [field : {"status"}, to : GoalStatus]

\* Bound: a body lists one task at most.
TaskList == {<<>>} \cup {<<x>> : x \in [id : TaskId, done : BOOLEAN]}

handleGoals(r, p) ==
    \E g \in Goal :
        \/ \E type \in GoalType, status \in GoalStatus : createGoal(r, p, g, type, status)
        \/ \E patch \in GoalPatch, linkedTasks \in TaskList : updateGoal(r, p, g, patch, linkedTasks)
        \/ addGoalComment(r, p, g)
        \/ \E x \in Uuid : addLinkedTask(r, p, g, x)

handleTasks(r, p) ==
    \/ \E goal \in Goal \cup {None}, status \in Status : createTask(r, p, goal, status)
    \/ \E x \in TaskId : updateTask(p, x)

handleMe(r, p) == handleGoals(r, p) \/ handleTasks(r, p) \/ createMeeting(r, p) \/ sendFeedbackRequest(r, p)

handleTeamPerformance(r, p) ==
    \E manager \in User : \/ \E g \in Goal : addManagerGoalComment(r, p, g, manager)
                          \/ addManagerComment(r, p, manager)

Next == \E r \in Request : \/ \E p \in Partition : handleMe(r, p) \/ handleTeamPerformance(r, p)
                           \/ PutItem(r) \/ Fail(r)

Spec == Init /\ [][Next]_vars
-----------------------------------------------------------------------------
(* What the routes that read answer.  No filter is Every.              *)

Every == "every"

\* The tasks of a user: with no goal, of one goal or any; done or not or either;
\* of one status or any.
listAllTasks(p, goal, done, status) ==
    {x \in TaskId : LET task == tasks[p][x] IN
        /\ task # None
        /\ goal = Every \/ task.goal = goal
        /\ done = Every \/ task.done = (done = "true")
        /\ status = Every \/ task.status = status}

fetchLinkedTasks(p, g) == {x \in TaskId : tasks[p][x] # None /\ tasks[p][x].goal = g}
fetchGoalComments(p, g) == {c \in comments : c.of = p /\ c.goal = g}

listGoals(p) ==
    [g \in {g \in Goal : goals[p][g] # None} |->
        [goal |-> goals[p][g], tasks |-> fetchLinkedTasks(p, g), comments |-> fetchGoalComments(p, g)]]

\* The split a manager sees, of the types the code knows.  It is written out twice,
\* once for the route of its own and once for the summary, as are the meetings.
fetchMemberGoalsSplit(p) ==
    LET Of(type) == {g \in Goal : goals[p][g] # None /\ goals[p][g].type = type} IN
    [okrs |-> Of("okr"), kpis |-> Of("kpi")]

fetchManagerComments(p) == {n \in notes : n.of = p /\ n.kind = "remark"}
listMeetings(p) == {n \in notes : n.of = p /\ n.kind = "meeting"}
listFeedbackRequests(p) == {n \in notes : n.of = p /\ n.kind = "feedback"}
fetchMemberMeetingsList(p) == listMeetings(p)

getMemberGoalsForManager(p) == fetchMemberGoalsSplit(p)
getMemberMeetingsForManager(p) == listMeetings(p)
getMemberComments(p) == fetchManagerComments(p)

getMemberPerformanceSummary(p) ==
    [goals |-> fetchMemberGoalsSplit(p), meetings |-> fetchMemberMeetingsList(p), comments |-> fetchManagerComments(p)]
-----------------------------------------------------------------------------
\* The two filters of a list agree on every task that has a status: those done are
\* those with the status done or closed.
FiltersAgree ==
    \A p \in Partition, status \in Status :
        listAllTasks(p, Every, "true", status) =
            IF status \in Finished THEN listAllTasks(p, Every, Every, status) ELSE {}

\* What a manager wrote on a goal is shown with the goal, which is one of the member
\* it was written to: the goal is looked for first, and nothing takes it away before
\* the comment is put.  (What members write themselves may be on a goal that is not.)
ManagersCommentsAreShown ==
    \A c \in comments : c.role = "manager" =>
        c.goal \in DOMAIN listGoals(c.of) /\ c \in listGoals(c.of)[c.goal].comments

\* "If goalId provided, verify the goal exists": the tasks of a user that name a
\* goal are all listed with it.
GoalsOfTasksExist ==
    \A p \in Partition : \A g \in Goal :
        listAllTasks(p, g, Every, Every) # {} => g \in DOMAIN listGoals(p)

\* "true = status is done|closed": false as well, of a task a goal update wrote.
DoneHasStatus ==
    \A p \in Partition : listAllTasks(p, Every, "true", Every) =
        UNION {listAllTasks(p, Every, Every, status) : status \in Finished}

\* "TaskID is a human-readable team-scoped reference in the format TASK-{N}": no two
\* members have a task of the same number.  False: an update of a goal stores a task
\* under whatever id its body gives it, another member's as well.
NumbersAreTeamScoped ==
    \A p, q \in Partition, n \in Number :
        /\ p[2] = q[2]
        /\ n \in listAllTasks(p, Every, Every, Every) \cap listAllTasks(q, Every, Every, Every)
        => p = q
=============================================================================
