------------------------ MODULE PerformanceHubOverlap ------------------------
(***************************************************************************)
(* PerformanceHub and the history of the goals two requests were about to  *)
(* put at once, and of the numbers an update of a goal was sent for which  *)
(* its user had no task.  The history forbids no step: it lets a property  *)
(* say what requests keep when they do not meet, and name their own tasks. *)
(***************************************************************************)
EXTENDS PerformanceHub

VARIABLES disturbed,    \* goals two requests were about to put at once
          named         \* numbers of a team a goal's update named of a task its user had not

GoalsOf(r) == {put.id : put \in {q \in Range(req[r]) : q.item = "goal"}}
PutAtOnce == {g \in Goal : \E r, s \in Request : r # s /\ g \in GoalsOf(r) \cap GoalsOf(s)}

Named == {<<put.of[2], put.id>> :
             put \in {q \in Pending : /\ q.item = "task" /\ q.rec.number = 0 /\ q.id \in Number
                                     /\ tasks[q.of][q.id] = None}}

history == <<disturbed, named>>

HInit == Init /\ disturbed = {} /\ named = {}
HNext == Next /\ disturbed' = disturbed \cup PutAtOnce' /\ named' = named \cup Named'
HSpec == HInit /\ [][HNext]_<<vars, history>>
-----------------------------------------------------------------------------
\* The members of a team with a task of the number, those to whose task it was
\* given, and those for whom it was counted and whose task is still to be put.
Holders(t, n) == {p \in Partition : p[2] = t /\ n \in listAllTasks(p, Every, Every, Every)}
GivenTo(t, n) == {p \in Holders(t, n) : tasks[p][n].number = n}
CreatedAs(t, n) == {put.of : put \in {q \in Pending : q.item = "task" /\ q.of[2] = t
                                                     /\ q.id = n /\ q.rec.number = n}}

\* A number is given to one task of one member of the team, the tasks about to be put
\* included: whatever order requests come in and wherever they die, none is given
\* twice, and none that was not counted.  And nobody else has a task of that number
\* unless an update of a goal named it of a task its user had not.
NumbersUnique ==
    \A t \in Team, n \in Number :
        LET Owners == IF <<t, n>> \in named THEN GivenTo(t, n) ELSE Holders(t, n) IN
        /\ Cardinality(Owners) + Cardinality(CreatedAs(t, n)) <= 1
        /\ Owners \cup CreatedAs(t, n) # {} => n <= counter[t]
-----------------------------------------------------------------------------
SummaryGrows(p) ==
    LET new == getMemberPerformanceSummary(p)' IN
    /\ getMemberGoalsForManager(p).okrs \subseteq new.goals.okrs
    /\ getMemberGoalsForManager(p).kpis \subseteq new.goals.kpis
    /\ getMemberMeetingsForManager(p) \subseteq new.meetings
    /\ getMemberComments(p) \subseteq new.comments

IsPatch(old, new) == \E f \in {"progress", "status"} : new = [old EXCEPT ![f] = new[f]]

\* A change of a goal's progress keeps its status and the other way round, unless
\* two requests change the goal at once: updateGoal puts back all that it read.  And
\* even then a goal, a meeting or a remark a manager has seen of a member is in every
\* later summary, the goals under the same heading.
PatchKeepsTheRest ==
    [][\A p \in Partition :
          /\ SummaryGrows(p)
          /\ \A g \in Goal \ disturbed :
                goals[p][g] # None /\ goals[p][g]' # None => IsPatch(goals[p][g], goals[p][g]')]_vars
=============================================================================
