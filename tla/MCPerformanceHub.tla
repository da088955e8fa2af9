-------------------------- MODULE MCPerformanceHub --------------------------
\* Small instances of PerformanceHub: tasks and their goal while nobody writes
\* notes or comments, goals alone, or notes and comments while there are no tasks.
EXTENDS PerformanceHubOverlap, TLC

CONSTANTS u1, Status2

VARIABLE focus

Items == {put.item : put \in Pending}
PutsOf(item) == {put \in Pending : put.item = item}
Tasks == {<<p, x>> \in Partition \X TaskId : tasks[p][x] # None}

\* Bounds: tasks have two statuses, only u1 has goals and unnumbered tasks; its
\* goal is not updated twice at once nor changes with its tasks, tasks begin with
\* one status and no goal, and those a goal's update lists are not done.
Focused ==
    CASE focus = "tasks" ->
           /\ Items \subseteq {"goal", "task"} /\ Cardinality(Tasks) <= 2 /\ disturbed = {}
           /\ \A p \in Partition, x \in TaskId :
                 tasks[p][x] # None => tasks[p][x].status \in Status2 \cup {None}
           /\ \A put \in PutsOf("task") : put.rec.number # 0 => put.rec.status = "todo" /\ put.rec.goal = None
           /\ \A put \in PutsOf("goal") : put.of[1] = u1 /\ put.rec.status = "on-track"
                                             /\ put.rec.type = "okr" /\ put.rec.progress = 0
           /\ \A put \in PutsOf("task") : put.rec.number = 0 => put.of[1] = u1 /\ ~put.rec.done
      [] focus = "goals" -> Items \subseteq {"goal"}
      [] focus = "notes" ->
           /\ Items \subseteq {"goal", "comment", "note"}
           /\ Cardinality(notes) + Cardinality(comments) <= 2
           /\ \A put \in PutsOf("goal") : put.of[1] = u1 /\ put.rec.progress = 0 /\ put.rec.status = "on-track"
           /\ \A put \in PutsOf("note") \cup PutsOf("comment") : put.rec.of[1] = u1

MCInit == HInit /\ focus \in {"tasks", "goals", "notes"}
MCNext == HNext /\ UNCHANGED focus /\ Focused'
MCSpec == MCInit /\ [][MCNext]_<<vars, history, focus>>

RequestSymmetry == Permutations(Request)
=============================================================================
