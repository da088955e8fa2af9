------------------------ MODULE PerformanceHubProofs ------------------------
(***************************************************************************)
(* What PerformanceHub keeps for every set of users, teams, goals and      *)
(* requests, in whatever order the writes of the requests arrive and       *)
(* wherever they stop: its types, the numbers of the tasks, the agreement  *)
(* of their two filters, the comments of managers, and what a patch of a   *)
(* goal leaves alone.                                                      *)
(***************************************************************************)
EXTENDS PerformanceHubOverlap, SequenceTheorems, FiniteSetTheorems, TLAPS

\* The put that gives a task its number.
Creates(put) == put.item = "task" /\ put.rec.number # 0

DoneAgrees(task) == task.status # None => task.done = (task.status \in Finished)

\* A task that was given its number: one a goal's update stored has none.
Numbered(p, n) == tasks[p][n] # None /\ tasks[p][n].number = n

\* What a put relies on while it waits.  A number is counted before it is used,
\* and until then it was given to nobody of the team; the goal of a manager's
\* comment was there to be read.
Due(put) ==
    /\ put.item = "task" => DoneAgrees(put.rec)
    /\ Creates(put) =>
          /\ put.id = put.rec.number /\ put.id <= counter[put.of[2]]
          /\ \A o \in Partition : o[2] = put.of[2] => ~Numbered(o, put.id)
    /\ put.item = "comment" /\ put.rec.role = "manager" => goals[put.rec.of][put.rec.goal] # None

PutsAreDue == \A r \in Request : \A put \in Range(req[r]) :
                  Due(put) /\ (Creates(put) => Range(Tail(req[r])) = {} /\ put = Head(req[r]))

SameNumber(a, b) == Creates(a) /\ Creates(b) /\ a.of[2] = b.of[2] /\ a.id = b.id

\* No two requests create the same task.
CreatedOnce == \A r, s \in Request : \A a \in Range(req[r]), b \in Range(req[s]) :
                   SameNumber(a, b) => r = s

NumbersHeld == \A p, q \in Partition, n \in Number :
                   p[2] = q[2] /\ Numbered(p, n) /\ Numbered(q, n) => p = q /\ n <= counter[p[2]]

StoredDoneAgrees == \A p \in Partition, x \in TaskId : tasks[p][x] # None => DoneAgrees(tasks[p][x])

CommentsHang == \A c \in comments : c.role = "manager" => goals[c.of][c.goal] # None

IInv == TypeOK /\ PutsAreDue /\ CreatedOnce /\ NumbersHeld /\ StoredDoneAgrees /\ CommentsHang
-----------------------------------------------------------------------------
(* Sequences of puts.                                                      *)

LEMMA PutFields ==
    ASSUME NEW put \in PutRequest
    PROVE  /\ put.item \in {"goal", "task", "comment", "note"}
           /\ put.item = "goal" => put.of \in Partition /\ put.id \in Goal /\ put.rec \in GoalRecord
           /\ put.item = "task" => put.of \in Partition /\ put.id \in TaskId /\ put.rec \in TaskRecord
           /\ put.item = "comment" => put.rec \in Comment
           /\ put.item = "note" => put.rec \in Note
BY DEF PutRequest

LEMMA DoneIsBoolean ==
    ASSUME NEW status
    PROVE  \E done \in BOOLEAN : done = (status \in Finished)
<1>1. CASE status \in Finished
  BY <1>1, Zenon
<1>2. CASE status \notin Finished
  <2>1. FALSE = (status \in Finished)
    BY <1>2
  <2> QED
    BY <2>1
<1> QED
  BY <1>1, <1>2

LEMMA HeadAndTail ==
    ASSUME NEW S, NEW s \in Seq(S), s # <<>>
    PROVE  /\ Head(s) \in Range(s) /\ Head(s) \in S
           /\ Tail(s) \in Seq(S)
           /\ Range(Tail(s)) \subseteq Range(s)
           /\ Range(s) \subseteq {Head(s)} \cup Range(Tail(s))
<1>1. /\ Head(s) \in S /\ Tail(s) \in Seq(S)
      /\ Len(Tail(s)) = Len(s) - 1
      /\ \A i \in 1..Len(Tail(s)) : Tail(s)[i] = s[i + 1]
  BY HeadTailProperties
<1>2. Len(s) \in Nat \ {0} /\ Head(s) = s[1] /\ DOMAIN s = 1..Len(s)
  BY EmptySeq, LenProperties
<1>3. Head(s) \in Range(s)
  BY <1>2 DEF Range
<1>4. DOMAIN Tail(s) = 1..(Len(s) - 1)
  BY <1>1, LenProperties
<1>5. Range(Tail(s)) \subseteq Range(s)
  BY <1>1, <1>2, <1>4 DEF Range
<1>6. Range(s) \subseteq {Head(s)} \cup Range(Tail(s))
  <2> SUFFICES ASSUME NEW i \in 1..Len(s), i # 1 PROVE s[i] \in Range(Tail(s))
    BY <1>2 DEF Range
  <2>1. i - 1 \in 1..(Len(s) - 1) /\ (i - 1) + 1 = i
    BY <1>2
  <2> QED
    BY <1>1, <1>4, <2>1 DEF Range
<1> QED
  BY <1>1, <1>3, <1>5, <1>6

LEMMA OnePut ==
    ASSUME NEW S, NEW a \in S
    PROVE  <<a>> \in Seq(S) /\ Range(<<a>>) = {a} /\ Head(<<a>>) = a /\ Range(Tail(<<a>>)) = {}
<1>1. <<a>> \in Seq(S) /\ Len(<<a>>) = 1 /\ <<a>>[1] = a /\ <<a>> # <<>>
  OBVIOUS
<1>2. Range(<<a>>) = {a}
  BY <1>1 DEF Range
<1>3. Tail(<<a>>) \in Seq(S) /\ Len(Tail(<<a>>)) = 0
  BY <1>1, HeadTailProperties
<1>4. Range(Tail(<<a>>)) = {}
  BY <1>3, LenProperties DEF Range
<1> QED
  BY <1>1, <1>2, <1>4

LEMMA NoPut == Range(<<>>) = {}
BY DEF Range
-----------------------------------------------------------------------------
(* What a step does to the invariant, by the part of the state it changes. *)

LEMMA InitInv == Init => IInv
<1> SUFFICES ASSUME Init PROVE IInv
  OBVIOUS
<1>1. \A r \in Request : req[r] = <<>> /\ Range(req[r]) = {}
  BY NoPut DEF Init
<1>2. TypeOK
  <2>1. faults \in 0..MaxFaults /\ counter \in [Team -> 0..MaxNumber]
    BY BoundAssumption DEF Init
  <2> QED
    BY <2>1 DEF Init, TypeOK
<1>3. PutsAreDue /\ CreatedOnce
  BY <1>1 DEF PutsAreDue, CreatedOnce
<1>4. NumbersHeld /\ StoredDoneAgrees /\ CommentsHang
  BY DEF Init, NumbersHeld, Numbered, StoredDoneAgrees, CommentsHang, TaskId
<1> QED
  BY <1>2, <1>3, <1>4 DEF IInv

\* A request begins whose puts are due and create no task.
LEMMA BeginKeeps ==
    ASSUME IInv, NEW r \in Request, NEW puts \in Seq(PutRequest), Send(r, puts),
           \A put \in Range(puts) : Due(put) /\ ~Creates(put)
    PROVE  IInv'
<1>1. UNCHANGED <<goals, tasks, comments, notes, counter, faults>> /\ req' = [req EXCEPT ![r] = puts]
  BY DEF Send, Begin
<1>2. req'[r] = puts /\ \A s \in Request \ {r} : req'[s] = req[s]
  BY <1>1 DEF IInv, TypeOK
<1>3. TypeOK'
  BY <1>1 DEF IInv, TypeOK
<1>4. PutsAreDue'
  <2> SUFFICES ASSUME NEW s \in Request, NEW put \in Range(req'[s])
               PROVE  Due(put)' /\ (Creates(put) => Range(Tail(req'[s])) = {} /\ put = Head(req'[s]))
    BY DEF PutsAreDue, Creates
  <2>1. Due(put) => Due(put)'
    BY <1>1 DEF Due, Creates, Numbered, DoneAgrees
  <2>2. CASE s = r
    BY <2>1, <2>2, <1>2
  <2>3. CASE s # r
    BY <2>1, <2>3, <1>2 DEF IInv, PutsAreDue
  <2> QED
    BY <2>2, <2>3
<1>5. CreatedOnce'
  <2> SUFFICES ASSUME NEW s \in Request, NEW t \in Request, NEW a \in Range(req'[s]), NEW b \in Range(req'[t]),
                      SameNumber(a, b)
               PROVE  s = t
    BY DEF CreatedOnce, SameNumber, Creates
  <2>1. s # r /\ t # r
    BY <1>2 DEF SameNumber
  <2> QED
    BY <2>1, <1>2 DEF IInv, CreatedOnce
<1>6. NumbersHeld' /\ StoredDoneAgrees' /\ CommentsHang'
  BY <1>1 DEF IInv, NumbersHeld, Numbered, StoredDoneAgrees, CommentsHang, DoneAgrees
<1> QED
  BY <1>3, <1>4, <1>5, <1>6 DEF IInv

LEMMA PendingTyped ==
    ASSUME TypeOK, NEW r \in Request
    PROVE  \A put \in Range(req[r]) : put \in PutRequest
<1>1. req[r] \in Seq(PutRequest)
  BY DEF TypeOK
<1> QED
  BY <1>1, RangeOfSeq

\* The number counted is new, and nobody else creates a task of it.
LEMMA CreateTaskKeeps ==
    ASSUME IInv, NEW r \in Request, NEW p \in Partition, NEW goal \in Goal \cup {None},
           NEW status \in Status, createTask(r, p, goal, status)
    PROVE  IInv'
<1>1. PICK n : n = counter[p[2]] + 1
  OBVIOUS
<1>2. p[2] \in Team /\ \A q \in Partition : q[2] \in Team
  BY DEF Partition
<1>3. n \in Number /\ n \in 0..MaxNumber /\ n # 0 /\ counter[p[2]] \in Nat
  BY <1>1, <1>2 DEF createTask, nextTaskNumber, IInv, TypeOK, Number
<1>4. PICK rec \in TaskRecord : /\ rec = [goal |-> goal, status |-> status, done |-> status \in Finished, number |-> n]
                                /\ rec.number = n /\ rec.status = status /\ rec.done = (status \in Finished)
  <2>1. PICK done \in BOOLEAN : done = (status \in Finished)
    BY DoneIsBoolean
  <2>2. [goal |-> goal, status |-> status, done |-> done, number |-> n] \in TaskRecord
    BY <1>3 DEF TaskRecord
  <2> QED
    BY <2>1, <2>2
<1>5. PICK put0 \in PutRequest :
          /\ put0 = [item |-> "task", of |-> p, id |-> n, rec |-> rec]
          /\ put0.item = "task" /\ put0.of = p /\ put0.id = n /\ put0.rec = rec
  <2>1. [item |-> "task", of |-> p, id |-> n, rec |-> rec] \in PutRequest
    BY <1>3 DEF PutRequest, TaskId
  <2> QED
    BY <2>1
<1>6. /\ counter' = [counter EXCEPT ![p[2]] = n]
      /\ req' = [req EXCEPT ![r] = <<put0>>]
      /\ UNCHANGED <<goals, tasks, comments, notes, faults>>
  BY <1>1, <1>4, <1>5 DEF createTask, nextTaskNumber, Begin
<1>7. /\ counter'[p[2]] = n
      /\ \A t \in Team : counter[t] \in Nat /\ counter'[t] \in Nat /\ counter[t] <= counter'[t]
      /\ counter' \in [Team -> 0..MaxNumber]
  BY <1>1, <1>2, <1>3, <1>6, BoundAssumption DEF IInv, TypeOK
<1>8. rec # None /\ status # None /\ DoneAgrees(rec)
  BY <1>4, NoneAssumption DEF DoneAgrees
<1>9. <<put0>> \in Seq(PutRequest) /\ Range(<<put0>>) = {put0} /\ Head(<<put0>>) = put0 /\ Range(Tail(<<put0>>)) = {}
  BY OnePut
<1>10. req'[r] = <<put0>> /\ \A s \in Request \ {r} : req'[s] = req[s]
  BY <1>6 DEF IInv, TypeOK
<1>11. TypeOK'
  BY <1>6, <1>7, <1>9 DEF IInv, TypeOK
<1>12. \A o \in Partition : o[2] = p[2] => ~Numbered(o, n)
  BY <1>1, <1>3 DEF IInv, NumbersHeld, TypeOK
<1>13. PutsAreDue'
  <2> SUFFICES ASSUME NEW s \in Request, NEW put \in Range(req'[s])
               PROVE  Due(put)' /\ (Creates(put) => Range(Tail(req'[s])) = {} /\ put = Head(req'[s]))
    BY DEF PutsAreDue, Creates
  <2>1. CASE s = r
    <3>1. put = put0
      BY <2>1, <1>9, <1>10
    <3>2. Due(put0)'
      BY <1>3, <1>4, <1>5, <1>6, <1>7, <1>8, <1>12 DEF Due, Creates, Numbered, DoneAgrees
    <3> QED
      BY <2>1, <3>1, <3>2, <1>9, <1>10
  <2>2. CASE s # r
    <3>1. put \in Range(req[s]) /\ put \in PutRequest /\ Due(put)
      BY <2>2, <1>10, PendingTyped DEF IInv, PutsAreDue
    <3>2. Creates(put) => put.of[2] \in Team /\ put.id \in Number
      BY <3>1, <1>2, PutFields DEF Creates, Due, TaskRecord
    <3>3. Creates(put) => put.id <= counter'[put.of[2]]
      BY <3>1, <3>2, <1>7 DEF Due, Number
    <3>4. Due(put)'
      BY <3>1, <3>3, <1>6 DEF Due, Creates, Numbered, DoneAgrees
    <3> QED
      BY <3>1, <3>4, <2>2, <1>10 DEF IInv, PutsAreDue
  <2> QED
    BY <2>1, <2>2
<1>14. CreatedOnce'
  <2>1. ASSUME NEW s \in Request \ {r}, NEW b \in Range(req[s])
        PROVE  ~SameNumber(put0, b) /\ ~SameNumber(b, put0)
    <3>1. b \in PutRequest /\ Due(b)
      BY <2>1, PendingTyped DEF IInv, PutsAreDue
    <3>2. Creates(b) /\ b.of[2] = p[2] => b.id <= counter[p[2]] /\ b.id \in Number
      BY <3>1, PutFields DEF Due, Creates, TaskRecord
    <3> QED
      BY <3>2, <1>1, <1>3, <1>5 DEF SameNumber, Number
  <2>2. ASSUME NEW s \in Request, NEW t \in Request, NEW a \in Range(req'[s]), NEW b \in Range(req'[t]),
               SameNumber(a, b)
        PROVE  s = t
    <3>1. CASE s = r /\ t # r
      BY <2>1, <2>2, <3>1, <1>9, <1>10
    <3>2. CASE s # r /\ t = r
      BY <2>1, <2>2, <3>2, <1>9, <1>10
    <3>3. CASE s # r /\ t # r
      BY <2>2, <3>3, <1>10 DEF IInv, CreatedOnce
    <3> QED
      BY <3>1, <3>2, <3>3
  <2> QED
    BY <2>2 DEF CreatedOnce, SameNumber, Creates
<1>15. NumbersHeld'
  <2> SUFFICES ASSUME NEW q \in Partition, NEW o \in Partition, NEW m \in Number,
                      q[2] = o[2], Numbered(q, m), Numbered(o, m)
               PROVE  q = o /\ m <= counter'[q[2]]
    BY <1>6 DEF NumbersHeld, Numbered
  <2>1. q = o /\ m <= counter[q[2]]
    BY DEF IInv, NumbersHeld
  <2> QED
    BY <2>1, <1>2, <1>7 DEF Number
<1>16. StoredDoneAgrees' /\ CommentsHang'
  BY <1>6 DEF IInv, StoredDoneAgrees, CommentsHang, DoneAgrees
<1> QED
  BY <1>11, <1>13, <1>14, <1>15, <1>16 DEF IInv

\* A task that is there stays there, its number its own.
LEMMA UpdateTaskKeeps ==
    ASSUME IInv, NEW p \in Partition, NEW x \in TaskId, updateTask(p, x)
    PROVE  IInv'
<1>1. /\ tasks[p][x] # None /\ tasks[p][x] \in TaskRecord
      /\ UNCHANGED <<goals, comments, notes, counter, req, faults>>
  BY DEF updateTask, IInv, TypeOK
<1>2. PICK task : /\ \/ \E status \in Status : task = WithStatus(tasks[p][x], status)
                     \/ \E done \in BOOLEAN : task = WithDone(tasks[p][x], done)
                     \/ \E goal \in Goal \cup {None} : task = WithGoal(tasks[p][x], goal)
                  /\ tasks' = [tasks EXCEPT ![p][x] = task]
  BY DEF updateTask
<1>3. DoneAgrees(tasks[p][x])
  BY <1>1 DEF IInv, StoredDoneAgrees
<1>4. task \in TaskRecord /\ DoneAgrees(task) /\ task.number = tasks[p][x].number
  <2>1. ASSUME NEW status \in Status, task = WithStatus(tasks[p][x], status)
        PROVE  task \in TaskRecord /\ DoneAgrees(task) /\ task.number = tasks[p][x].number
    <3>1. PICK done \in BOOLEAN : done = (status \in Finished)
      BY DoneIsBoolean
    <3>2. task = [tasks[p][x] EXCEPT !.status = status, !.done = done]
      BY <2>1, <3>1 DEF WithStatus
    <3>3. /\ task.status = status /\ task.done = done /\ task \in TaskRecord
          /\ task.number = tasks[p][x].number
      BY <1>1, <3>2 DEF TaskRecord
    <3> QED
      BY <3>1, <3>3 DEF DoneAgrees
  <2>2. ASSUME NEW done \in BOOLEAN, task = WithDone(tasks[p][x], done)
        PROVE  task \in TaskRecord /\ DoneAgrees(task) /\ task.number = tasks[p][x].number
    <3>1. PICK status \in Status : status = IF done THEN "done" ELSE "todo"
      BY DEF Status
    <3>2. /\ task.status = status /\ task.done = done /\ task \in TaskRecord
          /\ task.number = tasks[p][x].number
      BY <1>1, <2>2, <3>1 DEF WithDone, TaskRecord
    <3> QED
      BY <3>1, <3>2 DEF DoneAgrees, Finished
  <2>3. ASSUME NEW goal \in Goal \cup {None}, task = WithGoal(tasks[p][x], goal)
        PROVE  task \in TaskRecord /\ DoneAgrees(task) /\ task.number = tasks[p][x].number
    BY <1>1, <1>3, <2>3 DEF WithGoal, TaskRecord, DoneAgrees
  <2> QED
    BY <1>2, <2>1, <2>2, <2>3
<1>5. task # None
  BY <1>4, NoneAssumption
<1>6. /\ tasks' \in [Partition -> [TaskId -> TaskRecord \cup {None}]]
      /\ \A q \in Partition, y \in TaskId :
            /\ tasks'[q][y] = None <=> tasks[q][y] = None
            /\ tasks'[q][y] # None => tasks'[q][y].number = tasks[q][y].number
            /\ tasks'[q][y] = task \/ tasks'[q][y] = tasks[q][y]
  BY <1>1, <1>2, <1>4, <1>5 DEF IInv, TypeOK
<1>7. TypeOK'
  BY <1>1, <1>6 DEF IInv, TypeOK
<1>8. PutsAreDue'
  <2> SUFFICES ASSUME NEW s \in Request, NEW put \in Range(req[s]) PROVE Due(put)'
    BY <1>1 DEF IInv, PutsAreDue, Creates
  <2>1. put \in PutRequest /\ Due(put)
    BY PendingTyped DEF IInv, PutsAreDue
  <2>2. put.item = "task" => put.of \in Partition /\ put.id \in TaskId
    BY <2>1, PutFields
  <2> QED
    BY <2>1, <2>2, <1>1, <1>6 DEF Due, Creates, Numbered, DoneAgrees
<1>9. CreatedOnce'
  BY <1>1 DEF IInv, CreatedOnce, SameNumber, Creates
<1>10. NumbersHeld' /\ StoredDoneAgrees' /\ CommentsHang'
  <2>1. NumbersHeld'
    BY <1>1, <1>6 DEF IInv, NumbersHeld, Numbered, TaskId
  <2>2. StoredDoneAgrees'
    BY <1>4, <1>6 DEF IInv, StoredDoneAgrees, DoneAgrees
  <2> QED
    BY <2>1, <2>2, <1>1 DEF IInv, CommentsHang
<1> QED
  BY <1>7, <1>8, <1>9, <1>10 DEF IInv

\* A request loses its first put, or all of them.
LEMMA Shrinks ==
    ASSUME IInv, NEW r \in Request, req[r] # <<>>,
           NEW rest \in {Tail(req[r]), <<>>}, req' = [req EXCEPT ![r] = rest]
    PROVE  /\ req' \in [Request -> Seq(PutRequest)]
           /\ \A s \in Request : \A put \in Range(req'[s]) :
                 /\ put \in Range(req[s]) /\ put \in PutRequest /\ Due(put)
                 /\ Creates(put) => s # r /\ req'[s] = req[s]
           /\ CreatedOnce'
<1>1. req[r] \in Seq(PutRequest)
  BY DEF IInv, TypeOK
<1>2. /\ rest \in Seq(PutRequest) /\ Range(rest) \subseteq Range(req[r])
      /\ Range(rest) \subseteq Range(Tail(req[r]))
  <2>1. CASE rest = Tail(req[r])
    BY <1>1, <2>1, HeadAndTail
  <2>2. CASE rest = <<>>
    BY <2>2, NoPut
  <2> QED
    BY <2>1, <2>2
<1>3. req'[r] = rest /\ \A s \in Request \ {r} : req'[s] = req[s]
  BY DEF IInv, TypeOK
<1>4. req' \in [Request -> Seq(PutRequest)]
  BY <1>2 DEF IInv, TypeOK
<1>5. ASSUME NEW s \in Request, NEW put \in Range(req'[s])
      PROVE  /\ put \in Range(req[s]) /\ put \in PutRequest /\ Due(put)
             /\ Creates(put) => s # r /\ req'[s] = req[s]
  <2>1. put \in Range(req[s])
    BY <1>2, <1>3
  <2>2. put \in PutRequest /\ Due(put)
    BY <2>1, PendingTyped DEF IInv, PutsAreDue
  <2>3. Creates(put) => s # r
    BY <1>2, <1>3, <2>1 DEF IInv, PutsAreDue
  <2> QED
    BY <1>3, <2>1, <2>2, <2>3
<1>6. CreatedOnce'
  BY <1>5 DEF IInv, CreatedOnce, SameNumber, Creates
<1> QED
  BY <1>4, <1>5, <1>6

LEMMA FailKeeps ==
    ASSUME IInv, NEW r \in Request, Fail(r)
    PROVE  IInv'
<1>1. PICK rest \in {Tail(req[r]), <<>>} : req' = [req EXCEPT ![r] = rest]
  BY DEF Fail
<1>2. /\ req[r] # <<>> /\ UNCHANGED <<goals, tasks, comments, notes, counter>>
      /\ faults' = faults + 1 /\ faults < MaxFaults
  BY DEF Fail
<1>3. faults' \in 0..MaxFaults
  BY <1>2, BoundAssumption DEF IInv, TypeOK
<1>4. /\ req' \in [Request -> Seq(PutRequest)]
      /\ \A s \in Request : \A put \in Range(req'[s]) :
            /\ put \in Range(req[s]) /\ put \in PutRequest /\ Due(put)
            /\ Creates(put) => s # r /\ req'[s] = req[s]
      /\ CreatedOnce'
  BY <1>1, <1>2, Shrinks
<1>5. PutsAreDue'
  <2> SUFFICES ASSUME NEW s \in Request, NEW put \in Range(req'[s]) PROVE Due(put)'
    BY <1>4 DEF IInv, PutsAreDue, Creates
  <2>1. Due(put)
    BY <1>4
  <2> QED
    BY <2>1, <1>2 DEF Due, Creates, Numbered, DoneAgrees
<1> QED
  BY <1>2, <1>3, <1>4, <1>5 DEF IInv, TypeOK, NumbersHeld, Numbered, StoredDoneAgrees, CommentsHang, DoneAgrees

\* What a put finds, and what is left of its request.
LEMMA PutStep ==
    ASSUME IInv, NEW r \in Request, PutItem(r)
    PROVE  /\ req' \in [Request -> Seq(PutRequest)]
           /\ \A s \in Request : \A put \in Range(req'[s]) :
                 /\ put \in Range(req[s]) /\ put \in PutRequest /\ Due(put)
                 /\ Creates(put) => s # r /\ req'[s] = req[s]
           /\ CreatedOnce'
           /\ Head(req[r]) \in Range(req[r]) /\ Head(req[r]) \in PutRequest /\ Due(Head(req[r]))
           /\ UNCHANGED <<counter, faults>>
<1>1. req[r] # <<>> /\ req' = [req EXCEPT ![r] = Tail(req[r])] /\ UNCHANGED <<counter, faults>>
  BY DEF PutItem, Done
<1>2. req[r] \in Seq(PutRequest)
  BY DEF IInv, TypeOK
<1>3. Head(req[r]) \in Range(req[r]) /\ Head(req[r]) \in PutRequest
  BY <1>1, <1>2, HeadAndTail
<1>4. Due(Head(req[r]))
  BY <1>3 DEF IInv, PutsAreDue
<1> QED
  BY <1>1, <1>3, <1>4, Shrinks

LEMMA PutTaskKeeps ==
    ASSUME IInv, NEW r \in Request, PutItem(r), PutTask(r)
    PROVE  IInv'
<1>1. PICK h : h = Head(req[r])
  OBVIOUS
<1>2. h \in Range(req[r]) /\ h \in PutRequest /\ Due(h) /\ h.item = "task"
  BY <1>1, PutStep DEF PutTask
<1>3. h.of \in Partition /\ h.id \in TaskId /\ h.rec \in TaskRecord /\ h.rec # None /\ DoneAgrees(h.rec)
  BY <1>2, PutFields, NoneAssumption DEF Due
<1>4. /\ tasks' = [tasks EXCEPT ![h.of][h.id] = h.rec]
      /\ UNCHANGED <<goals, comments, notes, counter, faults>>
  BY <1>1, PutStep DEF PutTask
<1>5. /\ tasks' \in [Partition -> [TaskId -> TaskRecord \cup {None}]]
      /\ tasks'[h.of][h.id] = h.rec
      /\ \A q \in Partition, y \in TaskId : <<q, y>> # <<h.of, h.id>> => tasks'[q][y] = tasks[q][y]
  BY <1>3, <1>4 DEF IInv, TypeOK
<1>6. TypeOK'
  BY <1>4, <1>5, PutStep DEF IInv, TypeOK
<1>7. Creates(h) \/ (h.id \in Number => ~Numbered(h.of, h.id)')
  <2>1. ASSUME ~Creates(h), h.id \in Number PROVE ~Numbered(h.of, h.id)'
    <3>1. h.rec.number = 0 /\ h.id # 0
      BY <1>2, <2>1 DEF Creates, Number
    <3> QED
      BY <3>1, <1>5 DEF Numbered
  <2> QED
    BY <2>1
<1>8. ASSUME NEW s \in Request, NEW put \in Range(req'[s])
      PROVE  Due(put)'
  <2>1. put \in Range(req[s]) /\ put \in PutRequest /\ Due(put)
    BY PutStep
  <2>2. put.item = "task" => put.of \in Partition /\ put.id \in TaskId
    BY <2>1, PutFields
  <2>3. ASSUME Creates(put), NEW o \in Partition, o[2] = put.of[2]
        PROVE  ~Numbered(o, put.id)'
    <3>1. put.id \in Number /\ put.id \in TaskId /\ s # r
      BY <2>1, <2>2, <2>3, PutStep, PutFields DEF Creates, Due, TaskRecord
    <3>2. ~Numbered(o, put.id)
      BY <2>1, <2>3 DEF Due
    <3>3. ASSUME o = h.of, put.id = h.id PROVE ~Numbered(o, put.id)'
      <4>1. ASSUME Creates(h) PROVE FALSE
        <5>1. SameNumber(h, put)
          BY <3>3, <4>1, <2>3 DEF SameNumber
        <5> QED
          BY <5>1, <1>2, <2>1, <3>1 DEF IInv, CreatedOnce
      <4> QED
        BY <3>1, <3>3, <4>1, <1>7
    <3> QED
      BY <1>5, <3>1, <3>2, <3>3 DEF Numbered
  <2> QED
    BY <2>1, <2>3, <1>4 DEF Due, Creates, Numbered, DoneAgrees
<1>9. PutsAreDue'
  BY <1>8, PutStep DEF IInv, PutsAreDue, Creates
<1>10. NumbersHeld'
  <2> SUFFICES ASSUME NEW q \in Partition, NEW o \in Partition, NEW m \in Number,
                      q[2] = o[2], Numbered(q, m)', Numbered(o, m)'
               PROVE  q = o /\ m <= counter[q[2]]
    BY <1>4 DEF NumbersHeld
  <2>1. m \in TaskId
    BY DEF TaskId
  <2>2. CASE Creates(h) /\ h.id = m /\ h.of[2] = q[2]
    <3>1. ~Numbered(q, m) /\ ~Numbered(o, m) /\ m <= counter[q[2]]
      BY <1>2, <2>2 DEF Due
    <3> QED
      BY <3>1, <1>5, <2>1 DEF Numbered
  <2>3. CASE ~(Creates(h) /\ h.id = m /\ h.of[2] = q[2])
    <3>1. <<q, m>> # <<h.of, h.id>> /\ <<o, m>> # <<h.of, h.id>>
      BY <1>7, <2>3
    <3>2. Numbered(q, m) /\ Numbered(o, m)
      BY <1>5, <2>1, <3>1 DEF Numbered
    <3> QED
      BY <3>2 DEF IInv, NumbersHeld
  <2> QED
    BY <2>2, <2>3
<1>11. StoredDoneAgrees'
  BY <1>3, <1>5 DEF IInv, StoredDoneAgrees, DoneAgrees
<1>12. CommentsHang'
  BY <1>4 DEF IInv, CommentsHang
<1> QED
  BY <1>6, <1>9, <1>10, <1>11, <1>12, PutStep DEF IInv

\* A goal that is there stays there, with all that hangs from it.
LEMMA PutGoalKeeps ==
    ASSUME IInv, NEW r \in Request, PutItem(r), PutGoal(r)
    PROVE  IInv'
<1>1. PICK h : h = Head(req[r])
  OBVIOUS
<1>2. h \in PutRequest /\ h.item = "goal"
  BY <1>1, PutStep DEF PutGoal
<1>3. h.of \in Partition /\ h.id \in Goal /\ h.rec \in GoalRecord /\ h.rec # None
  BY <1>2, PutFields, NoneAssumption
<1>4. /\ goals' = [goals EXCEPT ![h.of][h.id] = h.rec]
      /\ UNCHANGED <<tasks, comments, notes, counter, faults>>
  BY <1>1, PutStep DEF PutGoal
<1>5. /\ goals' \in [Partition -> [Goal -> GoalRecord \cup {None}]]
      /\ \A q \in Partition, g \in Goal : goals[q][g] # None => goals'[q][g] # None
  BY <1>3, <1>4 DEF IInv, TypeOK
<1>6. TypeOK'
  BY <1>4, <1>5, PutStep DEF IInv, TypeOK
<1>7. PutsAreDue'
  <2> SUFFICES ASSUME NEW s \in Request, NEW put \in Range(req'[s]) PROVE Due(put)'
    BY PutStep DEF IInv, PutsAreDue, Creates
  <2>1. put \in PutRequest /\ Due(put)
    BY PutStep
  <2>2. put.item = "comment" => put.rec.of \in Partition /\ put.rec.goal \in Goal
    BY <2>1, PutFields DEF Comment
  <2> QED
    BY <2>1, <2>2, <1>4, <1>5 DEF Due, Creates, Numbered, DoneAgrees
<1>8. NumbersHeld' /\ StoredDoneAgrees'
  BY <1>4 DEF IInv, NumbersHeld, Numbered, StoredDoneAgrees, DoneAgrees
<1>9. CommentsHang'
  <2>1. \A c \in comments : c.of \in Partition /\ c.goal \in Goal
    BY DEF IInv, TypeOK, Comment
  <2> QED
    BY <2>1, <1>4, <1>5 DEF IInv, CommentsHang
<1> QED
  BY <1>6, <1>7, <1>8, <1>9, PutStep DEF IInv

LEMMA PutOtherKeeps ==
    ASSUME IInv, NEW r \in Request, PutItem(r), PutComment(r) \/ PutNote(r)
    PROVE  IInv'
<1>1. PICK h : h = Head(req[r])
  OBVIOUS
<1>2. h \in PutRequest /\ Due(h)
  BY <1>1, PutStep
<1>3. UNCHANGED <<goals, tasks, counter, faults>>
  BY PutStep DEF PutComment, PutNote
<1>4. \/ comments' = comments \cup {h.rec} /\ h.item = "comment" /\ notes' = notes
      \/ notes' = notes \cup {h.rec} /\ h.item = "note" /\ comments' = comments
  BY <1>1 DEF PutComment, PutNote
<1>5. comments' \subseteq Comment /\ notes' \subseteq Note
  BY <1>2, <1>4, PutFields DEF IInv, TypeOK
<1>6. TypeOK'
  BY <1>3, <1>5, PutStep DEF IInv, TypeOK
<1>7. PutsAreDue'
  <2> SUFFICES ASSUME NEW s \in Request, NEW put \in Range(req'[s]) PROVE Due(put)'
    BY PutStep DEF IInv, PutsAreDue, Creates
  <2>1. Due(put)
    BY PutStep
  <2> QED
    BY <2>1, <1>3 DEF Due, Creates, Numbered, DoneAgrees
<1>8. NumbersHeld' /\ StoredDoneAgrees'
  BY <1>3 DEF IInv, NumbersHeld, Numbered, StoredDoneAgrees, DoneAgrees
<1>9. CommentsHang'
  BY <1>2, <1>3, <1>4 DEF IInv, CommentsHang, Due
<1> QED
  BY <1>6, <1>7, <1>8, <1>9, PutStep DEF IInv
-----------------------------------------------------------------------------
(* What a request is about to write when it begins.                        *)

LEMMA CreateGoalKeeps ==
    ASSUME IInv, NEW r \in Request, NEW p \in Partition, NEW g \in Goal, NEW type \in GoalType,
           NEW status \in GoalStatus, createGoal(r, p, g, type, status)
    PROVE  IInv'
<1>1. PICK rec \in GoalRecord : rec = [type |-> type, progress |-> 0, status |-> status]
  <2>1. [type |-> type, progress |-> 0, status |-> status] \in GoalRecord
    BY DEF GoalRecord
  <2> QED
    BY <2>1
<1>2. PICK put \in PutRequest : put = [item |-> "goal", of |-> p, id |-> g, rec |-> rec] /\ put.item = "goal"
  <2>1. [item |-> "goal", of |-> p, id |-> g, rec |-> rec] \in PutRequest
    BY DEF PutRequest
  <2> QED
    BY <2>1
<1>3. Send(r, <<put>>)
  BY <1>1, <1>2 DEF createGoal
<1>4. Due(put) /\ ~Creates(put)
  BY <1>2 DEF Due, Creates
<1>5. <<put>> \in Seq(PutRequest) /\ Range(<<put>>) = {put}
  BY OnePut, <1>3
<1> QED
  BY <1>3, <1>4, <1>5, BeginKeeps

LEMMA LinkedTask ==
    ASSUME NEW p \in Partition, NEW g \in Goal, NEW x \in TaskId, NEW done \in BOOLEAN
    PROVE  /\ TaskOfGoal(p, g, x, done) \in PutRequest
           /\ Due(TaskOfGoal(p, g, x, done)) /\ ~Creates(TaskOfGoal(p, g, x, done))
           /\ TaskOfGoal(p, g, x, done).item = "task"
<1>1. PICK rec \in TaskRecord : /\ rec = [goal |-> g, status |-> None, done |-> done, number |-> 0]
                                /\ rec.status = None /\ rec.number = 0
  <2>1. [goal |-> g, status |-> None, done |-> done, number |-> 0] \in TaskRecord
    BY DEF TaskRecord
  <2> QED
    BY <2>1
<1>2. PICK put \in PutRequest : /\ put = [item |-> "task", of |-> p, id |-> x, rec |-> rec]
                                /\ put.item = "task" /\ put.of = p /\ put.id = x /\ put.rec = rec
  <2>1. [item |-> "task", of |-> p, id |-> x, rec |-> rec] \in PutRequest
    BY DEF PutRequest
  <2> QED
    BY <2>1
<1>3. Due(put) /\ ~Creates(put)
  BY <1>1, <1>2 DEF Due, Creates, Numbered, DoneAgrees
<1> QED
  BY <1>1, <1>2, <1>3 DEF TaskOfGoal

LEMMA AddLinkedTaskKeeps ==
    ASSUME IInv, NEW r \in Request, NEW p \in Partition, NEW g \in Goal, NEW x \in Uuid,
           addLinkedTask(r, p, g, x)
    PROVE  IInv'
<1>1. x \in TaskId
  BY DEF TaskId
<1>2. PICK put : put = TaskOfGoal(p, g, x, FALSE)
  OBVIOUS
<1>3. put \in PutRequest /\ Due(put) /\ ~Creates(put)
  BY <1>1, <1>2, LinkedTask
<1>4. Send(r, <<put>>)
  BY <1>2 DEF addLinkedTask
<1>5. <<put>> \in Seq(PutRequest) /\ Range(<<put>>) = {put}
  BY OnePut, <1>3
<1> QED
  BY <1>3, <1>4, <1>5, BeginKeeps

\* The goal as it was read, and at most one task.
LEMMA UpdateGoalPuts ==
    ASSUME IInv, NEW r \in Request, NEW p \in Partition, NEW g \in Goal, NEW patch \in GoalPatch,
           NEW linkedTasks \in TaskList, updateGoal(r, p, g, patch, linkedTasks)
    PROVE  \E put \in PutRequest, puts \in Seq(PutRequest) :
              /\ put.item = "goal" /\ put.of = p /\ put.id = g /\ put.rec = patchedGoal(goals[p][g], patch)
              /\ Send(r, puts) /\ put = Head(puts) /\ puts # <<>>
              /\ \A q \in Range(puts) : q = put \/ q.item = "task"
              /\ \A q \in Range(Tail(puts)) : q.item = "task"
              /\ \A q \in Range(puts) : Due(q) /\ ~Creates(q)
<1>1. goals[p][g] \in GoalRecord
  BY DEF updateGoal, IInv, TypeOK
<1>2. patchedGoal(goals[p][g], patch) \in GoalRecord
  <2>1. CASE patch.field = "progress" /\ patch.to \in 0..1
    BY <1>1, <2>1 DEF patchedGoal, GoalRecord
  <2>2. CASE patch.field = "status" /\ patch.to \in GoalStatus
    BY <1>1, <2>2 DEF patchedGoal, GoalRecord
  <2> QED
    BY <2>1, <2>2 DEF GoalPatch
<1>3. PICK rec \in GoalRecord : rec = patchedGoal(goals[p][g], patch)
  BY <1>2
<1>4. PICK put \in PutRequest : /\ put = [item |-> "goal", of |-> p, id |-> g, rec |-> rec]
                                /\ put.item = "goal" /\ put.of = p /\ put.id = g /\ put.rec = rec
  <2>1. [item |-> "goal", of |-> p, id |-> g, rec |-> rec] \in PutRequest
    BY DEF PutRequest
  <2> QED
    BY <2>1
<1>5. Due(put) /\ ~Creates(put)
  BY <1>4 DEF Due, Creates
<1>6. CASE linkedTasks = <<>>
  <2>1. <<put>> \o [n \in DOMAIN linkedTasks |-> TaskOfGoal(p, g, linkedTasks[n].id, linkedTasks[n].done)] = <<put>>
    BY <1>6
  <2>2. Send(r, <<put>>)
    BY <1>3, <1>4, <2>1 DEF updateGoal
  <2> QED
    <3>1. <<put>> \in Seq(PutRequest) /\ Range(<<put>>) = {put} /\ Head(<<put>>) = put /\ Range(Tail(<<put>>)) = {}
          /\ <<put>> # <<>>
      BY OnePut
    <3> QED
      BY <1>3, <1>4, <1>5, <2>2, <3>1
<1>7. ASSUME NEW x \in [id : TaskId, done : BOOLEAN], linkedTasks = <<x>>
      PROVE  \E puts \in Seq(PutRequest) :
                /\ Send(r, puts) /\ put = Head(puts) /\ puts # <<>>
                /\ \A q \in Range(puts) : q = put \/ q.item = "task"
                /\ \A q \in Range(Tail(puts)) : q.item = "task"
                /\ \A q \in Range(puts) : Due(q) /\ ~Creates(q)
  <2>2. x.id \in TaskId /\ x.done \in BOOLEAN
    BY <1>7
  <2>3. PICK task : task = TaskOfGoal(p, g, x.id, x.done)
    OBVIOUS
  <2>4. task \in PutRequest /\ Due(task) /\ ~Creates(task) /\ task.item = "task"
    BY <2>2, <2>3, LinkedTask
  <2>5. [n \in DOMAIN linkedTasks |-> TaskOfGoal(p, g, linkedTasks[n].id, linkedTasks[n].done)] = <<task>>
    BY <1>7, <2>3
  <2>6. Send(r, <<put>> \o <<task>>)
    BY <1>3, <1>4, <2>5 DEF updateGoal
  <2>7. <<put>> \o <<task>> = <<put, task>>
    <3>1. <<put>> \in Seq(PutRequest) /\ <<task>> \in Seq(PutRequest) /\ <<put, task>> \in Seq(PutRequest)
      BY <2>4
    <3>2. /\ Len(<<put>>) = 1 /\ Len(<<task>>) = 1 /\ <<put>>[1] = put /\ <<task>>[1] = task
          /\ Len(<<put, task>>) = 2 /\ <<put, task>>[1] = put /\ <<put, task>>[2] = task
      OBVIOUS
    <3>3. /\ <<put>> \o <<task>> \in Seq(PutRequest) /\ Len(<<put>> \o <<task>>) = 2
          /\ \A i \in 1..2 : (<<put>> \o <<task>>)[i] = IF i <= 1 THEN <<put>>[i] ELSE <<task>>[i - 1]
      BY <3>1, <3>2, ConcatProperties
    <3>4. \A i \in 1..2 : (<<put>> \o <<task>>)[i] = <<put, task>>[i]
      <4>1. 1 <= 1 /\ ~(2 <= 1) /\ 2 - 1 = 1 /\ \A i \in 1..2 : i = 1 \/ i = 2
        OBVIOUS
      <4> QED
        BY <3>2, <3>3, <4>1
    <3> QED
      BY <3>1, <3>2, <3>3, <3>4, SeqEqual
  <2>8. /\ <<put, task>> \in Seq(PutRequest) /\ Head(<<put, task>>) = put /\ Tail(<<put, task>>) = <<task>>
        /\ Range(<<put, task>>) = {put, task} /\ Range(<<task>>) = {task} /\ <<put, task>> # <<>>
    BY <2>4, OnePut DEF Range
  <2> QED
    BY <1>5, <2>4, <2>6, <2>7, <2>8
<1> QED
  BY <1>3, <1>4, <1>6, <1>7 DEF TaskList

LEMMA UpdateGoalKeeps ==
    ASSUME IInv, NEW r \in Request, NEW p \in Partition, NEW g \in Goal, NEW patch \in GoalPatch,
           NEW linkedTasks \in TaskList, updateGoal(r, p, g, patch, linkedTasks)
    PROVE  IInv'
<1>1. PICK puts \in Seq(PutRequest) : Send(r, puts) /\ \A q \in Range(puts) : Due(q) /\ ~Creates(q)
  BY UpdateGoalPuts
<1> QED
  BY <1>1, BeginKeeps

LEMMA GoalCommentKeeps ==
    ASSUME IInv, NEW r \in Request, NEW p \in Partition, NEW g \in Goal, NEW author \in User,
           NEW role \in {"member", "manager"}, role = "manager" => goals[p][g] # None,
           writeGoalComment(r, p, g, author, role)
    PROVE  IInv'
<1>1. PICK rec \in Comment : /\ rec = [of |-> p, goal |-> g, author |-> author, role |-> role]
                             /\ rec.of = p /\ rec.goal = g /\ rec.role = role
  <2>1. [of |-> p, goal |-> g, author |-> author, role |-> role] \in Comment
    BY DEF Comment
  <2> QED
    BY <2>1
<1>2. PICK put \in PutRequest : put = [item |-> "comment", rec |-> rec] /\ put.item = "comment" /\ put.rec = rec
  <2>1. [item |-> "comment", rec |-> rec] \in PutRequest
    BY DEF PutRequest
  <2> QED
    BY <2>1
<1>3. Send(r, <<put>>)
  BY <1>1, <1>2 DEF writeGoalComment
<1>4. Due(put) /\ ~Creates(put)
  BY <1>1, <1>2 DEF Due, Creates
<1>5. <<put>> \in Seq(PutRequest) /\ Range(<<put>>) = {put}
  BY OnePut
<1> QED
  BY <1>3, <1>4, <1>5, BeginKeeps

LEMMA NoteKeeps ==
    ASSUME IInv, NEW r \in Request, NEW p \in Partition, NEW author \in User,
           NEW kind \in {"meeting", "feedback", "remark"}, Write(r, p, author, kind)
    PROVE  IInv'
<1>1. PICK rec \in Note : rec = [of |-> p, author |-> author, kind |-> kind]
  <2>1. [of |-> p, author |-> author, kind |-> kind] \in Note
    BY DEF Note
  <2> QED
    BY <2>1
<1>2. PICK put \in PutRequest : put = [item |-> "note", rec |-> rec] /\ put.item = "note"
  <2>1. [item |-> "note", rec |-> rec] \in PutRequest
    BY DEF PutRequest
  <2> QED
    BY <2>1
<1>3. Send(r, <<put>>)
  BY <1>1, <1>2 DEF Write
<1>4. Due(put) /\ ~Creates(put)
  BY <1>2 DEF Due, Creates
<1>5. <<put>> \in Seq(PutRequest) /\ Range(<<put>>) = {put}
  BY OnePut
<1> QED
  BY <1>3, <1>4, <1>5, BeginKeeps
-----------------------------------------------------------------------------
(* The invariant, action by action.                                        *)

LEMMA NextInv == IInv /\ [Next]_vars => IInv'
<1> SUFFICES ASSUME IInv, [Next]_vars PROVE IInv'
  OBVIOUS
<1>1. ASSUME NEW r \in Request, NEW p \in Partition, handleGoals(r, p) PROVE IInv'
  <2>1. PICK g \in Goal :
           \/ \E type \in GoalType, status \in GoalStatus : createGoal(r, p, g, type, status)
           \/ \E patch \in GoalPatch, linkedTasks \in TaskList : updateGoal(r, p, g, patch, linkedTasks)
           \/ addGoalComment(r, p, g)
           \/ \E x \in Uuid : addLinkedTask(r, p, g, x)
    BY <1>1 DEF handleGoals
  <2>2. CASE \E type \in GoalType, status \in GoalStatus : createGoal(r, p, g, type, status)
    BY <2>2, CreateGoalKeeps
  <2>3. CASE \E patch \in GoalPatch, linkedTasks \in TaskList : updateGoal(r, p, g, patch, linkedTasks)
    BY <2>3, UpdateGoalKeeps
  <2>4. CASE addGoalComment(r, p, g)
    <3>1. p[1] \in User /\ writeGoalComment(r, p, g, p[1], "member")
      BY <2>4 DEF addGoalComment, Partition
    <3> QED
      BY <3>1, GoalCommentKeeps
  <2>5. CASE \E x \in Uuid : addLinkedTask(r, p, g, x)
    BY <2>5, AddLinkedTaskKeeps
  <2> QED
    BY <2>1, <2>2, <2>3, <2>4, <2>5
<1>2. ASSUME NEW r \in Request, NEW p \in Partition, handleTasks(r, p) PROVE IInv'
  <2>1. CASE \E goal \in Goal \cup {None}, status \in Status : createTask(r, p, goal, status)
    BY <2>1, CreateTaskKeeps
  <2>2. CASE \E x \in TaskId : updateTask(p, x)
    BY <2>2, UpdateTaskKeeps
  <2> QED
    BY <1>2, <2>1, <2>2 DEF handleTasks
<1>3. ASSUME NEW r \in Request, NEW p \in Partition, createMeeting(r, p) \/ sendFeedbackRequest(r, p) PROVE IInv'
  <2>1. p[1] \in User /\ \E kind \in {"meeting", "feedback", "remark"} : Write(r, p, p[1], kind)
    BY <1>3 DEF createMeeting, sendFeedbackRequest, Partition
  <2> QED
    BY <2>1, NoteKeeps
<1>4. ASSUME NEW r \in Request, NEW p \in Partition, handleTeamPerformance(r, p) PROVE IInv'
  <2>1. PICK manager \in User : \/ \E g \in Goal : addManagerGoalComment(r, p, g, manager)
                                \/ addManagerComment(r, p, manager)
    BY <1>4 DEF handleTeamPerformance
  <2>2. ASSUME NEW g \in Goal, addManagerGoalComment(r, p, g, manager) PROVE IInv'
    <3>1. goals[p][g] # None /\ writeGoalComment(r, p, g, manager, "manager")
      BY <2>2 DEF addManagerGoalComment, GoalOfMember
    <3> QED
      BY <3>1, GoalCommentKeeps
  <2>3. CASE addManagerComment(r, p, manager)
    <3>1. Write(r, p, manager, "remark")
      BY <2>3 DEF addManagerComment
    <3> QED
      BY <3>1, NoteKeeps
  <2> QED
    BY <2>1, <2>2, <2>3
<1>5. ASSUME NEW r \in Request, PutItem(r) PROVE IInv'
  <2>1. PutGoal(r) \/ PutTask(r) \/ PutComment(r) \/ PutNote(r)
    BY <1>5 DEF PutItem
  <2> QED
    BY <1>5, <2>1, PutGoalKeeps, PutTaskKeeps, PutOtherKeeps
<1>6. ASSUME NEW r \in Request, Fail(r) PROVE IInv'
  BY <1>6, FailKeeps
<1>7. CASE UNCHANGED vars
  <2>1. PutsAreDue'
    BY <1>7 DEF IInv, PutsAreDue, Due, Creates, Numbered, DoneAgrees, vars
  <2>2. CreatedOnce'
    BY <1>7 DEF IInv, CreatedOnce, SameNumber, Creates, vars
  <2> QED
    BY <1>7, <2>1, <2>2 DEF IInv, TypeOK, NumbersHeld, Numbered, StoredDoneAgrees, DoneAgrees, CommentsHang, vars
<1> QED
  BY <1>1, <1>2, <1>3, <1>4, <1>5, <1>6, <1>7 DEF Next, handleMe

LEMMA InvIsInductive == Spec => []IInv
BY InitInv, NextInv, PTL DEF Spec

\* Goals, tasks, comments, notes and the writes in flight have the shape the code
\* gives them, for any number of requests.
THEOREM TypeCorrect == Spec => []TypeOK
<1>1. IInv => TypeOK
  BY DEF IInv
<1> QED
  BY <1>1, InvIsInductive, PTL

LEMMA FiltersAgreeInv == IInv => FiltersAgree
<1> SUFFICES ASSUME IInv, NEW p \in Partition, NEW status \in Status
             PROVE  listAllTasks(p, Every, "true", status) =
                        IF status \in Finished THEN listAllTasks(p, Every, Every, status) ELSE {}
  BY DEF FiltersAgree
<1>1. status # Every /\ status # None
  BY NoneAssumption DEF Status, Every
<1>2. \A x \in TaskId : x \in listAllTasks(p, Every, Every, status) <=> tasks[p][x] # None /\ tasks[p][x].status = status
  BY <1>1 DEF listAllTasks, Every
<1>3. \A x \in TaskId : x \in listAllTasks(p, Every, "true", status)
                            <=> tasks[p][x] # None /\ tasks[p][x].done = TRUE /\ tasks[p][x].status = status
  BY <1>1 DEF listAllTasks, Every
<1>4. \A x \in TaskId : tasks[p][x] # None => tasks[p][x].done \in BOOLEAN
  BY DEF IInv, TypeOK, TaskRecord
<1>5. \A x \in TaskId : tasks[p][x] # None /\ tasks[p][x].status = status
                            => tasks[p][x].done = (status \in Finished)
  BY <1>1 DEF IInv, StoredDoneAgrees, DoneAgrees
<1>6. /\ listAllTasks(p, Every, "true", status) \subseteq TaskId
      /\ listAllTasks(p, Every, Every, status) \subseteq TaskId
  BY DEF listAllTasks
<1>7. CASE status \in Finished
  BY <1>2, <1>3, <1>4, <1>5, <1>6, <1>7
<1>8. CASE status \notin Finished
  BY <1>2, <1>3, <1>4, <1>5, <1>6, <1>8
<1> QED
  BY <1>7, <1>8

\* Every task that has a status is done exactly when the status says so, whichever
\* of the two was changed last and however the puts interleave.
THEOREM FiltersOfTasksAgree == Spec => []FiltersAgree
BY FiltersAgreeInv, InvIsInductive, PTL

LEMMA CommentsShownInv == IInv => ManagersCommentsAreShown
<1> SUFFICES ASSUME IInv, NEW c \in comments, c.role = "manager"
             PROVE  c.goal \in DOMAIN listGoals(c.of) /\ c \in listGoals(c.of)[c.goal].comments
  BY DEF ManagersCommentsAreShown
<1>1. c.of \in Partition /\ c.goal \in Goal /\ goals[c.of][c.goal] # None
  BY DEF IInv, TypeOK, Comment, CommentsHang
<1>2. c \in fetchGoalComments(c.of, c.goal)
  BY DEF fetchGoalComments
<1> QED
  BY <1>1, <1>2 DEF listGoals

\* A manager's comment stays with the goal it was written on: the goal was looked
\* for a call before the comment is put, and no request takes a goal away.
THEOREM ManagersCommentsStay == Spec => []ManagersCommentsAreShown
BY CommentsShownInv, InvIsInductive, PTL
-----------------------------------------------------------------------------
(* The ids of tasks: with the history of the numbers that were named.      *)

\* An update of a goal that waits to store a task of a number no other has named.
OwnTasksNamed ==
    \A r \in Request : \A put \in Range(req[r]) :
        put.item = "task" /\ put.rec.number = 0 /\ put.id \in Number /\ <<put.of[2], put.id>> \notin named
        => tasks[put.of][put.id] # None

CreatedIsNew ==
    \A r \in Request : \A put \in Range(req[r]) :
        Creates(put) /\ <<put.of[2], put.id>> \notin named
        => \A o \in Partition : o[2] = put.of[2] => tasks[o][put.id] = None

IdsHeld ==
    \A p, q \in Partition, n \in Number :
        p[2] = q[2] /\ <<p[2], n>> \notin named /\ tasks[p][n] # None /\ tasks[q][n] # None
        => p = q /\ n <= counter[p[2]]

NInv == IInv /\ OwnTasksNamed /\ CreatedIsNew /\ IdsHeld

LEMMA NInitInv == HInit => NInv
<1> SUFFICES ASSUME HInit PROVE NInv
  OBVIOUS
<1>1. IInv
  BY InitInv DEF HInit
<1>2. \A r \in Request : Range(req[r]) = {}
  BY NoPut DEF HInit, Init
<1>3. IdsHeld
  BY DEF HInit, Init, IdsHeld, TaskId
<1> QED
  BY <1>1, <1>2, <1>3 DEF NInv, OwnTasksNamed, CreatedIsNew

\* Whatever is about to be put, the history has what it names.
LEMMA NamedIsKept == ASSUME IInv', Named' \subseteq named' PROVE OwnTasksNamed'
<1> SUFFICES ASSUME NEW r \in Request, NEW put \in Range(req'[r]), put.item = "task", put.rec.number = 0,
                    put.id \in Number, <<put.of[2], put.id>> \notin named', tasks'[put.of][put.id] = None
             PROVE  FALSE
  BY DEF OwnTasksNamed
<1>1. put \in Pending'
  BY DEF Pending
<1>2. <<put.of[2], put.id>> \in Named'
  BY <1>1 DEF Named
<1> QED
  BY <1>2

\* A step that gives nobody a task under a number, and counts what it creates.
LEMMA IdsStay ==
    ASSUME NInv, IInv', named \subseteq named', Named' \subseteq named',
           \A t \in Team : counter[t] <= counter'[t],
           \A p \in Partition, n \in Number : tasks'[p][n] # None => tasks[p][n] # None,
           \A r \in Request : \A put \in Range(req'[r]) :
               Creates(put) => \/ \E s \in Request : put \in Range(req[s])
                               \/ put.id = counter[put.of[2]] + 1
    PROVE  NInv'
<1>1. ASSUME NEW r \in Request, NEW put \in Range(req'[r]), Creates(put),
             <<put.of[2], put.id>> \notin named', NEW o \in Partition, o[2] = put.of[2]
      PROVE  tasks'[o][put.id] = None
  <2>0. req'[r] \in Seq(PutRequest)
    BY DEF IInv, TypeOK
  <2>1. put \in PutRequest /\ Due(put)'
    BY <2>0, RangeOfSeq DEF IInv, PutsAreDue
  <2>2. put.of \in Partition /\ put.id \in Number /\ put.of[2] \in Team
    BY <1>1, <2>1, PutFields DEF Creates, Due, TaskRecord, Partition
  <2>3. ASSUME NEW s \in Request, put \in Range(req[s]) PROVE tasks[o][put.id] = None
    BY <1>1, <2>3 DEF NInv, CreatedIsNew
  <2>4. CASE put.id = counter[put.of[2]] + 1
    <3>1. counter[put.of[2]] \in Nat
      BY <2>2, BoundAssumption DEF NInv, IInv, TypeOK
    <3> QED
      BY <1>1, <2>2, <2>4, <3>1 DEF NInv, IdsHeld, Number
  <2> QED
    BY <1>1, <2>2, <2>3, <2>4
<1>2. CreatedIsNew'
  BY <1>1 DEF CreatedIsNew, Creates
<1>3. IdsHeld'
  <2> SUFFICES ASSUME NEW p \in Partition, NEW q \in Partition, NEW n \in Number, p[2] = q[2],
                      <<p[2], n>> \notin named', tasks'[p][n] # None, tasks'[q][n] # None
               PROVE  p = q /\ n <= counter'[p[2]]
    BY DEF IdsHeld
  <2>1. p = q /\ n <= counter[p[2]] /\ p[2] \in Team
    BY DEF NInv, IdsHeld, Partition
  <2>2. counter[p[2]] \in Nat /\ counter'[p[2]] \in Nat /\ counter[p[2]] <= counter'[p[2]]
    BY <2>1, BoundAssumption DEF NInv, IInv, TypeOK
  <2> QED
    BY <2>1, <2>2 DEF Number
<1> QED
  BY <1>2, <1>3, NamedIsKept DEF NInv

\* The put of a task: of the number it was counted for, or of one its user has.
LEMMA PutTaskIds ==
    ASSUME NInv, IInv', named \subseteq named', Named' \subseteq named', NEW r \in Request, PutItem(r), PutTask(r)
    PROVE  NInv'
<1>1. PICK h : h = Head(req[r])
  OBVIOUS
<1>2. h \in Range(req[r]) /\ h \in PutRequest /\ Due(h) /\ h.item = "task"
  BY <1>1, PutStep DEF PutTask, NInv
<1>3. h.of \in Partition /\ h.id \in TaskId /\ h.rec \in TaskRecord /\ h.of[2] \in Team
  BY <1>2, PutFields DEF Partition
<1>4. tasks' = [tasks EXCEPT ![h.of][h.id] = h.rec] /\ counter' = counter
  BY <1>1, PutStep DEF PutTask, NInv
<1>5. \A q \in Partition, n \in Number : <<q, n>> # <<h.of, h.id>> => tasks'[q][n] = tasks[q][n]
  BY <1>3, <1>4 DEF NInv, IInv, TypeOK, TaskId
<1>6. \/ Creates(h)
      \/ h.id \notin Number
      \/ <<h.of[2], h.id>> \in named
      \/ tasks[h.of][h.id] # None
  BY <1>2 DEF NInv, OwnTasksNamed, Creates
<1>7. CASE h.id \notin Number \/ tasks[h.of][h.id] # None
  <2>1. \A q \in Partition, n \in Number : tasks'[q][n] # None => tasks[q][n] # None
    BY <1>5, <1>7
  <2>2. \A s \in Request : \A put \in Range(req'[s]) : put \in Range(req[s])
    BY PutStep DEF NInv
  <2>3. \A t \in Team : counter[t] <= counter'[t]
    BY <1>4, BoundAssumption DEF NInv, IInv, TypeOK
  <2> QED
    BY <2>1, <2>2, <2>3, IdsStay
<1>8. CASE h.id \in Number /\ (Creates(h) \/ <<h.of[2], h.id>> \in named)
  <2>1. ASSUME NEW s \in Request, NEW put \in Range(req'[s]), Creates(put),
               <<put.of[2], put.id>> \notin named', NEW o \in Partition, o[2] = put.of[2]
        PROVE  tasks'[o][put.id] = None
    <3>1. put \in Range(req[s]) /\ put \in PutRequest /\ Due(put) /\ s # r
      BY <2>1, PutStep DEF NInv
    <3>2. put.id \in Number
      BY <2>1, <3>1, PutFields DEF Creates, Due, TaskRecord
    <3>3. tasks[o][put.id] = None
      BY <2>1, <3>1 DEF NInv, CreatedIsNew
    <3>4. <<o, put.id>> # <<h.of, h.id>>
      <4> SUFFICES ASSUME o = h.of, put.id = h.id PROVE FALSE
        OBVIOUS
      <4>1. Creates(h)
        BY <1>8, <2>1
      <4>2. SameNumber(h, put)
        BY <4>1, <2>1 DEF SameNumber
      <4> QED
        BY <4>2, <1>2, <3>1 DEF NInv, IInv, CreatedOnce
    <3> QED
      BY <1>5, <3>2, <3>3, <3>4
  <2>2. CreatedIsNew'
    BY <2>1 DEF CreatedIsNew, Creates
  <2>3. IdsHeld'
    <3> SUFFICES ASSUME NEW p \in Partition, NEW q \in Partition, NEW n \in Number, p[2] = q[2],
                        <<p[2], n>> \notin named', tasks'[p][n] # None, tasks'[q][n] # None
                 PROVE  p = q /\ n <= counter[p[2]]
      BY <1>4 DEF IdsHeld
    <3>1. CASE n = h.id /\ p[2] = h.of[2]
      <4>1. Creates(h) /\ <<h.of[2], h.id>> \notin named
        BY <1>8, <3>1
      <4>2. \A o \in Partition : o[2] = h.of[2] => tasks[o][n] = None
        BY <4>1, <1>2, <3>1 DEF NInv, CreatedIsNew
      <4>3. n <= counter[p[2]]
        BY <4>1, <1>2, <3>1 DEF Due
      <4> QED
        BY <4>2, <4>3, <3>1, <1>5
    <3>2. CASE ~(n = h.id /\ p[2] = h.of[2])
      <4>1. <<p, n>> # <<h.of, h.id>> /\ <<q, n>> # <<h.of, h.id>>
        BY <3>2
      <4>2. tasks[p][n] # None /\ tasks[q][n] # None
        BY <4>1, <1>5
      <4> QED
        BY <4>2 DEF NInv, IdsHeld
    <3> QED
      BY <3>1, <3>2
  <2> QED
    BY <2>2, <2>3, NamedIsKept DEF NInv
<1> QED
  BY <1>6, <1>7, <1>8

\* A request begins with no task to create.
LEMMA BeginsCreatingNone ==
    ASSUME IInv, NEW r \in Request, NEW p \in Partition,
           \/ handleGoals(r, p) \/ createMeeting(r, p) \/ sendFeedbackRequest(r, p) \/ handleTeamPerformance(r, p)
    PROVE  /\ tasks' = tasks /\ counter' = counter
           /\ \A s \in Request : \A put \in Range(req'[s]) : Creates(put) => put \in Range(req[s])
<1>1. ASSUME NEW puts, Send(r, puts), \A put \in Range(puts) : ~Creates(put)
      PROVE  /\ tasks' = tasks /\ counter' = counter
             /\ \A s \in Request : \A put \in Range(req'[s]) : Creates(put) => put \in Range(req[s])
  <2>1. tasks' = tasks /\ counter' = counter /\ req' = [req EXCEPT ![r] = puts]
    BY <1>1 DEF Send, Begin
  <2>2. req'[r] = puts /\ \A s \in Request \ {r} : req'[s] = req[s]
    BY <2>1 DEF IInv, TypeOK
  <2> QED
    BY <1>1, <2>1, <2>2
<1>2. ASSUME NEW put, ~Creates(put) PROVE \A q \in Range(<<put>>) : ~Creates(q)
  <2>1. Range(<<put>>) = {put}
    <3>1. put \in {put}
      OBVIOUS
    <3> QED
      BY <3>1, OnePut
  <2> QED
    BY <1>2, <2>1
<1>3. ASSUME NEW g \in Goal, NEW type \in GoalType, NEW status \in GoalStatus, createGoal(r, p, g, type, status)
      PROVE  \E puts : Send(r, puts) /\ \A put \in Range(puts) : ~Creates(put)
  <2>1. PICK put : put = [item |-> "goal", of |-> p, id |-> g,
                          rec |-> [type |-> type, progress |-> 0, status |-> status]]
    OBVIOUS
  <2>2. ~Creates(put)
    BY <2>1 DEF Creates
  <2> QED
    BY <1>2, <1>3, <2>1, <2>2 DEF createGoal
<1>4. ASSUME NEW g \in Goal, NEW patch \in GoalPatch, NEW linkedTasks \in TaskList, updateGoal(r, p, g, patch, linkedTasks)
      PROVE  \E puts : Send(r, puts) /\ \A put \in Range(puts) : ~Creates(put)
  BY <1>4, UpdateGoalPuts
<1>5. ASSUME NEW g \in Goal, NEW x \in Uuid, addLinkedTask(r, p, g, x)
      PROVE  \E puts : Send(r, puts) /\ \A put \in Range(puts) : ~Creates(put)
  <2>1. PICK put : put = TaskOfGoal(p, g, x, FALSE)
    OBVIOUS
  <2>2. ~Creates(put)
    BY <2>1 DEF Creates, TaskOfGoal
  <2> QED
    BY <1>2, <1>5, <2>1, <2>2 DEF addLinkedTask
<1>6. ASSUME NEW g, NEW author, NEW role, writeGoalComment(r, p, g, author, role)
      PROVE  \E puts : Send(r, puts) /\ \A put \in Range(puts) : ~Creates(put)
  <2>1. PICK put : put = [item |-> "comment", rec |-> [of |-> p, goal |-> g, author |-> author, role |-> role]]
    OBVIOUS
  <2>2. ~Creates(put)
    BY <2>1 DEF Creates
  <2> QED
    BY <1>2, <1>6, <2>1, <2>2 DEF writeGoalComment
<1>7. ASSUME NEW author, NEW kind, Write(r, p, author, kind)
      PROVE  \E puts : Send(r, puts) /\ \A put \in Range(puts) : ~Creates(put)
  <2>1. PICK put : put = [item |-> "note", rec |-> [of |-> p, author |-> author, kind |-> kind]]
    OBVIOUS
  <2>2. ~Creates(put)
    BY <2>1 DEF Creates
  <2> QED
    BY <1>2, <1>7, <2>1, <2>2 DEF Write
<1>8. \E puts : Send(r, puts) /\ \A put \in Range(puts) : ~Creates(put)
  <2>1. CASE handleGoals(r, p)
    BY <2>1, <1>3, <1>4, <1>5, <1>6 DEF handleGoals, addGoalComment
  <2>2. CASE createMeeting(r, p) \/ sendFeedbackRequest(r, p)
    BY <2>2, <1>7 DEF createMeeting, sendFeedbackRequest
  <2>3. CASE handleTeamPerformance(r, p)
    BY <2>3, <1>6, <1>7 DEF handleTeamPerformance, addManagerGoalComment, addManagerComment
  <2> QED
    BY <2>1, <2>2, <2>3
<1> QED
  BY <1>1, <1>8

LEMMA NNextInv == NInv /\ [HNext]_<<vars, history>> => NInv'
<1> SUFFICES ASSUME NInv, [HNext]_<<vars, history>> PROVE NInv'
  OBVIOUS
<1>1. IInv' /\ IInv
  BY NextInv DEF NInv, HNext, vars, history
<1>2. \A t \in Team : counter[t] \in Nat
  BY <1>1, BoundAssumption DEF IInv, TypeOK
<1>3. CASE UNCHANGED <<vars, history>>
  <2>1. tasks' = tasks /\ counter' = counter /\ req' = req /\ named' = named
    BY <1>3 DEF vars, history
  <2> QED
    BY <1>1, <2>1 DEF NInv, OwnTasksNamed, CreatedIsNew, IdsHeld, Creates
<1>4. ASSUME HNext PROVE NInv'
  <2>1. named \subseteq named' /\ Named' \subseteq named'
    BY <1>4 DEF HNext
  <2>2. PICK r \in Request : \/ \E p \in Partition : handleMe(r, p) \/ handleTeamPerformance(r, p)
                             \/ PutItem(r) \/ Fail(r)
    BY <1>4 DEF HNext, Next
  <2>3. ASSUME NEW p \in Partition,
               \/ handleGoals(r, p) \/ createMeeting(r, p) \/ sendFeedbackRequest(r, p) \/ handleTeamPerformance(r, p)
        PROVE  NInv'
    <3>1. /\ tasks' = tasks /\ counter' = counter
          /\ \A s \in Request : \A put \in Range(req'[s]) : Creates(put) => put \in Range(req[s])
      BY <2>3, <1>1, BeginsCreatingNone
    <3> QED
      BY <3>1, <1>1, <1>2, <2>1, IdsStay
  <2>4. ASSUME NEW p \in Partition, NEW goal \in Goal \cup {None}, NEW status \in Status,
               createTask(r, p, goal, status)
        PROVE  NInv'
    <3>1. PICK put : put = [item |-> "task", of |-> p, id |-> nextTaskNumber(p[2]),
                            rec |-> [goal |-> goal, status |-> status, done |-> status \in Finished,
                                     number |-> nextTaskNumber(p[2])]]
      OBVIOUS
    <3>2. /\ tasks' = tasks /\ counter' = [counter EXCEPT ![p[2]] = nextTaskNumber(p[2])]
          /\ req' = [req EXCEPT ![r] = <<put>>]
      BY <2>4, <3>1 DEF createTask, Begin
    <3>3. p[2] \in Team /\ put.id = counter[p[2]] + 1 /\ put.of = p
      BY <3>1 DEF Partition, nextTaskNumber
    <3>4. \A t \in Team : counter[t] <= counter'[t]
      BY <1>1, <1>2, <3>2, <3>3 DEF IInv, TypeOK, nextTaskNumber
    <3>5. req'[r] = <<put>> /\ \A s \in Request \ {r} : req'[s] = req[s]
      BY <1>1, <3>2 DEF IInv, TypeOK
    <3>6. Range(<<put>>) = {put}
      <4>1. put \in {put}
        OBVIOUS
      <4> QED
        BY <4>1, OnePut
    <3>7. ASSUME NEW s \in Request, NEW q \in Range(req'[s])
          PROVE  q \in Range(req[s]) \/ q.id = counter[q.of[2]] + 1
      BY <3>3, <3>5, <3>6
    <3> QED
      BY <1>1, <2>1, <3>2, <3>4, <3>7, IdsStay
  <2>5. ASSUME NEW p \in Partition, NEW x \in TaskId, updateTask(p, x) PROVE NInv'
    <3>1. /\ tasks[p][x] # None /\ UNCHANGED <<counter, req>>
          /\ \E task : tasks' = [tasks EXCEPT ![p][x] = task]
      BY <2>5 DEF updateTask
    <3>2. \A q \in Partition, n \in Number : tasks'[q][n] # None => tasks[q][n] # None
      BY <1>1, <3>1 DEF IInv, TypeOK, TaskId
    <3> QED
      BY <1>1, <1>2, <2>1, <3>1, <3>2, IdsStay
  <2>6. ASSUME PutItem(r) PROVE NInv'
    <3>1. CASE PutTask(r)
      BY <1>1, <2>1, <2>6, <3>1, PutTaskIds
    <3>2. CASE PutGoal(r) \/ PutComment(r) \/ PutNote(r)
      <4>1. tasks' = tasks /\ counter' = counter
        BY <1>1, <2>6, <3>2, PutStep DEF PutGoal, PutComment, PutNote
      <4>2. \A s \in Request : \A put \in Range(req'[s]) : put \in Range(req[s])
        BY <1>1, <2>6, PutStep
      <4> QED
        BY <1>1, <1>2, <2>1, <4>1, <4>2, IdsStay
    <3> QED
      BY <2>6, <3>1, <3>2 DEF PutItem
  <2>7. ASSUME Fail(r) PROVE NInv'
    <3>1. /\ tasks' = tasks /\ counter' = counter /\ req[r] # <<>>
          /\ \E rest \in {Tail(req[r]), <<>>} : req' = [req EXCEPT ![r] = rest]
      BY <2>7 DEF Fail
    <3>2. \A s \in Request : \A put \in Range(req'[s]) : put \in Range(req[s])
      BY <1>1, <3>1, Shrinks
    <3> QED
      BY <1>1, <1>2, <2>1, <3>1, <3>2, IdsStay
  <2> QED
    BY <2>2, <2>3, <2>4, <2>5, <2>6, <2>7 DEF handleMe, handleTasks
<1> QED
  BY <1>3, <1>4

LEMMA AtMostOne ==
    ASSUME NEW S, \A x, y \in S : x = y
    PROVE  Cardinality(S) \in 0..1 /\ (S = {} => Cardinality(S) = 0)
<1>1. CASE S = {}
  BY <1>1, FS_EmptySet
<1>2. CASE S # {}
  <2>1. PICK x : S = {x}
    BY <1>2
  <2> QED
    BY <1>2, <2>1, FS_Singleton
<1> QED
  BY <1>1, <1>2

LEMMA NumbersUniqueInv == NInv => NumbersUnique
<1> DEFINE Owners(t, n) == IF <<t, n>> \in named THEN GivenTo(t, n) ELSE Holders(t, n)
<1> SUFFICES ASSUME NInv, NEW t \in Team, NEW n \in Number
             PROVE  /\ Cardinality(Owners(t, n)) + Cardinality(CreatedAs(t, n)) <= 1
                    /\ Owners(t, n) \cup CreatedAs(t, n) # {} => n <= counter[t]
  BY DEF NumbersUnique
<1>1. \A p \in Owners(t, n) : /\ p \in Partition /\ p[2] = t /\ tasks[p][n] # None
                              /\ <<t, n>> \in named => Numbered(p, n)
  BY DEF GivenTo, Holders, listAllTasks, Numbered
<1>2. \A p, q \in Owners(t, n) : p = q /\ n <= counter[t]
  BY <1>1 DEF NInv, IInv, NumbersHeld, IdsHeld
<1>3. ASSUME NEW o \in CreatedAs(t, n)
      PROVE  \E r \in Request : \E put \in Range(req[r]) :
                /\ Creates(put) /\ put.of = o /\ o[2] = t /\ put.id = n /\ n <= counter[t]
                /\ put = Head(req[r])
                /\ \A p \in Partition : p[2] = t => ~Numbered(p, n)
                /\ <<t, n>> \notin named => \A p \in Partition : p[2] = t => tasks[p][n] = None
  <2>1. PICK put \in Pending : put.item = "task" /\ put.of[2] = t /\ put.id = n /\ put.rec.number = n /\ o = put.of
    BY DEF CreatedAs
  <2>2. PICK r \in Request : put \in Range(req[r])
    BY DEF Pending
  <2>3. Creates(put)
    BY <2>1 DEF Creates, Number
  <2>4. Due(put) /\ put = Head(req[r])
    BY <2>2, <2>3 DEF NInv, IInv, PutsAreDue
  <2>5. <<t, n>> \notin named => \A p \in Partition : p[2] = t => tasks[p][n] = None
    BY <2>1, <2>2, <2>3 DEF NInv, CreatedIsNew
  <2> QED
    BY <2>1, <2>2, <2>3, <2>4, <2>5 DEF Due
<1>4. \A o, q \in CreatedAs(t, n) : o = q
  <2> SUFFICES ASSUME NEW o \in CreatedAs(t, n), NEW q \in CreatedAs(t, n) PROVE o = q
    OBVIOUS
  <2>1. PICK r \in Request : \E a \in Range(req[r]) :
            Creates(a) /\ a.of = o /\ o[2] = t /\ a.id = n /\ a = Head(req[r])
    BY <1>3
  <2>2. PICK a \in Range(req[r]) : Creates(a) /\ a.of = o /\ o[2] = t /\ a.id = n /\ a = Head(req[r])
    BY <2>1
  <2>3. PICK s \in Request : \E b \in Range(req[s]) :
            Creates(b) /\ b.of = q /\ q[2] = t /\ b.id = n /\ b = Head(req[s])
    BY <1>3
  <2>4. PICK b \in Range(req[s]) : Creates(b) /\ b.of = q /\ q[2] = t /\ b.id = n /\ b = Head(req[s])
    BY <2>3
  <2>5. r = s
    BY <2>2, <2>4 DEF NInv, IInv, CreatedOnce, SameNumber
  <2> QED
    BY <2>2, <2>4, <2>5
<1>5. Owners(t, n) = {} \/ CreatedAs(t, n) = {}
  BY <1>1, <1>3
<1> HIDE DEF Owners
<1>6. /\ Cardinality(Owners(t, n)) \in 0..1 /\ (Owners(t, n) = {} => Cardinality(Owners(t, n)) = 0)
      /\ Cardinality(CreatedAs(t, n)) \in 0..1 /\ (CreatedAs(t, n) = {} => Cardinality(CreatedAs(t, n)) = 0)
  BY <1>2, <1>4, AtMostOne
<1>7. Cardinality(Owners(t, n)) + Cardinality(CreatedAs(t, n)) <= 1
  BY <1>5, <1>6
<1>8. Owners(t, n) \cup CreatedAs(t, n) # {} => n <= counter[t]
  BY <1>2, <1>3
<1> QED
  BY <1>7, <1>8

\* However many members create tasks at once and whichever puts are lost, a number
\* is given to one task of the team at most, the one about to be put included: the
\* counter is raised before the number is used.  Nobody else has a task of it unless
\* an update of a goal named the number for a user without such a task.
THEOREM NumbersNameOneTask == HSpec => []NumbersUnique
BY NumbersUniqueInv, NInitInv, NNextInv, PTL DEF HSpec
-----------------------------------------------------------------------------
(* The puts of goals: with the history of those that met.                  *)

Waiting(r) == {put \in Range(req[r]) : put.item = "goal"}

\* The put of a goal comes first in its request.
GoalFirst == \A r \in Request : req[r] # <<>> => \A put \in Range(Tail(req[r])) : put.item # "goal"

\* A goal is one member's.
GoalsApart == \A p, q \in Partition, g \in Goal : goals[p][g] # None /\ goals[q][g] # None => p = q

\* What waits to be put was made of the goal as it is, unless another put of it
\* waited too; even then it has the type of the goal.
Fresh(put) ==
    /\ \A p \in Partition : goals[p][put.id] # None => p = put.of
    /\ goals[put.of][put.id] # None =>
          /\ put.rec.type = goals[put.of][put.id].type
          /\ put.id \notin disturbed => IsPatch(goals[put.of][put.id], put.rec)

Meet(r, s, a, b) ==
    a.id = b.id => a.of = b.of /\ (r # s => goals[a.of][a.id] # None /\ a.id \in disturbed)

WaitingIsFresh == \A r \in Request : \A put \in Waiting(r) : Fresh(put)
WaitingMeets == \A r, s \in Request : \A a \in Waiting(r), b \in Waiting(s) : Meet(r, s, a, b)

HInv == IInv /\ GoalFirst /\ GoalsApart /\ WaitingIsFresh /\ WaitingMeets

LEMMA HInitInv == HInit => HInv
<1> SUFFICES ASSUME HInit PROVE HInv
  OBVIOUS
<1>1. IInv
  BY InitInv DEF HInit
<1>2. \A r \in Request : req[r] = <<>> /\ Waiting(r) = {}
  BY NoPut DEF HInit, Init, Waiting
<1>3. GoalsApart
  BY DEF HInit, Init, GoalsApart
<1> QED
  BY <1>1, <1>2, <1>3 DEF HInv, GoalFirst, WaitingIsFresh, WaitingMeets

LEMMA WaitingTyped ==
    ASSUME TypeOK, NEW r \in Request, NEW put \in Waiting(r)
    PROVE  put \in PutRequest /\ put.of \in Partition /\ put.id \in Goal /\ put.rec \in GoalRecord
BY PendingTyped, PutFields DEF Waiting

\* No put of a goal is added and no goal changes.
LEMMA FewerWaiting ==
    ASSUME HInv, IInv', goals' = goals, disturbed \subseteq disturbed', GoalFirst',
           \A r \in Request : Waiting(r)' \subseteq Waiting(r)
    PROVE  HInv'
<1>1. GoalsApart'
  BY DEF HInv, GoalsApart
<1>2. WaitingIsFresh'
  <2> SUFFICES ASSUME NEW r \in Request, NEW put \in Waiting(r)' PROVE Fresh(put)'
    BY DEF WaitingIsFresh
  <2>1. Fresh(put)
    BY DEF HInv, WaitingIsFresh
  <2> QED
    BY <2>1 DEF Fresh
<1>3. WaitingMeets'
  <2> SUFFICES ASSUME NEW r \in Request, NEW s \in Request, NEW a \in Waiting(r)', NEW b \in Waiting(s)'
               PROVE  Meet(r, s, a, b)'
    BY DEF WaitingMeets
  <2>1. Meet(r, s, a, b)
    BY DEF HInv, WaitingMeets
  <2> QED
    BY <2>1 DEF Meet
<1> QED
  BY <1>1, <1>2, <1>3 DEF HInv

\* A request begins that puts no goal.
LEMMA OtherBegins ==
    ASSUME HInv, IInv', NEW r \in Request, NEW put, put.item # "goal", Begin(r, <<put>>),
           disturbed \subseteq disturbed'
    PROVE  HInv'
<1>1. goals' = goals /\ req' = [req EXCEPT ![r] = <<put>>]
  BY DEF Begin
<1>2. req'[r] = <<put>> /\ \A s \in Request \ {r} : req'[s] = req[s]
  BY <1>1 DEF HInv, IInv, TypeOK
<1>3. Range(<<put>>) = {put} /\ Range(Tail(<<put>>)) = {}
  <2>1. put \in {put}
    OBVIOUS
  <2> QED
    BY <2>1, OnePut
<1>4. \A s \in Request : Waiting(s)' \subseteq Waiting(s)
  BY <1>2, <1>3 DEF Waiting
<1>5. GoalFirst'
  BY <1>2, <1>3 DEF HInv, GoalFirst
<1> QED
  BY <1>1, <1>4, <1>5, FewerWaiting

\* A request begins that puts a goal: a new one, or one as it is but for the patch.
LEMMA GoalBegins ==
    ASSUME HInv, IInv', NEW r \in Request, NEW puts \in Seq(PutRequest), Send(r, puts),
           NEW put \in PutRequest, put.item = "goal", put = Head(puts), puts # <<>>,
           \A q \in Range(puts) : q = put \/ q.item # "goal",
           \A q \in Range(Tail(puts)) : q.item # "goal",
           Fresh(put),
           \A s \in Request : \A b \in Waiting(s) :
               b.id = put.id => b.of = put.of /\ goals[put.of][put.id] # None,
           disturbed' = disturbed \cup PutAtOnce'
    PROVE  HInv'
<1>1. goals' = goals /\ req' = [req EXCEPT ![r] = puts] /\ req[r] = <<>>
  BY DEF Send, Begin
<1>2. req'[r] = puts /\ \A s \in Request \ {r} : req'[s] = req[s]
  BY <1>1 DEF HInv, IInv, TypeOK
<1>3. Waiting(r)' = {put} /\ \A s \in Request \ {r} : Waiting(s)' = Waiting(s)
  <2>1. put \in Range(puts)
    BY HeadAndTail
  <2> QED
    BY <1>2, <2>1 DEF Waiting
<1>4. GoalFirst'
  BY <1>2 DEF HInv, GoalFirst
<1>5. GoalsApart'
  BY <1>1 DEF HInv, GoalsApart
<1>6. WaitingIsFresh'
  <2> SUFFICES ASSUME NEW s \in Request, NEW b \in Waiting(s)' PROVE Fresh(b)'
    BY DEF WaitingIsFresh
  <2>1. Fresh(b)
    BY <1>3 DEF HInv, WaitingIsFresh
  <2> QED
    BY <2>1, <1>1 DEF Fresh
<1>7. WaitingMeets'
  <2>1. ASSUME NEW s \in Request, NEW t \in Request, NEW a \in Waiting(s)', NEW b \in Waiting(t)',
               a.id = b.id, s # t
        PROVE  a.id \in disturbed'
    <3>0. a.id \in Goal
      BY <1>3, WaitingTyped, PutFields DEF HInv, IInv
    <3>1. a.id \in Goal /\ a.id \in GoalsOf(s)' /\ b.id \in GoalsOf(t)'
      BY <3>0 DEF Waiting, GoalsOf
    <3>2. a.id \in PutAtOnce'
      BY <2>1, <3>1 DEF PutAtOnce
    <3> QED
      BY <3>2
  <2>2. ASSUME NEW s \in Request, NEW t \in Request, NEW a \in Waiting(s)', NEW b \in Waiting(t)', a.id = b.id
        PROVE  a.of = b.of /\ (s # t => goals[a.of][a.id] # None)
    <3>1. CASE s = r /\ t = r
      BY <1>3, <3>1
    <3>2. CASE s = r /\ t # r
      BY <1>3, <2>2, <3>2
    <3>3. CASE s # r /\ t = r
      BY <1>3, <2>2, <3>3
    <3>4. CASE s # r /\ t # r
      BY <1>3, <2>2, <3>4 DEF HInv, WaitingMeets, Meet
    <3> QED
      BY <3>1, <3>2, <3>3, <3>4
  <2> QED
    BY <2>1, <2>2, <1>1 DEF WaitingMeets, Meet
<1> QED
  BY <1>4, <1>5, <1>6, <1>7 DEF HInv

LEMMA CreateGoalWaits ==
    ASSUME HInv, IInv', NEW r \in Request, NEW p \in Partition, NEW g \in Goal, NEW type \in GoalType,
           NEW status \in GoalStatus, createGoal(r, p, g, type, status), disturbed' = disturbed \cup PutAtOnce'
    PROVE  HInv'
<1>1. PICK rec \in GoalRecord : rec = [type |-> type, progress |-> 0, status |-> status]
  <2>1. [type |-> type, progress |-> 0, status |-> status] \in GoalRecord
    BY DEF GoalRecord
  <2> QED
    BY <2>1
<1>2. PICK put \in PutRequest : /\ put = [item |-> "goal", of |-> p, id |-> g, rec |-> rec]
                                /\ put.item = "goal" /\ put.id = g
  <2>1. [item |-> "goal", of |-> p, id |-> g, rec |-> rec] \in PutRequest
    BY DEF PutRequest
  <2> QED
    BY <2>1
<1>3. /\ Send(r, <<put>>)
      /\ \A o \in Partition : goals[o][g] = None
      /\ \A q \in Pending : q.item = "goal" => q.id # g
  BY <1>1, <1>2 DEF createGoal
<1>4. /\ <<put>> \in Seq(PutRequest) /\ Range(<<put>>) = {put} /\ Head(<<put>>) = put
      /\ Range(Tail(<<put>>)) = {} /\ <<put>> # <<>>
  BY OnePut
<1>5. put.of \in Partition
  BY <1>2, PutFields
<1>6. Fresh(put)
  BY <1>2, <1>3, <1>5 DEF Fresh
<1>7. \A s \in Request : \A b \in Waiting(s) : b.id # put.id
  BY <1>2, <1>3 DEF Waiting, Pending
<1> QED
  BY <1>2, <1>3, <1>4, <1>6, <1>7, GoalBegins

LEMMA UpdateGoalWaits ==
    ASSUME HInv, IInv', NEW r \in Request, NEW p \in Partition, NEW g \in Goal, NEW patch \in GoalPatch,
           NEW linkedTasks \in TaskList, updateGoal(r, p, g, patch, linkedTasks),
           disturbed' = disturbed \cup PutAtOnce'
    PROVE  HInv'
<1>1. PICK put \in PutRequest :
          \E puts \in Seq(PutRequest) :
              /\ put.item = "goal" /\ put.of = p /\ put.id = g /\ put.rec = patchedGoal(goals[p][g], patch)
              /\ Send(r, puts) /\ put = Head(puts)
              /\ \A q \in Range(puts) : q = put \/ q.item = "task"
              /\ \A q \in Range(Tail(puts)) : q.item = "task"
              /\ puts # <<>>
  BY UpdateGoalPuts DEF HInv
<1>2. goals[p][g] # None /\ goals[p][g] \in GoalRecord
  BY DEF updateGoal, HInv, IInv, TypeOK
<1>3. put.rec.type = goals[p][g].type /\ IsPatch(goals[p][g], put.rec)
  <2>1. patch.field \in {"progress", "status"}
    BY DEF GoalPatch
  <2>2. put.rec.type = goals[p][g].type
    BY <1>1, <1>2, <2>1 DEF patchedGoal, GoalRecord
  <2>3. put.rec = [goals[p][g] EXCEPT ![patch.field] = put.rec[patch.field]]
    BY <1>1, <1>2, <2>1 DEF patchedGoal, GoalRecord
  <2> QED
    BY <2>1, <2>2, <2>3 DEF IsPatch
<1>4. Fresh(put)
  BY <1>1, <1>2, <1>3 DEF HInv, GoalsApart, Fresh
<1>5. \A s \in Request : \A b \in Waiting(s) : b.id = put.id => b.of = put.of /\ goals[put.of][put.id] # None
  BY <1>1, <1>2 DEF HInv, WaitingIsFresh, Fresh
<1> QED
  BY <1>1, <1>4, <1>5, GoalBegins

\* What a put of a goal finds, and whose puts are left.
LEMMA GoalIsPut ==
    ASSUME HInv, NEW r \in Request, PutItem(r), PutGoal(r)
    PROVE  \E h \in Waiting(r) :
              /\ h.of \in Partition /\ h.id \in Goal /\ h.rec \in GoalRecord /\ h.rec # None /\ Fresh(h)
              /\ goals' = [goals EXCEPT ![h.of][h.id] = h.rec] /\ notes' = notes
              /\ goals'[h.of][h.id] = h.rec
              /\ \A p \in Partition, g \in Goal : <<p, g>> # <<h.of, h.id>> => goals'[p][g] = goals[p][g]
              /\ Waiting(r)' = {} /\ \A s \in Request \ {r} : Waiting(s)' = Waiting(s)
              /\ GoalFirst'
<1>1. PICK h : h = Head(req[r])
  OBVIOUS
<1>2. /\ req[r] # <<>> /\ req[r] \in Seq(PutRequest)
      /\ req' = [req EXCEPT ![r] = Tail(req[r])]
  BY DEF PutItem, Done, HInv, IInv, TypeOK
<1>3. req'[r] = Tail(req[r]) /\ \A s \in Request \ {r} : req'[s] = req[s]
  BY <1>2 DEF HInv, IInv, TypeOK
<1>4. h \in Waiting(r)
  BY <1>1, <1>2, HeadAndTail DEF PutGoal, Waiting
<1>5. h.of \in Partition /\ h.id \in Goal /\ h.rec \in GoalRecord /\ h.rec # None
  BY <1>4, WaitingTyped, NoneAssumption DEF HInv, IInv
<1>6. goals' = [goals EXCEPT ![h.of][h.id] = h.rec] /\ notes' = notes
  BY <1>1 DEF PutGoal
<1>7. /\ goals'[h.of][h.id] = h.rec
      /\ \A p \in Partition, g \in Goal : <<p, g>> # <<h.of, h.id>> => goals'[p][g] = goals[p][g]
  BY <1>5, <1>6 DEF HInv, IInv, TypeOK
<1>8. Waiting(r)' = {} /\ \A s \in Request \ {r} : Waiting(s)' = Waiting(s)
  BY <1>2, <1>3 DEF HInv, GoalFirst, Waiting
<1>9. GoalFirst'
  <2>1. Tail(req[r]) # <<>> => Range(Tail(Tail(req[r]))) \subseteq Range(Tail(req[r]))
    BY <1>2, HeadAndTail
  <2> QED
    BY <1>2, <1>3, <2>1 DEF HInv, GoalFirst
<1>10. Fresh(h)
  BY <1>4 DEF HInv, WaitingIsFresh
<1> QED
  BY <1>4, <1>5, <1>6, <1>7, <1>8, <1>9, <1>10

LEMMA PutGoalWaits ==
    ASSUME HInv, IInv', NEW r \in Request, PutItem(r), PutGoal(r), disturbed \subseteq disturbed'
    PROVE  HInv'
<1>1. PICK h \in Waiting(r) :
              /\ h.of \in Partition /\ h.id \in Goal /\ h.rec \in GoalRecord /\ h.rec # None /\ Fresh(h)
              /\ goals'[h.of][h.id] = h.rec
              /\ \A p \in Partition, g \in Goal : <<p, g>> # <<h.of, h.id>> => goals'[p][g] = goals[p][g]
              /\ Waiting(r)' = {} /\ \A s \in Request \ {r} : Waiting(s)' = Waiting(s)
              /\ GoalFirst'
  BY GoalIsPut
<1>2. GoalsApart'
  <2> SUFFICES ASSUME NEW p \in Partition, NEW q \in Partition, NEW g \in Goal,
                      goals'[p][g] # None, goals'[q][g] # None
               PROVE  p = q
    BY DEF GoalsApart
  <2>1. CASE g = h.id
    BY <1>1, <2>1 DEF Fresh
  <2>2. CASE g # h.id
    BY <1>1, <2>2 DEF HInv, GoalsApart
  <2> QED
    BY <2>1, <2>2
<1>3. ASSUME NEW s \in Request, NEW b \in Waiting(s)'
      PROVE  /\ s # r /\ b \in Waiting(s) /\ b.of \in Partition /\ b.id \in Goal /\ Fresh(b)
             /\ b.id = h.id => b.of = h.of /\ goals[h.of][h.id] # None /\ h.id \in disturbed
  <2>1. s # r /\ b \in Waiting(s)
    BY <1>1
  <2>2. b.of \in Partition /\ b.id \in Goal
    BY <2>1, WaitingTyped DEF HInv, IInv
  <2>3. Fresh(b) /\ Meet(r, s, h, b)
    BY <1>1, <2>1 DEF HInv, WaitingIsFresh, WaitingMeets
  <2> QED
    BY <2>1, <2>2, <2>3 DEF Meet
<1>4. WaitingIsFresh'
  <2> SUFFICES ASSUME NEW s \in Request, NEW b \in Waiting(s)' PROVE Fresh(b)'
    BY DEF WaitingIsFresh
  <2>1. b.of \in Partition /\ b.id \in Goal /\ Fresh(b)
    BY <1>3
  <2>2. CASE b.id # h.id
    <3>1. \A p \in Partition : goals'[p][b.id] = goals[p][b.id]
      BY <1>1, <2>1, <2>2
    <3> QED
      BY <2>1, <3>1 DEF Fresh
  <2>3. CASE b.id = h.id
    <3>1. b.of = h.of /\ goals[h.of][h.id] # None /\ h.id \in disturbed'
      BY <1>3, <2>3
    <3>2. b.rec.type = h.rec.type
      BY <1>1, <2>1, <2>3, <3>1 DEF Fresh
    <3>3. \A p \in Partition : goals'[p][b.id] # None => p = b.of
      BY <1>1, <2>3, <3>1 DEF Fresh
    <3> QED
      BY <1>1, <2>3, <3>1, <3>2, <3>3 DEF Fresh
  <2> QED
    BY <2>2, <2>3
<1>5. WaitingMeets'
  <2> SUFFICES ASSUME NEW s \in Request, NEW t \in Request, NEW a \in Waiting(s)', NEW b \in Waiting(t)',
                      a.id = b.id
               PROVE  a.of = b.of /\ (s # t => goals'[a.of][a.id] # None /\ a.id \in disturbed')
    BY DEF WaitingMeets, Meet
  <2>1. a \in Waiting(s) /\ b \in Waiting(t) /\ a.of \in Partition /\ a.id \in Goal
    BY <1>3
  <2>2. a.of = b.of /\ (s # t => goals[a.of][a.id] # None /\ a.id \in disturbed)
    BY <2>1 DEF HInv, WaitingMeets, Meet
  <2>3. goals[a.of][a.id] # None => goals'[a.of][a.id] # None
    BY <1>1, <2>1
  <2> QED
    BY <2>2, <2>3
<1> QED
  BY <1>1, <1>2, <1>4, <1>5 DEF HInv

\* Any other put, or a failure: a request has fewer puts left.
LEMMA LessWaits ==
    ASSUME HInv, IInv', NEW r \in Request, disturbed \subseteq disturbed', goals' = goals, req[r] # <<>>,
           NEW rest \in {Tail(req[r]), <<>>}, req' = [req EXCEPT ![r] = rest]
    PROVE  HInv'
<1>1. \A s \in Request : Waiting(s)' \subseteq Waiting(s)
  <2>1. \A s \in Request : \A put \in Range(req'[s]) : put \in Range(req[s])
    BY Shrinks DEF HInv
  <2> QED
    BY <2>1 DEF Waiting
<1>2. req'[r] = rest /\ (\A s \in Request \ {r} : req'[s] = req[s]) /\ req[r] \in Seq(PutRequest)
  BY DEF HInv, IInv, TypeOK
<1>3. GoalFirst'
  <2>1. Tail(req[r]) # <<>> => Range(Tail(Tail(req[r]))) \subseteq Range(Tail(req[r]))
    BY <1>2, HeadAndTail
  <2> QED
    BY <1>2, <2>1 DEF HInv, GoalFirst
<1> QED
  BY <1>1, <1>3, FewerWaiting

\* A comment, a note or a task on its own is the only put of its request.
LEMMA OnePutBegins ==
    ASSUME NEW r, NEW p,
           \/ \E g, author, role : writeGoalComment(r, p, g, author, role)
           \/ \E author, kind : Write(r, p, author, kind)
           \/ \E g, x : addLinkedTask(r, p, g, x)
    PROVE  \E put : put.item # "goal" /\ Begin(r, <<put>>)
<1>1. ASSUME NEW g, NEW author, NEW role, writeGoalComment(r, p, g, author, role)
      PROVE  \E put : put.item # "goal" /\ Begin(r, <<put>>)
  <2>1. PICK put : put = [item |-> "comment", rec |-> [of |-> p, goal |-> g, author |-> author, role |-> role]]
    OBVIOUS
  <2> QED
    BY <1>1, <2>1 DEF writeGoalComment, Send
<1>2. ASSUME NEW author, NEW kind, Write(r, p, author, kind)
      PROVE  \E put : put.item # "goal" /\ Begin(r, <<put>>)
  <2>1. PICK put : put = [item |-> "note", rec |-> [of |-> p, author |-> author, kind |-> kind]]
    OBVIOUS
  <2> QED
    BY <1>2, <2>1 DEF Write, Send
<1>3. ASSUME NEW g, NEW x, addLinkedTask(r, p, g, x)
      PROVE  \E put : put.item # "goal" /\ Begin(r, <<put>>)
  <2>1. PICK put : put = TaskOfGoal(p, g, x, FALSE)
    OBVIOUS
  <2>2. put.item = "task"
    BY <2>1 DEF TaskOfGoal
  <2> QED
    BY <1>3, <2>1, <2>2 DEF addLinkedTask, Send
<1> QED
  BY <1>1, <1>2, <1>3

LEMMA HNextInv == HInv /\ [HNext]_<<vars, history>> => HInv'
<1> SUFFICES ASSUME HInv, [HNext]_<<vars, history>> PROVE HInv'
  OBVIOUS
<1>1. IInv'
  BY NextInv DEF HInv, HNext, vars, history
<1>2. CASE UNCHANGED <<vars, history>>
  <2>1. goals' = goals /\ disturbed' = disturbed /\ req' = req
    BY <1>2 DEF vars, history
  <2>2. GoalFirst' /\ \A r \in Request : Waiting(r)' \subseteq Waiting(r)
    BY <2>1 DEF HInv, GoalFirst, Waiting
  <2> QED
    BY <1>1, <2>1, <2>2, FewerWaiting
<1>3. ASSUME HNext PROVE HInv'
  <2>1. disturbed' = disturbed \cup PutAtOnce' /\ disturbed \subseteq disturbed'
    BY <1>3 DEF HNext
  <2>2. PICK r \in Request : \/ \E p \in Partition : handleMe(r, p) \/ handleTeamPerformance(r, p)
                             \/ PutItem(r) \/ Fail(r)
    BY <1>3 DEF HNext, Next
  <2>3. ASSUME NEW p \in Partition, handleGoals(r, p) PROVE HInv'
    <3>1. PICK g \in Goal :
             \/ \E type \in GoalType, status \in GoalStatus : createGoal(r, p, g, type, status)
             \/ \E patch \in GoalPatch, linkedTasks \in TaskList : updateGoal(r, p, g, patch, linkedTasks)
             \/ addGoalComment(r, p, g)
             \/ \E x \in Uuid : addLinkedTask(r, p, g, x)
      BY <2>3 DEF handleGoals
    <3>2. CASE \E type \in GoalType, status \in GoalStatus : createGoal(r, p, g, type, status)
      BY <3>2, <1>1, <2>1, CreateGoalWaits
    <3>3. CASE \E patch \in GoalPatch, linkedTasks \in TaskList : updateGoal(r, p, g, patch, linkedTasks)
      BY <3>3, <1>1, <2>1, UpdateGoalWaits
    <3>4. CASE addGoalComment(r, p, g) \/ \E x \in Uuid : addLinkedTask(r, p, g, x)
      <4>1. PICK put : put.item # "goal" /\ Begin(r, <<put>>)
        BY <3>4, OnePutBegins DEF addGoalComment
      <4> QED
        BY <4>1, <1>1, <2>1, OtherBegins
    <3> QED
      BY <3>1, <3>2, <3>3, <3>4
  <2>4. ASSUME NEW p \in Partition, NEW goal \in Goal \cup {None}, NEW status \in Status,
               createTask(r, p, goal, status)
        PROVE  HInv'
    <3>1. PICK put : put.item = "task" /\ Begin(r, <<put>>)
      BY <2>4 DEF createTask
    <3> QED
      BY <3>1, <1>1, <2>1, OtherBegins
  <2>5. ASSUME NEW p \in Partition, NEW x \in TaskId, updateTask(p, x) PROVE HInv'
    <3>1. goals' = goals /\ req' = req
      BY <2>5 DEF updateTask
    <3>2. GoalFirst' /\ \A s \in Request : Waiting(s)' \subseteq Waiting(s)
      BY <3>1 DEF HInv, GoalFirst, Waiting
    <3> QED
      BY <1>1, <2>1, <3>1, <3>2, FewerWaiting
  <2>6. ASSUME NEW p \in Partition, createMeeting(r, p) \/ sendFeedbackRequest(r, p) \/ handleTeamPerformance(r, p)
        PROVE  HInv'
    <3>1. PICK put : put.item # "goal" /\ Begin(r, <<put>>)
      BY <2>6, OnePutBegins
         DEF createMeeting, sendFeedbackRequest, handleTeamPerformance, addManagerGoalComment, addManagerComment
    <3> QED
      BY <3>1, <1>1, <2>1, OtherBegins
  <2>7. ASSUME PutItem(r) PROVE HInv'
    <3>1. CASE PutGoal(r)
      BY <2>7, <3>1, <1>1, <2>1, PutGoalWaits
    <3>2. CASE PutTask(r) \/ PutComment(r) \/ PutNote(r)
      <4>1. goals' = goals /\ req[r] # <<>> /\ req' = [req EXCEPT ![r] = Tail(req[r])]
        BY <2>7, <3>2 DEF PutTask, PutComment, PutNote, PutItem, Done
      <4> QED
        BY <4>1, <1>1, <2>1, LessWaits
    <3> QED
      BY <2>7, <3>1, <3>2 DEF PutItem
  <2>8. ASSUME Fail(r) PROVE HInv'
    <3>1. goals' = goals /\ req[r] # <<>> /\ \E rest \in {Tail(req[r]), <<>>} : req' = [req EXCEPT ![r] = rest]
      BY <2>8 DEF Fail
    <3> QED
      BY <3>1, <1>1, <2>1, LessWaits
  <2> QED
    BY <2>2, <2>3, <2>4, <2>5, <2>6, <2>7, <2>8 DEF handleMe, handleTasks
<1> QED
  BY <1>2, <1>3

\* The only step that changes a goal is a put of it, and no step takes a note away.
LEMMA GoalsAndNotes ==
    ASSUME HInv, NEW r \in Request,
           (\E p \in Partition : handleMe(r, p) \/ handleTeamPerformance(r, p)) \/ PutItem(r) \/ Fail(r)
    PROVE  (goals' = goals /\ notes \subseteq notes') \/ (PutItem(r) /\ PutGoal(r))
<1>1. ASSUME NEW p \in Partition, handleMe(r, p) PROVE goals' = goals /\ notes' = notes
  BY <1>1 DEF handleMe, handleGoals, handleTasks, createGoal, updateGoal, addGoalComment, writeGoalComment,
              addLinkedTask, createTask, updateTask, createMeeting, sendFeedbackRequest, Write, Send, Begin
<1>2. ASSUME NEW p \in Partition, handleTeamPerformance(r, p) PROVE goals' = goals /\ notes' = notes
  BY <1>2 DEF handleTeamPerformance, addManagerGoalComment, writeGoalComment, addManagerComment, Write, Send, Begin
<1>3. ASSUME PutItem(r), ~PutGoal(r) PROVE goals' = goals /\ notes \subseteq notes'
  BY <1>3 DEF PutItem, PutTask, PutComment, PutNote
<1>4. ASSUME Fail(r) PROVE goals' = goals /\ notes' = notes
  BY <1>4 DEF Fail
<1> QED
  BY <1>1, <1>2, <1>3, <1>4

\* An unchanged goal is a patch of itself.
LEMMA SameIsPatch == ASSUME NEW goal \in GoalRecord PROVE IsPatch(goal, goal)
<1>1. goal = [goal EXCEPT !["status"] = goal["status"]]
  BY DEF GoalRecord
<1> QED
  BY <1>1 DEF IsPatch

\* A summary keeps what it shows of a member whose goals stay, with their types.
LEMMA SummaryKeeps ==
    ASSUME NEW p \in Partition, notes \subseteq notes',
           \A g \in Goal : goals[p][g] # None => goals'[p][g] # None /\ goals'[p][g].type = goals[p][g].type
    PROVE  SummaryGrows(p)
<1>1. /\ getMemberGoalsForManager(p).okrs \subseteq getMemberPerformanceSummary(p)'.goals.okrs
      /\ getMemberGoalsForManager(p).kpis \subseteq getMemberPerformanceSummary(p)'.goals.kpis
  BY DEF getMemberGoalsForManager, getMemberPerformanceSummary, fetchMemberGoalsSplit
<1>2. /\ getMemberMeetingsForManager(p) \subseteq getMemberPerformanceSummary(p)'.meetings
      /\ getMemberComments(p) \subseteq getMemberPerformanceSummary(p)'.comments
  BY DEF getMemberMeetingsForManager, getMemberComments, getMemberPerformanceSummary,
         fetchMemberMeetingsList, fetchManagerComments, listMeetings
<1> QED
  BY <1>1, <1>2 DEF SummaryGrows

LEMMA PatchStep ==
    ASSUME HInv, [HNext]_<<vars, history>>, NEW p \in Partition
    PROVE  /\ SummaryGrows(p)
           /\ \A g \in Goal \ disturbed :
                 goals[p][g] # None /\ goals[p][g]' # None => IsPatch(goals[p][g], goals[p][g]')
<1>1. \A g \in Goal : goals[p][g] # None => goals[p][g] \in GoalRecord /\ IsPatch(goals[p][g], goals[p][g])
  BY SameIsPatch DEF HInv, IInv, TypeOK
<1>2. CASE goals' = goals /\ notes \subseteq notes'
  BY <1>1, <1>2, SummaryKeeps
<1>3. ASSUME NEW r \in Request, PutItem(r), PutGoal(r)
      PROVE  /\ SummaryGrows(p)
             /\ \A g \in Goal \ disturbed :
                   goals[p][g] # None /\ goals[p][g]' # None => IsPatch(goals[p][g], goals[p][g]')
  <2>1. PICK h \in Waiting(r) :
            /\ h.of \in Partition /\ h.id \in Goal /\ h.rec \in GoalRecord /\ h.rec # None /\ Fresh(h)
            /\ notes' = notes /\ goals'[h.of][h.id] = h.rec
            /\ \A q \in Partition, g \in Goal : <<q, g>> # <<h.of, h.id>> => goals'[q][g] = goals[q][g]
    BY <1>3, GoalIsPut
  <2>2. \A g \in Goal : goals[p][g] # None => goals'[p][g] # None /\ goals'[p][g].type = goals[p][g].type
    BY <2>1 DEF Fresh
  <2>3. SummaryGrows(p)
    BY <2>1, <2>2, SummaryKeeps
  <2>4. ASSUME NEW g \in Goal \ disturbed, goals[p][g] # None
        PROVE  IsPatch(goals[p][g], goals'[p][g])
    <3>1. CASE <<p, g>> = <<h.of, h.id>>
      BY <2>1, <2>4, <3>1 DEF Fresh
    <3>2. CASE <<p, g>> # <<h.of, h.id>>
      BY <1>1, <2>1, <2>4, <3>2
    <3> QED
      BY <3>1, <3>2
  <2> QED
    BY <2>3, <2>4
<1>4. CASE HNext
  <2>1. PICK r \in Request : \/ \E q \in Partition : handleMe(r, q) \/ handleTeamPerformance(r, q)
                             \/ PutItem(r) \/ Fail(r)
    BY <1>4 DEF HNext, Next
  <2> QED
    BY <2>1, <1>2, <1>3, GoalsAndNotes
<1> QED
  BY <1>2, <1>4 DEF vars

\* A put of a goal changes only the attribute it was sent for, unless another
\* request was about to put the same goal; and whatever requests meet, no summary
\* loses a goal, a meeting or a remark, and no goal changes its heading.
THEOREM PatchesKeepTheRest == HSpec => PatchKeepsTheRest
<1>1. HInv /\ [HNext]_<<vars, history>> =>
          [\A p \in Partition :
              /\ SummaryGrows(p)
              /\ \A g \in Goal \ disturbed :
                    goals[p][g] # None /\ goals[p][g]' # None => IsPatch(goals[p][g], goals[p][g]')]_vars
  BY PatchStep
<1> QED
  BY <1>1, HInitInv, HNextInv, PTL DEF HSpec, PatchKeepsTheRest
=============================================================================
