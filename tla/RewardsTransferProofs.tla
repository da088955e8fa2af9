------------------------ MODULE RewardsTransferProofs ------------------------
(***************************************************************************)
(* What RewardsTransfer keeps for every set of users, types, transfers and *)
(* batch sizes, and for any number of crashes, failed calls, forgotten     *)
(* tokens and redeliveries: its types, a log whose successes are true, the *)
(* abstract ledger of PointsLedger, in which a transfer is not paid again  *)
(* while its token is remembered nor after its message has left, and a     *)
(* queue that loses nothing but what was handled.                          *)
(***************************************************************************)
EXTENDS RewardsTransfer, SequenceTheorems, TLAPS

MessagesTyped == /\ tp \in [User -> [Type -> Int]]
                 /\ rp \in [User -> [Type -> Int]]
                 /\ enabled \in [Type -> BOOLEAN]
                 /\ outbox \subseteq Message
                 /\ accepted \subseteq Kudos \cup Inception \cup Grant
                 /\ queue \in [User -> Seq(Message)]
                 /\ worker \in [User -> Job \cup {Idle}]
                 /\ remembered \subseteq applied /\ applied \subseteq Message
                 /\ log \subseteq Entry

EngagementTyped == /\ DOMAIN engagement = Kudos
                   /\ \A k \in Kudos : engagement[k] \in Gift \cup {<<>>}

\* The record an invocation is at.
Record(w, q) == q[w.group][w.done[w.group] + 1]

\* What an invocation knows of its batch, and of the record it is at by how far it has come.
Known(w, q) ==
    /\ \A h \in User : w.done[h] <= w.share[h] /\ w.share[h] <= Len(q[h])
    /\ w.done[w.group] < w.share[w.group]
    /\ w.pc = "transact" => Valid(Record(w, q))
    /\ w.pc \in {"logSource", "logDestination"} /\ w.status = "SUCCESS" /\ w.error = "none"
         => Record(w, q) \in applied
WorkerKnows == \A g \in User : worker[g] # Idle => Known(worker[g], queue)

\* The records of one group are with one invocation.
Disjoint(v, w) == \A h \in User : v.share[h] = 0 \/ w.share[h] = 0
Apart == \A f, g \in User : f # g /\ worker[f] # Idle /\ worker[g] # Idle
                               => Disjoint(worker[f], worker[g])

IInv == MessagesTyped /\ EngagementTyped /\ WorkerKnows /\ Apart /\ SuccessIsTrue

LEMMA MessageTyped ==
    ASSUME NEW m \in Message
    PROVE  /\ m.kind \in {"inception", "kudos", "grant"}
           /\ m.points \in Int /\ m.type \in Type /\ m.from \in User /\ m.to \in User
           /\ m.id \in Kudos \cup Inception \cup Grant
<1>1. UNION {Range(g) : g \in Gift} \subseteq Int
  BY PointsAssumption DEF Range
<1>2. \/ /\ m.kind = "inception" /\ m.id \in Inception /\ m.from = Admin /\ m.to = Admin
         /\ m.points \in Points /\ m.type \in Type
      \/ /\ m.kind = "kudos" /\ m.id \in Kudos /\ m.from \in User /\ m.to \in User
         /\ m.points \in UNION {Range(g) : g \in Gift} /\ m.type \in Type
      \/ /\ m.kind = "grant" /\ m.id \in Grant /\ m.from = Admin /\ m.to \in User
         /\ m.points = 1 /\ m.type \in Type
  BY DEF Message
<1>3. m.points \in Int
  <2>1. Points \subseteq Int
    BY PointsAssumption
  <2>2. m.points \in Points \/ m.points \in UNION {Range(g) : g \in Gift} \/ m.points = 1
    BY <1>2, Zenon
  <2>3. CASE m.points \in Points
    BY <2>1, <2>3
  <2>4. CASE m.points \in UNION {Range(g) : g \in Gift}
    <3> DEFINE Given == UNION {Range(g) : g \in Gift}
    <3> HIDE DEF Given
    <3>1. Given \subseteq Int /\ m.points \in Given
      BY <1>1, <2>4 DEF Given
    <3> QED
      BY <3>1
  <2>5. CASE m.points = 1
    BY <2>5
  <2> QED
    BY <2>2, <2>3, <2>4, <2>5, Zenon
<1> QED
  BY <1>2, <1>3, AdminAssumption

LEMMA InitInv == Init => IInv
<1> SUFFICES ASSUME Init PROVE IInv
  OBVIOUS
<1>1. MessagesTyped
  BY PointsAssumption DEF Init, MessagesTyped
<1>2. EngagementTyped /\ WorkerKnows /\ Apart /\ SuccessIsTrue
  BY DEF Init, EngagementTyped, WorkerKnows, Apart, SuccessIsTrue
<1> QED
  BY <1>1, <1>2 DEF IInv
-----------------------------------------------------------------------------
(* The senders: the queue only grows at its end.                           *)

LEMMA JobTyped ==
    ASSUME NEW w \in Job
    PROVE  /\ w.group \in User /\ w.status \in {"SUCCESS", "FAIL"}
           /\ w.error \in {"none", "disabled", "failed"}
           /\ w.pc \in {"message", "transact", "logSource", "logDestination"}
           /\ w # Idle
           /\ w.share \in [User -> Nat] /\ w.done \in [User -> Nat]
           /\ w.share \in [User -> 0..BatchSize] /\ w.done \in [User -> 0..BatchSize]
BY BatchAssumption DEF Job, Idle

\* An invocation knows what it knew when the queues stay or grow at their ends.
LEMMA KnownStays ==
    ASSUME NEW w \in Job, NEW q \in [User -> Seq(Message)], Known(w, q),
           NEW r \in [User -> Seq(Message)],
           \A h \in User : \A j \in 1..Len(q[h]) : j \in 1..Len(r[h]) /\ r[h][j] = q[h][j]
    PROVE  /\ Record(w, r) = Record(w, q)
           /\ Known(w, r)
<1>1. w.group \in User /\ w.share \in [User -> Nat] /\ w.done \in [User -> Nat]
  BY JobTyped
<1>2. ASSUME NEW h \in User PROVE Len(q[h]) <= Len(r[h])
  <2>1. q[h] \in Seq(Message) /\ r[h] \in Seq(Message)
    OBVIOUS
  <2>2. PICK l \in Nat : l = Len(q[h])
    BY <2>1
  <2>3. CASE l = 0
    BY <2>1, <2>2, <2>3
  <2>4. CASE l # 0
    <3>1. l \in 1..Len(r[h])
      BY <2>2, <2>4
    <3> QED
      BY <2>1, <2>2, <3>1
  <2> QED
    BY <2>3, <2>4
<1>3. w.done[w.group] + 1 \in 1..Len(q[w.group])
  <2>1. w.done[w.group] < w.share[w.group] /\ w.share[w.group] <= Len(q[w.group])
    BY <1>1 DEF Known
  <2> QED
    BY <1>1, <2>1
<1>4. Record(w, r) = Record(w, q)
  BY <1>1, <1>3 DEF Record
<1>5. ASSUME NEW h \in User PROVE w.done[h] <= w.share[h] /\ w.share[h] <= Len(r[h])
  BY <1>1, <1>2 DEF Known
<1> QED
  BY <1>4, <1>5 DEF Known

LEMMA QueueGrows ==
    ASSUME IInv, NEW m \in Message, Enqueue(m), UNCHANGED <<applied, worker>>
    PROVE  /\ queue' \in [User -> Seq(Message)]
           /\ accepted' \subseteq Kudos \cup Inception \cup Grant
           /\ WorkerKnows' /\ Apart'
<1>1. queue' \in [User -> Seq(Message)] /\ queue \in [User -> Seq(Message)]
  BY MessageTyped DEF IInv, MessagesTyped, Enqueue
<1>2. accepted' \subseteq Kudos \cup Inception \cup Grant
  BY MessageTyped DEF IInv, MessagesTyped, Enqueue
<1>3. \A h \in User : \A j \in 1..Len(queue[h]) : /\ j \in 1..Len(queue'[h])
                                                  /\ queue'[h][j] = queue[h][j]
  <2>1. CASE queue' = queue
    BY <2>1
  <2>2. CASE queue' = [queue EXCEPT ![m.from] = Append(@, m)]
    BY <1>1, <2>2, MessageTyped
  <2> QED
    BY <2>1, <2>2 DEF Enqueue
<1>4. ASSUME NEW g \in User, worker'[g] # Idle PROVE Known(worker[g], queue)'
  <2>1. PICK w \in Job : w = worker[g]
    BY <1>4 DEF IInv, MessagesTyped
  <2>2. PICK q \in [User -> Seq(Message)], r \in [User -> Seq(Message)] : q = queue /\ r = queue'
    BY <1>1
  <2>3. Known(w, q)
    BY <1>4, <2>1, <2>2 DEF IInv, WorkerKnows
  <2>4. Known(w, r)
    BY <1>3, <2>2, <2>3, KnownStays
  <2> QED
    BY <2>1, <2>2, <2>4 DEF Known, Record, Valid
<1>5. Apart'
  BY DEF IInv, Apart, Disjoint
<1> QED
  BY <1>1, <1>2, <1>4, <1>5 DEF WorkerKnows

LEMMA EngagementKeeps ==
    ASSUME IInv, NEW k \in Kudos, NEW from \in User, NEW to \in User, NEW gift \in Gift,
           PostEngagementSendKudos(k, from, to, gift)
    PROVE  IInv'
<1>1. ASSUME NEW t \in DOMAIN gift
      PROVE  [kind |-> "kudos", id |-> k, from |-> from, to |-> to,
              points |-> gift[t], type |-> t] \in Message
  <2>1. t \in Type /\ gift[t] \in UNION {Range(g) : g \in Gift}
    BY PointsAssumption DEF Range
  <2> QED
    BY <2>1 DEF Message
<1>2. outbox' \subseteq Message
  BY <1>1 DEF IInv, MessagesTyped, PostEngagementSendKudos
<1>3. EngagementTyped'
  BY DEF IInv, EngagementTyped, PostEngagementSendKudos
<1> QED
  BY <1>2, <1>3 DEF IInv, MessagesTyped, WorkerKnows, Known, Record, Apart, Disjoint, SuccessIsTrue,
     PostEngagementSendKudos, balances

LEMMA SendKeeps == IInv /\ Send => IInv'
<1> SUFFICES ASSUME IInv, Send PROVE IInv'
  OBVIOUS
<1>1. ASSUME NEW m \in outbox, SendKudosToSQS(m) PROVE IInv'
  BY <1>1, QueueGrows DEF IInv, MessagesTyped, EngagementTyped, SuccessIsTrue,
     SendKudosToSQS, balances
<1>2. ASSUME NEW k \in Kudos, AbandonKudos(k) PROVE IInv'
  BY <1>2 DEF IInv, MessagesTyped, EngagementTyped, WorkerKnows, Known, Record, Apart, Disjoint, SuccessIsTrue,
     AbandonKudos, balances
<1>3. ASSUME NEW i \in Inception, NEW points \in Points, NEW t \in Type,
             AddRewardPoints(i, points, t)
      PROVE  IInv'
  <2>1. [kind |-> "inception", id |-> i, from |-> Admin, to |-> Admin,
         points |-> points, type |-> t] \in Message
    BY DEF Message
  <2> QED
    BY <1>3, <2>1, QueueGrows DEF IInv, MessagesTyped, EngagementTyped, SuccessIsTrue,
       AddRewardPoints, balances
<1>4. ASSUME NEW g \in Grant, NEW to \in User, NEW t \in Type, SendGrant(g, to, t) PROVE IInv'
  <2>1. [kind |-> "grant", id |-> g, from |-> Admin, to |-> to,
         points |-> 1, type |-> t] \in Message
    BY DEF Message
  <2> QED
    BY <1>4, <2>1, QueueGrows DEF IInv, MessagesTyped, EngagementTyped, SuccessIsTrue,
       SendGrant, balances
<1>5. ASSUME NEW t \in Type, NEW active \in BOOLEAN, PatchRewardTypesStatus(t, active) PROVE IInv'
  BY <1>5 DEF IInv, MessagesTyped, EngagementTyped, WorkerKnows, Known, Record, Apart, Disjoint, SuccessIsTrue,
     PatchRewardTypesStatus, balances, senders
<1> QED
  BY <1>1, <1>2, <1>3, <1>4, <1>5, EngagementKeeps DEF Send
-----------------------------------------------------------------------------
(* The Lambda.                                                             *)

\* The message an invocation is at is one of its batch's.
LEMMA CurrentTyped ==
    ASSUME IInv, NEW g \in User, worker[g].pc # "idle"
    PROVE  /\ worker[g] \in Job /\ worker[g] # Idle /\ Known(worker[g], queue)
           /\ Current(g) = Record(worker[g], queue)
           /\ Current(g) \in Message
<1>1. worker[g] \in Job /\ worker[g] # Idle /\ Known(worker[g], queue)
  BY DEF IInv, MessagesTyped, WorkerKnows, Idle
<1>2. PICK w \in Job : w = worker[g]
  BY <1>1
<1>3. w.group \in User /\ w.share \in [User -> Nat] /\ w.done \in [User -> Nat]
  BY JobTyped
<1>4. w.done[w.group] < w.share[w.group] /\ w.share[w.group] <= Len(queue[w.group])
  BY <1>1, <1>2, <1>3 DEF Known
<1>5. queue[w.group] \in Seq(Message)
  BY <1>3 DEF IInv, MessagesTyped
<1>6. w.done[w.group] + 1 \in 1..Len(queue[w.group])
  BY <1>3, <1>4, <1>5
<1>7. Record(w, queue) \in Message
  BY <1>5, <1>6 DEF Record
<1> QED
  BY <1>1, <1>2, <1>7 DEF Current, Record

\* An invocation changes, the queues stay and the payments stay or grow.
LEMMA WorkerMoves ==
    ASSUME IInv, NEW g \in User, NEW w \in Job \cup {Idle},
           worker' = [worker EXCEPT ![g] = w], queue' = queue, applied \subseteq applied',
           w # Idle => Known(w, queue)',
           w # Idle => \A f \in User \ {g} : worker[f] # Idle => Disjoint(worker[f], w)
    PROVE  worker' \in [User -> Job \cup {Idle}] /\ WorkerKnows' /\ Apart'
<1>1. worker' \in [User -> Job \cup {Idle}]
  BY DEF IInv, MessagesTyped
<1>2. worker'[g] = w /\ \A f \in User \ {g} : worker'[f] = worker[f]
  BY DEF IInv, MessagesTyped
<1>3. ASSUME NEW h \in User, worker'[h] # Idle PROVE Known(worker[h], queue)'
  <2>1. CASE h = g
    BY <1>2, <1>3, <2>1
  <2>2. CASE h # g
    <3>1. Known(worker[h], queue)
      BY <1>2, <1>3, <2>2 DEF IInv, WorkerKnows
    <3>2. worker'[h] = worker[h]
      BY <1>2, <2>2
    <3> QED
      BY <3>1, <3>2 DEF Known, Record, Valid
  <2> QED
    BY <2>1, <2>2
<1>4. Apart'
  <2> SUFFICES ASSUME NEW f \in User, NEW h \in User, f # h, worker'[f] # Idle, worker'[h] # Idle
               PROVE  Disjoint(worker'[f], worker'[h])
    BY DEF Apart, Disjoint
  <2>1. CASE f = g
    BY <1>2, <2>1 DEF Disjoint
  <2>2. CASE h = g
    BY <1>2, <2>2 DEF Disjoint
  <2>3. CASE f # g /\ h # g
    BY <1>2, <2>3 DEF IInv, Apart
  <2> QED
    BY <2>1, <2>2, <2>3
<1> QED
  BY <1>1, <1>3, <1>4 DEF WorkerKnows

\* An invocation goes on with the batch it has.
LEMMA BatchStays ==
    ASSUME IInv, NEW g \in User, worker[g].pc # "idle", NEW w \in Job,
           worker' = [worker EXCEPT ![g] = w], queue' = queue, applied \subseteq applied',
           Known(w, queue)', w.share = worker[g].share
    PROVE  worker' \in [User -> Job \cup {Idle}] /\ WorkerKnows' /\ Apart'
<1>1. worker[g] # Idle
  BY CurrentTyped
<1>2. \A f \in User \ {g} : worker[f] # Idle => Disjoint(worker[f], w)
  BY <1>1 DEF IInv, Apart, Disjoint
<1> QED
  BY <1>2, WorkerMoves

LEMMA GotoMoves ==
    ASSUME IInv, NEW g \in User, worker[g].pc # "idle",
           NEW label \in {"message", "transact", "logSource", "logDestination"},
           NEW status \in {"SUCCESS", "FAIL"}, NEW error \in {"none", "disabled", "failed"},
           worker' = [worker EXCEPT ![g].pc = label, ![g].status = status, ![g].error = error],
           queue' = queue, applied \subseteq applied',
           label = "transact" => Valid(Current(g)),
           label \in {"logSource", "logDestination"} /\ status = "SUCCESS" /\ error = "none"
             => Current(g) \in applied'
    PROVE  worker' \in [User -> Job \cup {Idle}] /\ WorkerKnows' /\ Apart'
<1>1. worker[g] \in Job /\ Known(worker[g], queue) /\ Current(g) = Record(worker[g], queue)
  BY CurrentTyped
<1>2. [worker[g] EXCEPT !.pc = label, !.status = status, !.error = error] \in Job
  BY <1>1 DEF Job
<1>3. PICK w \in Job : w = [worker[g] EXCEPT !.pc = label, !.status = status, !.error = error]
  BY <1>2
<1>4. /\ w.share = worker[g].share /\ w.done = worker[g].done /\ w.group = worker[g].group
      /\ w.pc = label /\ w.status = status /\ w.error = error
  BY <1>1, <1>3 DEF Job
<1>5. Record(w, queue) = Current(g)
  BY <1>1, <1>4 DEF Record
<1>6. Known(w, queue)'
  BY <1>1, <1>4, <1>5 DEF Known, Record, Valid
<1>7. worker' = [worker EXCEPT ![g] = w]
  BY <1>3 DEF IInv, MessagesTyped
<1> QED
  BY <1>4, <1>6, <1>7, BatchStays

\* The invocation stops, with its batch still in the queue.
LEMMA StopMoves ==
    ASSUME IInv, NEW g \in User, worker' = [worker EXCEPT ![g] = Idle],
           queue' = queue, applied' = applied
    PROVE  worker' \in [User -> Job \cup {Idle}] /\ WorkerKnows' /\ Apart'
BY WorkerMoves

\* A batch begins: no other invocation is at a group it takes records of.
LEMMA ReceiveMoves ==
    ASSUME IInv, NEW g \in User, Receive(g)
    PROVE  worker' \in [User -> Job \cup {Idle}] /\ WorkerKnows' /\ Apart'
<1>1. PICK share \in [User -> 0..BatchSize] :
          /\ share[g] > 0
          /\ \A h \in User : share[h] <= Len(queue[h]) /\ (share[h] > 0 => ~InFlight(h))
          /\ TakeUp(g, g, share, [h \in User |-> 0])
  BY DEF Receive
<1>2. PICK w : w = [pc |-> "message", share |-> share, done |-> [h \in User |-> 0],
                    group |-> g, status |-> "SUCCESS", error |-> "none"]
  OBVIOUS
<1>3. w \in Job /\ worker' = [worker EXCEPT ![g] = w] /\ queue' = queue /\ applied' = applied
  <2>1. [h \in User |-> 0] \in [User -> 0..BatchSize]
    BY BatchAssumption
  <2> QED
    BY <1>1, <1>2, <2>1 DEF Job, TakeUp, Receive, balances
<1>4. Known(w, queue)'
  <2>1. \A h \in User : w.done[h] = 0 /\ w.share[h] = share[h] /\ share[h] \in Nat
    BY <1>2, BatchAssumption
  <2> QED
    BY <1>1, <1>2, <1>3, <2>1 DEF Known
<1>5. ASSUME NEW f \in User \ {g}, worker[f] # Idle PROVE Disjoint(worker[f], w)
  <2> SUFFICES ASSUME NEW h \in User PROVE worker[f].share[h] = 0 \/ w.share[h] = 0
    BY DEF Disjoint
  <2>1. worker[f] \in Job
    BY <1>5 DEF IInv, MessagesTyped
  <2>2. worker[f].share[h] \in Nat /\ share[h] \in Nat /\ w.share[h] = share[h]
    BY <1>2, <2>1, JobTyped, BatchAssumption
  <2>3. CASE share[h] > 0
    BY <1>1, <1>5, <2>2, <2>3 DEF InFlight
  <2> QED
    BY <2>2, <2>3
<1> QED
  BY <1>3, <1>4, <1>5, WorkerMoves

\* What is left of a queue after its first d messages.
LEMMA RestOfQueue ==
    ASSUME NEW q \in Seq(Message), NEW d \in Nat, d <= Len(q)
    PROVE  /\ SubSeq(q, d + 1, Len(q)) \in Seq(Message)
           /\ d = 0 => SubSeq(q, d + 1, Len(q)) = q
           /\ \A j \in 1..Len(q) : j > d =>
                 \E i \in 1..Len(SubSeq(q, d + 1, Len(q))) : SubSeq(q, d + 1, Len(q))[i] = q[j]
           /\ \A i \in 1..Len(SubSeq(q, d + 1, Len(q))) :
                 \E j \in 1..Len(q) : SubSeq(q, d + 1, Len(q))[i] = q[j]
<1>0. PICK rest : rest = SubSeq(q, d + 1, Len(q))
  OBVIOUS
<1>1. PICK l \in Nat, a \in Int : l = Len(q) /\ a = d + 1
  OBVIOUS
<1>2. \A i \in a..l : q[i] \in Message
  BY <1>1
<1>3. /\ rest \in Seq(Message)
      /\ Len(rest) = IF a <= l THEN l - a + 1 ELSE 0
      /\ \A i \in 1..(l - a + 1) : rest[i] = q[a + i - 1]
  BY <1>0, <1>1, <1>2, SubSeqProperties
<1>4. d = 0 => rest = q
  BY <1>0, <1>1, SubSeqFull
<1>5. ASSUME NEW j \in 1..Len(q), j > d PROVE \E i \in 1..Len(rest) : rest[i] = q[j]
  <2>1. a <= l /\ l - a + 1 = l - d /\ j - d \in 1..(l - d) /\ a + (j - d) - 1 = j
    BY <1>1, <1>5
  <2>2. PICK i \in Int : i = j - d
    BY <1>1
  <2>3. i \in 1..(l - a + 1) /\ a + i - 1 = j
    BY <2>1, <2>2
  <2>4. rest[i] = q[j]
    BY <1>3, <2>3
  <2> QED
    BY <1>3, <2>1, <2>2, <2>4
<1>6. ASSUME NEW i \in 1..Len(rest) PROVE \E j \in 1..Len(q) : rest[i] = q[j]
  <2>1. a <= l /\ Len(rest) = l - a + 1
    BY <1>3
  <2>2. PICK j \in Int : j = a + i - 1
    BY <1>1
  <2>3. j \in 1..l /\ i \in 1..(l - a + 1)
    BY <1>1, <2>1, <2>2
  <2> QED
    BY <1>1, <1>3, <2>2, <2>3
<1> QED
  BY <1>0, <1>3, <1>4, <1>5, <1>6

\* When a batch is deleted, the queues of other invocations' groups stay as they are.
LEMMA DeletionSpares ==
    ASSUME IInv, NEW g \in User, worker[g].pc # "idle", BatchDeleted(g)
    PROVE  /\ queue' \in [User -> Seq(Message)]
           /\ \A h \in User : worker[g].share[h] = 0 => queue'[h] = queue[h]
           /\ \A h \in User : \A j \in 1..Len(queue[h]) :
                 j > worker[g].share[h] => \E i \in 1..Len(queue'[h]) : queue'[h][i] = queue[h][j]
           /\ \A h \in User : \A i \in 1..Len(queue'[h]) :
                 \E j \in 1..Len(queue[h]) : queue'[h][i] = queue[h][j]
<1>1. worker[g] \in Job /\ Known(worker[g], queue)
  BY CurrentTyped
<1>2. ASSUME NEW h \in User
      PROVE  /\ queue[h] \in Seq(Message) /\ worker[g].share[h] \in Nat
             /\ worker[g].share[h] <= Len(queue[h])
             /\ queue'[h] = SubSeq(queue[h], worker[g].share[h] + 1, Len(queue[h]))
  <2>1. queue[h] \in Seq(Message)
    BY DEF IInv, MessagesTyped
  <2>2. worker[g].share[h] \in Nat
    BY <1>1, JobTyped
  <2> QED
    BY <1>1, <2>1, <2>2 DEF Known, BatchDeleted
<1>3. ASSUME NEW h \in User
      PROVE  /\ queue'[h] \in Seq(Message)
             /\ worker[g].share[h] = 0 => queue'[h] = queue[h]
             /\ \A j \in 1..Len(queue[h]) : j > worker[g].share[h] =>
                   \E i \in 1..Len(queue'[h]) : queue'[h][i] = queue[h][j]
             /\ \A i \in 1..Len(queue'[h]) :
                   \E j \in 1..Len(queue[h]) : queue'[h][i] = queue[h][j]
  <2>1. PICK q \in Seq(Message) : q = queue[h]
    BY <1>2
  <2>2. PICK d \in Nat : d = worker[g].share[h]
    BY <1>2
  <2>3. d <= Len(q) /\ queue'[h] = SubSeq(q, d + 1, Len(q))
    BY <1>2, <2>1, <2>2
  <2>4. SubSeq(q, d + 1, Len(q)) \in Seq(Message) /\ (d = 0 => SubSeq(q, d + 1, Len(q)) = q)
    BY <2>3, RestOfQueue
  <2>5. ASSUME NEW j \in 1..Len(q), j > d
        PROVE  \E i \in 1..Len(SubSeq(q, d + 1, Len(q))) : SubSeq(q, d + 1, Len(q))[i] = q[j]
    BY <2>3, <2>5, RestOfQueue
  <2>6. ASSUME NEW i \in 1..Len(SubSeq(q, d + 1, Len(q)))
        PROVE  \E j \in 1..Len(q) : SubSeq(q, d + 1, Len(q))[i] = q[j]
    BY <2>3, <2>6, RestOfQueue
  <2>7. PICK rest : rest = SubSeq(q, d + 1, Len(q)) /\ rest = queue'[h]
    BY <2>3
  <2>8. /\ rest \in Seq(Message) /\ (d = 0 => rest = q)
        /\ \A j \in 1..Len(q) : j > d => \E i \in 1..Len(rest) : rest[i] = q[j]
        /\ \A i \in 1..Len(rest) : \E j \in 1..Len(q) : rest[i] = q[j]
    BY <2>4, <2>5, <2>6, <2>7
  <2>9. ASSUME NEW j \in 1..Len(queue[h]), j > worker[g].share[h]
        PROVE  \E i \in 1..Len(queue'[h]) : queue'[h][i] = queue[h][j]
    <3>1. j \in 1..Len(q) /\ j > d /\ q[j] = queue[h][j]
      BY <2>1, <2>2, <2>9
    <3>2. PICK i \in 1..Len(rest) : rest[i] = q[j]
      BY <2>8, <3>1
    <3> QED
      BY <2>7, <3>1, <3>2
  <2>10. ASSUME NEW i \in 1..Len(queue'[h])
         PROVE  \E j \in 1..Len(queue[h]) : queue'[h][i] = queue[h][j]
    <3>1. PICK j \in 1..Len(q) : rest[i] = q[j]
      BY <2>7, <2>8
    <3> QED
      BY <2>1, <2>7, <3>1
  <2>11. queue'[h] \in Seq(Message) /\ (worker[g].share[h] = 0 => queue'[h] = queue[h])
    BY <2>1, <2>2, <2>7, <2>8
  <2> QED
    BY <2>9, <2>10, <2>11
<1>4. queue' \in [User -> Seq(Message)]
  BY <1>3 DEF BatchDeleted
<1> QED
  BY <1>3, <1>4

\* After a record comes the next one, of whatever group; after the last the queues lose
\* what was handled.
LEMMA NextRecordMoves ==
    ASSUME IInv, NEW g \in User, worker[g].pc # "idle", NextRecord(g), applied' = applied
    PROVE  /\ worker' \in [User -> Job \cup {Idle}] /\ WorkerKnows' /\ Apart'
           /\ queue' \in [User -> Seq(Message)]
<1>1. worker[g] \in Job /\ Known(worker[g], queue)
  BY CurrentTyped
<1>2. ASSUME NEW h \in GroupsLeft(g), TakeUp(g, h, worker[g].share, Progress(g)), queue' = queue
      PROVE  /\ worker' \in [User -> Job \cup {Idle}] /\ WorkerKnows' /\ Apart'
             /\ queue' \in [User -> Seq(Message)]
  <2>1. PICK w : w = [pc |-> "message", share |-> worker[g].share, done |-> Progress(g),
                      group |-> h, status |-> "SUCCESS", error |-> "none"]
    OBVIOUS
  <2>2. /\ worker[g].group \in User /\ worker[g].share \in [User -> 0..BatchSize]
        /\ worker[g].done \in [User -> 0..BatchSize]
        /\ worker[g].done[worker[g].group] < worker[g].share[worker[g].group]
    BY <1>1, JobTyped DEF Known
  <2>3. Progress(g) \in [User -> 0..BatchSize]
    BY <2>2, BatchAssumption DEF Progress
  <2>4. w \in Job /\ h \in User /\ worker' = [worker EXCEPT ![g] = w] /\ w.share = worker[g].share
    BY <1>2, <2>1, <2>2, <2>3 DEF Job, TakeUp, GroupsLeft
  <2>5. \A f \in User : Progress(g)[f] <= worker[g].share[f] /\ worker[g].share[f] <= Len(queue[f])
    BY <1>1, <2>2, BatchAssumption DEF Progress, Known
  <2>6. Known(w, queue)'
    BY <1>2, <2>1, <2>5 DEF Known, GroupsLeft
  <2>7. worker' \in [User -> Job \cup {Idle}] /\ WorkerKnows' /\ Apart'
    BY <1>2, <2>4, <2>6, BatchStays
  <2> QED
    BY <1>2, <2>7 DEF IInv, MessagesTyped
<1>3. ASSUME worker' = [worker EXCEPT ![g] = Idle], BatchDeleted(g)
      PROVE  /\ worker' \in [User -> Job \cup {Idle}] /\ WorkerKnows' /\ Apart'
             /\ queue' \in [User -> Seq(Message)]
  <2>1. /\ worker' \in [User -> Job \cup {Idle}]
        /\ \A f \in User : worker'[f] # Idle => f # g /\ worker'[f] = worker[f]
    BY <1>3 DEF IInv, MessagesTyped
  <2>2. Apart'
    BY <2>1 DEF IInv, Apart, Disjoint
  <2>3. ASSUME NEW f \in User, worker'[f] # Idle PROVE Known(worker[f], queue)'
    <3>1. f # g /\ worker'[f] = worker[f] /\ worker[f] \in Job /\ worker[f] # Idle
      BY <2>1, <2>3 DEF IInv, MessagesTyped
    <3>2. PICK w \in Job : w = worker[f]
      BY <3>1
    <3>3. Known(w, queue) /\ Disjoint(w, worker[g])
      BY <3>1, <3>2, CurrentTyped DEF IInv, WorkerKnows, Apart
    <3>4. w.group \in User /\ w.share \in [User -> Nat] /\ w.done \in [User -> Nat]
      BY JobTyped
    <3>5. ASSUME NEW h \in User PROVE w.done[h] <= w.share[h] /\ w.share[h] <= Len(queue'[h])
      <4>1. CASE w.share[h] = 0
        BY <1>3, <3>3, <3>4, <4>1, DeletionSpares DEF Known
      <4>2. CASE w.share[h] # 0
        BY <1>3, <3>3, <4>2, DeletionSpares DEF Known, Disjoint
      <4> QED
        BY <4>1, <4>2
    <3>6. Record(w, queue') = Record(w, queue)
      <4>1. w.share[w.group] # 0
        BY <3>3, <3>4 DEF Known
      <4>2. queue'[w.group] = queue[w.group]
        BY <1>3, <3>3, <3>4, <4>1, DeletionSpares DEF Disjoint
      <4> QED
        BY <4>2 DEF Record
    <3>7. PICK q : q = queue'
      OBVIOUS
    <3>8. Record(w, q) = Record(w, queue) /\ \A h \in User : w.done[h] <= w.share[h] /\ w.share[h] <= Len(q[h])
      BY <3>5, <3>6, <3>7
    <3> QED
      BY <3>1, <3>2, <3>3, <3>7, <3>8 DEF Known, Record, Valid
  <2> QED
    BY <1>3, <2>1, <2>2, <2>3, DeletionSpares DEF WorkerKnows
<1> QED
  BY <1>2, <1>3 DEF NextRecord

\* What an invocation writes to the log it knows to be true.
LEMMA PutLogKeeps ==
    ASSUME IInv, NEW g \in User, worker[g].pc \in {"logSource", "logDestination"},
           NEW entity \in User, NEW side \in {"CREATED", "SENT", "RECIEVED"},
           PutLog(g, entity, side), applied' = applied
    PROVE  log' \subseteq Entry /\ SuccessIsTrue'
<1>1. /\ worker[g] \in Job /\ Known(worker[g], queue)
      /\ Current(g) = Record(worker[g], queue) /\ Current(g) \in Message
  BY CurrentTyped
<1> DEFINE e == [entity |-> entity, message |-> Current(g), side |-> side,
                 status |-> worker[g].status, error |-> worker[g].error]
<1>2. e \in Entry
  BY <1>1 DEF Entry, Job
<1>3. e.status = "SUCCESS" /\ e.error = "none" => e.message \in applied
  BY <1>1 DEF Known
<1>4. log' = log \cup {e}
  BY DEF PutLog
<1> HIDE DEF e
<1> QED
  BY <1>2, <1>3, <1>4 DEF IInv, MessagesTyped, SuccessIsTrue
-----------------------------------------------------------------------------
(* The transaction.                                                        *)

LEMMA TransactTyped ==
    ASSUME IInv, NEW m \in Message, TransactWriteItems(m)
    PROVE  /\ tp' \in [User -> [Type -> Int]] /\ rp' \in [User -> [Type -> Int]]
           /\ applied' = applied \cup {m} /\ remembered' = remembered \cup {m}
<1>1. m.from \in User /\ m.to \in User /\ m.type \in Type /\ m.points \in Int
  BY MessageTyped
<1>2. tp \in [User -> [Type -> Int]] /\ rp \in [User -> [Type -> Int]]
  BY DEF IInv, MessagesTyped
<1>3. CASE m \in remembered
  BY <1>2, <1>3 DEF TransactWriteItems, balances, IInv, MessagesTyped
<1>4. CASE m \notin remembered
  <2>1. applied' = applied \cup {m} /\ remembered' = remembered \cup {m}
    BY <1>4 DEF TransactWriteItems
  <2>2. CASE PerformRewardsAdditionToRewardsAdmin(m)
    BY <1>1, <1>2, <2>1, <2>2 DEF PerformRewardsAdditionToRewardsAdmin
  <2>3. CASE PerformRewardsTransfer(m)
    BY <1>1, <1>2, <2>1, <2>3 DEF PerformRewardsTransfer
  <2>4. CASE PerformRewardsAdditionToUser(m)
    <3>1. [tp EXCEPT ![m.from][m.type] = tp[m.from][m.type] - m.points] \in [User -> [Type -> Int]]
      BY <1>1, <1>2
    <3>2. PICK less \in [User -> [Type -> Int]] :
              less = [tp EXCEPT ![m.from][m.type] = tp[m.from][m.type] - m.points]
      BY <3>1
    <3>3. /\ tp' = [less EXCEPT ![m.to][m.type] = tp[m.to][m.type] + m.points]
          /\ rp' = rp
      BY <2>4, <3>2 DEF PerformRewardsAdditionToUser
    <3>4. tp[m.to][m.type] + m.points \in Int
      BY <1>1, <1>2
    <3>5. tp' \in [User -> [Type -> Int]]
      BY <1>1, <3>3, <3>4
    <3> QED
      BY <1>2, <2>1, <3>3, <3>5
  <2> QED
    BY <1>4, <2>2, <2>3, <2>4 DEF TransactWriteItems
<1> QED
  BY <1>3, <1>4

\* A transaction that takes effect is a payment of the ledger; one under a
\* token that is remembered is none.
LEMMA TransactPays ==
    ASSUME IInv, NEW m \in Message, Valid(m), DifferentUsers(m),
           Sufficient(m) \/ m \in remembered, TransactWriteItems(m),
           m \notin Closed, Closed' = Closed
    PROVE  [Ledger!LedgerNext]_(Ledger!ledger)
<1>1. CASE m \in remembered
  BY <1>1 DEF TransactWriteItems, balances, Ledger!ledger
<1>2. CASE m \notin remembered
  <2>1. Ledger!Covered(m) /\ m.points > 0 /\ (m.kind = "inception" \/ m.from # m.to)
    BY <1>2 DEF Ledger!Covered, Sufficient, Valid, DifferentUsers
  <2>2. applied' = applied \cup {m} /\ remembered' = remembered \cup {m}
    BY <1>2 DEF TransactWriteItems
  <2>3. /\ tp' = IF m.kind = "kudos" THEN Ledger!Debit(m) ELSE Ledger!Credit(Ledger!Debit(m), m)
        /\ rp' = IF m.kind = "kudos" THEN Ledger!Credit(rp, m) ELSE rp
    <3>1. CASE PerformRewardsAdditionToRewardsAdmin(m)
      BY <3>1 DEF PerformRewardsAdditionToRewardsAdmin, Ledger!Debit, Ledger!Credit
    <3>2. CASE PerformRewardsTransfer(m)
      BY <3>2 DEF PerformRewardsTransfer, Ledger!Debit, Ledger!Credit
    <3>3. CASE PerformRewardsAdditionToUser(m)
      <4>1. /\ m.kind = "grant" /\ m.from # m.to
            /\ m.from \in User /\ m.to \in User /\ tp \in [User -> [Type -> Int]]
        BY <3>3, MessageTyped DEF PerformRewardsAdditionToUser, DifferentUsers, IInv, MessagesTyped
      <4>2. PICK less : less = [tp EXCEPT ![m.from][m.type] = tp[m.from][m.type] - m.points]
        OBVIOUS
      <4>3. less[m.to] = tp[m.to]
        BY <4>1, <4>2
      <4>4. /\ tp' = [less EXCEPT ![m.to][m.type] = tp[m.to][m.type] + m.points]
            /\ rp' = rp
        BY <3>3, <4>2 DEF PerformRewardsAdditionToUser
      <4>5. tp' = [less EXCEPT ![m.to][m.type] = less[m.to][m.type] + m.points]
        BY <4>3, <4>4
      <4>6. Ledger!Debit(m) = less
        BY <4>1, <4>2 DEF Ledger!Debit
      <4> QED
        BY <4>1, <4>4, <4>5, <4>6 DEF Ledger!Credit
    <3> QED
      BY <1>2, <3>1, <3>2, <3>3 DEF TransactWriteItems
  <2>4. Ledger!Pay(m)
    BY <1>2, <2>1, <2>2, <2>3 DEF Ledger!Pay
  <2> QED
    BY <2>4 DEF Ledger!LedgerNext
<1> QED
  BY <1>1, <1>2

\* What an invocation is at is still in the queue.
LEMMA CurrentQueued ==
    ASSUME IInv, NEW g \in User, worker[g].pc # "idle"
    PROVE  Queued(Current(g))
<1>1. PICK w \in Job : w = worker[g] /\ Known(w, queue) /\ Current(g) = Record(w, queue)
  BY CurrentTyped
<1>2. w.group \in User /\ w.share \in [User -> Nat] /\ w.done \in [User -> Nat]
  BY JobTyped
<1>3. w.done[w.group] < w.share[w.group] /\ w.share[w.group] <= Len(queue[w.group])
  BY <1>1, <1>2 DEF Known
<1>4. queue[w.group] \in Seq(Message)
  BY <1>2 DEF IInv, MessagesTyped
<1>5. w.done[w.group] + 1 \in 1..Len(queue[w.group])
  BY <1>2, <1>3, <1>4
<1> QED
  BY <1>1, <1>2, <1>5 DEF Record, Queued, Contains

LEMMA TransactKeeps ==
    ASSUME IInv, NEW g \in User, Transact(g)
    PROVE  IInv' /\ [Ledger!LedgerNext]_(Ledger!ledger)
<1> DEFINE m == Current(g)
<1>1. worker[g].pc = "transact" /\ UNCHANGED <<queue, log, LambdaRest>>
  BY DEF Transact, At
<1>2. m \in Message /\ worker[g] \in Job /\ Valid(m)
  BY <1>1, CurrentTyped DEF Known
<1>3. UNCHANGED <<outbox, accepted, engagement, enabled, queue, log>>
  BY <1>1 DEF LambdaRest, senders
<1>4. /\ \/ UNCHANGED balances
         \/ /\ DifferentUsers(m) /\ (Sufficient(m) \/ m \in remembered)
            /\ TransactWriteItems(m)
      /\ \/ TransactWriteItems(m) /\ Goto(g, "logSource", "SUCCESS", "none")
         \/ Goto(g, "logSource", "FAIL", "failed")
  BY DEF Transact
<1>10. m \notin Closed /\ Closed' = Closed
  BY <1>1, <1>3, CurrentQueued DEF Closed, Queued
<1> HIDE DEF m
<1>5. /\ tp' \in [User -> [Type -> Int]] /\ rp' \in [User -> [Type -> Int]]
      /\ applied \subseteq applied' /\ applied' \subseteq Message
      /\ remembered' \subseteq applied'
      /\ TransactWriteItems(m) => m \in applied'
  BY <1>2, <1>4, TransactTyped DEF balances, IInv, MessagesTyped
<1>6. [Ledger!LedgerNext]_(Ledger!ledger)
  BY <1>2, <1>4, <1>10, TransactPays DEF balances, Ledger!ledger
<1>7. worker' \in [User -> Job \cup {Idle}] /\ WorkerKnows' /\ Apart'
  <2>1. CASE Goto(g, "logSource", "SUCCESS", "none") /\ m \in applied'
    BY <1>1, <1>3, <1>5, <2>1, GotoMoves DEF Goto, m
  <2>2. CASE Goto(g, "logSource", "FAIL", "failed")
    BY <1>1, <1>3, <1>5, <2>2, GotoMoves DEF Goto
  <2> QED
    BY <1>4, <1>5, <2>1, <2>2
<1>8. MessagesTyped'
  BY <1>3, <1>5, <1>7 DEF IInv, MessagesTyped
<1>9. EngagementTyped' /\ SuccessIsTrue'
  BY <1>3, <1>5 DEF IInv, EngagementTyped, SuccessIsTrue
<1> QED
  BY <1>6, <1>7, <1>8, <1>9 DEF IInv
-----------------------------------------------------------------------------
(* The other steps of the Lambda move no points.                           *)

LEMMA HandleKeeps ==
    ASSUME IInv, NEW g \in User, Receive(g) \/ HandleRewardTransfer(g) \/ Crash(g),
           ~Transact(g)
    PROVE  IInv'
<1>1. UNCHANGED <<balances, LambdaRest>> \/ Crash(g)
  BY DEF Receive, HandleRewardTransfer, RejectBatch, ValidateTxRewardType, LogSource,
     LogDestination, PutLogFails
<1>2. UNCHANGED <<tp, rp, applied, remembered, outbox, accepted, engagement, enabled>>
  BY <1>1 DEF balances, LambdaRest, senders, Crash
<1>3. /\ worker' \in [User -> Job \cup {Idle}] /\ WorkerKnows' /\ Apart'
      /\ queue' \in [User -> Seq(Message)]
  <2>1. CASE Receive(g)
    BY <2>1, ReceiveMoves DEF Receive, IInv, MessagesTyped
  <2>2. CASE RejectBatch(g) \/ Crash(g)
    BY <1>2, <2>2, StopMoves DEF RejectBatch, Crash, IInv, MessagesTyped
  <2>3. CASE ValidateTxRewardType(g)
    <3>1. /\ worker[g].pc # "idle" /\ Valid(Current(g)) /\ queue' = queue
          /\ \/ Goto(g, "transact", "SUCCESS", "none")
             \/ Goto(g, "logSource", "SUCCESS", "disabled")
      BY <2>3 DEF ValidateTxRewardType, At
    <3> QED
      BY <1>2, <3>1, GotoMoves DEF Goto, IInv, MessagesTyped
  <2>4. CASE NextRecord(g) /\ worker[g].pc # "idle"
    BY <1>2, <2>4, NextRecordMoves
  <2>5. CASE LogSource(g) /\ ~NextRecord(g)
    <3>1. /\ worker[g].pc = "logSource" /\ queue' = queue
          /\ worker' = [worker EXCEPT ![g].pc = "logDestination"]
      <4>1. CASE Current(g).kind = "kudos"
        BY <2>5, <4>1 DEF LogSource, At
      <4>2. Current(g).kind \in {"inception", "kudos", "grant"}
        BY <2>5, CurrentTyped, MessageTyped DEF LogSource, At
      <4> QED
        BY <2>5, <4>1, <4>2 DEF LogSource
    <3>2. /\ worker[g] \in Job /\ Known(worker[g], queue)
          /\ Current(g) = Record(worker[g], queue)
      BY <3>1, CurrentTyped
    <3>3. PICK w \in Job : w = [worker[g] EXCEPT !.pc = "logDestination"]
      BY <3>2 DEF Job
    <3>4. /\ w.share = worker[g].share /\ w.done = worker[g].done /\ w.group = worker[g].group
          /\ w.status = worker[g].status /\ w.error = worker[g].error /\ w.pc = "logDestination"
      BY <3>2, <3>3 DEF Job
    <3>5. worker' = [worker EXCEPT ![g] = w]
      BY <3>1, <3>3 DEF IInv, MessagesTyped
    <3>6. Known(w, queue)'
      BY <1>2, <3>1, <3>2, <3>4 DEF Known, Record
    <3> QED
      BY <1>2, <3>1, <3>4, <3>5, <3>6, BatchStays DEF IInv, MessagesTyped
  <2> QED
    BY <2>1, <2>2, <2>3, <2>4, <2>5 DEF HandleRewardTransfer, LogSource, LogDestination,
       PutLogFails, At
<1>4. log' \subseteq Entry /\ SuccessIsTrue'
  <2>1. CASE log' = log
    BY <1>2, <2>1 DEF IInv, MessagesTyped, SuccessIsTrue
  <2>2. CASE log' # log
    <3>1. /\ worker[g].pc \in {"logSource", "logDestination"}
          /\ \E side \in {"CREATED", "SENT", "RECIEVED"} :
                \/ PutLog(g, Current(g).from, side)
                \/ PutLog(g, Current(g).to, side)
      <4>1. LogSource(g) \/ LogDestination(g)
        BY <2>2 DEF HandleRewardTransfer, Receive, RejectBatch, ValidateTxRewardType,
           PutLogFails, Crash
      <4>2. CASE LogDestination(g)
        BY <4>2 DEF LogDestination, At
      <4>3. CASE LogSource(g)
        <5>1. Current(g).kind \in {"inception", "kudos", "grant"}
          BY <4>3, CurrentTyped, MessageTyped DEF LogSource, At
        <5> QED
          BY <2>2, <4>3, <5>1 DEF LogSource, At
      <4> QED
        BY <4>1, <4>2, <4>3
    <3>2. Current(g).from \in User /\ Current(g).to \in User
      BY <3>1, CurrentTyped, MessageTyped
    <3> QED
      BY <1>2, <3>1, <3>2, PutLogKeeps
  <2> QED
    BY <2>1, <2>2
<1> QED
  BY <1>2, <1>3, <1>4 DEF IInv, MessagesTyped, EngagementTyped
-----------------------------------------------------------------------------
LEMMA ForgetKeeps ==
    ASSUME IInv, NEW m \in remembered, Forget(m)
    PROVE  IInv' /\ [Ledger!LedgerNext]_(Ledger!ledger)
<1>1. UNCHANGED <<tp, rp, applied, enabled, outbox, accepted, engagement, queue, worker, log>>
  BY DEF Forget, senders
<1>2. remembered' = remembered \ {m} /\ m \in Message
  BY DEF Forget, IInv, MessagesTyped
<1>3. IInv'
  BY <1>1, <1>2 DEF IInv, MessagesTyped, EngagementTyped, WorkerKnows, Known, Record, Apart,
     Disjoint, SuccessIsTrue
<1>4. Closed' = Closed
  BY <1>1 DEF Closed, Queued
<1>5. Ledger!Forget(m)
  BY <1>1, <1>2, <1>4 DEF Ledger!Forget
<1> QED
  BY <1>2, <1>3, <1>5 DEF Ledger!LedgerNext

\* A step that moves no points closes some payments, or none: a message that has left the
\* queue, or was dropped, never enters it again.
LEMMA OthersClose ==
    ASSUME IInv, UNCHANGED <<tp, rp, applied, remembered>>, accepted \subseteq accepted',
           \A m \in Message : m.id \in accepted /\ Queued(m)' => Queued(m)
    PROVE  [Ledger!LedgerNext]_(Ledger!ledger)
<1>1. Closed \subseteq Closed' /\ Closed' \subseteq Message
  BY DEF Closed
<1>2. Ledger!Close
  BY <1>1 DEF Ledger!Close
<1> QED
  BY <1>2 DEF Ledger!LedgerNext

LEMMA SendCloses ==
    ASSUME IInv, Send
    PROVE  [Ledger!LedgerNext]_(Ledger!ledger)
<1>1. UNCHANGED <<tp, rp, applied, remembered>>
  BY DEF Send, PostEngagementSendKudos, SendKudosToSQS, AbandonKudos, AddRewardPoints,
     SendGrant, PatchRewardTypesStatus, balances
<1>2. UNCHANGED <<accepted, queue>> \/ \E n \in Message : Enqueue(n)
  <2>1. ASSUME NEW m \in outbox, SendKudosToSQS(m) PROVE m \in Message /\ Enqueue(m)
    BY <2>1 DEF SendKudosToSQS, IInv, MessagesTyped
  <2>2. ASSUME NEW i \in Inception, NEW points \in Points, NEW t \in Type,
               AddRewardPoints(i, points, t)
        PROVE  \E n \in Message : Enqueue(n)
    <3>1. [kind |-> "inception", id |-> i, from |-> Admin, to |-> Admin,
           points |-> points, type |-> t] \in Message
      BY DEF Message
    <3> QED
      BY <2>2, <3>1 DEF AddRewardPoints
  <2>3. ASSUME NEW g \in Grant, NEW to \in User, NEW t \in Type, SendGrant(g, to, t)
        PROVE  \E n \in Message : Enqueue(n)
    <3>1. [kind |-> "grant", id |-> g, from |-> Admin, to |-> to,
           points |-> 1, type |-> t] \in Message
      BY DEF Message
    <3> QED
      BY <2>3, <3>1 DEF SendGrant
  <2> QED
    BY <2>1, <2>2, <2>3 DEF Send, PostEngagementSendKudos, AbandonKudos,
       PatchRewardTypesStatus, senders
<1>3. CASE UNCHANGED <<accepted, queue>>
  BY <1>1, <1>3, OthersClose DEF Queued
<1>4. ASSUME NEW n \in Message, Enqueue(n)
      PROVE  /\ accepted \subseteq accepted'
             /\ \A m \in Message : m.id \in accepted /\ Queued(m)' => Queued(m)
  <2>1. accepted \subseteq accepted'
    BY <1>4 DEF Enqueue
  <2>2. CASE queue' = queue
    BY <2>1, <2>2 DEF Queued
  <2>3. CASE n.id \notin accepted /\ queue' = [queue EXCEPT ![n.from] = Append(@, n)]
    <3> SUFFICES ASSUME NEW m \in Message, m.id \in accepted, Queued(m)' PROVE Queued(m)
      BY <2>1
    <3>1. PICK g \in User : \E i \in 1..Len(queue'[g]) : queue'[g][i] = m
      BY DEF Queued, Contains
    <3>2. PICK i \in 1..Len(queue'[g]) : queue'[g][i] = m
      BY <3>1
    <3>3. n.from \in User /\ queue[g] \in Seq(Message) /\ m # n
      BY <2>3, MessageTyped DEF IInv, MessagesTyped
    <3>4. queue'[g] = queue[g] \/ queue'[g] = Append(queue[g], n)
      BY <2>3, <3>3 DEF IInv, MessagesTyped
    <3>5. i \in 1..Len(queue[g]) /\ queue[g][i] = m
      BY <3>2, <3>3, <3>4
    <3> QED
      BY <3>5 DEF Queued, Contains
  <2> QED
    BY <1>4, <2>2, <2>3 DEF Enqueue
<1> QED
  BY <1>1, <1>2, <1>3, <1>4, OthersClose

LEMMA HandleCloses ==
    ASSUME IInv, NEW g \in User, Receive(g) \/ HandleRewardTransfer(g) \/ Crash(g),
           ~Transact(g)
    PROVE  [Ledger!LedgerNext]_(Ledger!ledger)
<1>1. UNCHANGED <<tp, rp, applied, remembered, accepted>>
  BY DEF Receive, HandleRewardTransfer, RejectBatch, ValidateTxRewardType, LogSource,
     LogDestination, PutLogFails, Crash, balances, LambdaRest, senders
<1>2. queue' = queue \/ (worker[g].pc # "idle" /\ BatchDeleted(g))
  <2>1. CASE LogSource(g)
    <3>1. Current(g).kind \in {"inception", "kudos", "grant"} /\ worker[g].pc # "idle"
      BY <2>1, CurrentTyped, MessageTyped DEF LogSource, At
    <3> QED
      BY <2>1, <3>1 DEF LogSource, NextRecord
  <2>2. CASE LogDestination(g) \/ PutLogFails(g)
    BY <2>2 DEF LogDestination, PutLogFails, NextRecord, At
  <2>3. CASE Receive(g) \/ RejectBatch(g) \/ ValidateTxRewardType(g) \/ Crash(g)
    BY <2>3 DEF Receive, RejectBatch, ValidateTxRewardType, Crash
  <2> QED
    BY <2>1, <2>2, <2>3 DEF HandleRewardTransfer
<1>3. CASE queue' = queue
  BY <1>1, <1>3, OthersClose DEF Queued
<1>4. CASE worker[g].pc # "idle" /\ BatchDeleted(g)
  <2>1. \A m \in Message : Queued(m)' => Queued(m)
    BY <1>4, DeletionSpares DEF Queued, Contains
  <2> QED
    BY <1>1, <2>1, OthersClose
<1> QED
  BY <1>2, <1>3, <1>4

LEMMA NextInv == IInv /\ [Next]_vars => IInv' /\ [Ledger!LedgerNext]_(Ledger!ledger)
<1> SUFFICES ASSUME IInv, [Next]_vars PROVE IInv' /\ [Ledger!LedgerNext]_(Ledger!ledger)
  OBVIOUS
<1>1. CASE UNCHANGED vars
  <2>1. IInv'
    BY <1>1 DEF IInv, MessagesTyped, EngagementTyped, WorkerKnows, Known, Record, Apart,
       Disjoint, SuccessIsTrue, vars
  <2>2. Closed' = Closed
    BY <1>1 DEF vars, Closed, Queued
  <2> QED
    BY <1>1, <2>1, <2>2 DEF vars, Ledger!ledger
<1>2. CASE Send
  BY <1>2, SendKeeps, SendCloses
<1>3. ASSUME NEW g \in User, Receive(g) \/ HandleRewardTransfer(g) \/ Crash(g)
      PROVE  IInv' /\ [Ledger!LedgerNext]_(Ledger!ledger)
  BY <1>3, TransactKeeps, HandleKeeps, HandleCloses
<1>4. ASSUME NEW m \in remembered, Forget(m)
      PROVE  IInv' /\ [Ledger!LedgerNext]_(Ledger!ledger)
  BY <1>4, ForgetKeeps
<1> QED
  BY <1>1, <1>2, <1>3, <1>4 DEF Next

LEMMA InvIsInductive == Spec => []IInv
<1> QED
  BY InitInv, NextInv, PTL DEF Spec

\* Every reachable state of RewardsTransfer is well typed: an invocation is
\* always at a record of its batch, whatever is redelivered.
THEOREM TypeCorrect == Spec => []TypeOK
<1>1. WorkerKnows => \A g \in User : worker[g] # Idle =>
                      worker[g].done[worker[g].group] < worker[g].share[worker[g].group]
  BY DEF WorkerKnows, Known
<1>2. IInv => TypeOK
  BY <1>1 DEF IInv, MessagesTyped, EngagementTyped, TypeOK
<1> QED
  BY <1>2, InvIsInductive, PTL

\* However often a batch is redelivered and whatever call fails, an entry of
\* the log that says SUCCESS without an error is of points that moved.
THEOREM LogIsTrue == Spec => []SuccessIsTrue
<1>1. IInv => SuccessIsTrue
  BY DEF IInv
<1> QED
  BY <1>1, InvIsInductive, PTL

\* The queue and the Lambda implement the ledger: for any number of crashes, failures
\* and redeliveries a payment is made in one step, out of points that are there, and
\* nothing else moves points; it is made again only if its token was forgotten, and
\* then only while its message is still in the queue.
THEOREM ImplementsLedger == Spec => LedgerImplemented
<1>1. Init => Ledger!LedgerInit
  BY DEF Init, Ledger!LedgerInit, Closed
<1> QED
  BY <1>1, InitInv, NextInv, InvIsInductive, PTL DEF Spec, LedgerImplemented
-----------------------------------------------------------------------------
(* What a message leaves behind when it leaves its queue.                  *)

\* The records of a group are handled in their order: those an invocation is through with
\* were, and of the one it is at it is known what has been done by how far it has come.
Handled(m) == Valid(m) /\ (faults = 0 => InHistory(m))
SoFar(w, q) ==
    /\ \A h \in User : \A j \in 1..w.done[h] : Handled(q[h][j])
    /\ w.pc # "message" => Valid(Record(w, q))
    /\ w.pc = "logDestination" =>
          Record(w, q).kind = "kudos" /\ Logged(Record(w, q), Record(w, q).from, "SENT")
BatchSoFar == \A g \in User : worker[g] # Idle => SoFar(worker[g], queue)

CInv == IInv /\ faults \in Nat /\ BatchSoFar

\* What is in the history stays there, and no call that failed is forgotten.
Onward == log \subseteq log' /\ faults' \in Nat /\ (faults' = 0 => faults = 0)

LEMMA HandledStays ==
    ASSUME Onward, NEW m
    PROVE  /\ Handled(m) => Handled(m)'
           /\ \A entity, side : Logged(m, entity, side) => Logged(m, entity, side)'
BY DEF Onward, Handled, InHistory, Logged, Valid

\* An invocation stays where it is while the queues it has records of grow at the end.
LEMMA SoFarStays ==
    ASSUME IInv, Onward, NEW g \in User, worker[g] # Idle, SoFar(worker[g], queue),
           worker'[g] = worker[g],
           \A h \in User : worker[g].share[h] # 0 =>
               \A j \in 1..Len(queue[h]) : queue'[h][j] = queue[h][j]
    PROVE  SoFar(worker[g], queue)'
<1>1. PICK w \in Job : w = worker[g] /\ Known(w, queue)
  BY DEF IInv, MessagesTyped, WorkerKnows
<1>2. w.group \in User /\ w.share \in [User -> Nat] /\ w.done \in [User -> Nat]
  BY JobTyped
<1>3. ASSUME NEW h \in User, NEW j \in 1..w.share[h] PROVE queue'[h][j] = queue[h][j]
  <2>1. w.share[h] # 0 /\ w.share[h] <= Len(queue[h]) /\ queue[h] \in Seq(Message)
    BY <1>1, <1>2 DEF Known, IInv, MessagesTyped
  <2>2. j \in 1..Len(queue[h])
    BY <1>2, <2>1
  <2> QED
    BY <1>1, <2>1, <2>2
<1>4. ASSUME NEW h \in User, NEW j \in 1..w.done[h] PROVE Handled(queue[h][j])'
  <2>1. j \in 1..w.share[h]
    BY <1>1, <1>2 DEF Known
  <2>2. PICK n : n = queue[h][j]
    OBVIOUS
  <2>3. Handled(n)
    BY <1>1, <2>2 DEF SoFar
  <2>4. Handled(n)' /\ queue'[h][j] = n
    BY <1>3, <2>1, <2>2, <2>3, HandledStays
  <2> QED
    BY <2>4
<1>5. Record(w, queue') = Record(w, queue)
  <2>1. w.done[w.group] + 1 \in 1..w.share[w.group]
    BY <1>1, <1>2 DEF Known
  <2> QED
    BY <1>2, <1>3, <2>1 DEF Record
<1>6. PICK n : n = Record(w, queue)
  OBVIOUS
<1>7. Logged(n, n.from, "SENT") => Logged(n, n.from, "SENT")'
  BY HandledStays
<1> QED
  BY <1>1, <1>4, <1>5, <1>6, <1>7 DEF SoFar, Valid, Record

\* One invocation moves; the others are where they were.
LEMMA BatchMoves ==
    ASSUME CInv, Onward, NEW g \in User, NEW w, worker' = [worker EXCEPT ![g] = w],
           queue' = queue \/ (worker[g].pc # "idle" /\ BatchDeleted(g)),
           w # Idle => SoFar(w, queue)'
    PROVE  BatchSoFar'
<1> SUFFICES ASSUME NEW f \in User, worker'[f] # Idle PROVE SoFar(worker[f], queue)'
  BY DEF BatchSoFar
<1>1. CASE f = g
  <2>1. worker'[g] = w
    BY DEF CInv, IInv, MessagesTyped
  <2> QED
    BY <1>1, <2>1
<1>2. CASE f # g
  <2>1. worker'[f] = worker[f]
    BY <1>2 DEF CInv, IInv, MessagesTyped
  <2>2. SoFar(worker[f], queue)
    BY <2>1 DEF CInv, BatchSoFar
  <2>3. ASSUME NEW h \in User, worker[f].share[h] # 0 PROVE queue'[h] = queue[h]
    <3>1. CASE worker[g].pc # "idle" /\ BatchDeleted(g)
      <4>1. worker[f] # Idle /\ worker[g] # Idle
        BY <2>1, <3>1, CurrentTyped DEF CInv
      <4>2. worker[g].share[h] = 0
        BY <1>2, <2>3, <4>1 DEF CInv, IInv, Apart, Disjoint
      <4> QED
        BY <3>1, <4>2, DeletionSpares DEF CInv
    <3> QED
      BY <3>1
  <2> QED
    BY <2>1, <2>2, <2>3, SoFarStays DEF CInv
<1> QED
  BY <1>1, <1>2

\* After a record that was handled comes the next one; after the last, a batch of which
\* every record was handled leaves the queue.
LEMMA NextRecordHandled ==
    ASSUME CInv, Onward, NEW g \in User, worker[g].pc # "idle", NextRecord(g),
           NEW m, m = Current(g), Handled(m)'
    PROVE  /\ BatchSoFar'
           /\ \A h \in User : \A n \in Range(queue[h]) : Queued(n)' \/ Handled(n)'
<1>1. PICK w \in Job : /\ w = worker[g] /\ Known(w, queue) /\ w # Idle
                       /\ m = Record(w, queue)
  BY CurrentTyped DEF CInv
<1>2. w.group \in User /\ w.share \in [User -> Nat] /\ w.done \in [User -> Nat]
  BY JobTyped
<1>3. /\ Progress(g) \in [User -> Nat]
      /\ \A h \in User : Progress(g)[h] = IF h = w.group THEN w.done[h] + 1 ELSE w.done[h]
  BY <1>1, <1>2 DEF Progress
<1>4. ASSUME NEW h \in User, NEW j \in 1..Progress(g)[h], NEW n, n = queue[h][j]
      PROVE  Handled(n)'
  <2>1. CASE h = w.group /\ j = w.done[h] + 1
    BY <1>1, <1>4, <2>1 DEF Record
  <2>2. CASE ~(h = w.group /\ j = w.done[h] + 1)
    <3>1. j \in 1..w.done[h]
      BY <1>2, <1>3, <2>2
    <3>2. Handled(n)
      BY <1>1, <1>4, <3>1 DEF CInv, BatchSoFar, SoFar
    <3> QED
      BY <3>2, HandledStays
  <2> QED
    BY <2>1, <2>2
<1>5. ASSUME NEW h \in GroupsLeft(g), TakeUp(g, h, worker[g].share, Progress(g)), queue' = queue
      PROVE  /\ BatchSoFar'
             /\ \A f \in User : \A n \in Range(queue[f]) : Queued(n)'
  <2>1. PICK v : v = [pc |-> "message", share |-> worker[g].share, done |-> Progress(g),
                      group |-> h, status |-> "SUCCESS", error |-> "none"]
    OBVIOUS
  <2>2. worker' = [worker EXCEPT ![g] = v] /\ v.pc = "message" /\ v.done = Progress(g)
    BY <1>5, <2>1 DEF TakeUp
  <2>3. ASSUME NEW f \in User, NEW j \in 1..v.done[f] PROVE Handled(queue[f][j])'
    <3>1. PICK n : n = queue[f][j]
      OBVIOUS
    <3>2. Handled(n)'
      BY <1>4, <2>2, <3>1
    <3> QED
      BY <1>5, <3>1, <3>2
  <2>4. SoFar(v, queue)'
    BY <2>2, <2>3 DEF SoFar
  <2>5. ASSUME NEW f \in User, NEW n \in Range(queue[f]) PROVE Queued(n)'
    <3>1. queue[f] \in Seq(Message)
      BY DEF CInv, IInv, MessagesTyped
    <3>2. PICK j \in 1..Len(queue[f]) : n = queue[f][j]
      BY <3>1 DEF Range
    <3> QED
      BY <1>5, <3>2 DEF Queued, Contains
  <2> QED
    BY <1>5, <2>2, <2>4, <2>5, BatchMoves
<1>6. ASSUME GroupsLeft(g) = {}, worker' = [worker EXCEPT ![g] = Idle], BatchDeleted(g)
      PROVE  /\ BatchSoFar'
             /\ \A f \in User : \A n \in Range(queue[f]) : Queued(n)' \/ Handled(n)'
  <2>1. ASSUME NEW f \in User, NEW n \in Range(queue[f]) PROVE Queued(n)' \/ Handled(n)'
    <3>1. queue[f] \in Seq(Message)
      BY DEF CInv, IInv, MessagesTyped
    <3>2. PICK j \in 1..Len(queue[f]) : n = queue[f][j]
      BY <3>1 DEF Range
    <3>3. CASE j > w.share[f]
      BY <1>1, <1>6, <3>2, <3>3, DeletionSpares DEF CInv, Queued, Contains
    <3>4. CASE j <= w.share[f]
      <4>1. w.share[f] <= Progress(g)[f]
        BY <1>1, <1>2, <1>3, <1>6 DEF GroupsLeft
      <4>2. j \in 1..Progress(g)[f]
        BY <1>2, <1>3, <3>1, <3>2, <3>4, <4>1
      <4> QED
        BY <1>4, <3>2, <4>2
    <3> QED
      BY <1>2, <3>1, <3>2, <3>3, <3>4
  <2>2. BatchSoFar'
    BY <1>6, BatchMoves
  <2> QED
    BY <2>1, <2>2
<1> QED
  BY <1>5, <1>6 DEF NextRecord

-----------------------------------------------------------------------------
(* What the steps leave behind.                                            *)

\* What every step keeps: nothing that was not handled leaves its queue.
Leaves == BatchSoFar' /\ \A g \in User : \A n \in Range(queue[g]) : Queued(n)' \/ Handled(n)'

LEMMA NothingLeaves ==
    ASSUME IInv, IInv',
           \A g \in User : \A j \in 1..Len(queue[g]) : /\ j \in 1..Len(queue'[g])
                                                       /\ queue'[g][j] = queue[g][j]
    PROVE  \A g \in User : \A n \in Range(queue[g]) : Queued(n)'
<1> SUFFICES ASSUME NEW g \in User, NEW n \in Range(queue[g]) PROVE Queued(n)'
  OBVIOUS
<1>1. queue[g] \in Seq(Message)
  BY DEF IInv, MessagesTyped
<1>2. PICK j \in 1..Len(queue[g]) : n = queue[g][j]
  BY <1>1 DEF Range
<1> QED
  BY <1>2 DEF Queued, Contains

LEMMA SendLeaves ==
    ASSUME CInv, IInv', Send
    PROVE  Onward /\ Leaves
<1>1. UNCHANGED <<worker, log, faults>>
  BY DEF Send, PostEngagementSendKudos, SendKudosToSQS, AbandonKudos, AddRewardPoints,
     SendGrant, PatchRewardTypesStatus
<1>2. Onward
  BY <1>1 DEF Onward, CInv
<1>3. queue' = queue \/ \E m \in Message : queue' = [queue EXCEPT ![m.from] = Append(@, m)]
  <2>1. ASSUME NEW m \in Message, Enqueue(m)
        PROVE  queue' = queue \/ queue' = [queue EXCEPT ![m.from] = Append(@, m)]
    BY <2>1 DEF Enqueue
  <2>2. ASSUME NEW m \in outbox, SendKudosToSQS(m) PROVE m \in Message /\ Enqueue(m)
    BY <2>2 DEF SendKudosToSQS, CInv, IInv, MessagesTyped
  <2>3. ASSUME NEW i \in Inception, NEW points \in Points, NEW t \in Type,
               AddRewardPoints(i, points, t)
        PROVE  \E m \in Message : Enqueue(m)
    <3>1. [kind |-> "inception", id |-> i, from |-> Admin, to |-> Admin,
           points |-> points, type |-> t] \in Message
      BY DEF Message
    <3> QED
      BY <2>3, <3>1 DEF AddRewardPoints
  <2>4. ASSUME NEW g \in Grant, NEW to \in User, NEW t \in Type, SendGrant(g, to, t)
        PROVE  \E m \in Message : Enqueue(m)
    <3>1. [kind |-> "grant", id |-> g, from |-> Admin, to |-> to,
           points |-> 1, type |-> t] \in Message
      BY DEF Message
    <3> QED
      BY <2>4, <3>1 DEF SendGrant
  <2> QED
    BY <2>1, <2>2, <2>3, <2>4 DEF Send, PostEngagementSendKudos, AbandonKudos, PatchRewardTypesStatus
<1>4. \A g \in User : \A j \in 1..Len(queue[g]) : /\ j \in 1..Len(queue'[g])
                                                  /\ queue'[g][j] = queue[g][j]
  <2> SUFFICES ASSUME NEW g \in User, NEW j \in 1..Len(queue[g])
               PROVE  j \in 1..Len(queue'[g]) /\ queue'[g][j] = queue[g][j]
    OBVIOUS
  <2>1. queue \in [User -> Seq(Message)]
    BY DEF CInv, IInv, MessagesTyped
  <2>2. CASE queue' = queue
    BY <2>2
  <2>3. ASSUME NEW m \in Message, queue' = [queue EXCEPT ![m.from] = Append(@, m)]
        PROVE  j \in 1..Len(queue'[g]) /\ queue'[g][j] = queue[g][j]
    BY <2>1, <2>3
  <2> QED
    BY <1>3, <2>2, <2>3
<1>5. BatchSoFar'
  BY <1>1, <1>2, <1>4, SoFarStays DEF CInv, BatchSoFar
<1> QED
  BY <1>2, <1>4, <1>5, NothingLeaves DEF Leaves, CInv

\* The steps of the Lambda but NextRecord: the queue is what it was.
LEMMA MoveLeaves ==
    ASSUME CInv, IInv', Onward, NEW g \in User, NEW w, worker' = [worker EXCEPT ![g] = w],
           queue' = queue, w # Idle => SoFar(w, queue)'
    PROVE  Leaves
<1>1. BatchSoFar'
  BY BatchMoves
<1>2. \A h \in User : \A n \in Range(queue[h]) : Queued(n)'
  BY NothingLeaves DEF CInv
<1> QED
  BY <1>1, <1>2 DEF Leaves

\* An invocation at the same record, further on.
LEMMA GotoLeaves ==
    ASSUME CInv, IInv', Onward, NEW g \in User, worker[g].pc # "idle",
           NEW label \in {"transact", "logSource"},
           NEW status \in {"SUCCESS", "FAIL"}, NEW error \in {"none", "disabled", "failed"},
           worker' = [worker EXCEPT ![g].pc = label, ![g].status = status, ![g].error = error],
           queue' = queue, Valid(Current(g))
    PROVE  Leaves
<1>1. worker[g] \in Job /\ worker[g] # Idle /\ Current(g) = Record(worker[g], queue)
  BY CurrentTyped DEF CInv
<1>2. PICK w : w = [worker[g] EXCEPT !.pc = label, !.status = status, !.error = error]
  OBVIOUS
<1>3. /\ w.done = worker[g].done /\ w.group = worker[g].group /\ w.pc = label
      /\ worker' = [worker EXCEPT ![g] = w]
  BY <1>1, <1>2 DEF Job, CInv, IInv, MessagesTyped
<1>4. ASSUME NEW h \in User, NEW j \in 1..w.done[h] PROVE Handled(queue[h][j])'
  <2>1. PICK n : n = queue[h][j]
    OBVIOUS
  <2>2. Handled(n)
    BY <1>1, <1>3, <2>1 DEF CInv, BatchSoFar, SoFar
  <2> QED
    BY <2>1, <2>2, HandledStays
<1>5. Record(w, queue) = Current(g)
  BY <1>1, <1>3 DEF Record
<1>6. SoFar(w, queue)'
  BY <1>3, <1>4, <1>5 DEF SoFar, Valid, Record
<1> QED
  BY <1>3, <1>6, MoveLeaves

\* The steps that hand out the next record say why this one is handled: a put failed, or
\* its entries are there.
LEMMA LogLeaves ==
    ASSUME CInv, IInv', NEW g \in User, LogSource(g) \/ LogDestination(g) \/ PutLogFails(g)
    PROVE  Onward /\ Leaves
<1>1. /\ worker[g].pc \in {"logSource", "logDestination"}
      /\ worker[g] # Idle /\ Current(g) \in Message /\ Valid(Current(g))
      /\ worker[g].pc = "logDestination" =>
            Current(g).kind = "kudos" /\ Logged(Current(g), Current(g).from, "SENT")
  <2>1. worker[g].pc \in {"logSource", "logDestination"}
    BY DEF LogSource, LogDestination, PutLogFails, At
  <2>2. /\ Current(g) \in Message /\ worker[g] # Idle
        /\ Current(g) = Record(worker[g], queue)
    BY <2>1, CurrentTyped DEF CInv, Idle
  <2> QED
    BY <2>1, <2>2 DEF CInv, BatchSoFar, SoFar
<1>2. PICK m \in Message : m = Current(g)
  BY <1>1
<1>3. m.kind \in {"inception", "kudos", "grant"}
  BY MessageTyped
<1>4. Onward
  <2>1. CASE PutLogFails(g)
    BY <2>1 DEF PutLogFails, Onward, CInv
  <2>2. CASE LogDestination(g)
    BY <2>2 DEF LogDestination, PutLog, Onward, CInv
  <2>3. CASE LogSource(g)
    <3>1. faults' = faults /\ (log' = log \/ \E entity, side : PutLog(g, entity, side))
      BY <1>2, <1>3, <2>3 DEF LogSource
    <3> QED
      BY <3>1 DEF PutLog, Onward, CInv
  <2> QED
    BY <2>1, <2>2, <2>3
<1>5. ASSUME NEW entity, NEW side, PutLog(g, entity, side) PROVE Logged(m, entity, side)'
  <2>1. PICK e : e = [entity |-> entity, message |-> Current(g), side |-> side,
                      status |-> worker[g].status, error |-> worker[g].error]
    OBVIOUS
  <2>2. e.message = m /\ e.entity = entity /\ e.side = side
    BY <1>2, <2>1
  <2>3. e \in log'
    BY <1>5, <2>1 DEF PutLog
  <2> QED
    BY <2>2, <2>3 DEF Logged
<1>6. CASE NextRecord(g)
  <2>1. Handled(m)'
    <3>1. Valid(m)
      BY <1>1, <1>2
    <3>2. CASE PutLogFails(g)
      BY <3>1, <3>2 DEF PutLogFails, CInv, Handled, Valid
    <3>3. CASE LogDestination(g)
      <4>1. /\ m.kind = "kudos" /\ Logged(m, m.from, "SENT") /\ PutLog(g, m.to, "RECIEVED")
        BY <1>1, <1>2, <3>3 DEF LogDestination, At
      <4>2. Logged(m, m.from, "SENT")' /\ Logged(m, m.to, "RECIEVED")'
        BY <1>4, <1>5, <4>1, HandledStays
      <4> QED
        BY <3>1, <4>1, <4>2 DEF Handled, InHistory, Valid
    <3>4. CASE LogSource(g) /\ m.kind = "grant"
      BY <3>1, <3>4 DEF Handled, InHistory, Valid
    <3>5. CASE LogSource(g) /\ m.kind = "inception"
      <4>1. PutLog(g, m.to, "CREATED")
        BY <1>2, <3>5 DEF LogSource
      <4> QED
        BY <1>5, <3>1, <3>5, <4>1 DEF Handled, InHistory, Valid
    <3>6. CASE LogSource(g) /\ m.kind = "kudos"
      <4>1. worker' = [worker EXCEPT ![g].pc = "logDestination"] /\ queue' = queue
        BY <1>2, <3>6 DEF LogSource
      <4>2. worker[g] \in Job /\ worker'[g].pc = "logDestination"
        BY <1>1, <4>1, CurrentTyped DEF CInv, IInv, MessagesTyped
      <4>3. worker'[g].pc \in {"message", "idle"}
        BY <1>6, <4>2 DEF NextRecord, TakeUp, CInv, IInv, MessagesTyped, Idle
      <4> QED
        BY <4>2, <4>3
    <3> QED
      BY <1>3, <3>2, <3>3, <3>4, <3>5, <3>6
  <2>2. /\ BatchSoFar'
        /\ \A h \in User : \A n \in Range(queue[h]) : Queued(n)' \/ Handled(n)'
    BY <1>1, <1>4, <1>2, <1>6, <2>1, NextRecordHandled
  <2> QED
    BY <1>4, <2>2 DEF Leaves
<1>7. CASE ~NextRecord(g)
  <2>1. /\ worker[g].pc = "logSource" /\ m.kind = "kudos" /\ queue' = queue
        /\ PutLog(g, m.from, "SENT") /\ worker' = [worker EXCEPT ![g].pc = "logDestination"]
    BY <1>2, <1>3, <1>7 DEF LogSource, LogDestination, PutLogFails, At
  <2>2. PICK w : w = [worker[g] EXCEPT !.pc = "logDestination"]
    OBVIOUS
  <2>3. worker[g] \in Job /\ m = Record(worker[g], queue)
    BY <1>1, <1>2, CurrentTyped DEF CInv
  <2>4. /\ w.done = worker[g].done /\ w.group = worker[g].group /\ w.pc = "logDestination"
        /\ worker' = [worker EXCEPT ![g] = w]
    BY <2>1, <2>2, <2>3 DEF Job, CInv, IInv, MessagesTyped
  <2>5. ASSUME NEW h \in User, NEW j \in 1..w.done[h] PROVE Handled(queue[h][j])'
    <3>1. PICK n : n = queue[h][j]
      OBVIOUS
    <3>2. Handled(n)
      BY <1>1, <2>4, <3>1 DEF CInv, BatchSoFar, SoFar
    <3> QED
      BY <1>4, <2>1, <3>1, <3>2, HandledStays
  <2>6. Logged(m, m.from, "SENT")'
    BY <1>5, <2>1
  <2>7. Record(w, queue) = m
    BY <2>3, <2>4 DEF Record
  <2>8. SoFar(w, queue)'
    BY <1>1, <1>2, <2>1, <2>4, <2>5, <2>6, <2>7 DEF SoFar, Valid, Record
  <2> QED
    BY <1>4, <2>1, <2>4, <2>8, MoveLeaves
<1> QED
  BY <1>6, <1>7

LEMMA NextLeaves ==
    ASSUME CInv, [Next]_vars
    PROVE  CInv' /\ Leaves
<1>1. IInv'
  BY NextInv DEF CInv
<1>2. CASE UNCHANGED vars
  <2>1. UNCHANGED <<queue, worker, log, faults>>
    BY <1>2 DEF vars
  <2>2. Onward
    BY <2>1 DEF Onward, CInv
  <2>3. BatchSoFar'
    BY <2>1, <2>2, SoFarStays DEF CInv, BatchSoFar
  <2> QED
    BY <1>1, <2>1, <2>2, <2>3, NothingLeaves DEF CInv, Leaves, Onward
<1>3. CASE Send
  BY <1>1, <1>3, SendLeaves DEF CInv, Leaves, Onward
<1>4. ASSUME NEW g \in User, Receive(g) \/ HandleRewardTransfer(g) \/ Crash(g)
      PROVE  Onward /\ Leaves
  <2>1. CASE LogSource(g) \/ LogDestination(g) \/ PutLogFails(g)
    BY <1>1, <2>1, LogLeaves
  <2>2. ASSUME Receive(g) \/ RejectBatch(g) \/ Crash(g) \/ ValidateTxRewardType(g) \/ Transact(g)
        PROVE  Onward /\ queue' = queue
    BY <2>2 DEF Receive, RejectBatch, Crash, ValidateTxRewardType, Transact, Onward, CInv
  <2>3. CASE Receive(g)
    <3>1. PICK share : TakeUp(g, g, share, [h \in User |-> 0])
      BY <2>3 DEF Receive
    <3>2. PICK w : w = [pc |-> "message", share |-> share, done |-> [h \in User |-> 0],
                        group |-> g, status |-> "SUCCESS", error |-> "none"]
      OBVIOUS
    <3>3. /\ w.pc = "message" /\ worker' = [worker EXCEPT ![g] = w]
          /\ \A h \in User : w.done[h] = 0
      BY <3>1, <3>2 DEF TakeUp
    <3>4. SoFar(w, queue)'
      BY <3>3 DEF SoFar
    <3> QED
      BY <1>1, <2>2, <2>3, <3>3, <3>4, MoveLeaves
  <2>4. CASE RejectBatch(g) \/ Crash(g)
    <3>1. worker' = [worker EXCEPT ![g] = Idle]
      BY <2>4 DEF RejectBatch, Crash
    <3> QED
      BY <1>1, <2>2, <2>4, <3>1, MoveLeaves
  <2>5. CASE ValidateTxRewardType(g)
    <3>1. /\ worker[g].pc # "idle" /\ Valid(Current(g))
          /\ \/ Goto(g, "transact", "SUCCESS", "none")
             \/ Goto(g, "logSource", "SUCCESS", "disabled")
      BY <2>5 DEF ValidateTxRewardType, At
    <3> QED
      BY <1>1, <2>2, <2>5, <3>1, GotoLeaves DEF Goto
  <2>6. CASE Transact(g)
    <3>1. /\ worker[g].pc = "transact"
          /\ \/ Goto(g, "logSource", "SUCCESS", "none")
             \/ Goto(g, "logSource", "FAIL", "failed")
      BY <2>6 DEF Transact, At
    <3>2. Valid(Current(g))
      BY <3>1, CurrentTyped DEF CInv, Known
    <3> QED
      BY <1>1, <2>2, <2>6, <3>1, <3>2, GotoLeaves DEF Goto
  <2> QED
    BY <1>4, <2>1, <2>3, <2>4, <2>5, <2>6 DEF HandleRewardTransfer
<1>5. ASSUME NEW m \in remembered, Forget(m) PROVE Onward /\ Leaves
  <2>1. UNCHANGED <<queue, worker, log, faults>>
    BY <1>5 DEF Forget
  <2>2. Onward
    BY <2>1 DEF Onward, CInv
  <2>3. BatchSoFar'
    BY <2>1, <2>2, SoFarStays DEF CInv, BatchSoFar
  <2> QED
    BY <1>1, <2>1, <2>2, <2>3, NothingLeaves DEF CInv, Leaves
<1> QED
  BY <1>1, <1>2, <1>3, <1>4, <1>5 DEF Next, CInv, Leaves, Onward

\* However often a batch dies, is rejected or delivered again, a message leaves its queue
\* only when HandleRewardTransfer has gone through all its steps for it.
THEOREM OnlyHandledLeave == Spec => LeavesHandled
<1>1. Init => CInv
  <2>1. Init => BatchSoFar /\ faults \in Nat
    BY DEF Init, BatchSoFar
  <2> QED
    BY <2>1, InitInv DEF CInv
<1>2. CInv /\ [Next]_vars =>
        [\A g \in User : \A m \in Range(queue[g]) :
            ~Queued(m)' => Valid(m) /\ (faults' = 0 => InHistory(m)')]_vars
  BY NextLeaves DEF Leaves, Handled, Valid
<1> QED
  BY <1>1, <1>2, NextLeaves, PTL DEF Spec, LeavesHandled
=============================================================================
