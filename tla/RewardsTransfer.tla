-------------------------- MODULE RewardsTransfer --------------------------
(***************************************************************************)
(* The transfer of reward points: a queue, filled by the API and emptied   *)
(* by the reward-transfer Lambda, over RewardsTransferService and          *)
(* RewardsTransferLogsService of lambdas/lib/company-lib.                  *)
(*                                                                         *)
(* Senders name a group (the source user) and a deduplication id, so the   *)
(* queue keeps the order within a group and drops what it has already      *)
(* accepted.  A batch may mix the records of several groups; those of one  *)
(* group are with one invocation at a time.  When an invocation returns an *)
(* error, or dies, all its records are delivered again, in whatever        *)
(* batches; when it returns nil they are deleted.                          *)
(***************************************************************************)
EXTENDS Integers, Sequences, SequencesExt, FiniteSets

CONSTANTS User, Admin,   \* Admin is RewardsAdminUser
          Type,          \* reward types
          Kudos,         \* engagement ids, with a transfer per reward type each
          Inception,     \* transaction ids of points made by an administrator
          Grant,         \* transaction ids of transferable points given to a user
          Gift,          \* TransferrablePoints of a kudos: functions from types to points
          Points,        \* points an administrator may ask for, checked by nobody
          Initial,       \* transferable points of each user at the start
          BatchSize,     \* messages the event source hands over at once
          MaxCrashes,    \* bound: invocations that die half-way
          MaxFaults,     \* bound: DynamoDB calls that return an error
          MaxForgets     \* bound: tokens that DynamoDB forgets

ASSUME AdminAssumption == Admin \in User
ASSUME IdsAssumption == /\ Kudos \cap Inception = {}
                        /\ (Kudos \cup Inception) \cap Grant = {}
ASSUME PointsAssumption == /\ Initial \in Int /\ Points \subseteq Int
                           /\ \A g \in Gift : \E ts \in SUBSET Type : g \in [ts -> Int]
ASSUME BatchAssumption == BatchSize \in Nat \ {0}

VARIABLES tp, rp,        \* TransferablePoints and RewardPoints, by user and type
          enabled,       \* RewardTypeStatus
          engagement,    \* the points a kudos item says were given, <<>> before
          outbox,        \* messages a request has still to send
          accepted,      \* deduplication ids the queue has seen
          queue,         \* per group, in order
          worker,        \* invocations, by the group of the first record of their batch
          applied,       \* history: what was paid
          remembered,    \* client request tokens DynamoDB remembers
          log,           \* transfer log entries
          crashes, faults, forgets

balances == <<tp, rp, applied, remembered>>
senders == <<engagement, outbox, accepted>>
vars == <<tp, rp, enabled, engagement, outbox, accepted, queue, worker,
          applied, remembered, log, crashes, faults, forgets>>

Message == [kind : {"inception"}, id : Inception, from : {Admin}, to : {Admin},
            points : Points, type : Type]
      \cup [kind : {"kudos"}, id : Kudos, from : User, to : User,
            points : UNION {Range(g) : g \in Gift}, type : Type]
      \cup [kind : {"grant"}, id : Grant, from : {Admin}, to : User,
            points : {1}, type : Type]

Idle == [pc |-> "idle"]
\* What an invocation was handed of each group, how much of it is done, and the
\* group of the record it is at.
Job == [pc : {"message", "transact", "logSource", "logDestination"},
        share : [User -> 0..BatchSize], done : [User -> 0..BatchSize], group : User,
        status : {"SUCCESS", "FAIL"}, error : {"none", "disabled", "failed"}]

Entry == [entity : User, message : Message, side : {"CREATED", "SENT", "RECIEVED"},
          status : {"SUCCESS", "FAIL"}, error : {"none", "disabled", "failed"}]

\* The shape of balances, messages and log; an invocation is at a record of its batch.
TypeOK == /\ tp \in [User -> [Type -> Int]]
          /\ rp \in [User -> [Type -> Int]]
          /\ enabled \in [Type -> BOOLEAN]
          /\ \A k \in Kudos : engagement[k] \in Gift \cup {<<>>}
          /\ outbox \subseteq Message
          /\ accepted \subseteq Kudos \cup Inception \cup Grant
          /\ queue \in [User -> Seq(Message)]
          /\ worker \in [User -> Job \cup {Idle}]
          /\ \A g \in User : worker[g] # Idle =>
                worker[g].done[worker[g].group] < worker[g].share[worker[g].group]
          /\ remembered \subseteq applied /\ applied \subseteq Message
          /\ log \subseteq Entry

Init == /\ tp = [u \in User |-> [t \in Type |-> Initial]]
        /\ rp = [u \in User |-> [t \in Type |-> 0]]
        /\ enabled = [t \in Type |-> TRUE]
        /\ engagement = [k \in Kudos |-> <<>>]
        /\ outbox = {} /\ accepted = {}
        /\ queue = [u \in User |-> <<>>]
        /\ worker = [u \in User |-> Idle]
        /\ applied = {} /\ remembered = {} /\ log = {}
        /\ crashes = 0 /\ faults = 0 /\ forgets = 0
-----------------------------------------------------------------------------
(* The senders.                                                            *)

\* The queue takes a message unless it has seen its deduplication id.
Enqueue(m) ==
    /\ accepted' = accepted \cup {m.id}
    /\ queue' = IF m.id \in accepted THEN queue
                ELSE [queue EXCEPT ![m.from] = Append(@, m)]

\* The engagement is stored with all its points before any of them is sent.
PostEngagementSendKudos(k, from, to, gift) ==
    /\ engagement[k] = <<>>
    /\ engagement' = [engagement EXCEPT ![k] = gift]
    /\ outbox' = outbox \cup
          {[kind |-> "kudos", id |-> k, from |-> from, to |-> to,
            points |-> gift[t], type |-> t] : t \in DOMAIN gift}
    /\ UNCHANGED <<balances, enabled, accepted, queue, worker, log, crashes, faults, forgets>>

\* One message per reward type, in the order of a Go map, that is, in any;
\* the deduplication id is that of the engagement.
SendKudosToSQS(m) ==
    /\ m \in outbox
    /\ Enqueue(m)
    /\ outbox' = outbox \ {m}
    /\ UNCHANGED <<balances, enabled, engagement, worker, log, crashes, faults, forgets>>

\* The request dies, or a call to the queue fails: the other types are not sent.
AbandonKudos(k) ==
    /\ \E m \in outbox : m.id = k
    /\ crashes < MaxCrashes
    /\ crashes' = crashes + 1
    /\ outbox' = {m \in outbox : m.id # k}
    /\ UNCHANGED <<balances, enabled, engagement, accepted, queue, worker, log, faults, forgets>>

AddRewardPoints(i, points, t) ==
    /\ i \notin accepted
    /\ Enqueue([kind |-> "inception", id |-> i, from |-> Admin, to |-> Admin,
                points |-> points, type |-> t])
    /\ UNCHANGED <<balances, enabled, engagement, outbox, worker, log, crashes, faults, forgets>>

\* Nothing in the repository sends this kind; the handler serves it.
SendGrant(g, to, t) ==
    /\ g \notin accepted
    /\ Enqueue([kind |-> "grant", id |-> g, from |-> Admin, to |-> to,
                points |-> 1, type |-> t])
    /\ UNCHANGED <<balances, enabled, engagement, outbox, worker, log, crashes, faults, forgets>>

PatchRewardTypesStatus(t, active) ==
    /\ enabled' = [enabled EXCEPT ![t] = active]
    /\ UNCHANGED <<balances, senders, queue, worker, log, crashes, faults, forgets>>
-----------------------------------------------------------------------------
(* The Lambda.                                                             *)

At(g, label) == worker[g].pc = label
Current(g) == queue[worker[g].group][worker[g].done[worker[g].group] + 1]
InFlight(h) == \E g \in User : worker[g] # Idle /\ worker[g].share[h] > 0
LambdaRest == <<enabled, senders, crashes, forgets>>

\* The next record is one of the group h.
TakeUp(g, h, share, done) ==
    worker' = [worker EXCEPT ![g] = [pc |-> "message", share |-> share, done |-> done,
                                     group |-> h, status |-> "SUCCESS", error |-> "none"]]

\* A batch: the first records of some groups that no invocation is at, in any
\* order that keeps the order of each group.
Receive(g) ==
    /\ At(g, "idle")
    /\ \E share \in [User -> 0..BatchSize] :
          /\ share[g] > 0 /\ SumFunction(share) <= BatchSize
          /\ \A h \in User : /\ share[h] <= Len(queue[h])
                             /\ share[h] > 0 => ~InFlight(h)
          /\ TakeUp(g, g, share, [h \in User |-> 0])
    /\ UNCHANGED <<balances, queue, log, faults, LambdaRest>>

\* The records of the batch leave their queues, each group's from the front.
BatchDeleted(g) ==
    queue' = [h \in User |-> SubSeq(queue[h], worker[g].share[h] + 1, Len(queue[h]))]

\* ValidateInput: its error is the only one the handler ever returns.
Valid(m) == m.points > 0

Goto(g, label, status, error) ==
    worker' = [worker EXCEPT ![g].pc = label, ![g].status = status, ![g].error = error]

\* Plausible error: the handler returns nil, and the batch is deleted.
RejectReturnsNil(g) ==
    /\ At(g, "message") /\ ~Valid(Current(g))
    /\ worker' = [worker EXCEPT ![g] = Idle]
    /\ BatchDeleted(g)
    /\ UNCHANGED <<balances, log, faults, LambdaRest>>

\* The batch goes back as a whole, the records handled before and those of other
\* groups with it: the handler reports no failures of single items.
RejectBatch(g) ==
    /\ At(g, "message") /\ ~Valid(Current(g))
    /\ worker' = [worker EXCEPT ![g] = Idle]
    /\ UNCHANGED <<balances, queue, log, faults, LambdaRest>>

\* A disabled type, or a failure to read its status, is logged as a SUCCESS
\* with a text that says otherwise.
ValidateTxRewardType(g) ==
    /\ At(g, "message") /\ Valid(Current(g))
    /\ \/ enabled[Current(g).type] /\ Goto(g, "transact", "SUCCESS", "none")
          /\ UNCHANGED faults
       \/ ~enabled[Current(g).type] /\ Goto(g, "logSource", "SUCCESS", "disabled")
          /\ UNCHANGED faults
       \/ faults < MaxFaults /\ faults' = faults + 1
          /\ Goto(g, "logSource", "SUCCESS", "disabled")
    /\ UNCHANGED <<balances, queue, log, LambdaRest>>

Sufficient(m) == m.kind = "inception" \/ tp[m.from][m.type] >= m.points
DifferentUsers(m) == m.kind = "inception" \/ m.from # m.to

PerformRewardsAdditionToRewardsAdmin(m) ==
    /\ m.kind = "inception"
    /\ tp' = [tp EXCEPT ![m.to][m.type] = @ + m.points]
    /\ UNCHANGED rp

PerformRewardsAdditionToUser(m) ==
    /\ m.kind = "grant"
    /\ tp' = [tp EXCEPT ![m.from][m.type] = @ - m.points, ![m.to][m.type] = @ + m.points]
    /\ UNCHANGED rp

PerformRewardsTransfer(m) ==
    /\ m.kind = "kudos"
    /\ tp' = [tp EXCEPT ![m.from][m.type] = @ - m.points]
    /\ rp' = [rp EXCEPT ![m.to][m.type] = @ + m.points]

\* Plausible error: a redelivery pays again.
WithoutToken(m) ==
    /\ applied' = applied \cup {m} /\ remembered' = remembered \cup {m}
    /\ \/ PerformRewardsAdditionToRewardsAdmin(m)
       \/ PerformRewardsAdditionToUser(m)
       \/ PerformRewardsTransfer(m)

\* A transaction under a token DynamoDB remembers succeeds and changes nothing.
TransactWriteItems(m) ==
    IF m \in remembered THEN UNCHANGED balances
    ELSE /\ applied' = applied \cup {m} /\ remembered' = remembered \cup {m}
         /\ \/ PerformRewardsAdditionToRewardsAdmin(m)
            \/ PerformRewardsAdditionToUser(m)
            \/ PerformRewardsTransfer(m)

\* HandleRewardTransfer, third step: a refusal and an error alike become FAIL,
\* and are not retried.  An error may hide a transaction that took effect.
Transact(g) ==
    LET m == Current(g)
        possible == DifferentUsers(m) /\ (Sufficient(m) \/ m \in remembered) IN
    /\ At(g, "transact")
    /\ \/ possible /\ TransactWriteItems(m) /\ Goto(g, "logSource", "SUCCESS", "none")
          /\ UNCHANGED faults
       \/ ~possible /\ UNCHANGED <<balances, faults>> /\ Goto(g, "logSource", "FAIL", "failed")
       \/ /\ faults < MaxFaults /\ faults' = faults + 1
          /\ \/ UNCHANGED balances
             \/ possible /\ TransactWriteItems(m)
          /\ Goto(g, "logSource", "FAIL", "failed")
    /\ UNCHANGED <<queue, log, LambdaRest>>

Progress(g) == [worker[g].done EXCEPT ![worker[g].group] = @ + 1]
GroupsLeft(g) == {h \in User : Progress(g)[h] < worker[g].share[h]}

\* Plausible error: what was handled is not deleted.
NextRecordKeepsBatch(g) ==
    /\ \/ \E h \in GroupsLeft(g) : TakeUp(g, h, worker[g].share, Progress(g))
       \/ GroupsLeft(g) = {} /\ worker' = [worker EXCEPT ![g] = Idle]
    /\ UNCHANGED queue

\* The next record of the batch; after the last the batch is deleted.
NextRecord(g) ==
    \/ /\ \E h \in GroupsLeft(g) : TakeUp(g, h, worker[g].share, Progress(g))
       /\ UNCHANGED queue
    \/ /\ GroupsLeft(g) = {}
       /\ worker' = [worker EXCEPT ![g] = Idle]
       /\ BatchDeleted(g)

\* Plausible error: the text of the error is lost.
PutLogForgets(g, entity, side) ==
    log' = log \cup {[entity |-> entity, message |-> Current(g), side |-> side,
                      status |-> worker[g].status, error |-> "none"]}

PutLog(g, entity, side) ==
    log' = log \cup {[entity |-> entity, message |-> Current(g), side |-> side,
                      status |-> worker[g].status, error |-> worker[g].error]}

\* Plausible error: the second entry is left out.
LogSourceOnly(g) ==
    /\ At(g, "logSource")
    /\ CASE Current(g).kind = "grant" -> UNCHANGED log
         [] Current(g).kind = "inception" -> PutLog(g, Current(g).to, "CREATED")
         [] Current(g).kind = "kudos" -> PutLog(g, Current(g).from, "SENT")
    /\ NextRecord(g)
    /\ UNCHANGED <<balances, faults, LambdaRest>>

\* An inception has one entry, a kudos two, a grant none.
LogSource(g) ==
    LET m == Current(g) IN
    /\ At(g, "logSource")
    /\ CASE m.kind = "grant" -> NextRecord(g) /\ UNCHANGED log
         [] m.kind = "inception" -> PutLog(g, m.to, "CREATED") /\ NextRecord(g)
         [] m.kind = "kudos" -> /\ PutLog(g, m.from, "SENT")
                                /\ worker' = [worker EXCEPT ![g].pc = "logDestination"]
                                /\ UNCHANGED queue
    /\ UNCHANGED <<balances, faults, LambdaRest>>

LogDestination(g) ==
    /\ At(g, "logDestination")
    /\ PutLog(g, Current(g).to, "RECIEVED")
    /\ NextRecord(g)
    /\ UNCHANGED <<balances, faults, LambdaRest>>

\* A failed put is swallowed, and the second one is then not attempted.
PutLogFails(g) ==
    /\ At(g, "logSource") \/ At(g, "logDestination")
    /\ faults < MaxFaults /\ faults' = faults + 1
    /\ NextRecord(g)
    /\ UNCHANGED <<balances, log, LambdaRest>>

Crash(g) ==
    /\ ~At(g, "idle")
    /\ crashes < MaxCrashes /\ crashes' = crashes + 1
    /\ worker' = [worker EXCEPT ![g] = Idle]
    /\ UNCHANGED <<balances, enabled, senders, queue, log, faults, forgets>>

\* A token is remembered for ten minutes; a batch that keeps failing comes back for longer.
Forget(m) ==
    /\ m \in remembered /\ forgets < MaxForgets
    /\ forgets' = forgets + 1
    /\ remembered' = remembered \ {m}
    /\ UNCHANGED <<tp, rp, applied, enabled, senders, queue, worker, log, crashes, faults>>
-----------------------------------------------------------------------------
Send == \/ \E k \in Kudos, from, to \in User, gift \in Gift :
              PostEngagementSendKudos(k, from, to, gift)
        \/ \E m \in outbox : SendKudosToSQS(m)
        \/ \E k \in Kudos : AbandonKudos(k)
        \/ \E i \in Inception, points \in Points, t \in Type : AddRewardPoints(i, points, t)
        \/ \E g \in Grant, to \in User, t \in Type : SendGrant(g, to, t)
        \/ \E t \in Type, active \in BOOLEAN : PatchRewardTypesStatus(t, active)

HandleRewardTransfer(g) ==
    \/ RejectBatch(g)
    \/ ValidateTxRewardType(g)
    \/ Transact(g)
    \/ LogSource(g)
    \/ LogDestination(g)
    \/ PutLogFails(g)

Next == \/ Send
        \/ \E g \in User : Receive(g) \/ HandleRewardTransfer(g) \/ Crash(g)
        \/ \E m \in remembered : Forget(m)

Spec == Init /\ [][Next]_vars

\* The event source polls for as long as there are messages, and a Lambda that
\* does not die goes on.  Nothing obliges anybody to send.
Fairness == \A g \in User : WF_vars(Receive(g)) /\ WF_vars(HandleRewardTransfer(g))

FairSpec == Spec /\ Fairness
-----------------------------------------------------------------------------
Queued(m) == \E g \in User : Contains(queue[g], m)

\* For each delivery the TxId is the same: for as long as DynamoDB remembers it, what
\* is redelivered after a crash, or because a record of the batch was bad, moves no
\* points again, and once a message has left the queue it moves none at all; no balance
\* is overdrawn.
Closed == {m \in Message : m.id \in accepted /\ ~Queued(m)}
Ledger == INSTANCE PointsLedger WITH Payment <- Message, paid <- applied, closed <- Closed
LedgerImplemented == Ledger!LedgerInit /\ [][Ledger!LedgerNext]_Ledger!ledger

\* What the token is there for, that a transfer is paid once, is not kept: a batch that
\* is rejected for ever is redelivered after its tokens are forgotten, and the good
\* records in it are paid again.
PaidOnce == [][\A m \in Message : Ledger!Pay(m) => m \notin applied]_vars

\* An entry that says SUCCESS and shows no error is of points that moved, for
\* every interleaving of redelivery, disabled types and failures.
SuccessIsTrue == \A e \in log : e.status = "SUCCESS" /\ e.error = "none" => e.message \in applied

\* The overview shows the status only: a transfer refused because its type is
\* disabled is shown as a success to both users.
StatusIsTrue == \A e \in log : e.status = "SUCCESS" => e.message \in applied

\* "For each element in txPoints": once its request is over, every reward type of
\* a kudos was accepted by the queue, and waits there or was handled.
EveryTypeIsSent ==
    \A k \in Kudos : (\A m \in outbox : m.id # k) =>
        \A t \in DOMAIN engagement[k] :
            \/ crashes > 0 \/ faults > 0
            \/ \E m \in Message : /\ m.id = k /\ m.type = t
                                  /\ Queued(m) \/ \E e \in log : e.message = m

\* As long as the handler has no message to reject for ever, every message is handled in
\* the end, through crashes, failed calls and redelivery in whatever batches.
Waits(g, id) == \E i \in DOMAIN queue[g] : queue[g][i].id = id
Poisoned(g) == \E i \in DOMAIN queue[g] : ~Valid(queue[g][i])
HandledUnlessPoisoned ==
    \A g \in User : \A id \in Kudos \cup Inception \cup Grant :
        Waits(g, id) ~> (~Waits(g, id) \/ \E h \in User : Poisoned(h))

\* What the groups of the queue are there for, that a bad message holds up its own group
\* only, is not kept: a batch is rejected as a whole.
PoisonHoldsItsGroup ==
    \A g \in User : \A id \in Kudos \cup Inception \cup Grant :
        Waits(g, id) ~> (~Waits(g, id) \/ Poisoned(g))

Logged(m, entity, side) ==
    \E e \in log : e.message = m /\ e.entity = entity /\ e.side = side

\* A message leaves its queue only when it was handled: it is valid, and it is in the
\* histories it belongs to, points moved or refused, whatever crash, rejection or
\* redelivery its batch went through, unless a call failed.
InHistory(m) ==
    /\ m.kind = "inception" => Logged(m, m.to, "CREATED")
    /\ m.kind = "kudos" => Logged(m, m.from, "SENT") /\ Logged(m, m.to, "RECIEVED")
LeavesHandled ==
    [][\A g \in User : \A m \in Range(queue[g]) :
          ~Queued(m)' => Valid(m) /\ (faults' = 0 => InHistory(m)')]_vars

\* Points that moved show up in both users' histories in the end, whatever the
\* call the invocation died in, unless a put of the history itself failed or
\* there is a bad record their batches may be rejected for.
Applied(k) == {m \in applied : m.id = k}
AppliedIsLogged ==
    \A k \in Kudos :
        Applied(k) # {} ~> \A m \in Applied(k) :
                              \/ Logged(m, m.from, "SENT") /\ Logged(m, m.to, "RECIEVED")
                              \/ faults > 0
                              \/ \E g \in User : Poisoned(g)
=============================================================================
