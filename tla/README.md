# Verification of gmv-back-end-v2

TLA+ models of the services behind *gomovo*'s API, the TLC runs that check them on small
instances, and theorems about them that TLAPS checks for instances of every size.  Every
definition is translated from the Go (and, for one Lambda, Python) sources;
`PROJECT.json` maps each of them to the lines it stands for.

## 1. The system

The back end is a set of AWS Lambda functions behind API Gateway, one module of the
product per directory of `lambdas/tenant-lambdas` and `lambdas/admin-lambdas`, over the
shared services of `lambdas/lib`.  All state is in DynamoDB tables and in Cognito user
pools.  There is no server process and no lock: **an HTTP request is one invocation, an
invocation is a sequence of calls, each call is atomic and nothing holds two of them
together** unless the code uses a transaction or a condition expression.  Two requests
interleave between any two of their calls, an invocation may die after any call, and a
client may repeat what it sent.  One older part, the transfer of reward points, is driven
by a queue that redelivers.  That is where this system is hard, and what the models are
about: which of the promises of the documentation survive a check-then-write whose
check has gone stale, a write that puts back what was read long before, and a step of
several that fails.

| Component | State | Operations | What makes it correct |
|---|---|---|---|
| Organization administrators (`company-org-v2.go`, `manage-org-users`) | `ADMIN#` and `USER#` items of an organization | create, invite, add, reactivate, remove, deactivate | an owner always remains; one organization per joined user; no item under a wrong key; who administers an organization finds it |
| Organization profile and listings (`manage-organization`, `list-org-teams` and others) | the same, read | look-ups of one's organization, lists of administrators and users | the answers agree with each other and with the items |
| Subscriptions and promotional codes (`company-org-v2.go`, `manage-promo-codes`, `manage-subscription`) | billing attributes of METADATA, codes and their usages | change plan, create code, apply code, read details | usage limit, usages cover organizations, trials are not cut short |
| Teams and members (`company-teams-v2.go`, `manage-team-operations`, `send-invitations`) | METADATA with a count, `USER#` items, accounts, the current team | create, add members, change role or status, set current team, invite, list | an administrator remains, the count is right, the current team is shown, members see their teams |
| Team feed (`team-feeds/common`) | posts with counters; likes, comments, votes and checklist items beside them | the operations on the six resources | counters agree with items, deletions are final, an edit changes what was edited, what is stored is shown |
| Organization performance (`company-org-performance.go`, `org-performance/common`) | cycles, quarters, KPIs, OKRs, notes, what is attached to goals | create, change, delete, list | nothing outlives its cycle, every record is in every list it belongs to, totals agree with lists |
| My performance hub (`my-performance-hub/common`) | goals, tasks, comments, feedback, meetings, a task counter | goals, tasks, meetings, a manager's view of a team | task numbers are unique, `done` and `status` agree, comments are shown with their goal |
| Tenants and suppliers (`admin-lib`, `admin-lambdas`) | profiles, stages, sub-domains and their administrators | advance a stage, comment on it, assign a sub-domain, add administrators | six switches over the names of stages agree, comments are kept, administrators have users |
| Team attributes (`company-skills-values-engagements-v2.go`, `manage-team-attributes`) | skills, values, milestones, metrics of a team | create, change, delete, list | defaults stay, what is stored is shown, a patch of one field keeps the other |
| Reward points, legacy (`company-rewards*.go`, `reward-transfer`, `manage-reward-rules`) | balances by type, a FIFO queue, a log | kudos, grants, points made by an administrator, redelivery | a transfer moves its points out of points that are there, and not again while its token is remembered; the log is true |
| Employees and the user pool (`company-employees.go`, `sync-cognito-to-ddb`) | one item per employee, under one of two identifiers | sign up, sign in, profile | one item per person |
| Gift cards, appreciations, certificates, surveys (`v1_related_lambdas`), AI assistant, branches, uploads, e-mail, maps, templates | independent items or none | puts and reads | nothing relates two of their writes |

The components meet in the tables.  `send-invitations` writes the organization's table
and the team's in one transaction; teams read who may create them from the
organization; the feed, the performance hub and the attributes read membership from the
team's table; the user pool triggers `sync-cognito-to-ddb`; appreciations fill the queue
that `reward-transfer` empties.  Which of the directories are live was read from
`cfn/*/template.yaml`: nothing deploys what is below `v1_related_lambdas`.

## 2. The modules

| Module | Contents | Checked by | Proved in |
|---|---|---|---|
| `OrgAdmins`, `OrgAdminsViews`, `OrgAdminsOverlap` | administrators of organizations; what each look-up and list answers | `MCOrgAdmins` | `OrgAdminsProofs` |
| `Subscriptions`, `SubscriptionsViews`, `SubscriptionsOverlap` | plans, trials and codes; their details | `MCSubscriptions` | `SubscriptionsProofs` |
| `Teams`, `TeamsViews`, `TeamsOverlap` | teams, members, invitations, the current team; the lists | `MCTeams` | `TeamsProofs` |
| `TeamFeed`, `TeamFeedViews`, `TeamFeedOverlap` | posts and their parts; the feed as it is shown | `MCTeamFeed` | `TeamFeedProofs` |
| `OrgPerformance`, `OrgPerformanceViews`, `OrgPerformanceOverlap` | performance cycles and what is below them; lists, details, totals | `MCOrgPerformance` | `OrgPerformanceProofs` |
| `PerformanceHub`, `PerformanceHubOverlap` | goals, tasks, comments and the summary | `MCPerformanceHub` | `PerformanceHubProofs` |
| `TeamAttributes`, `TeamAttributesOverlap` | attributes of a team | `MCTeamAttributes` | `AttributesAndAccountsProofs` |
| `Accounts`, `AccountsOverlap` | tenants and suppliers | `MCAccounts` | `AttributesAndAccountsProofs` |
| `PointsLedger` | abstract: a payment in one step, out of points that are there, again only once its token is forgotten | | |
| `RewardsTransfer` | the queue and the Lambda, shown to implement `PointsLedger` | `MCRewardsTransfer` | `RewardsTransferProofs` |

All are written alike.  A request is an element of the constant `Request`; `req[r]` is
what its invocation holds in local variables, and `req[r].pc`, where there is one, the
call it makes next.  An operation of the code is a set of actions, one per DynamoDB or
Cognito call, named for what the call does; an early return ends the request.
`Abort`, `Fail` and `Crash` are an invocation that dies, times out, or whose call returned an
error: what was written stays.  A transaction is one action, and a condition
expression is the guard inside it.  An update *without* a condition creates the item it
does not find, as DynamoDB does, and the models show what it creates.  A *Views* module
adds no step: it says what each read answers in every state of its component, so that a
property can compare the answers of several routes with each other and with the table.
An *Overlap* module adds up to three history variables, and the properties that need them:
`HNext` is `Next` and an assignment to the history, so it forbids no step of the component, and
what `HSpec` implies holds of every behaviour of `Spec` with the history written beside it.

**OrgAdmins.**  `admin[k][u]` is the `ADMIN#` item of `u` in partition `k`.  A partition is
a pair of a uuid and the number of times `"ORG#"` stands before it: clients send ids
bare or prefixed, `getAdmin` normalises them (`Normalised`), `countActiveOwners`,
`reactivateAdmin` and `RemoveOrgAdmin` prepend without looking (`Prefixed`), `PutItem`
takes the id as it comes.  User names have a prefix of their own, `ADMIN#`, which `getAdmin`
takes off and the others put on whatever they are given; names come bare here.  `AddOrgAdmin` is `AddCanJoin`, `AddIsAdmin`,
`AddRequesterRole`, `AddReadTarget` and then `PutAdmin` or `ReactivateAdmin`;
`RemoveOrgAdmin` is `RemoveIsAdmin` ... `Deactivate`, and whatever makes it fail
(`RemoveCallFails` included) the handler goes on to `RemoveOrgUser` and answers with
success.  `UpdateOrganization` builds a malformed expression and fails whatever it is
sent; `updateOrgUser` answers "not yet implemented".

**Subscriptions.**  Who may apply a code is settled by OrgAdmins; here a request reads
the code (`GetPromoCode`), reads the organization (`GetOrganization`), decides, and
writes both in one unconditional transaction (`CommitPromo`).  Dates are days and `Tick`
passes one.

**Teams.**  `row[t][u]` is a member item, `count[t]` the `MemberCount` beside it.  Adding
members asks administrator and status, creates an account per user, asks both again and
commits (`AddIsAdmin`, `AddStatus`, `CreateCognitoUser`, `CommitMembers`).  No code ever
removes a member or sets `IsActive` to false, so a row that exists is active; an
invitation's role is unvalidated text, and any text but ADMIN acts as MEMBER.
`current` is indexed by the two identifiers an employee item may be found under.

**TeamFeed.**  A post is one item with its counters; `liked`, `comment`, `vote` and `item` are
the items beside it.  `ensurePostTeamMember` and `fetchPostRecord` read the same item one after
the other and the later read decides, so they are one action (`FetchPost`).  The `"ghost"` of a
post is METADATA with a counter and nothing else, that of a comment an item with content and no
author: what an unconditional update leaves where the item was deleted.  The look-up of a like
drops its error, so one that fails has found no like (`LookForLike`) and the like is put and
counted again.  The post and the comment or item a request names need not belong together: a
comment is found in the index by its id alone (`Indexed`) and changed under the key of the post
in the URL, so an edit may make a ghost of a comment beside another post, and a deletion delete
nothing and count one off.  `deleteComment` reads its post twice, and the second time decides
whether anything is counted off (`FetchPostAgain`).  `TeamFeedViews` has what a list and a single post show: in lists a checklist
shows no items and a poll no votes, and a ghost is shown by its id and in no list.

**OrgPerformance.**  All records share one table and a record's sort key is a path, which
is why deletions and lists are prefix queries (`Below`).  A request is the puts it has
still to make, the deletions a query found, and the query that comes next: a deletion of
a cycle is `queryByOrgPrefix`, then `deleteRecord` one by one, and any of them may fail;
below a KPI or an OKR failures are passed over (`Swallowed`), elsewhere they end the
request.  A change carries the record as it was read when the request began.  The KPI a KPI is
under is kept twice: `parent` is the attribute ParentId, which only the route of sub-KPIs sets
and the details select by, `parentKpiId` the field of Data, which a creation and a patch may
name and the list selects by.  A patch here names `owner`, `value` or `parentKpiId`, one at a
time; the code's is any map, of which `id`, `quarterId` and the other fields are left out.

**PerformanceHub.**  A request is the sequence of puts its handler goes on to make from
what it read (`req[r]`); one that fails ends the request or is passed over, as in the
code.  The number of a task is taken by an atomic ADD before the task is put.  An update of a
goal stores the tasks its body lists under whatever ids it gives them: those of the user's tasks,
numbers of another member's, numbers not counted yet, or fresh ones.
`assertTeamMember` is modelled as it is: it looks at an error that the look-up never
reports for a user who is no member, and so lets everybody pass.

**Accounts.**  The suppliers' code repeats the tenants' on other tables.  Every write but
one is a single update; `AddSubDomainAdmin` reads the sub-domain, has the pool create a
user (`AdminCreateUser`) and then adds the user to the sub-domain (`RecordAdmin`).  It needs a
sub-domain with a user pool, and none gets one by this code: `UpdateSubDomainStackInfo` of both
services names the reserved word `Status` as it is, so DynamoDB refuses it whatever it is sent
(`tenant-subdomains.go:180`, `supplier-subdomains.go:180`) and the action leaves everything
unchanged.  Pools are stored from outside: "To be updated after the Tenant Stack is deployed",
as the struct says, and as the items of the feature tests have it (`StackDeployed`, an external action).
A comment on a stage may come without a status (`Posted`), and `SetOverallStatus` then hides all
comments on it.  The six switches between names and ids of stages are operators of their own.  The names of its
specification begin with an A (`AInit`, `ANext`, `ASpec`), so that one module of proofs can
extend it beside TeamAttributes.

**TeamAttributes.**  A request is let in by one read of the role, reads the attribute and
then writes name and description without a condition.  `ChangeRole` is the teams service,
which changes roles meanwhile.  Nothing but tests calls `InitializeDefaultAttributes`.

**RewardsTransfer.**  `queue[g]` is what waits in the group `g`, `worker[g]` the invocation
whose batch begins with a record of it.  A batch may mix groups: `Receive` hands over the first
records of some groups that no other invocation is at, and `TakeUp` goes through them in any
order that keeps the order of each group.  `RejectBatch` is the only error the handler returns;
it sends the whole batch back, for the handler reports no failures of single records, and what is
delivered again may be batched otherwise.  All other errors become a FAIL in the log.
`TransactWriteItems` runs under the transaction id as its token: while DynamoDB remembers it
(`remembered`) a repeated transaction succeeds and changes nothing.  It forgets after ten
minutes (`Forget`), while a batch that is rejected for ever comes back for as long as the queue
keeps messages; then a good record before the bad one is paid again.  `applied` is the history of
what was paid.  `Ledger == INSTANCE PointsLedger` reads `applied` as the payments made and the
messages accepted and no longer queued as those closed.

Abstractions common to all: reads are strongly consistent and indexes current (the code
asks for neither, so the real system has more behaviours, and a property that fails here
fails there); a uuid is fresh; texts, times of day, tags, descriptions, paging and the
wording of answers are left out.  In TeamFeed all users are members of the one team, the first
items of a checklist are added by the same action as later ones, an item is of the post of the
URL, and the status of a task may be changed by any member, whoever its assignee and author are.
In Teams clients invite only to teams that exist.  In RewardsTransfer the log keeps every entry;
the code puts it under the user and the millisecond without a condition, so that two entries of
one user within a millisecond are one.  The queue drops a message whose deduplication id it has
seen within five minutes, and in the model for ever: nobody sends under an id again later.  It
keeps messages for good, where the real queue has a retention.

## 3. The runs

| Run | Instance | Question |
|---|---|---|
| `org_admins` | 2 organizations and 1 request, or 1 organization and 2 requests; 2 users | can anybody be brought into two organizations, change role, be written under a wrong key, be told a wrong organization? an organization without owner when neither two removals nor two additions overlap? (no) |
| `org_admins_last_owner` | 1 organization, 2 requests | an organization without owner? (**yes**) |
| `org_admins_removal_answer` | 1 organization, 1 request | is "User removed successfully" true? (**no**) |
| `subscriptions` | 2 organizations and 1 request, or 1 organization and 2 requests; 2 codes, 3 days | is every code an organization shows counted and explained, is a trial ever shortened unless two applications extend the same one? (yes, no) how far can a limit be overrun? (by the other requests in flight) does an organization come to show a code that fits no plan it had while the code was applied? (no) |
| `teams` | 1 team, 2 users, 2 requests | count and lists (hold); an administrator remains unless two role changes overlap, an invitation links the invitee unless two invitations overlap, members are added only where requester and team were fit for it at some time after the accounts were made (hold) |
| `feed` | 1 post, 1 item, 2 users; all operations and 2 comments one at a time, or 2 requests at the counters, or at the parts, of the post; or 2 requests at a comment that either of 2 posts may be named with | comments counted (unless a post is named with another's comment), likes never overstated and nothing undone where no two requests met and none failed between two writes; negative counters, hidden parts, resurrected items anywhere? (no) |
| `feed_resurrection` | 1 post, 2 users, 2 requests | does a deleted post stay deleted? (**no**) |
| `org_performance` | one of nine families of related records, 2 requests, 1 failure | is anything left behind, hidden, counted wrongly, resurrected, or overwritten, outside what two requests were at work on or one gave up? (no; a sub-KPI is in the details of the KPI it was created under and in the list of the one its Data names) |
| `performance_hub` | a team of 2, 1 goal, 3 tasks, 2 requests, 1 failure; tasks, goals, or notes | a number is given to one task, and nobody else has a task of it until an update of a goal names it; filters agree, managers' comments shown, the summary only grows, a change keeps the rest until two overlap (hold) |
| `accounts` | a tenant and a supplier, 2 sub-domains, 2 pools, 2 additions, 1 failure | stages shown as asked, their comments kept, and shown and counted while the stage has a status; do the administrators of a sub-domain match the users of its pool? (yes, unless a call fails or the sub-domain loses or is given another pool) |
| `team_attributes` | a default and an own attribute, 2 requests, 1 failure, roles that change | no default is deleted or turned into an own one, what is stored is shown, a patch keeps the other field, at every attribute no two requests meet at (hold) |
| `rewards` | 2 groups, a kudos, an inception and a grant, 1 crash, 1 failure, 1 forgotten token, batches of 2 that may mix the groups | the ledger is implemented, the log is true, no message leaves its queue unless it is handled and logged, every message is handled and every payment logged in the end while nothing that is queued is rejected for ever (hold) |

Every property of a passing run has a mutant of the code in `PROJECT.json` that breaks
it under the same configuration.  Each module states its `TypeOK`, and section 4 proves it
of each; the run of TeamAttributes repeats it, where it says what an update leaves of an
attribute that is gone, and the others do not.

*Two instances in one run.*  Where a promise holds of one request at a time and another
of any number, the MC module chooses between them in its initial state (`alone`), or
chooses the part of a component that is at work (`focus`, `family`, `account`) where the
parts share no state, or the operations that may meet (`together`, of TeamFeed).  What each
choice bounds is said beside it.

*History variables.*  They live in the *Overlap* modules and turn "true of one request at a
time" into the sharper "true until two operations of **this** kind, or on **this** record,
overlap" or "than what held while the request ran".  `overlapped` holds the operations of which
two requests were ever half-way at once (OrgAdmins, Teams), the organizations two applications
were about to commit to (Subscriptions), the attributes two requests were at (TeamAttributes);
`disturbed` the posts at which two requests met or one died before its count (TeamFeed), the
goals two requests were about to put (PerformanceHub), and the records two requests had still to
write, to delete or to hang something from, or one gave up on (OrgPerformance).  A property
whose definition mentions the history (most end in `UnlessOverlapped` or `UnlessDisturbed`) says
nothing of these and everything of the others.  In Accounts `disturbed` holds the sub-domains
whose pool was taken away or replaced, or left by a failed addition, and `pools` the user pools
a sub-domain ever had.  Two histories are of what clients named: `strayed` has the posts that
were named together with a comment of another post (TeamFeed), and `named` the numbers an update
of a goal was sent for which its user had no task (PerformanceHub).  Three histories are of what a request, or the answer it was given, could
have known: `meanwhile` has the plans of its organization since an application began
(Subscriptions), `standing` which of the conditions of an addition of members has held since its
last account was made (Teams), and `overlooked` the posts at which a failed look-up of a like
passed over one (TeamFeed).

*Bounds.*  Two requests are what the hazards need: each is a check or a read of one request made
stale by one write of another; the theorems of section 4 show that a third changes nothing where
they apply.  One organization, team or post is enough wherever the items of two never meet;
`JoinedOneOrgUnlessOverlapped` and `AppliedCodesAreCounted` relate several organizations and
have two.  Two users give a requester and a target, in both orders.  `MaxDay` lets a code expire
and a trial end; `MaxApplied` goes beyond the limit of one usage; `MaxLikes` and `MaxHours` are
two because a lost update shows at two, and `CountLike` stops at the bound (no other guard
does).  `TrialDays` is 3 where the code has 30.  No organization buys "enterprise": no code is
for one paying plan and not for the other.  One failure is enough to stop any of the requests at
any of its calls; in `rewards` one crash and one failed call give redelivery, a lost log entry,
and both together, and one forgotten token (`MaxForgets`) a second payment.  `Points = {0, 1}`
has a value that is rejected for ever.  In
`org_performance`, `org_admins` and `teams` no request begins once two have met on a record, or
two of a kind have overlapped: everything already begun still runs to its end.  In `accounts`
one sub-domain at most is replaced or left by a failure.  In `rewards` nobody grants points to
oneself, and all three messages are sent only where nothing crashes, fails or is forgotten;
beside those go two of any kinds.  In `feed` a second post and its comments are there only for
requests at a comment; then no request meets another once a post is disturbed, and an
administrator posts updates.  In `org_performance` only one KPI is named under another, of one
family (`ParentsNamed`); in `performance_hub`, where tasks are at work, one goal is not updated
twice at once and the tasks its update lists are u1's and not done.  Symmetry is over requests
and, in `accounts`, over pools, administrators and sub-domains; never where a constant names one
of them, and never in `rewards`, which has liveness.

*Deadlock* is checked except where the system or the instance really stops: OrgAdmins once
an organization has lost its last owner (every further request is refused at the door),
and the instances whose ids, numbers or messages are used up (`org_performance`,
`performance_hub`, `accounts`, `rewards`).

*Fairness and liveness.*  An API request has none: an invocation may die at any call, the
platform promises no completion, nothing retries in the background, and no request waits
for another.  `RewardsTransfer` is different.  The event source polls for as long as there are
messages, and a batch whose invocation returned an error or died is delivered again; so
`Receive` and the steps of the Lambda are weakly fair, for each group.  Nothing obliges anybody
to send, to crash, to fail or to forget, and these steps have no fairness.  Under it
`HandledUnlessPoisoned` says that every message leaves its queue unless some group comes to hold
a record that `ValidateInput` rejects, for a batch that mixes groups goes back as a whole; and
`AppliedIsLogged` that points that moved are in both users' histories in the end, whatever call
an invocation died in, unless the put itself failed or there is such a record.

### Promises the code does not keep

The violation runs show three, each with its quotation in `PROJECT.json` under `findings`:

* `org_admins_last_owner`: two owners who remove each other, or themselves, at the same time
  leave an organization nobody can administer.  The owners are counted by a read, only for one's
  own removal, and the deactivation is conditional on the item alone.
* `org_admins_removal_answer`: `removeOrgUser` takes a refusal for "not found as admin" and
  answers with success.
* `feed_resurrection`: a like's increment or the put of an edit, issued after a deletion, makes
  the post again.

The modules state more that the code does not keep, as definitions with no run of their
own; naming one in a configuration (with two requests in flight) shows the behaviour.  Those in
the first five rows need one request at a time only:

| Definition | Shortest counterexample |
|---|---|
| `DefaultsAreFixed` (TeamAttributes; `manage-team-attributes/README.md:322`, `API_DOCUMENTATION.md:24` and `:329`) | "Default attributes cannot be updated": `PATCH` renames a default, for only a deletion asks whether it is one |
| `ListShowsCurrent` (Teams; `teams-module/README.md:74`) | the current team is stored under the Cognito id of the employee and looked up under the name, so no team of the list is marked |
| `DeletionDeletesTheComment`, `CommentsCountedWhoeverIsNamed` (TeamFeed; `API_DOCUMENTATION.md:747`) | a deletion by the URL of another post deletes nothing, answers with success, and counts one off that post |
| `NumbersAreTeamScoped` (PerformanceHub; `common/models.go:113`) | "a human-readable team-scoped reference": an update of a goal stores a task under whatever number it names, another member's as well |
| `CommentsAreShown` (Accounts; `manage-tenant-stages.go:279`) | the status to be set "if stage data not found" is set for every stage without one, and hides the comments that are still counted |
| `OneOrganization` (OrgAdmins) | a user creates two organizations |
| `AppliedToItsPlan`, `ApplicationIsVisible` (Subscriptions) | the plan changes between check and commit; the id in the form the API returns reaches the key `ORG#ORG#...` |
| `InviteLinks` (Teams; `FRONTEND_INTEGRATION.md:54`) | of two invitations of a person new to the organization the later transaction is cancelled with the team's put in it, and the cancellation is taken for success |
| `CountIsExact`, `InviteeWaits` (Teams) | an invitation adds an active member and leaves `MemberCount` alone |
| `AddsToActiveTeam`, `CreatesOnlyMissing` (Teams) | the team becomes inactive after the last check; an account that exists is created again |
| `EditKeepsTheRest`, `TimeAccumulates` (TeamFeed; `API_DOCUMENTATION.md:387`) | an edit writes back counters, status and time as it read them; two hours logged at once are one |
| `LikesCounted`, `LikeIsIdempotent` (TeamFeed) | taking back a like never given; a like sent twice at once, or after a look-up that failed |
| `CommentLikesCounted` (TeamFeed) | the increment names the keys of the index, is refused, and the error is ignored |
| `DeletionIsComplete`, `CommentStaysDeleted` (TeamFeed) | a post deleted with its comments left; an edit of a comment being deleted |
| `CleanupIsComplete` (OrgPerformance) | what is attached to the goals of a cycle has keys of its own and outlives it |
| `SubKPIsAgree` (OrgPerformance) | `POST /v2/kpis` with `parentKpiId` stores it in Data and not in ParentId: the list has the sub-KPI under its KPI, the details have not |
| `DoneHasStatus`, `GoalsOfTasksExist` (PerformanceHub) | tasks written by an update of their goal have no status; a task is added to a goal nobody looked for |
| `MovesFollowLifecycle` (Accounts) | any stage may follow any; `IsNextStepValid` has no caller |
| `FilterIsApplied` (TeamAttributes) | `GET ?type=` filters the total, not the groups |
| `EveryTypeIsSent`, `StatusIsTrue` (RewardsTransfer) | the messages of one kudos share a deduplication id, so all reward types but one are dropped; a disabled type is logged as a SUCCESS with an error text |
| `PaidOnce` (RewardsTransfer) | a batch with a bad record is redelivered until DynamoDB has forgotten the tokens of the good ones before it, which are paid again |
| `PoisonHoldsItsGroup` (RewardsTransfer) | a batch that mixes groups is rejected as a whole, and holds up the groups that have no bad record |

Met while modelling, and in the models as they are: `list-org-teams` refuses an administrator of
two organizations whom `create-team` accepts; somebody invited who is also an administrator is
listed twice; an addition under a bare id is answered with success and shown nowhere; the
membership checks of `team_performance_ops.go` never refuse anybody; the answer of
`CreateCustomAttribute` has an empty id, for the function is given a copy;
`UpdateSubDomainStackInfo` is always refused, for it names the reserved word `Status`; a primary
contact can be replaced by one that is not; appreciations and reviews of the performance hub are
written by nothing.  Of the two checks by which `AddOrgAdmin` refuses an active administrator (`AddCanJoin` and
`AddReadTarget`) either alone keeps the roles as they are.

## 4. The theorems

TLC checks small instances; these hold for every value of the constants, in particular for
any number of requests in flight.  Of the properties of the passing runs they state all but
the two named at the end.  An invariant called
`IInv`, `CInv` or `AInv` is one of the specification; `HInv`, `NInv`, `PInv`, `LInv` and `TInv`
are of the one with the histories of an *Overlap* module (`KInv` and `SInv` are parts that have
lemmas of their own).

**SubscriptionsProofs.** `TypeCorrect`: `Spec => []TypeOK`.  `OvershootIsBounded`: `Spec =>
[]OvershootBounded`, a limited code is used at most `MaxUsages` plus the number of other
requests.  The bound itself is not inductive, for a request that was admitted will still
count one more.  The invariant adds the admitted requests to the usages: both together stay
below `MaxUsages + Cardinality(Request)`, because `GetPromoCode` admits only below the limit
and a commit turns one admitted request into one usage.  `CodesAreCounted`: `Spec =>
[]AppliedCodesAreCounted`.  `CodesHold` adds that a request past its look-up holds a code
that is there: then nobody shows a code that is not, and each organization that begins to
show one is one usage more.  `TrialsNeverShorten`: `HSpec =>
TrialNeverShortenedUnlessOverlapped`.  `TrialsExtend` says that the end a request is about
to write is no earlier than the one the organization has; `Apart` that no second request is
about to commit there, so that nothing but a purchase comes in between.  `CodesFitTheirTime`:
`HSpec => AppliedToAPlanOfItsTime`.  `PlansHold` says that the history of a request has the
plan of the moment, and what a request about to commit found: one that its code is for.
The plan it is committed against may be another by then (`AppliedToItsPlan` is false).

**OrgAdminsProofs.** `TypeCorrect` and `NoGhosts`: `Spec => []NoGhostPartition`, no
administrator is ever written under a doubly prefixed id nor ahead of its organization.  The
put of `AddOrgAdmin` has no condition on the organization, so the invariant carries
`InFlight`: every request under way was admitted by an organization that exists.
`WriteKeeps` is the common argument of put, reactivation and deactivation: a write at a
doubly prefixed key is conditional on an item that, by the invariant, is not there.
`LookupsAgree`: `Spec => []AdministratorsFindTheirOrg` follows from the same invariant,
which leaves the index no row but those of the partitions the look-ups normalise to.
`OwnersRemain`, `JoinsAreChecked` and `RolesAreKept` are of `HSpec`.  Each of these promises
rests on a read made calls before the write, and `JoinChecksHold` and `OwnerChecksHold` say
that what was read is still true: the target of an addition has joined no other
organization, somebody other than the target of a removal is an active owner.  `Apart` says
that a kind of operation that never overlapped has one request half-way at most, and the
steps of every other kind are shown to leave what was read true.

**TeamsProofs.** `TypeCorrect`; `CountKept`: `Spec => []MembersCounted`.  `CreateTeam` sets the count to one,
which is right only for a team nobody joined before (`NobodyYet`), and nobody joins one
because a request past its first check names a team that exists (`TeamIsKnown`).  The step
that matters is `CommitMembers`: members and new users are disjoint by the condition of the
puts, so the cardinalities add (`FS_Union`).  `NoTeamIsSkipped`: `Spec =>
[]MembersSeeTheirTeams`, for every team somebody is a member of exists.  `AdminsRemain` and
`InvitationsLink` are of `HSpec`, by the same argument as the owners of an organization:
`RoleChecksHold` keeps a second administrator for the request that is about to make a member
of one, `InviteChecksHold` what an invitation found out about the invitee's item before it
links.  `AdditionsAreAllowed`: `HSpec => AddsOnFreshStanding`.  By `StandingsHold` a request
past the last check of administrator, and of status, met that condition at some time since
its accounts were made; only from there does a step lead to the transaction (`ToCommit`).

**TeamFeedProofs.** `TypeCorrect` and `CountersNonNegative`: `Spec => []CountsNonNegative`.
The decrements are conditional on a counter above zero, which would be the whole proof if an
edit did not put back a post it read long before, possibly over a ghost: the invariant says
of every post *held by a request in flight* that it is counted too (`Holds`).
`FeedIsShown`: `Spec => []FeedShowsWhatItKeeps`.  What is under a post was written by a
request that had read what kind of post it is, and the reader selects by the kind it has
now.  `KInv` says that a post keeps its kind for ever, read, held or put back
(`KindsAgree`); ghosts, which have none, are why it must say who draws an id (`Drawings`)
and that it draws none twice (`Fresh`).  `ItemsStayDeleted`: `Spec => ItemStaysDeleted`.
`CommentsAreCounted` and `NothingIsUndone` are of `HSpec`: at a post that is not disturbed
nor named with another post's comment the counter is the comments there and one more or less for
the request between its two writes (`Tallied`), whatever is done to these comments by the URLs of
other posts: that touches no item under this post's key.  And what a request read of a post that
is not disturbed is still the post (`Current`).
`LikesAreNotOverstated`: `HSpec => []LikesNotOverstatedUnlessDisturbed`.  `LikesHold` says that
a like about to be put is not there, so the item is new and the count falls behind until
`CountLike`; and that a count is ahead of the likes by one at most, and only for a
request that has taken a like back and not yet counted it off.  The likes of comments share
the table and not the keys (`LikeAssumption`).

**AttributesAndAccountsProofs.** Of TeamAttributes: `TypeCorrect` and the action property
`DefaultsAreKept`: `Spec => DefaultsRemain`, the half of the documentation's promise that the
code keeps: no default is deleted, becomes an own attribute or loses its type, though it may be
renamed.  A deletion trusts a read made a call earlier.
What it read still holds because a default comes only under an id that was never drawn, while
the id of anything stored, written or about to be deleted was (`StoredIsDrawn`, `Knows`).
`AttributesAreShown` and `UpdatesKeepTheOther` are of `HSpec`: at an attribute no two requests
were at, what an update is about to write back is what is stored (`Sound`), so it finds its item
and leaves no remnant for the grouped list to lose.  Of Accounts: `AccountsTypeCorrect`;
`AdminsAreUsers`: `AHSpec => []AdminsMatchUsers`, of sub-domains whose pools come from outside
(`StackDeployed`); and `StagesAreShown`: `ASpec => StageShownAsAsked`, by which comments only grow
whatever status they come with, and all are shown while the stage has one.  The part without history says that an addition is to a sub-domain that is
there (`AdditionsPlaced`) and that what a stage counts are its comments (`StagesCounted`).  With
it, an addition past its creation has a user in a pool that was the sub-domain's (`PoolsHold`,
`UsersHold`).  A sub-domain that is not disturbed has had one pool at most, so all its additions
hold that one (`OnePool`); a pool refuses a name it knows, so nobody awaited is listed, or
awaited twice (`Once`); and listing moves a name from the awaited to the listed, which leaves
the users of the pool what they were, both together (`NoOther`).

**PerformanceHubProofs.** `TypeCorrect`; `NumbersNameOneTask`: `HSpec => []NumbersUnique`;
`FiltersOfTasksAgree`: `Spec => []FiltersAgree`; `ManagersCommentsStay`: `Spec =>
[]ManagersCommentsAreShown`.  An operation is a sequence of puts of which any may be the
last, so each promise is stated of the table *and* of the puts still to come: a number with
which a task was or is to be created was counted for it alone (`NumbersHeld`, `CreatedIsNew`), a
task in either is done as its status says (`StoredDoneAgrees`), a comment in either hangs from a
goal that is stored or put before it (`CommentsHang`).  An update of a goal may name any number;
where the user it is for had no task of it, the history `named` has it, and every other number
names the task it was given to, and no more (`OwnTasksNamed`, `IdsHeld`).  `PatchesKeepTheRest`: `HSpec => PatchKeepsTheRest`.  The
put of a goal is the first of its request (`GoalFirst`), so a request whose goal waits is
one that has read it and done nothing since, and what waits is the stored goal but for the
fields it was given (`WaitingIsFresh`, `WaitingMeets`).

**OrgPerformanceProofs.** `TypeCorrect`; and, of `HSpec`, `DeletionsLeaveNothing`,
`RecordsAreShown`, `DeletionsStand` and `PatchesKeepTheRest`.  The invariant has two halves.
`IInv` needs no history: every record is under the key of its kind and its id was given out
(`Filed`), and what a request has left to do has one of the shapes the operations begin with
(`Shape`).  `SInv` speaks of records that are not `disturbed`.  No two requests are at one
(`Apart`).  One that is stored is about to be deleted or has the cycle, and the OKR, that
its key names (`TableHangs`).  One about to be put is the stored record but for the change,
or is new, and what it hangs from is stored or put before it (`PutsHang`: `Current`,
`IsNew`, `Hangs`, `Founds`).  And a deletion that has made its queries holds everything
under its key that is left, and nobody is about to put more there (`DeletionsReach`).
Without this last conjunct the first three are not inductive: when the record itself goes,
only what was found before tells that nothing stays behind.  A key has three elements at
most, so no induction over sequences is needed.

**RewardsTransferProofs.** `TypeCorrect`; `LogIsTrue`: `Spec => []SuccessIsTrue`; and the
refinement `ImplementsLedger`: `Spec => LedgerImplemented`, for any number of users,
transfers, crashes, failed calls, forgotten tokens and redeliveries, and batches that mix groups
in any way.  The invariant says what an invocation knows of its record by how far it has come
(`Known`): it was validated before the transaction, and its points have moved before an entry
without error is written; that what is left of each group's share of the batch is still at the
head of its queue, which only grows at its end; and that no two invocations have a share of one
group (`Apart`).  Then a transaction whose token is not remembered is a payment of the ledger
(`TransactPays`): its message is still queued, so it is not closed, and one that left its queue
is never queued, and so never paid, again.  Every other step leaves the balances alone.  What
the ledger does not promise is a single payment of a message that is still queued: that rests
on DynamoDB's memory.  `OnlyHandledLeave`: `Spec => LeavesHandled`.  A batch is deleted as a whole
when its invocation returns, so the invariant says of every record of the batch that was gone
through, in whatever group, that it is valid and, unless a call failed, logged (`SoFar`).

*Assumptions.* They are the named ones of the modules, and TLC evaluates them on every run:
finiteness of what is counted (`User`, `Request`, `Attribute`, `Comment`, `KPI`, `KeyResult`: a
table holds finitely many records); `None`, `NoTeam`, `NoCode`, `Every` and `Absent` outside the
sets they complement (`NoneAssumption`, `NoItemAssumption`); invitees, founders and
administrators among the users; ids of two kinds differ, because they begin with the name of
their kind (`KindAssumption`, `PartAssumption`, `LikeAssumption`, `IdAssumption`,
`IdsAssumption`); a change of an OKR or KPI is of the owner or of a field of `Data`
(`PatchAssumption`); the shape of offers, points and the defaults of a team; the operations of
the feed; a batch of at least one message; and natural numbers for the bounds
(`BoundAssumption`, `FailuresAssumption`).

*Only model-checked.* The two liveness properties of RewardsTransfer, `HandledUnlessPoisoned`
and `AppliedIsLogged`: they need fairness and with it ENABLED, out of the prover's reach.  That
a violation is found where a promise is not kept is TLC's work, too.

## 5. What is not modelled, and what is left

Not modelled: gift cards, appreciations as such, certificates and surveys, and the rules and
units of rewards (no template deploys them, and they are puts and reads of single
items); suppliers' branches and cards (independent items); the AI assistant (a
conversation with a language model appended to a history); uploads, e-mail, maps and
templates (input and output).  `manage-org-performance.go` is an older copy of what
`OrgPerformance` models.  Of `Teams`, the e-mails a goroutine sends, for which nobody waits.
Of the employees, Teams models accounts, the first sign-in and the two identifiers; the
check-then-put of `sync-cognito-to-ddb` and the profile are not modelled.

Left, in the order it would be taken up:

1. `Employees`: the check-then-put of `sync-cognito-to-ddb` beside an invitation, where one
   person may come to have two items; then a module that joins it with the two halves of an
   invitation's transaction that OrgAdmins and Teams model.
2. The key of a log entry, a user and a millisecond, under which a second entry replaces the
   first, and the five minutes after which a message may be sent again under its id.
