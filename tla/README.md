# enterprise-admin: verification project

TLA+ specifications of the parts of enterprise-admin in which something can go
wrong between two steps: tasks that survive crashes of the API, the worker and
Redis, deliveries that are retried, leases, invitations and files. Each module is
a translation of code under `src/`; `PROJECT.json` maps every definition to the
lines it models. The product is a multi-tenant administration framework: one
NestJS API (several replicas may run), one worker process, PostgreSQL with
row-level security as the only durable truth, Redis/BullMQ as the queue, SMTP
and HTTP endpoints of others as the outside world.

## 1. Inventory

| Component | State it keeps | Operations | Hard behaviour | What makes it correct |
|---|---|---|---|---|
| Organization business tasks (`packages/jobs`, `business-tasks.ts`, migrations 0057, 0086) | `business_tasks` row; BullMQ job; in-flight observations | submit, authorize, enqueue, execute, observe, dispatch | four processes write one row; queue and database disagree after a crash; permissions change meanwhile | settles once, effects once, one audit/event/notification, never backwards, every accepted task settles |
| Webhook delivery (`webhook-delivery.ts`, 0055) | `domain_events`, `webhook_deliveries`, `webhook_endpoints` | record event, claim, authorize, send, settle | lease expiry while sending, crash after send, endpoint disabled meanwhile | bounded attempts, settled stays settled, at least one send before "delivered", no send after revocation is seen |
| Notification e-mail (`notification-email-delivery.ts`, 0055) | `business_notifications` e-mail columns, preferences | claim, check preference and membership, send, settle | the same, plus preferences | the same; a disabled preference stops mail |
| Authentication e-mail outbox (`email-dispatcher.ts`, `email.service.ts`) | `email_messages` | enqueue, expire, claim, send, settle | two-minute reclaim without a fence, settlement error after a send | exclusive and final unless a dispatcher is slow, bounded sends, nothing erased that was not taken, valid messages settle |
| Invitations and their delivery (`invitation-command.ts`, `email.service.ts`, 0091) | `invitation`, `invitation_delivery_attempts` | invite, resend, cancel, accept, claim, deliver | immediate and background delivery race; unknown SMTP result | an attempt is sent at most once, unknown is not resent, verdicts and audits are true, one membership per invitation, every mail is taken up |
| Platform schedules (`platform/schedules`, 0089) | `platform_schedules`, runs, session locks of the leader and of each schedule | create, update, pause, run now, tick, recover | leader lost while a run goes on; a run without its lock is called interrupted | one run at a time, a run is settled once |
| Platform tasks (`platform-runtime.ts`, `platform-tasks.ts`, 0073/0079/0108) | `platform_tasks`, job, encrypted input and result | submit, claim, execute, finish, download, expire | the business-task hazards with other rules | settles once |
| File writes (`file-write-executor.ts`, `file-object-plan.ts`, `repositories/files.ts`) | entries, versions, references, operations with their planned objects, names, usage | upload, overwrite, move, trash, restore, purge | lock or lease lost while a storage call runs; its outcome unknown; replacing a file in place | no version without its content, nothing leaked, counters are the sums, calls never meet |
| File maintenance (`file-maintenance.ts`, 0044, 0047) | the same rows, by claim | find candidates, claim, undo, finish, purge expired history and trash | takes over from requests that died anywhere | nothing referenced is deleted, every operation settles |
| Personal media, platform files | own rows with the same lease pattern | replace, delete, clean up | as file writes | as file writes |
| Platform authorization (`platform-identity-management.ts`, 0071) | assignments, roles | grant, revoke, disable | two revocations at once | one active superadmin remains |
| Password login lock (0071) | failure counter, lock | fail, succeed, unlock | concurrent attempts | no lost count, a lock holds |
| Organizations and members | `member`, `organizationRole`, status | role change, remove, leave, suspend | concurrent removals | one owner remains |
| Tenant transactions | locks on account, organization, member | authorize inside the transaction | check-then-use | used as an atomicity rule by every module |
| Browser upload queue and batches (`packages/admin/src/files`) | client state | queue, retry, observe | late answers | not modelled |
| Projects, access credentials, system management, settings, audit, announcements | rows | CRUD in one transaction | none beyond the transaction | not modelled |
| HTTP layer, formats, storage adapters, observability, web applications, release scripts | none shared | I/O | none a model reaches | not modelled |

How they meet: an API request writes `business_tasks` and adds a BullMQ job; the
worker executes inside a tenant transaction that checks the actor's standing
again; settling a task writes audit, domain event and notification in that
transaction; `webhook_deliveries` and the notification's e-mail columns are what
the delivery loops of each API process claim.  Memberships, suspensions and role
changes reach every other component through that check only, so they appear as
an environment action (`ChangeStanding`).

`PROJECT.json` lists the hazards line by line.

## 2. Plan

Done, in this order:

1. `BusinessTasks`, its abstraction `TaskSettlement`, and `BusinessTasksProofs`.
2. `WebhookDelivery`, its abstraction `BoundedDelivery`, and
   `WebhookDeliveryProofs`.
3. `EmailOutbox` and `EmailOutboxProofs`.
4. `Invitations` and `InvitationsProofs`.
5. `FileWrites`, with file maintenance in the same module since both execute the
   same operations over the same rows, and its abstraction `FileLibrary`;
   `FileWritesProofs`, and on top of it, one for each layer of the argument,
   `FileCallsProofs` and `FileContentProofs`.
6. `Sums`: lemmas on sums over finite sets, which the proofs about the usage of
   files and about the sends of an e-mail share.

What a next step would take up, most valuable first: `PlatformSchedules` (leader
lock, schedule lock, recovery of runs), folders and their sub-trees in
`FileWrites`, `PlatformTasks` as a second implementation of `TaskSettlement` and
`NotificationEmail` as a further one of `BoundedDelivery`.

Conventions: parameters are CONSTANTS with named assumptions, each operation is
one action, invariants are conjunctions of named parts, bounds on faults and
commands are constants that begin with `Max`, and no module uses a RECURSIVE
operator, so that each can be proved about. Runs are few: one per question.

## 3. The modules and the code

One rule is common to all: **a PostgreSQL transaction or statement is one step,
a Redis command is one step, an exchange with an SMTP server or an HTTP endpoint
is one step**, and anything may happen between two of them. A transaction may be
one step because it takes the locks of what it reads before it reads it: the
tenant kernel locks account, organization and member
(`packages/database/src/task-tenant.ts:49-101`), the repositories lock the row,
`claim_*` functions use `FOR UPDATE SKIP LOCKED` or lock and read again.

### BusinessTasks

| State | Code |
|---|---|
| `row` | a `business_tasks` row: status, intent fingerprint, kind of result, code |
| `ledger` | its audit events, its domain events, its notification |
| `effects` | history: commits of the domain writes of `execute` |
| `job` | the BullMQ job with the id derived from the idempotency key |
| `lateAdds` | `queue.add` calls whose producer gave up waiting (`runtime.ts:80`) |
| `request` | where each `BusinessTasks.submit` stands (`business-tasks.ts:64-149`) |
| `slot` | where each concurrent processor call of the worker stands |
| `observations` | the fire-and-forget writes of `observeBusinessTasks` |
| `dispatcher` | the tick of `startBusinessTaskDispatch`: cursor, page, answer in hand |
| `standing` | what the authorization of an actor answers now |

The actions follow the awaits. A call is `Persist` (first transaction),
`Authorize` (second, inside the producer), `Enqueue` (Redis), then `MarkQueued`
or `RecordRefusal` (third). A slot is `Take`, one of the `Attempt...` actions (the
attempt's transaction), then `Acknowledge` or `Reject`. BullMQ is modelled as the
code uses it: one job per id, lock ownership checked on completion and failure,
stalled jobs requeued up to `maxStalledCount` times. The observer's handlers put
a record into `observations`, which `Observe` applies in any order. A dispatcher tick
is `DispatchPage`, then per task `DispatchNext`, `DispatchAuthorize`,
`DispatchEnqueue`, `DispatchState` (two commands: the failure reason belongs to the
first, the state to the second) and `DispatchRecord`.

Abstracted: an input with its locale and resource is an intent; a file's content
is the outcome it leads to (rows, issues, too many rows, error); backoff delay is
the choice of when to `Take`; one organization, since nothing crosses
organizations but the dispatcher's page, which is by id.

`TaskSettlement` is what a reader of the task API is promised: accepted, then
settled once, with outcome, domain writes and announcement in one step.
`Settlement` instantiates it with the status folded to none, pending or the final
one, the ledger's events, and `effects`.

### WebhookDelivery

| State | Code |
|---|---|
| `delivery` | `webhook_deliveries`: status, attempts, lease token, whether the lease still runs, whether the row is due |
| `endpoint` | `webhook_endpoints`: enabled, subscribed events; whether the creator may still manage integrations |
| `written` | recorded `domain_events` |
| `host` | `WebhookDelivery.dispatchOne` of each API process |
| `requests`, `received`, `answers` | history: posts made, whether one was taken, what each attempt came to |

`Record` is the fan-out trigger of migration 0055, `Claim` is
`claim_webhook_delivery` with its sweep of exhausted rows, `Authorize` the tenant
transaction before the post (`webhook-delivery.ts:90`), `Post` the exchange,
`Settle` is `settle_webhook_delivery` with its comparison of tokens, `Abandon` a
crash or a database error at any of these points. `Lapse` lets a lease end even while its
holder works, since the check before the post waits for locks without a limit. A
lease token is a random UUID in the code; the model uses the number of the
attempt, which is as unique per row. Left out: signing, payloads, the
SSRF-guarded HTTP client, and the API that reads deliveries.

`BoundedDelivery` is the promise to the outside: at most `Limit` sends,
"delivered" only if one of them was taken, one outcome, and nothing but
withdrawal with the endpoint after it. A send may come after the outcome; the
abstract module says so. Two more components keep the same promise, each with a
limit of its own (section 6): a mail of `Invitations` is sent once, and a message of
`EmailOutbox`, as long as no dispatcher is slow, at most `MaxAttempts + MaxCrashes`
times.

### EmailOutbox

`message` is an `email_messages` row: status, attempts, whether the payload is
still there (`sealed`), whether `next_attempt_at` has passed (`due`), whether
`updated_at` is two minutes old (`stale`), whether `expires_at` has passed.
`dispatcher` is `EmailDispatcher.dispatchOne` of each process with the values its claim
read. `Claim` is the transaction with the sweep of expired rows; `Send`
decrypts and talks to the SMTP server; `RecordAccepted` and `RecordFailure` are the
two updates by id; `RecordingLost` is the case in which the update after a
successful send fails and the `catch` treats it as a failed send; `Abandon` is a
crash or a failed update in that `catch`. `Age` of a row somebody still works on is
what "slow" means, counted by `slow`.

Left out: templates, sealing and key versions, and the statuses "delivered",
"bounced" and "complained" that no code under `src/` writes.

### Invitations

`active`, `role`, `email` are the organization's status, its members and the
users' verified addresses (an unverified address equals no invitation's).
`invitation` and `attempt` are the two tables, an attempt carrying the
`invitation_send_events` row of the same command as its `age`. A `sender` is
either a delivery loop or the deferred send of the request that staged the
attempt (`auth-transaction.ts:121`), named by that attempt. `Invite`, `Resend`, `Accept`,
`Reject`, `Cancel` are the commands, each a transaction under the lock of the
organization's status row; `Claim...` is `claim_invitation_delivery`
(0091), which settles the attempt as unknown *before* it is sent; `Send` and
`Settle` follow. An import is the invitations it creates with no request to send them.
`ChangeRole`, `ChangeEmail`, `SuspendOrResume` are other components as they
appear here; `Grow` and `Expire` are the clock.

Abstracted: "admin" stands for every role that may invite and cancel; roles of
an organization's own that may create but not cancel are left out, as is the
quota by client address, which bounds mails further and loosens nothing.

### FileWrites

| State | Code |
|---|---|
| `entries`, `versions`, `refs` | `file_entries`, `file_versions`, `file_references` |
| `ops` | `file_operations`: phase, kind, what was asked, lease token and whether it still runs (`live`), reported error, whether `expires_at` has passed (`due`), reserved bytes |
| `objs` | `file_operation_objects`: per operation and slot, source and target address with what is recorded of each |
| `names` | `file_namespace_reservations` |
| `usage` | `file_storage_usage`: used, reserved, transient |
| `disk` | the object storage, by address |
| `lock` | holder of the organization's session advisory lock (`file-physical-scope.ts`) |
| `proc` | where each executor stands: a request (named by its operation) or a maintenance pass |

An operation is a chain of transactions with storage calls between them. A
request is `Request` (`beginOperation`, `claimOperation` under the lock), `Prepare`
(checks, reservations and the whole plan in one transaction), then for each planned
call an `Issue...` step, the call's landing (`Make`, `Drop`, `Restore` or their failing
forms) and the transaction that records it (`RecordMade`, `RecordDrop`,
`RecordRestored`), `Intend` (an overwrite's persisted intention to delete what it
replaces), `Commit` and `Finish`. Maintenance takes a candidate with `Claim` or makes a
system operation with `Enlist...`, and then undoes (`Undoing`: restore what was
deleted, remove what was made, `Abort`) or goes forward (`Finish`, `PurgeByJob`) from
the plan alone. Whoever fails leaves the lock (`Leave`) and reports (`Handoff`).

Conventions worth knowing before reading:

- The id of an operation is also the id of the version and file it makes; a request's
  lease token is its operation, a maintenance pass's is the pass. A repeated
  request id only reads and is left out.
- A call that was issued lands whatever becomes of lock, lease or executor. What
  it did is known from the plan only. A failing call may have taken effect, or,
  when `PartialWrites` (the local adapter, which writes in place), left a partial
  file: the adapter removes what it wrote unless it was aborted
  (`local-storage.ts:216`), which a lost lock or lease, a client that went away and
  a shutdown all do.
- A failing call takes its effect, if any, when it fails. In S3 a request whose client
  was aborted or died may still be executed by the server a little later. That is
  not modelled: it is assumed that the storage has executed or dropped such a request before
  another executor, which needs the lock and the lease first, calls at the same address.
- Lock and lease are lost separately (`LoseLock`, `Stall`), and unnoticed until the
  executor's next check (`GiveUp`). The model assumes that one call does not see both
  lost: cut off from the one, a call is aborted within the other's remaining time
  (`file-physical-scope.ts:80`, `file-lease.ts`).
- A request records all deletions a call confirmed in one transaction, maintenance
  one at a time, as the code does.
- `Break` is any other failure of a transaction: a revoked permission, a client
  that went away, a failed audit, a database error.
- Terms of retention are abstracted: history and trash may expire at any time,
  and a restore may be refused as too late.

Left out: folders and their sub-trees, batches (sequences of these operations),
the settings of the quota, adapter directories and probes, personal media.

`FileLibrary` is what the members are promised, without storage, locks, leases
or maintenance: an operation is asked for, and either takes effect at one instant,
once and as a whole, or is refused and has none; a member's change only takes
effect on the revision that member had read; two active files never have one name, and
what a project refers to is neither trashed nor deleted. `Library` instantiates it: a
file is its entry without the busy flag, a copy is a version's state and file, and
an operation's `Outcome` follows from its phase, pending from its beginning to its
commit. All that happens to plans, storage, reservations, leases and executors is a stutter
of it. What an operation asks for is free until it is pending; `FileLibrary` only keeps
one operation from changing what another one asked.

## 4. The runs

| Run | Question | Bounds |
|---|---|---|
| `import` | Do intents mix, do domain writes commit twice, does a row move back? | 1 task, 2 calls with one key and different inputs, 2 slots, 2 attempts, 1 stall, 1 fault, 2 changes of standing |
| `export` | Is settlement one step to the outside, with one ledger, and does it always come? | 1 export, 1 call, 2 slots, 1 fault, 1 change |
| `paging` | Does the dispatcher's cursor starve a row? | 2 tasks of 2 members, pages of 1, 1 slot, 1 attempt, no fault |
| `suspended` | A pending task of a suspended account (finding) | 2 tasks, 1 fault, 1 change |
| `staleReason` | The recovery observation (finding) | 1 task, 1 slot, no fault, 1 change |
| `webhook` | Are counted attempts, leases and tokens enough for a bounded delivery that always settles? | 1 endpoint, 1 event, 2 processes, 3 attempts, 2 crashes, 2 commands |
| `email` | What does a claim without a token still guarantee? | 1 message, 2 dispatchers, 3 attempts, 2 crashes, 2 slow exchanges |
| `email_overwrite` | What does it not guarantee (finding)? | 1 message, 2 dispatchers, 1 slow exchange |
| `invitation_membership` | Who becomes a member, with which role, through which mails? | 3 users, 4 addresses, 2 invitations, 2 mails |
| `invitation_delivery` | Is a mail sent once and its record true? | 2 loops, the requests' own sends, 1 invitation, 2 mails, 1 sender that dies |
| `files` | Does every failure between two steps of two operations leave content, addresses and counters right, does each operation take effect as a whole or not at all, and does every operation settle? | 1 file, 2 operations of any kind, 2 names, 1 maintenance pass, quota of 2 versions, writes in place, the first operation an overwrite, a move or a trash, 2 faults in the first operation or 1 once both have begun |
| `files_residue` | An overwrite whose restoration is cut off (finding) | 1 overwrite, 1 name, 1 pass, 2 faults |

Why the bounds suffice for what the runs ask:

- *Two of each racing actor.* Every race in these protocols is between a holder
  and a successor over one row. A third slot or process only adds
  another successor. Two calls with one key are the smallest number in which
  intents can mix; the second slot is the one that takes over a stalled job.
- *One row.* Rows meet only in the dispatcher's paging (hence `paging` and `suspended`
  with two), in the organization's quotas and the one-per-address rule (hence
  two invitations), and in being served by the same process. The theorems below
  hold for any number.
- *Faults.* One fault between any two steps reaches every crash, loss and late
  answer singly; `webhook` and `email` take two since their hazards need a
  crash of the holder and one of its successor. Three attempts let an attempt be
  first, middle and last.
- *Mails.* In `invitation_membership` an address takes one mail an hour, so the
  second is refused on whichever invitation it comes. That the minute between two
  mails and the quota of the actor are what refuses needs two mails an hour per
  address and three in all: `MailsArePaced` was checked once so (999,186 states,
  over three minutes, too long to be a run). `MailsPaced` proves it for any limits.

`MCInvitations` splits the next-state relation. `MembershipNext` leaves delivery
out: no command reads the status of an attempt or a sender, so every sequence of
commands is still there. `MailNext` leaves out changes of role, address and
suspension: no step of a sender reads them, they only enable or disable
commands. Between them the two runs fire every action, and the theorems of
`InvitationsProofs` are about the whole `Next`.

- *Files.* Operations meet over a file, over a name and over the quota: with two
  names, two operations and a quota of two versions each of these happens, and
  either operation may be one of maintenance. One pass suffices since a pass that
  is cut off may report and claim again. The failures that need two faults (a
  request that dies, then the pass that undoes it) are those of one operation;
  `PairBudget` allows a second fault only while one operation has begun. The
  invariants were also checked once with two faults throughout (1,067,398 states) and
  with two passes (353,985 states); with the refinement and the liveness property these
  bounds take too long to be runs of the project.

`Invitations_delivery.cfg` and the two `FileWrites` configurations turn the deadlock
check off: once all rows within the bounds are used and settled nothing is left to
do. Everywhere else TLC also shows that the system never stops. Symmetry is used only in
`invitation_membership`, which has no liveness property.

Each property is also shown to depend on the code: the operators marked "Mutant"
next to the definition they change are what a plausible bug would make of it,
and with that definition replaced the run reports the property violated.

## 5. Fairness

Only what the code schedules by itself is fair, and but for one case only weakly:

- the dispatcher: a tick schedules the next one a second after it ended, whether or
  not it failed (`packages/jobs/src/business-task-dispatch.ts:78-95`), so each of its
  steps follows in the end;
- the worker: BullMQ serves waiting jobs, moves jobs without a lock back, and a
  processor that runs comes to an end; the model owes it `Take` per task (BullMQ
  serves its queue in order), `StallOrphan`, the attempt, and its report;
- delivery loops: `apps/api/src/delivery/delivery-loop.ts:28-40` schedules the
  next tick whether or not the last one failed;
- file requests and maintenance passes: an executor that lives goes on to its next
  step (weak), and each pass takes every candidate in turn, waiting for the physical lock
  (`file-maintenance.ts:101-124`, again 30 seconds after it ended): `Claim` is the one
  action with strong fairness, per operation, since other executors take the lock
  in between;
- time: leases lapse, backoffs end, an operation's `expires_at` comes.

Nothing is owed to API calls, to observations, to late adds, to a request's own
send, or to any command. Faults are bounded in the runs and never fair: they model an
environment that misbehaves finitely often, without which no retry limit would
mean anything. A permanent outage of PostgreSQL, Redis or SMTP is outside what
liveness claims.

## 6. What is proved

`tlapm` checks every step. Assumptions are the named ASSUMEs of the modules: limits
are natural numbers (positive where the configuration schema demands it),
`Tasks` are natural numbers (the code orders ids), and `ActorOf`, `TaskOf` and `IntentOf` are
functions of the right type. For files, the operations are finitely many, however
many, since the usage is a sum over them, and the file that exists at the start
fits the quota. For e-mail, the dispatchers are finitely many, since what each may
still send is summed. No number of rows, processes, calls, faults or
changes is bounded by them, and the theorems about files hold for storages that
write in place as for those that do not.

**BusinessTasksProofs.** `InvariantHolds`: `IInv` is invariant. The seven
properties it joins are not inductive one by one: that domain writes are
committed once needs to know that a row with a result is found committed or refused
(`ResultMatchesStatus`), that a job is "completed" only with a result needs to know it
of every slot about to report, and that intents agree needs that whoever
refers to a row finds it still there (`ReferencesHold`). The proof classifies what a step may
do to a row: leave it, create it, record an attempt or finish it; it shows
that each action does one of these, and that each of these keeps the
row's part of the invariant. The rest, references and types, is shown action by
action. From `IInv` follow type correctness, `OneLedgerPerSettlement`,
`EffectsExactlyOnce`, `ResultsStay`, `CompletedJobsHaveResults`, `IntentsAgree`,
the action properties `SettledStaysSettled` and `ProgressIsForward`, and
`SettlementImplemented`: the refinement of `TaskSettlement`.

**WebhookDeliveryProofs.** `IInv` adds to the properties what a row says of its
lease (`LeasesHold`) and what a process at work may rely on (`HostsHold`), above all
that no two processes work for the same *attempt* of a row although several may
work for the same row. That is why comparing the token is enough
(`RowsTellLastAttempt`), why an attempt posts once (`AttemptsPostOnce`), and, the
attempts being counted, why sends are bounded (`BoundedDeliveryImplemented`, the
refinement).

**InvitationsProofs.** Most actions touch either the organization's side or the
senders' side; `Quiet` and `Moves` lemmas dispose of the half an action leaves
alone. On the senders' side the invariant says that whoever claimed an attempt is alone
with it and that it stays unknown and unaudited until settled; hence
`AttemptsSentOnce`, `VerdictsTrue`, `AuditsAgree`. On the other side
`AddressesInvitedOnce`, `InvitationsAdmitOnce`, `AdminsFromOwners` and
`EndsAreFinal` follow from the commands' guards and the monotonicity of
expiry. `MailsPaced` counts: an attempt never changes its invitation or actor, an
invitation never its address, and ages only grow, so the sets that the quotas count
shrink but for the one attempt that a command stages, after it looked at the same
sets. That an attempt is counted for no address but its own needs that attempts refer
to invitations that exist (`AttemptsRefer`). `BoundedDeliveryImplemented` puts the
senders' side together: an attempt is an item that may be sent once, "delivered" when
its row says `smtp_accepted`, and still pending when its fate is unknown.

**EmailOutboxProofs.** A claim has no token, so what protects a row is only that it
stays "sending" and young. `RowsGuarded` says so: while no dispatcher was slow, the
row of every dispatcher at work is out of reach of every claim. With it
`ClaimsExclusive` and `SettledRowsStay` are inductive; `PayloadsKept` needs, of slow
dispatchers too, that one that was answered "sent" has been taken (`WorkersHold`)
and that a claimable row has an attempt left (`AttemptLeft`). `SendsStayBounded` is an
amortized bound: what a row grants to future claims and what each dispatcher that works
for it may still use, summed over the dispatchers, never exceeds what is left of the
attempts, of a full round per slow exchange and of one send per crash. A claim
moves the grant of the row to a dispatcher, a send spends it, a recorded failure moves the
rest back. Only a dispatcher that was slow can bring a grant back to a row that
granted it again, and that is the round `slow` pays for. `BoundedDeliveryImplemented`
is stated for `MaxSlow = 0`, which says that no SMTP exchange outlasts the two minutes
of a claim: a slow dispatcher undoes an outcome (the finding of `email_overwrite`), so
without this hypothesis the promise is false.

The proofs about files come in three modules, each resting on the one before.

**FileWritesProofs.** `IInv` says that what an operation makes is unborn until its
commit, that plans exist only of admitted operations and executors only work on
such, and above all `PurgesHold`: a purge under way holds the busy flag of the file
whose versions it deletes, these are live, and nothing refers to them. A reference
can only be made to a file that is not busy, and a trash or purge only prepared for a
file without references; hence `ReferencesKept`. Types are proved for the rows
(`RowsHold`).

**FileWritesProofs and FileCallsProofs.** Two further invariants are shown together. `HoldersWork`
says what the two locks are worth: who holds the physical lock or a lease that
was not lost works on the operation named, a call goes on under one of
them, and a lease that was lost is not live again for the executor that lost it.
So an operation has at most one executor that can still write or record
(`ExecutorsApart`), although a successor may have taken the operation over meanwhile.
`Book` says what the plans are worth: a plan owns every address it names, through a
reserved name, a busy file or its own staging, so no other plan names it; versions
lie where their entries' states say; and each plan has the shape of its kind (which
slots, from where to where, which flags follow from which). `CallsFit` is the
point of both: every call under way is one that its operation's plan still
allows. It could not be proved alone, since whether a deletion is allowed depends on
flags that other steps of the same executor set, and whether these can
change under it depends on `HoldersWork`. From it follow `CallsFitPlans` and
`CallsKeptApart`, and `NamesApart`: two active files never have one name.

`LibraryImplemented` is the refinement of `FileLibrary`. Every action but the commits,
`Request`, `Enlist`, `Abort`, `Refuse` and the two of references leaves what members
see alone. The commits need invariants, since many steps and other executors pass
between the first transaction and the commit, and a commit reads only part of what
that transaction read. Every commit of a member's change to a file compares the revision again, also that
of a purge which maintenance ends; but only where maintenance ends a purge is the file's
state looked at again, and only in the commit of an upload the freedom of its name.
`HeldAsRead` says that a file that is busy with an open operation is still in the state
from which it may be moved, trashed, restored or purged, and of the revision a purge had
read; `Book` says that the name is still free, being reserved. A phase past the commit
never comes back, so an operation takes effect once.

**FileContentProofs.** With `CallsFit` one knows what each call does to each address, and three
further invariants speak of the storage and of the counters.

- `Content`: a call that returned has landed, targets that a working request
  recorded are there, a source whose deletion was begun is in its archive or restored,
  and each live version is in place or exposed to the operation its file is busy
  with. Hence `ContentStays`.
- `Tidy`: an address that a recorded deletion emptied stays empty, a confirmed
  deletion holds until it is recorded, a request deletes no target that it has
  still to publish, and a replacement has a staging. When an operation is settled, each
  address of its plan is therefore empty or that of a live version: `NothingLeft`.
- `Accounts`: an open operation that writes content and has a plan reserves exactly
  its bytes, any other operation nothing; a transient copy is a recorded
  target still to be deleted, so that no copy is left when an operation is settled;
  and `used`, `reserved` and `transient` are the sums over versions, operations and
  objects. Each step changes one summand, or gives back a set of them in a purge or a
  recorded deletion. Hence `UsageExact`, with the quota never exceeded, and
  `TypesHold`: no counter goes below zero.

**Sums** holds the facts about sums that `UsageExact` and `SendsStayBounded` need
(removal of any element, change of one, splitting, comparison, sum over a column of
pairs), proved from the definition of the fold by the well-foundedness of the finite subsets of
a finite set.

**Only model-checked:** every liveness property (`EveryTaskSettles`,
`EveryDeliverySettles`, `EveryMessageSettles`, `EveryMailIsTakenUp`,
`SettlesUnlessResidue`), which is beyond the prover since it rests on fairness. Every
invariant and every action property that a passing run checks, and each of the
three refinements they check, is also proved.

**Only proved:** the two `BoundedDeliveryImplemented` of `EmailOutboxProofs` and
`InvitationsProofs`, and the inductive invariants. No run keeps the two refinements
as properties; the modules that state them are the proof modules.

## 7. Findings

1. **A suspended account stops the dispatcher** (`suspended`, code bug,
   `packages/jobs/src/business-task-dispatch.ts:72`). The refusal of a suspended
   account is not among the codes the dispatcher knows; it ends the tick, and each tick
   begins with the smallest id. While that account stays suspended no
   pending task with a larger id is recovered, whoever submitted it.
2. **A refused task recorded as failed** (`staleReason`, divergence,
   `packages/jobs/src/runtime.ts:195`). The failure reason and the state come from two
   Redis commands; a job refused between them is recorded as
   `EXECUTION_FAILED` although the refusal's code is persisted.
3. **A slow dispatcher overwrites an accepted message** (`email_overwrite`,
   divergence, `apps/api/src/email/email-dispatcher.ts:80`). The row is
   updated by id alone; a late failure turns accepted back into retry,
   which the state machine in `docs/architecture/email-infrastructure.md` does not have.

4. **A partial file nobody removes** (`files_residue`, divergence,
   `apps/api/src/files/file-object-plan.ts:265`). A restoration that dies or is aborted
   while the local adapter writes in place leaves a partial file at the source. The next pass finds it
   neither missing nor intact and fails, as does every later one; the operation
   never settles and its file stays busy. The comment at `local-storage.ts:215`
   promises that the persisted plan cleans such residues up.

The properties these runs violate hold nowhere else by accident: the passing runs
state what is true instead (`EveryTaskSettles` with standings other than a
suspended account, `FinalUnlessSlow`, `SettlesUnlessResidue`).

One more observation has no run because nothing in the repository promises the
contrary: an outbox row whose dispatcher died and whose `expires_at` then passes is
neither swept nor claimed and stays in "sending". `EveryMessageSettles` names it, with nobody at work for the row any more, as
the only way in which a message is never settled. `SettlesUnlessResidue` is as narrow: it
excuses a partial file at a source only when no deletion left in the plan removes it.

## 8. Not modelled

- *PostgreSQL itself*: row-level security, locks and isolation are the rule that
  a transaction is one step; that the code takes the locks this needs was read, not
  checked.
- *BullMQ and Redis*: only as the code uses them; their definitions are marked
  external in `PROJECT.json`.
- *CRUD in one transaction* (projects, access credentials, settings, system
  management, announcements): no protocol between steps.
- *One transaction under one lock*: the last owner (`require_organization_owner`), the
  last superadmin (authorization lock and deferred trigger of 0071) and the login
  lock (row lock held across the verification) leave nothing between two steps.
- *Pure I/O and formats*: HTTP layer, CSV and XLSX, metrics, web applications,
  release scripts, generated API clients, which are most of the repository's lines.
- *The rest of the files*: folders with their sub-trees, batches, reads, personal
  media, and the platform library, which runs the same object plan, lease and lock.
- *Protocols left for a later version*: platform schedules, platform tasks,
  notification mail and the browser's upload queue, as said in section 2.
