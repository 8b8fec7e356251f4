--------------------------- MODULE BusinessTasks ---------------------------
(***************************************************************************)
(* Organization business tasks: the durable row in PostgreSQL, the BullMQ  *)
(* job in Redis, the API requests that submit a task, the worker slots     *)
(* that attempt it, the fire-and-forget observer of queue events and the   *)
(* dispatcher that recovers pending rows once a second.                    *)
(*                                                                         *)
(* A PostgreSQL transaction is one step: the tenant transaction holds the  *)
(* account, organization and task-row locks from its authorization check   *)
(* to its commit.  A Redis command is one step.  Everything between two of *)
(* them can interleave.                                                    *)
(***************************************************************************)
EXTENDS Naturals, FiniteSets, Sequences

CONSTANTS
    Tasks,            \* task ids; the dispatcher pages rows in id order
    Actors,           \* the members who submit tasks
    ActorOf,          \* [Tasks -> Actors]
    Exports,          \* the tasks of an export type; the others import
    Intents,          \* intent fingerprints (input, locale, resource)
    Requests,         \* API calls, retries of one another when same task
    TaskOf,           \* [Requests -> Tasks]: the idempotency key fixes the id
    IntentOf,         \* [Requests -> Intents]
    Slots,            \* concurrent executions of the worker process
    Attempts,         \* WORKER_ATTEMPTS
    MaxStalledCount,  \* WORKER_MAX_STALLED_COUNT
    PageSize,         \* rows per page of pending_business_task_scopes
    Standings,        \* what an actor's authorization may become
    MaxFaults,        \* bound: crashes, timeouts, lost messages, stalls
    MaxChanges        \* bound: changes of an actor's standing

\* The codes taskErrorCode recognizes as a refusal by the authorization check.
DenialCodes == {"PERMISSION_DENIED", "MEMBERSHIP_REQUIRED", "ORGANIZATION_SUSPENDED"}

ASSUME TasksAssumption == Tasks \subseteq Nat \ {0} /\ IsFiniteSet(Tasks)
ASSUME ActorAssumption == ActorOf \in [Tasks -> Actors] /\ Exports \subseteq Tasks
ASSUME RequestAssumption ==
    TaskOf \in [Requests -> Tasks] /\ IntentOf \in [Requests -> Intents]
ASSUME LimitAssumption ==
    /\ Attempts \in Nat \ {0} /\ MaxStalledCount \in Nat /\ PageSize \in Nat \ {0}
    /\ MaxFaults \in Nat /\ MaxChanges \in Nat
ASSUME StandingAssumption ==
    Standings \subseteq DenialCodes \cup {"member", "ACCOUNT_SUSPENDED"}

VARIABLES
    row,          \* business_tasks
    ledger,       \* audit events, domain events and notification of a task
    effects,      \* history: how often a task's domain writes were committed
    job,          \* BullMQ jobs, by task (the job id is derived from the key)
    lateAdds,     \* queue.add calls whose caller already gave up waiting
    request,      \* progress of every API call
    slot,         \* progress of every worker slot
    observations, \* observer writes not yet applied
    dispatcher,   \* progress of the dispatcher's tick
    standing,     \* what an authorization check of an actor answers
    faults, changes

vars == <<row, ledger, effects, job, lateAdds, request, slot, observations,
          dispatcher, standing, faults, changes>>

Pending == {"submitted", "queued", "running"}
Terminal == {"completed", "failed", "rejected"}
Statuses == {"absent"} \cup Pending \cup Terminal
Codes == DenialCodes \cup {"none", "RESOURCE_DENIED", "TOO_MANY_ROWS",
                           "EXECUTION_FAILED", "IMPORT_VALIDATION_FAILED"}
EventTypes == {"task.completed", "task.failed"}
NoIntent == "none"

NoRow == [status |-> "absent", intent |-> NoIntent, result |-> "none", code |-> "none"]
NoLedger == [audits |-> <<>>, events |-> <<>>, notification |-> "none"]
NoJob == [state |-> "absent", intent |-> NoIntent, made |-> 0, stalls |-> 0,
          owner |-> "none", reason |-> "none"]
NewJob(i) == [NoJob EXCEPT !.state = "waiting", !.intent = i]
IdleSlot == [pc |-> "idle", task |-> 0, intent |-> NoIntent, code |-> "none"]
IdleDispatcher == [pc |-> "fetch", after |-> 0, page |-> {}, status |-> "none",
                   code |-> "none"]
ActiveRequest == {"received", "persisted", "authorized", "enqueued", "refused"}

-----------------------------------------------------------------------------
(* The durable row *)

Member(t) == standing[ActorOf[t]] = "member"
Denial(t) == standing[ActorOf[t]]

\* Mutant: a rejected row is not refused.
ResourceDeniedUnlessRejected(t, i) ==
    \/ row[t].status = "absent"
    \/ row[t].intent # i
    \/ row[t].status = "failed" /\ row[t].result = "none"

\* authorizeResource: the row lock lasts to the end of the transaction.
ResourceDenied(t, i) ==
    \/ row[t].status = "absent"
    \/ row[t].intent # i
    \/ row[t].status = "rejected"
    \/ row[t].status = "failed" /\ row[t].result = "none"

\* Mutant: only a failed import counts as a result.
FoundOnlyIssues(t) == row[t].status = "failed" /\ row[t].result # "none" /\ t \notin Exports

\* findCommitted: a failed import is a result, a failed export is not.
FoundCommitted(t) ==
    /\ row[t].result # "none"
    /\ \/ row[t].status = "completed"
       \/ row[t].status = "failed" /\ t \notin Exports

\* Mutant: the event type is derived from the status.
EventTypePerStatus(status) ==
    CASE status = "completed" -> "task.completed"
      [] status = "rejected" -> "task.rejected"
      [] OTHER -> "task.failed"

\* record_task_result_delivery: the event keeps its first identity, the
\* notification is unique per task and recipient.
EventTypeOf(status) == IF status = "completed" THEN "task.completed" ELSE "task.failed"
Delivered(l, status) ==
    [audits |-> l.audits,
     events |-> IF l.events = <<>> THEN <<EventTypeOf(status)>> ELSE l.events,
     notification |-> IF l.notification = "none" THEN EventTypeOf(status) ELSE l.notification]
Audited(l, status) == [l EXCEPT !.audits = Append(@, status)]

\* Mutant: a settled row is recorded again.
RecordAppliesToSettled(t, i, status) ==
    /\ row[t].status # "absent"
    /\ row[t].intent = i
    /\ status = "queued" => row[t].status = "submitted"

\* Mutant: a late confirmation is recorded over a running row.
RecordAppliesBackwards(t, i, status) == row[t].status \in Pending /\ row[t].intent = i

\* record_business_task_attempt
RecordApplies(t, i, status) ==
    /\ row[t].status \in Pending
    /\ row[t].intent = i
    /\ status = "queued" => row[t].status = "submitted"

\* Mutant: only a failure is audited and announced.
RecordAttemptSilently(t, i, status, code) ==
    IF RecordApplies(t, i, status)
    THEN /\ row' = [row EXCEPT ![t].status = status, ![t].code = code]
         /\ ledger' = IF status = "failed"
                      THEN [ledger EXCEPT ![t] = Delivered(Audited(@, status), status)]
                      ELSE ledger
    ELSE UNCHANGED <<row, ledger>>

RecordAttempt(t, i, status, code) ==
    IF RecordApplies(t, i, status)
    THEN /\ row' = [row EXCEPT ![t].status = status, ![t].code = code]
         /\ ledger' = IF status \in Terminal
                      THEN [ledger EXCEPT ![t] = Delivered(Audited(@, status), status)]
                      ELSE ledger
    ELSE UNCHANGED <<row, ledger>>

\* businessTaskRepository.finish after the domain writes of execute.  The
\* UPDATE has no status condition: what protects the row is FoundCommitted
\* and ResourceDenied under the same row lock.
Finish(t, status) ==
    /\ row' = [row EXCEPT ![t].status = status,
                          ![t].result = IF status = "completed" THEN "rows" ELSE "issues",
                          ![t].code = IF status = "completed" THEN "none"
                                      ELSE "IMPORT_VALIDATION_FAILED"]
    /\ ledger' = [ledger EXCEPT ![t] = Delivered(Audited(@, status), status)]
    /\ effects' = [effects EXCEPT ![t] = IF status = "completed" THEN @ + 1 ELSE @]

JobBecomes(t, j) == job' = [job EXCEPT ![t] = j]

Fault == faults < MaxFaults /\ faults' = faults + 1
NoFault == UNCHANGED faults

-----------------------------------------------------------------------------
(* The environment: standing, and what may be lost *)

\* Membership, role, organization and account commands of other components.
ChangeStanding(a) ==
    /\ changes < MaxChanges
    /\ \E s \in Standings \ {standing[a]} : standing' = [standing EXCEPT ![a] = s]
    /\ changes' = changes + 1
    /\ UNCHANGED <<row, ledger, effects, job, lateAdds, request, slot, observations,
                   dispatcher, faults>>

\* An add whose producer timed out is still under way and may land much later.
LateAdd(m) ==
    /\ m \in lateAdds
    /\ lateAdds' = lateAdds \ {m}
    /\ IF job[m.task].state = "absent" THEN JobBecomes(m.task, NewJob(m.intent))
       ELSE UNCHANGED job
    /\ UNCHANGED <<row, ledger, effects, request, slot, observations, dispatcher,
                   standing, faults, changes>>

\* Redis restarts without the last second of its append-only file.
RedisLosesJob(t) ==
    /\ Fault
    /\ job[t].state # "absent"
    /\ JobBecomes(t, NoJob)
    /\ UNCHANGED <<row, ledger, effects, lateAdds, request, slot, observations,
                   dispatcher, standing, changes>>

\* removeOnComplete and removeOnFail drop finished jobs after seven days.
Retention(t) ==
    /\ job[t].state \in {"completed", "failed"}
    /\ row[t].status \in Terminal
    /\ JobBecomes(t, NoJob)
    /\ UNCHANGED <<row, ledger, effects, lateAdds, request, slot, observations,
                   dispatcher, standing, faults, changes>>

-----------------------------------------------------------------------------
(* API: BusinessTasks.submit *)

RequestAt(r, pc) == request' = [request EXCEPT ![r] = [pc |-> pc, code |-> "none"]]
RequestRefused(r, code) ==
    request' = [request EXCEPT ![r] = [pc |-> "refused", code |-> code]]

\* Mutant: a conflicting insert overwrites the stored intent.
PersistOverwriting(r) ==
    LET t == TaskOf[r]  i == IntentOf[r] IN
    /\ request[r].pc = "received"
    /\ Member(t)
    /\ row' = [row EXCEPT ![t].status = IF @ = "absent" THEN "submitted" ELSE @,
                          ![t].intent = i]
    /\ RequestAt(r, "persisted")
    /\ UNCHANGED <<ledger, effects, job, lateAdds, slot, observations, dispatcher,
                   standing, faults, changes>>

\* First transaction: current standing, then the idempotent insert.  A key
\* reused with another intent answers 409 and a settled task its result.
Persist(r) ==
    LET t == TaskOf[r]  i == IntentOf[r] IN
    /\ request[r].pc = "received"
    /\ \/ /\ ~Member(t)
          /\ RequestAt(r, "done")
          /\ UNCHANGED row
       \/ /\ Member(t)
          /\ row[t].status = "absent"
          /\ row' = [row EXCEPT ![t].status = "submitted", ![t].intent = i]
          /\ RequestAt(r, "persisted")
       \/ /\ Member(t)
          /\ row[t].status # "absent"
          /\ RequestAt(r, IF row[t].intent # i \/ row[t].status \in Terminal
                          THEN "done" ELSE "persisted")
          /\ UNCHANGED row
    /\ UNCHANGED <<ledger, effects, job, lateAdds, slot, observations, dispatcher,
                   standing, faults, changes>>

\* Second transaction, inside producer.submit.  An account suspension is not
\* among authorizationCodes: it propagates and leaves the row as it is.
Authorize(r) ==
    LET t == TaskOf[r]  i == IntentOf[r] IN
    /\ request[r].pc = "persisted"
    /\ \/ Denial(t) \in DenialCodes /\ RequestRefused(r, Denial(t))
       \/ Denial(t) = "ACCOUNT_SUSPENDED" /\ RequestAt(r, "done")
       \/ Member(t) /\ ResourceDenied(t, i) /\ RequestRefused(r, "RESOURCE_DENIED")
       \/ Member(t) /\ ~ResourceDenied(t, i) /\ FoundCommitted(t) /\ RequestAt(r, "done")
       \/ Member(t) /\ ~ResourceDenied(t, i) /\ ~FoundCommitted(t)
          /\ RequestAt(r, "authorized")
    /\ UNCHANGED <<row, ledger, effects, job, lateAdds, slot, observations, dispatcher,
                   standing, faults, changes>>

\* The bounded exchange with Redis that both producers make: the job is
\* there already, or it is added and read back ...
QueueAnswers(t, i) ==
    /\ IF job[t].state = "absent" THEN JobBecomes(t, NewJob(i)) ELSE UNCHANGED job
    /\ NoFault
    /\ UNCHANGED lateAdds

\* ... or the confirmation is lost: the add never arrives, arrived, or will.
QueueUnknown(t, i) ==
    /\ Fault
    /\ \/ UNCHANGED <<job, lateAdds>>
       \/ /\ job[t].state = "absent"
          /\ JobBecomes(t, NewJob(i))
          /\ UNCHANGED lateAdds
       \/ /\ lateAdds' = lateAdds \cup {[task |-> t, intent |-> i]}
          /\ UNCHANGED job

Enqueue(r) ==
    LET t == TaskOf[r]  i == IntentOf[r] IN
    /\ request[r].pc = "authorized"
    /\ \/ /\ QueueAnswers(t, i)
          /\ IF job[t].state # "absent" /\ job[t].intent # i
             THEN RequestRefused(r, "EXECUTION_FAILED") \* IDEMPOTENCY_CONFLICT
             ELSE RequestAt(r, "enqueued")
       \/ QueueUnknown(t, i) /\ RequestAt(r, "done")
    /\ UNCHANGED <<row, ledger, effects, slot, observations, dispatcher, standing, changes>>

\* Third transaction, in write mode: only the organization is checked again.
MarkQueued(r) ==
    LET t == TaskOf[r] IN
    /\ request[r].pc = "enqueued"
    /\ row' = IF Denial(t) # "ORGANIZATION_SUSPENDED" /\ row[t].status = "submitted"
              THEN [row EXCEPT ![t].status = "queued"] ELSE row
    /\ RequestAt(r, "done")
    /\ UNCHANGED <<ledger, effects, job, lateAdds, slot, observations, dispatcher,
                   standing, faults, changes>>

\* A permanent refusal settles the stored intent at once.
RecordRefusal(r) ==
    LET t == TaskOf[r]  i == IntentOf[r] IN
    /\ request[r].pc = "refused"
    /\ RecordAttempt(t, i, "rejected", request[r].code)
    /\ RequestAt(r, "done")
    /\ UNCHANGED <<effects, job, lateAdds, slot, observations, dispatcher, standing,
                   faults, changes>>

\* A database error or the death of the API process ends the call anywhere.
RequestDies(r) ==
    /\ Fault
    /\ request[r].pc # "done"
    /\ RequestAt(r, "done")
    /\ UNCHANGED <<row, ledger, effects, job, lateAdds, slot, observations, dispatcher,
                   standing, changes>>

-----------------------------------------------------------------------------
(* Worker slots, BullMQ's view of them, and the observer *)

Observation(t, i, status, code) == [task |-> t, intent |-> i, status |-> status, code |-> code]
Observed(set) == observations' = observations \cup set
Owns(w) ==
    /\ job[slot[w].task].state = "active"
    /\ job[slot[w].task].owner = w
AttemptEnds(w, pc, code) == slot' = [slot EXCEPT ![w].pc = pc, ![w].code = code]
Release(w) == slot' = [slot EXCEPT ![w] = IdleSlot]

\* What BullMQ's scripts make of a job.
Taken(j, w) == [j EXCEPT !.state = "active", !.owner = w]
Completed(j) == [j EXCEPT !.state = "completed", !.owner = "none"]
Failed(j, code) == [j EXCEPT !.state = "failed", !.owner = "none", !.reason = code]
Retried(j, code) ==
    [j EXCEPT !.state = "waiting", !.owner = "none", !.made = @ + 1, !.reason = code]
Requeued(j) == [j EXCEPT !.state = "waiting", !.owner = "none", !.stalls = @ + 1]

Take(w, t) ==
    /\ slot[w].pc = "idle"
    /\ job[t].state = "waiting"
    /\ JobBecomes(t, Taken(job[t], w))
    /\ slot' = [slot EXCEPT ![w] = [pc |-> "running", task |-> t, intent |-> job[t].intent,
                                    code |-> "none"]]
    /\ Observed({Observation(t, job[t].intent, "running", "none")})
    /\ UNCHANGED <<row, ledger, effects, lateAdds, request, dispatcher, standing,
                   faults, changes>>

\* The attempt's transaction: refused by the current standing or resource.
AttemptRefused(w) ==
    LET t == slot[w].task  i == slot[w].intent IN
    /\ slot[w].pc = "running"
    /\ \/ Denial(t) \in DenialCodes /\ AttemptEnds(w, "refused", Denial(t))
       \/ Denial(t) = "ACCOUNT_SUSPENDED" /\ AttemptEnds(w, "failed", "EXECUTION_FAILED")
       \/ Member(t) /\ ResourceDenied(t, i) /\ AttemptEnds(w, "refused", "RESOURCE_DENIED")
    /\ UNCHANGED <<row, ledger, effects, job, lateAdds, request, observations, dispatcher,
                   standing, faults, changes>>

AttemptFindsResult(w) ==
    LET t == slot[w].task IN
    /\ slot[w].pc = "running"
    /\ Member(t) /\ ~ResourceDenied(t, slot[w].intent) /\ FoundCommitted(t)
    /\ AttemptEnds(w, "returned", "none")
    /\ UNCHANGED <<row, ledger, effects, job, lateAdds, request, observations, dispatcher,
                   standing, faults, changes>>

\* It executes and commits.  The commit's own confirmation may be lost, in
\* which case the attempt throws although its work is durable.
AttemptCommits(w) ==
    LET t == slot[w].task IN
    /\ slot[w].pc = "running"
    /\ Member(t) /\ ~ResourceDenied(t, slot[w].intent) /\ ~FoundCommitted(t)
    /\ \E status \in IF t \in Exports THEN {"completed"} ELSE {"completed", "failed"} :
          Finish(t, status)
    /\ \/ NoFault /\ AttemptEnds(w, "returned", "none")
       \/ Fault /\ AttemptEnds(w, "failed", "EXECUTION_FAILED")
    /\ UNCHANGED <<job, lateAdds, request, observations, dispatcher, standing, changes>>

AttemptTooLarge(w) ==
    LET t == slot[w].task IN
    /\ slot[w].pc = "running"
    /\ t \in Exports
    /\ Member(t) /\ ~ResourceDenied(t, slot[w].intent) /\ ~FoundCommitted(t)
    /\ AttemptEnds(w, "refused", "TOO_MANY_ROWS")
    /\ UNCHANGED <<row, ledger, effects, job, lateAdds, request, observations, dispatcher,
                   standing, faults, changes>>

\* Mutant: an error inside the attempt is swallowed.
AttemptSwallowsErrors(w) ==
    /\ Fault
    /\ slot[w].pc = "running"
    /\ AttemptEnds(w, "returned", "none")
    /\ UNCHANGED <<row, ledger, effects, job, lateAdds, request, observations, dispatcher,
                   standing, changes>>

AttemptErrors(w) ==
    /\ Fault
    /\ slot[w].pc = "running"
    /\ AttemptEnds(w, "failed", "EXECUTION_FAILED")
    /\ UNCHANGED <<row, ledger, effects, job, lateAdds, request, observations, dispatcher,
                   standing, changes>>

\* A slot whose lock expired reports to nobody.
Acknowledge(w) ==
    LET t == slot[w].task IN
    /\ slot[w].pc = "returned"
    /\ IF Owns(w) THEN JobBecomes(t, Completed(job[t])) ELSE UNCHANGED job
    /\ Release(w)
    /\ UNCHANGED <<row, ledger, effects, lateAdds, request, observations, dispatcher,
                   standing, faults, changes>>

\* UnrecoverableError or the last attempt fails the job for good and only then
\* does the observer record it; otherwise the job waits for its backoff.
Reject(w) ==
    LET t == slot[w].task
        final == slot[w].pc = "refused" \/ job[t].made + 1 >= Attempts
        status == IF slot[w].pc = "refused" THEN "rejected" ELSE "failed" IN
    /\ slot[w].pc \in {"refused", "failed"}
    /\ \/ /\ ~Owns(w)
          /\ UNCHANGED <<job, observations>>
       \/ /\ Owns(w) /\ final
          /\ JobBecomes(t, Failed(job[t], slot[w].code))
          /\ Observed({Observation(t, slot[w].intent, status, slot[w].code)})
       \/ /\ Owns(w) /\ ~final
          /\ JobBecomes(t, Retried(job[t], slot[w].code))
          /\ UNCHANGED observations
    /\ Release(w)
    /\ UNCHANGED <<row, ledger, effects, lateAdds, request, dispatcher, standing,
                   faults, changes>>

\* The slot's report is lost on the way to Redis.
ReportLost(w) ==
    /\ Fault
    /\ slot[w].pc \in {"returned", "refused", "failed"}
    /\ Release(w)
    /\ UNCHANGED <<row, ledger, effects, job, lateAdds, request, observations, dispatcher,
                   standing, changes>>

\* A job without a lock goes back to waiting, and fails when it did so too
\* often; BullMQ reports that failure as unrecoverable or not at all.
Stalled(t) ==
    \/ /\ job[t].stalls < MaxStalledCount
       /\ JobBecomes(t, Requeued(job[t]))
       /\ UNCHANGED observations
    \/ /\ job[t].stalls >= MaxStalledCount
       /\ JobBecomes(t, Failed(job[t], "EXECUTION_FAILED"))
       /\ \/ UNCHANGED observations
          \/ Observed({Observation(t, job[t].intent, "rejected", "EXECUTION_FAILED")})

Orphan(t) ==
    /\ job[t].state = "active"
    /\ \A w \in Slots : ~(job[t].owner = w /\ slot[w].pc # "idle" /\ slot[w].task = t)

StallOrphan(t) ==
    /\ Orphan(t)
    /\ Stalled(t)
    /\ UNCHANGED <<row, ledger, effects, lateAdds, request, slot, dispatcher, standing,
                   faults, changes>>

\* The lock of a slot that is still at work expires: it goes on unaware.
StallLive(t) ==
    /\ Fault
    /\ job[t].state = "active" /\ ~Orphan(t)
    /\ Stalled(t)
    /\ UNCHANGED <<row, ledger, effects, lateAdds, request, slot, dispatcher, standing,
                   changes>>

Observe(o) ==
    /\ o \in observations
    /\ RecordAttempt(o.task, o.intent, o.status, o.code)
    /\ observations' = observations \ {o}
    /\ UNCHANGED <<effects, job, lateAdds, request, slot, dispatcher, standing,
                   faults, changes>>

\* The observer logs a failed write and forgets it.
ObservationLost(o) ==
    /\ Fault
    /\ o \in observations
    /\ observations' = observations \ {o}
    /\ UNCHANGED <<row, ledger, effects, job, lateAdds, request, slot, dispatcher,
                   standing, changes>>

WorkerCrash ==
    /\ Fault
    /\ slot' = [w \in Slots |-> IdleSlot]
    /\ observations' = {}
    /\ dispatcher' = IdleDispatcher
    /\ UNCHANGED <<row, ledger, effects, job, lateAdds, request, standing, changes>>

-----------------------------------------------------------------------------
(* The recovery dispatcher *)

PendingScopes(after) ==
    LET later == {t \in Tasks : row[t].status \in Pending /\ t > after} IN
    {t \in later : Cardinality({u \in later : u < t}) < PageSize}

NextTask == [dispatcher EXCEPT !.pc = "next", !.status = "none", !.code = "none"]
DispatcherAt(pc) == dispatcher' = [dispatcher EXCEPT !.pc = pc]
ToRecord(status, code) ==
    dispatcher' = [dispatcher EXCEPT !.pc = "record", !.status = status, !.code = code]

\* The task under way is the smallest of the page.
Current(t) == t \in dispatcher.page /\ \A u \in dispatcher.page : t <= u
Skip(t) == dispatcher' = [NextTask EXCEPT !.page = @ \ {t}]

\* Mutant: the cursor is not reset after the last page.
DispatchPageOnce ==
    LET page == PendingScopes(dispatcher.after) IN
    /\ dispatcher.pc = "fetch"
    /\ \/ page = {} /\ UNCHANGED dispatcher
       \/ \E last \in page :
             /\ \A u \in page : u <= last
             /\ dispatcher' = [NextTask EXCEPT !.after = last, !.page = page]
    /\ UNCHANGED <<row, ledger, effects, job, lateAdds, request, slot, observations,
                   standing, faults, changes>>

DispatchPage ==
    LET page == PendingScopes(dispatcher.after) IN
    /\ dispatcher.pc = "fetch"
    /\ \/ page = {} /\ dispatcher' = IdleDispatcher
       \/ \E last \in page :
             /\ \A u \in page : u <= last
             /\ dispatcher' = [NextTask EXCEPT !.after = last, !.page = page]
    /\ UNCHANGED <<row, ledger, effects, job, lateAdds, request, slot, observations,
                   standing, faults, changes>>

\* Its own check and read of the row.  An error without a known code ends
\* the whole tick: the next tick starts again from the first row.
DispatchNext ==
    /\ dispatcher.pc = "next"
    /\ \/ dispatcher.page = {} /\ DispatcherAt("fetch")
       \/ \E t \in Tasks :
             /\ Current(t)
             /\ \/ Denial(t) \in DenialCodes /\ ToRecord("rejected", Denial(t))
                \/ Denial(t) = "ACCOUNT_SUSPENDED" /\ dispatcher' = IdleDispatcher
                \/ Member(t) /\ row[t].status \notin Pending /\ Skip(t)
                \/ Member(t) /\ row[t].status \in Pending /\ DispatcherAt("submit")
    /\ UNCHANGED <<row, ledger, effects, job, lateAdds, request, slot, observations,
                   standing, faults, changes>>

DispatchAuthorize ==
    /\ dispatcher.pc = "submit"
    /\ \E t \in Tasks :
          /\ Current(t)
          /\ \/ Denial(t) \in DenialCodes /\ ToRecord("rejected", Denial(t))
             \/ Denial(t) = "ACCOUNT_SUSPENDED" /\ dispatcher' = IdleDispatcher
             \/ /\ Member(t) /\ ResourceDenied(t, row[t].intent)
                /\ ToRecord("rejected", "RESOURCE_DENIED")
             \/ /\ Member(t) /\ ~ResourceDenied(t, row[t].intent)
                /\ IF FoundCommitted(t) THEN Skip(t) ELSE DispatcherAt("queue")
    /\ UNCHANGED <<row, ledger, effects, job, lateAdds, request, slot, observations,
                   standing, faults, changes>>

\* queue.getJob, and queue.add when there is none.  The job's failure reason
\* is kept as it was in this answer.
DispatchEnqueue ==
    /\ dispatcher.pc = "queue"
    /\ \E t \in Tasks :
          /\ Current(t)
          /\ \/ /\ QueueAnswers(t, row[t].intent)
                /\ \/ job[t].state = "absent" /\ ToRecord("queued", "none")
                   \/ /\ job[t].state # "absent" /\ job[t].intent # row[t].intent
                      /\ ToRecord("rejected", "EXECUTION_FAILED")
                   \/ /\ job[t].state # "absent" /\ job[t].intent = row[t].intent
                      /\ dispatcher' = [dispatcher EXCEPT !.pc = "state", !.code = job[t].reason]
             \/ QueueUnknown(t, row[t].intent) /\ Skip(t)
    /\ UNCHANGED <<row, ledger, effects, request, slot, observations, standing, changes>>

\* What a recovery observation says of a queue state and a failure reason.
RecoveryCodes == DenialCodes \cup {"RESOURCE_DENIED", "TOO_MANY_ROWS"}
\* Mutant: a failed job is taken for one that still waits.
RecoveredAsQueued(state, reason) ==
    IF state = "active" THEN ToRecord("running", "none") ELSE ToRecord("queued", "none")

Recovered(state, reason) ==
    CASE state = "active" -> ToRecord("running", "none")
      [] state = "failed" /\ reason \in RecoveryCodes -> ToRecord("rejected", reason)
      [] state = "failed" /\ reason \notin RecoveryCodes -> ToRecord("failed", "EXECUTION_FAILED")
      [] OTHER -> ToRecord("queued", "none")

\* existing.getState() is another command: the job may have moved on.
DispatchState ==
    /\ dispatcher.pc = "state"
    /\ \E t \in Tasks :
          /\ Current(t)
          /\ \/ NoFault /\ Recovered(job[t].state, dispatcher.code)
             \/ Fault /\ Skip(t)
    /\ UNCHANGED <<row, ledger, effects, job, lateAdds, request, slot, observations,
                   standing, changes>>

DispatchRecord ==
    /\ dispatcher.pc = "record"
    /\ \E t \in Tasks :
          /\ Current(t)
          /\ RecordAttempt(t, row[t].intent, dispatcher.status, dispatcher.code)
          /\ Skip(t)
    /\ UNCHANGED <<effects, job, lateAdds, request, slot, observations, standing,
                   faults, changes>>

\* A database error ends the tick as an unknown error does.
DispatchAborts ==
    /\ Fault
    /\ dispatcher.pc # "fetch"
    /\ dispatcher' = IdleDispatcher
    /\ UNCHANGED <<row, ledger, effects, job, lateAdds, request, slot, observations,
                   standing, changes>>

-----------------------------------------------------------------------------
Init ==
    /\ row = [t \in Tasks |-> NoRow]
    /\ ledger = [t \in Tasks |-> NoLedger]
    /\ effects = [t \in Tasks |-> 0]
    /\ job = [t \in Tasks |-> NoJob]
    /\ lateAdds = {}
    /\ request = [r \in Requests |-> [pc |-> "received", code |-> "none"]]
    /\ slot = [w \in Slots |-> IdleSlot]
    /\ observations = {}
    /\ dispatcher = IdleDispatcher
    /\ standing = [a \in Actors |-> "member"]
    /\ faults = 0
    /\ changes = 0

Environment ==
    \/ \E a \in Actors : ChangeStanding(a)
    \/ \E m \in lateAdds : LateAdd(m)
    \/ \E t \in Tasks : RedisLosesJob(t) \/ Retention(t)

Api == \E r \in Requests :
    \/ Persist(r) \/ Authorize(r) \/ Enqueue(r) \/ MarkQueued(r) \/ RecordRefusal(r)
    \/ RequestDies(r)

Attempt(w) ==
    AttemptRefused(w) \/ AttemptFindsResult(w) \/ AttemptCommits(w) \/ AttemptTooLarge(w)

Worker ==
    \/ \E w \in Slots :
          \/ \E t \in Tasks : Take(w, t)
          \/ Attempt(w) \/ AttemptErrors(w)
          \/ Acknowledge(w) \/ Reject(w) \/ ReportLost(w)
    \/ \E t \in Tasks : StallOrphan(t) \/ StallLive(t)
    \/ \E o \in observations : Observe(o) \/ ObservationLost(o)
    \/ WorkerCrash

Dispatch ==
    \/ DispatchPage \/ DispatchNext \/ DispatchAuthorize \/ DispatchEnqueue \/ DispatchState
    \/ DispatchRecord

Next == Environment \/ Api \/ Worker \/ Dispatch \/ DispatchAborts

Spec == Init /\ [][Next]_vars

\* The dispatcher ticks for ever and the worker serves its queue; calls of
\* the API, observations and late adds are owed nothing.
Fairness ==
    /\ WF_vars(Dispatch)
    /\ \A t \in Tasks :
          /\ WF_vars(\E w \in Slots : Take(w, t))
          /\ WF_vars(StallOrphan(t))
    /\ \A w \in Slots : WF_vars(Attempt(w)) /\ WF_vars(Acknowledge(w) \/ Reject(w))

FairSpec == Spec /\ Fairness

-----------------------------------------------------------------------------
(* Properties *)

Rows == [status : Statuses, intent : Intents \cup {NoIntent},
         result : {"none", "rows", "issues"}, code : Codes]
Ledgers == [audits : Seq(Terminal), events : Seq(EventTypes),
            notification : EventTypes \cup {"none"}]
Jobs == [state : {"absent", "waiting", "active", "completed", "failed"},
         intent : Intents \cup {NoIntent}, made : Nat, stalls : Nat,
         owner : Slots \cup {"none"}, reason : Codes]
Calls == [pc : ActiveRequest \cup {"done"}, code : Codes]
SlotStates == [pc : {"idle", "running", "returned", "refused", "failed"},
               task : Tasks \cup {0}, intent : Intents \cup {NoIntent}, code : Codes]
Observations == [task : Tasks, intent : Intents \cup {NoIntent},
                 status : {"running", "failed", "rejected"}, code : Codes]
DispatcherStates == [pc : {"fetch", "next", "submit", "queue", "state", "record"},
                     after : Tasks \cup {0}, page : SUBSET Tasks,
                     status : {"none", "queued", "running", "failed", "rejected"}, code : Codes]

TypeOK ==
    /\ row \in [Tasks -> Rows]
    /\ ledger \in [Tasks -> Ledgers]
    /\ effects \in [Tasks -> Nat]
    /\ job \in [Tasks -> Jobs]
    /\ lateAdds \subseteq [task : Tasks, intent : Intents \cup {NoIntent}]
    /\ request \in [Requests -> Calls]
    /\ slot \in [Slots -> SlotStates]
    /\ observations \subseteq Observations
    /\ dispatcher \in DispatcherStates
    /\ standing \in [Actors -> DenialCodes \cup {"member", "ACCOUNT_SUSPENDED"}]
    /\ faults \in 0..MaxFaults
    /\ changes \in 0..MaxChanges

\* A settled task has exactly one audit event, one domain event and one
\* notification, all of them agreeing with its final status; an unsettled
\* one has none.  Five writers (request, dispatcher, two observer paths and
\* the execution itself) race to settle a row, and audits are not deduplicated.
LedgerMatchesStatus ==
    \A t \in Tasks :
        IF row[t].status \in Terminal
        THEN ledger[t] = [audits |-> <<row[t].status>>,
                          events |-> <<EventTypeOf(row[t].status)>>,
                          notification |-> EventTypeOf(row[t].status)]
        ELSE ledger[t] = NoLedger

\* The domain writes of a task are committed once if it completed and never
\* otherwise, whatever is retried, stalled, lost or run twice.
EffectsMatchStatus ==
    \A t \in Tasks : effects[t] = IF row[t].status = "completed" THEN 1 ELSE 0

\* A row has a result exactly when an execution decided it: completed, or an
\* import that failed validation.  No refusal or retry exhaustion erases one.
ResultMatchesStatus ==
    \A t \in Tasks :
        /\ row[t].status = "completed" <=> row[t].result = "rows"
        /\ row[t].result = "issues" => row[t].status = "failed" /\ t \notin Exports

\* The queue calls a job completed only when the result is durable: a
\* completed job is never the trace of work that was rolled back.
CompletedJobHasResult ==
    \A t \in Tasks : job[t].state = "completed" => row[t].result # "none"

\* Whatever carries a task (job, late add, observation) carries the intent
\* of its row: a reused key never executes another request's input.
IntentAgrees ==
    /\ \A t \in Tasks : job[t].state # "absent" => job[t].intent = row[t].intent
    /\ \A m \in lateAdds : m.intent = row[m.task].intent
    /\ \A o \in observations : o.intent = row[o.task].intent
    /\ \A w \in Slots : slot[w].pc # "idle" => slot[w].intent = row[slot[w].task].intent

\* A settled row never changes again: restored permissions do not replay a
\* rejected task, a late observation does not reverse a committed result.
SettledIsFinal ==
    [][\A t \in Tasks : row[t].status \in Terminal =>
          row'[t] = row[t] /\ ledger'[t] = ledger[t] /\ effects'[t] = effects[t]]_vars

\* A late enqueue confirmation never moves a running row back.
NeverBackwards ==
    [][\A t \in Tasks :
          /\ row[t].status = "running" => row'[t].status \in {"running"} \cup Terminal
          /\ row[t].status = "queued" => row'[t].status \notin {"absent", "submitted"}]_vars

\* Every accepted task settles: worker.md's "an unknown confirmation keeps the
\* identity and the worker recovers delivery from the durable intent".
EveryTaskSettles ==
    \A t \in Tasks : row[t].status \in Pending ~> row[t].status \in Terminal

\* The same promise for a member whose own standing never changes.
MembersTaskSettles ==
    \A t \in Tasks :
        row[t].status \in Pending ~> row[t].status \in Terminal \/ ~Member(t)

\* A row is not settled as failed when the queue already holds a refusal as
\* the job's persisted failure reason.
RefusalSettlesRejected ==
    [][\A t \in Tasks :
          /\ row[t].status \in Pending
          /\ row'[t].status = "failed" /\ row'[t].result = "none"
          => ~(job[t].state = "failed" /\ job[t].reason \in DenialCodes)]_vars

\* What a reader of the task API can tell of the row.
OutcomeOf(t) ==
    IF row[t].status = "absent" THEN "none"
    ELSE IF row[t].status \in Pending THEN "pending" ELSE row[t].status

Settlement == INSTANCE TaskSettlement
    WITH outcome <- [t \in Tasks |-> OutcomeOf(t)],
         announced <- [t \in Tasks |-> ledger[t].events],
         applied <- effects

\* Queue, worker, observer and dispatcher together implement the one-step
\* settlement of TaskSettlement.
ImplementsSettlement == Settlement!Spec

\* The inductive invariant behind the theorems of BusinessTasksProofs: the
\* properties above, with what makes each of them hold from one step to the
\* next (a request, page or slot that refers to a row finds it still there).
ReferencesHold ==
    /\ \A t \in Tasks : row[t].status = "absent" => row[t].result = "none"
    /\ \A t \in Tasks : job[t].state # "absent" => row[t].status # "absent"
    /\ \A m \in lateAdds : row[m.task].status # "absent"
    /\ \A o \in observations : row[o.task].status # "absent"
    /\ \A r \in Requests : request[r].pc \in ActiveRequest \ {"received"} =>
          row[TaskOf[r]].status # "absent" /\ row[TaskOf[r]].intent = IntentOf[r]
    /\ \A t \in dispatcher.page : row[t].status # "absent"
    /\ dispatcher.pc = "record" => dispatcher.status # "none"
    /\ \A w \in Slots : slot[w].pc # "idle" =>
          slot[w].task \in Tasks /\ row[slot[w].task].status # "absent"
    /\ \A w \in Slots : slot[w].pc = "returned" => row[slot[w].task].result # "none"

IInv ==
    /\ TypeOK /\ LedgerMatchesStatus /\ EffectsMatchStatus /\ ResultMatchesStatus
    /\ CompletedJobHasResult /\ IntentAgrees /\ ReferencesHold

=============================================================================
