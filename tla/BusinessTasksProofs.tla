------------------------ MODULE BusinessTasksProofs ------------------------
(***************************************************************************)
(* Theorems about BusinessTasks for every set of tasks, requests and slots *)
(* and every bound.  RowMoves reduces each step of the system to one of    *)
(* five moves of a task's durable facts; the properties of rows, ledgers   *)
(* and effects, and the refinement of TaskSettlement, follow from the      *)
(* moves alone.                                                            *)
(***************************************************************************)
EXTENDS BusinessTasks, TLAPS

-----------------------------------------------------------------------------
(* The moves of a task's durable facts *)

Unmoved(t) == row'[t] = row[t] /\ ledger'[t] = ledger[t] /\ effects'[t] = effects[t]

Accepted(t) ==
    /\ row[t].status = "absent" /\ row'[t].status = "submitted"
    /\ row'[t].result = row[t].result
    /\ ledger'[t] = ledger[t] /\ effects'[t] = effects[t]

Progressed(t) ==
    /\ row[t].status \in Pending /\ row'[t].status \in {"queued", "running"}
    /\ row'[t].status = "queued" => row[t].status = "submitted"
    /\ row'[t].intent = row[t].intent /\ row'[t].result = row[t].result
    /\ ledger'[t] = ledger[t] /\ effects'[t] = effects[t]

GaveUp(t) ==
    /\ row[t].status \in Pending /\ row'[t].status \in {"failed", "rejected"}
    /\ row'[t].intent = row[t].intent /\ row'[t].result = row[t].result
    /\ ledger'[t] = Delivered(Audited(ledger[t], row'[t].status), row'[t].status)
    /\ effects'[t] = effects[t]

Finished(t) ==
    /\ row[t].status \in Pending
    /\ row'[t].intent = row[t].intent
    /\ ledger'[t] = Delivered(Audited(ledger[t], row'[t].status), row'[t].status)
    /\ \/ /\ row'[t].status = "completed" /\ row'[t].result = "rows"
          /\ effects'[t] = effects[t] + 1
       \/ /\ row'[t].status = "failed" /\ row'[t].result = "issues" /\ t \notin Exports
          /\ effects'[t] = effects[t]

Moves(t) == Unmoved(t) \/ Accepted(t) \/ Progressed(t) \/ GaveUp(t) \/ Finished(t)

\* One task moves at most.
OneMoves ==
    \/ \A u \in Tasks : Unmoved(u)
    \/ \E t \in Tasks : Moves(t) /\ \A u \in Tasks \ {t} : Unmoved(u)

FactsTyped == row \in [Tasks -> Rows] /\ ledger \in [Tasks -> Ledgers]
              /\ effects \in [Tasks -> Nat]

\* Appending the status of a settlement to a ledger gives a ledger.
LEMMA LedgerTyped ==
    ASSUME NEW l \in Ledgers, NEW s \in Terminal
    PROVE  Delivered(Audited(l, s), s) \in Ledgers
<1>1. Append(l.audits, s) \in Seq(Terminal)
  BY DEF Ledgers
<1>2. EventTypeOf(s) \in EventTypes /\ <<EventTypeOf(s)>> \in Seq(EventTypes)
  BY DEF EventTypeOf, EventTypes
<1>3. Audited(l, s) \in Ledgers
  BY <1>1 DEF Audited, Ledgers
<1>. QED
  BY <1>2, <1>3 DEF Delivered, Ledgers

\* record_business_task_attempt moves its own task and no other.
LEMMA RecordMoves ==
    ASSUME FactsTyped, UNCHANGED effects, NEW t \in Tasks, NEW i,
           NEW s \in {"queued", "running", "failed", "rejected"}, NEW c \in Codes,
           RecordAttempt(t, i, s, c)
    PROVE  FactsTyped' /\ OneMoves
<1>1. CASE RecordApplies(t, i, s)
  <2>1. /\ row' = [row EXCEPT ![t].status = s, ![t].code = c]
        /\ ledger' = IF s \in Terminal
                     THEN [ledger EXCEPT ![t] = Delivered(Audited(@, s), s)] ELSE ledger
    BY <1>1 DEF RecordAttempt
  <2>2. row[t] \in Rows /\ ledger[t] \in Ledgers
    BY DEF FactsTyped
  <2>3. row' \in [Tasks -> Rows]
    BY <2>1, <2>2 DEF FactsTyped, Rows, Statuses, Pending, Terminal
  <2>4. ledger' \in [Tasks -> Ledgers]
    BY <2>1, <2>2, LedgerTyped DEF FactsTyped
  <2>5. \A u \in Tasks \ {t} : Unmoved(u)
    BY <2>1 DEF FactsTyped, Unmoved
  <2>6. Progressed(t) \/ GaveUp(t)
    BY <1>1, <2>1, <2>2 DEF RecordApplies, FactsTyped, Progressed, GaveUp, Pending, Terminal, Rows
  <2>. QED
    BY <2>3, <2>4, <2>5, <2>6 DEF FactsTyped, Moves, OneMoves
<1>2. CASE ~RecordApplies(t, i, s)
  BY <1>2 DEF RecordAttempt, OneMoves, Unmoved, FactsTyped
<1>. QED
  BY <1>1, <1>2

\* An execution that passed the resource check and found no committed result
\* finishes a pending task.
LEMMA FinishMoves ==
    ASSUME FactsTyped, ResultMatchesStatus, NEW t \in Tasks, NEW i,
           ~ResourceDenied(t, i), ~FoundCommitted(t),
           NEW s \in IF t \in Exports THEN {"completed"} ELSE {"completed", "failed"},
           Finish(t, s)
    PROVE  FactsTyped' /\ OneMoves
<1>1. row[t] \in Rows /\ ledger[t] \in Ledgers /\ s \in Terminal
  BY DEF FactsTyped, Terminal
<1>2. row[t].status \in Pending
  BY <1>1 DEF ResourceDenied, FoundCommitted, ResultMatchesStatus, Rows, Statuses, Pending, Terminal
<1>3. row' \in [Tasks -> Rows]
  BY <1>1 DEF Finish, FactsTyped, Rows, Statuses, Terminal, Codes
<1>4. ledger' \in [Tasks -> Ledgers]
  BY <1>1, LedgerTyped DEF Finish, FactsTyped
<1>5. effects' \in [Tasks -> Nat]
  BY DEF Finish, FactsTyped
<1>6. \A u \in Tasks \ {t} : Unmoved(u)
  BY DEF Finish, FactsTyped, Unmoved
<1>7. Finished(t)
  BY <1>1, <1>2 DEF Finish, FactsTyped, Finished, Rows
<1>. QED
  BY <1>3, <1>4, <1>5, <1>6, <1>7 DEF FactsTyped, Moves, OneMoves

\* Every step of the system makes one of the five moves for one task at most.
LEMMA StepMoves ==
    ASSUME IInv, Next
    PROVE  FactsTyped' /\ OneMoves
<1>. USE DEF IInv
<1>0. FactsTyped
  BY DEF TypeOK, FactsTyped
<1>1. CASE UNCHANGED <<row, ledger, effects>>
  BY <1>0, <1>1 DEF FactsTyped, OneMoves, Unmoved
<1>2. ASSUME NEW r \in Requests, Persist(r) PROVE FactsTyped' /\ OneMoves
  <2>1. TaskOf[r] \in Tasks /\ IntentOf[r] \in Intents
    BY RequestAssumption
  <2>2. CASE UNCHANGED row
    BY <2>2, <1>2, <1>1 DEF Persist
  <2>3. CASE /\ row[TaskOf[r]].status = "absent"
             /\ row' = [row EXCEPT ![TaskOf[r]].status = "submitted",
                                   ![TaskOf[r]].intent = IntentOf[r]]
    <3>1. row[TaskOf[r]] \in Rows
      BY <1>0, <2>1 DEF FactsTyped
    <3>2. row' \in [Tasks -> Rows]
      BY <1>0, <2>1, <2>3, <3>1 DEF FactsTyped, Rows, Statuses, Pending
    <3>3. UNCHANGED <<ledger, effects>>
      BY <1>2 DEF Persist
    <3>4. Accepted(TaskOf[r]) /\ \A u \in Tasks \ {TaskOf[r]} : Unmoved(u)
      BY <1>0, <2>1, <2>3, <3>1, <3>3 DEF FactsTyped, Accepted, Unmoved, Rows
    <3>. QED
      BY <1>0, <2>1, <3>2, <3>3, <3>4 DEF FactsTyped, Moves, OneMoves
  <2>. QED
    BY <1>2, <2>2, <2>3 DEF Persist
<1>3. ASSUME NEW r \in Requests, MarkQueued(r) PROVE FactsTyped' /\ OneMoves
  <2>1. TaskOf[r] \in Tasks
    BY RequestAssumption
  <2>2. UNCHANGED <<ledger, effects>>
    BY <1>3 DEF MarkQueued
  <2>3. CASE UNCHANGED row
    BY <2>2, <2>3, <1>1
  <2>4. CASE /\ row[TaskOf[r]].status = "submitted"
             /\ row' = [row EXCEPT ![TaskOf[r]].status = "queued"]
    <3>1. row[TaskOf[r]] \in Rows
      BY <1>0, <2>1 DEF FactsTyped
    <3>2. row' \in [Tasks -> Rows]
      BY <1>0, <2>1, <2>4, <3>1 DEF FactsTyped, Rows, Statuses, Pending
    <3>3. Progressed(TaskOf[r]) /\ \A u \in Tasks \ {TaskOf[r]} : Unmoved(u)
      BY <1>0, <2>1, <2>2, <2>4, <3>1 DEF FactsTyped, Progressed, Unmoved, Rows, Pending
    <3>. QED
      BY <1>0, <2>1, <2>2, <3>2, <3>3 DEF FactsTyped, Moves, OneMoves
  <2>. QED
    BY <1>3, <2>3, <2>4 DEF MarkQueued
<1>4. ASSUME NEW r \in Requests, RecordRefusal(r) PROVE FactsTyped' /\ OneMoves
  <2>1. TaskOf[r] \in Tasks /\ request[r].code \in Codes
    BY RequestAssumption DEF TypeOK, Calls
  <2>2. RecordAttempt(TaskOf[r], IntentOf[r], "rejected", request[r].code) /\ UNCHANGED effects
    BY <1>4 DEF RecordRefusal
  <2>. QED
    BY <1>0, <2>1, <2>2, RecordMoves
<1>5. ASSUME NEW w \in Slots, AttemptCommits(w) PROVE FactsTyped' /\ OneMoves
  <2>1. slot[w].task \in Tasks
    BY <1>5 DEF AttemptCommits, ReferencesHold
  <2>2. ~ResourceDenied(slot[w].task, slot[w].intent) /\ ~FoundCommitted(slot[w].task)
    BY <1>5 DEF AttemptCommits
  <2>3. PICK s \in IF slot[w].task \in Exports THEN {"completed"} ELSE {"completed", "failed"} :
            Finish(slot[w].task, s)
    BY <1>5 DEF AttemptCommits
  <2>. QED
    BY <1>0, <2>1, <2>2, <2>3, FinishMoves
<1>6. ASSUME NEW o \in observations, Observe(o) PROVE FactsTyped' /\ OneMoves
  <2>1. o.task \in Tasks /\ o.code \in Codes /\ o.status \in {"queued", "running", "failed", "rejected"}
    BY DEF TypeOK, Observations
  <2>2. RecordAttempt(o.task, o.intent, o.status, o.code) /\ UNCHANGED effects
    BY <1>6 DEF Observe
  <2>. QED
    BY <1>0, <2>1, <2>2, RecordMoves
<1>7. CASE DispatchRecord
  <2>1. PICK t \in Tasks : RecordAttempt(t, row[t].intent, dispatcher.status, dispatcher.code)
    BY <1>7 DEF DispatchRecord
  <2>2. dispatcher.status \in {"queued", "running", "failed", "rejected"} /\ dispatcher.code \in Codes
    BY <1>7 DEF DispatchRecord, TypeOK, DispatcherStates, ReferencesHold
  <2>3. UNCHANGED effects
    BY <1>7 DEF DispatchRecord
  <2>. QED
    BY <1>0, <2>1, <2>2, <2>3, RecordMoves
<1>8. CASE Environment
  BY <1>8, <1>1 DEF Environment, ChangeStanding, LateAdd, RedisLosesJob, Retention
<1>9. CASE Api
  BY <1>9, <1>1, <1>2, <1>3, <1>4 DEF Api, Authorize, Enqueue, RequestDies
<1>10. CASE Worker
  <2>1. ASSUME NEW w \in Slots, Attempt(w) PROVE UNCHANGED <<row, ledger, effects>> \/ AttemptCommits(w)
    BY <2>1 DEF Attempt, AttemptRefused, AttemptFindsResult, AttemptTooLarge
  <2>2. ASSUME NEW w \in Slots, Acknowledge(w) \/ Reject(w) \/ ReportLost(w) \/ AttemptErrors(w)
                               \/ \E t \in Tasks : Take(w, t)
        PROVE UNCHANGED <<row, ledger, effects>>
    BY <2>2 DEF Acknowledge, Reject, ReportLost, AttemptErrors, Take
  <2>3. ASSUME NEW t \in Tasks, StallOrphan(t) \/ StallLive(t) PROVE UNCHANGED <<row, ledger, effects>>
    BY <2>3 DEF StallOrphan, StallLive
  <2>4. ASSUME WorkerCrash \/ \E o \in observations : ObservationLost(o)
        PROVE UNCHANGED <<row, ledger, effects>>
    BY <2>4 DEF WorkerCrash, ObservationLost
  <2>. QED
    BY <1>10, <1>1, <1>5, <1>6, <2>1, <2>2, <2>3, <2>4 DEF Worker
<1>11. CASE Dispatch \/ DispatchAborts
  BY <1>11, <1>1, <1>7 DEF Dispatch, DispatchPage, DispatchNext, DispatchAuthorize, DispatchEnqueue,
     DispatchState, DispatchAborts
<1>. QED
  BY <1>8, <1>9, <1>10, <1>11 DEF Next

\* Every task makes one of the moves when one moves and the others stay.
LEMMA OneMovesMoves ==
    ASSUME OneMoves, NEW t \in Tasks
    PROVE  Moves(t)
BY DEF OneMoves, Moves

-----------------------------------------------------------------------------
(* What the moves preserve *)

\* The three properties of a task's durable facts are kept by every move.
LEMMA MovesKeepFacts ==
    ASSUME FactsTyped, FactsTyped', LedgerMatchesStatus, EffectsMatchStatus, ResultMatchesStatus,
           \A t \in Tasks : row[t].status = "absent" => row[t].result = "none",
           \A t \in Tasks : Moves(t)
    PROVE  /\ LedgerMatchesStatus' /\ EffectsMatchStatus' /\ ResultMatchesStatus'
           /\ \A t \in Tasks : row'[t].status = "absent" => row'[t].result = "none"
<1>1. SUFFICES ASSUME NEW t \in Tasks
               PROVE /\ IF row'[t].status \in Terminal
                         THEN ledger'[t] = [audits |-> <<row'[t].status>>,
                                            events |-> <<EventTypeOf(row'[t].status)>>,
                                            notification |-> EventTypeOf(row'[t].status)]
                         ELSE ledger'[t] = NoLedger
                     /\ effects'[t] = IF row'[t].status = "completed" THEN 1 ELSE 0
                     /\ row'[t].status = "completed" <=> row'[t].result = "rows"
                     /\ row'[t].result = "issues" => row'[t].status = "failed" /\ t \notin Exports
                     /\ row'[t].status = "absent" => row'[t].result = "none"
  BY DEF LedgerMatchesStatus, EffectsMatchStatus, ResultMatchesStatus
<1>2. row[t] \in Rows /\ row'[t] \in Rows /\ ledger[t] \in Ledgers
  BY DEF FactsTyped
<1>3. /\ row[t].status \notin Terminal => ledger[t] = NoLedger /\ effects[t] = 0
      /\ row[t].status \in Pending => row[t].result = "none"
  BY <1>2 DEF LedgerMatchesStatus, EffectsMatchStatus, ResultMatchesStatus, Terminal, Pending, Rows
<1>4. \A s \in Terminal : Delivered(Audited(NoLedger, s), s) =
          [audits |-> <<s>>, events |-> <<EventTypeOf(s)>>, notification |-> EventTypeOf(s)]
  <2>1. TAKE s \in Terminal
  <2>2. Append(<<>>, s) = <<s>> /\ <<s>> # <<>>
    OBVIOUS
  <2>3. Audited(NoLedger, s) = [audits |-> <<s>>, events |-> <<>>, notification |-> "none"]
    BY <2>2 DEF Audited, NoLedger
  <2>. QED
    BY <2>3 DEF Delivered
<1>5. CASE Unmoved(t)
  BY <1>5 DEF Unmoved, LedgerMatchesStatus, EffectsMatchStatus, ResultMatchesStatus
<1>6. CASE Accepted(t)
  BY <1>2, <1>3, <1>6 DEF Accepted, Terminal, Pending, Rows
<1>7. CASE Progressed(t)
  BY <1>2, <1>3, <1>7 DEF Progressed, Terminal, Pending, Rows
<1>8. CASE GaveUp(t)
  BY <1>2, <1>3, <1>4, <1>8 DEF GaveUp, Terminal, Pending, Rows
<1>9. CASE Finished(t)
  BY <1>2, <1>3, <1>4, <1>9 DEF Finished, Terminal, Pending, Rows
<1>. QED
  BY <1>5, <1>6, <1>7, <1>8, <1>9 DEF Moves

-----------------------------------------------------------------------------
(* What the rest of the system says about a row stays true of it *)

\* A stored intent stays, and so does a result.
Keeps ==
    /\ FactsTyped'
    /\ \A t \in Tasks :
          /\ row[t].status # "absent" => row'[t].status # "absent" /\ row'[t].intent = row[t].intent
          /\ row[t].result # "none" => row'[t].result # "none"
          /\ row'[t].status = "absent" => row'[t].result = "none"

\* No step takes back a stored intent or a result.
LEMMA StepKeeps ==
    ASSUME IInv, Next
    PROVE  Keeps
<1>1. FactsTyped /\ FactsTyped' /\ \A t \in Tasks : Moves(t)
  BY StepMoves, OneMovesMoves DEF IInv, TypeOK, FactsTyped
<1>2. \A t \in Tasks : row'[t].status = "absent" => row'[t].result = "none"
  BY <1>1, MovesKeepFacts DEF IInv, ReferencesHold
<1>3. ASSUME NEW t \in Tasks
      PROVE  /\ row[t].status # "absent" => row'[t].status # "absent" /\ row'[t].intent = row[t].intent
             /\ row[t].result # "none" => row'[t].result # "none"
  <2>1. row[t] \in Rows
    BY <1>1 DEF FactsTyped
  <2>2. row[t].status \in Pending => row[t].result = "none"
    BY <2>1 DEF IInv, ResultMatchesStatus, Pending, Rows
  <2>. QED
    BY <1>1, <2>1, <2>2 DEF Moves, Unmoved, Accepted, Progressed, GaveUp, Finished, Pending, Rows
<1>. QED
  BY <1>1, <1>2, <1>3 DEF Keeps

JobTyped == job \in [Tasks -> Jobs]

\* A job keeps the intent it was created with, which is its row's; it only
\* becomes completed when the row has a result.
JobMoves(t) ==
    \/ job'[t].state = "absent"
    \/ /\ job[t].state # "absent" /\ job'[t].intent = job[t].intent
       /\ job'[t].state = "completed" => job[t].state = "completed" \/ row[t].result # "none"
    \/ /\ job'[t].state = "waiting"
       /\ row[t].status # "absent" /\ job'[t].intent = row[t].intent

\* What BullMQ makes of a job is a job with the same intent.
LEMMA FailedForm ==
    ASSUME NEW j \in Jobs, NEW c \in Codes
    PROVE  Failed(j, c) \in Jobs /\ Failed(j, c).intent = j.intent /\ Failed(j, c).state = "failed"
BY DEF Failed, Jobs

\* A retried job waits with the same intent.
LEMMA RetriedForm ==
    ASSUME NEW j \in Jobs, NEW c \in Codes
    PROVE  Retried(j, c) \in Jobs /\ Retried(j, c).intent = j.intent /\ Retried(j, c).state = "waiting"
<1>1. j.made \in Nat /\ j.made + 1 \in Nat
  BY DEF Jobs
<1>. QED
  BY <1>1 DEF Retried, Jobs

\* A stalled job that may run again waits with the same intent.
LEMMA RequeuedForm ==
    ASSUME NEW j \in Jobs
    PROVE  Requeued(j) \in Jobs /\ Requeued(j).intent = j.intent /\ Requeued(j).state = "waiting"
<1>1. j.stalls \in Nat /\ j.stalls + 1 \in Nat
  BY DEF Jobs
<1>. QED
  BY <1>1 DEF Requeued, Jobs

\* A job changes by one of its moves when it becomes such a form.
LEMMA JobBecomesMoves ==
    ASSUME JobTyped, NEW t \in Tasks, NEW j \in Jobs, JobBecomes(t, j),
           \/ j.state = "absent"
           \/ job[t].state # "absent" /\ j.intent = job[t].intent
              /\ (j.state = "completed" => row[t].result # "none")
           \/ j.state = "waiting" /\ row[t].status # "absent" /\ j.intent = row[t].intent
    PROVE  JobTyped' /\ \A u \in Tasks : JobMoves(u)
<1>1. JobTyped' /\ job'[t] = j /\ \A u \in Tasks \ {t} : job'[u] = job[u]
  BY DEF JobTyped, JobBecomes
<1>2. JobMoves(t)
  BY <1>1 DEF JobMoves
<1>3. \A u \in Tasks \ {t} : JobMoves(u)
  BY <1>1 DEF JobMoves
<1>. QED
  BY <1>1, <1>2, <1>3

\* The exchange of a producer with Redis.
LEMMA QueueMoves ==
    ASSUME JobTyped, NEW t \in Tasks, NEW i \in Intents \cup {NoIntent},
           row[t].status # "absent", row[t].intent = i,
           QueueAnswers(t, i) \/ QueueUnknown(t, i)
    PROVE  JobTyped' /\ \A u \in Tasks : JobMoves(u)
<1>1. NewJob(i) \in Jobs /\ NewJob(i).state = "waiting" /\ NewJob(i).intent = i
  BY DEF NewJob, NoJob, Jobs, Codes
<1>2. CASE UNCHANGED job
  BY <1>2 DEF JobTyped, JobMoves
<1>3. CASE JobBecomes(t, NewJob(i))
  BY <1>1, <1>3, JobBecomesMoves
<1>. QED
  BY <1>2, <1>3 DEF QueueAnswers, QueueUnknown

\* A stalled job waits again or fails.
LEMMA StalledMoves ==
    ASSUME JobTyped, NEW t \in Tasks, job[t].state = "active", Stalled(t)
    PROVE  JobTyped' /\ \A u \in Tasks : JobMoves(u)
<1>1. job[t] \in Jobs /\ "EXECUTION_FAILED" \in Codes
  BY DEF JobTyped, Codes
<1>2. CASE JobBecomes(t, Requeued(job[t]))
  <2>1. Requeued(job[t]) \in Jobs /\ Requeued(job[t]).intent = job[t].intent
        /\ Requeued(job[t]).state = "waiting"
    BY <1>1, RequeuedForm
  <2>. QED
    BY <1>2, <2>1, JobBecomesMoves
<1>3. CASE JobBecomes(t, Failed(job[t], "EXECUTION_FAILED"))
  <2>1. Failed(job[t], "EXECUTION_FAILED") \in Jobs
        /\ Failed(job[t], "EXECUTION_FAILED").intent = job[t].intent
        /\ Failed(job[t], "EXECUTION_FAILED").state = "failed"
    BY <1>1, FailedForm
  <2>. QED
    BY <1>3, <2>1, JobBecomesMoves
<1>. QED
  BY <1>2, <1>3 DEF Stalled

\* Every step changes every job by one of its moves.
LEMMA JobSteps ==
    ASSUME IInv, Next
    PROVE  JobTyped' /\ \A u \in Tasks : JobMoves(u)
<1>. USE DEF IInv
<1>0. JobTyped /\ NoJob \in Jobs /\ NoJob.state = "absent"
  BY DEF TypeOK, JobTyped, NoJob, Jobs, Codes
<1>1. CASE UNCHANGED job
  BY <1>0, <1>1 DEF JobTyped, JobMoves
<1>2. CASE Environment
  <2>1. ASSUME NEW m \in lateAdds, LateAdd(m) PROVE JobTyped' /\ \A u \in Tasks : JobMoves(u)
    <3>1. /\ m.task \in Tasks /\ m.intent \in Intents \cup {NoIntent}
          /\ row[m.task].status # "absent" /\ row[m.task].intent = m.intent
      BY DEF TypeOK, ReferencesHold, IntentAgrees
    <3>2. NewJob(m.intent) \in Jobs /\ NewJob(m.intent).state = "waiting" /\ NewJob(m.intent).intent = m.intent
      BY <3>1 DEF NewJob, NoJob, Jobs, Codes
    <3>3. UNCHANGED job \/ JobBecomes(m.task, NewJob(m.intent))
      BY <2>1 DEF LateAdd
    <3>. QED
      BY <1>0, <1>1, <3>1, <3>2, <3>3, JobBecomesMoves
  <2>2. ASSUME NEW t \in Tasks, RedisLosesJob(t) \/ Retention(t)
        PROVE  JobTyped' /\ \A u \in Tasks : JobMoves(u)
    <3>1. JobBecomes(t, NoJob)
      BY <2>2 DEF RedisLosesJob, Retention
    <3>. QED
      BY <1>0, <3>1, JobBecomesMoves
  <2>3. ASSUME NEW a \in Actors, ChangeStanding(a) PROVE UNCHANGED job
    BY <2>3 DEF ChangeStanding
  <2>. QED
    BY <1>1, <1>2, <2>1, <2>2, <2>3 DEF Environment
<1>3. CASE Api
  <2>1. ASSUME NEW r \in Requests, Enqueue(r) PROVE JobTyped' /\ \A u \in Tasks : JobMoves(u)
    <3>1. TaskOf[r] \in Tasks /\ IntentOf[r] \in Intents
      BY RequestAssumption
    <3>2. row[TaskOf[r]].status # "absent" /\ row[TaskOf[r]].intent = IntentOf[r]
      BY <2>1 DEF Enqueue, ReferencesHold, ActiveRequest
    <3>3. QueueAnswers(TaskOf[r], IntentOf[r]) \/ QueueUnknown(TaskOf[r], IntentOf[r])
      BY <2>1 DEF Enqueue
    <3>. QED
      BY <1>0, <3>1, <3>2, <3>3, QueueMoves
  <2>. QED
    BY <1>1, <1>3, <2>1 DEF Api, Persist, Authorize, MarkQueued, RecordRefusal, RequestDies
<1>4. CASE Worker
  <2>1. ASSUME NEW w \in Slots, NEW t \in Tasks, Take(w, t)
        PROVE  JobTyped' /\ \A u \in Tasks : JobMoves(u)
    <3>1. Taken(job[t], w) \in Jobs /\ Taken(job[t], w).intent = job[t].intent
          /\ Taken(job[t], w).state = "active"
      BY <1>0 DEF JobTyped, Jobs, Taken
    <3>2. job[t].state = "waiting" /\ JobBecomes(t, Taken(job[t], w))
      BY <2>1 DEF Take
    <3>. QED
      BY <1>0, <3>1, <3>2, JobBecomesMoves
  <2>2. ASSUME NEW w \in Slots, Acknowledge(w) PROVE JobTyped' /\ \A u \in Tasks : JobMoves(u)
    <3>1. slot[w].task \in Tasks /\ row[slot[w].task].result # "none"
      BY <2>2 DEF Acknowledge, ReferencesHold
    <3>2. Completed(job[slot[w].task]) \in Jobs
          /\ Completed(job[slot[w].task]).intent = job[slot[w].task].intent
      BY <1>0, <3>1 DEF JobTyped, Jobs, Completed
    <3>3. \/ UNCHANGED job
          \/ /\ job[slot[w].task].state = "active"
             /\ JobBecomes(slot[w].task, Completed(job[slot[w].task]))
      BY <2>2 DEF Acknowledge, Owns
    <3>. QED
      BY <1>0, <1>1, <3>1, <3>2, <3>3, JobBecomesMoves
  <2>3. ASSUME NEW w \in Slots, Reject(w) PROVE JobTyped' /\ \A u \in Tasks : JobMoves(u)
    <3>. DEFINE j == job[slot[w].task]
                c == slot[w].code
    <3>1. slot[w].task \in Tasks /\ c \in Codes /\ j \in Jobs
      BY <1>0, <2>3 DEF Reject, ReferencesHold, TypeOK, SlotStates, JobTyped
    <3>2. /\ Failed(j, c) \in Jobs /\ Failed(j, c).intent = j.intent /\ Failed(j, c).state = "failed"
          /\ Retried(j, c) \in Jobs /\ Retried(j, c).intent = j.intent
          /\ Retried(j, c).state = "waiting"
      BY <3>1, FailedForm, RetriedForm
    <3>3. \/ UNCHANGED job
          \/ j.state = "active" /\ JobBecomes(slot[w].task, Failed(j, c))
          \/ j.state = "active" /\ JobBecomes(slot[w].task, Retried(j, c))
      BY <2>3 DEF Reject, Owns
    <3>. HIDE DEF j, c
    <3>4. CASE j.state = "active" /\ JobBecomes(slot[w].task, Failed(j, c))
      BY <1>0, <3>1, <3>2, <3>4, JobBecomesMoves DEF j
    <3>5. CASE j.state = "active" /\ JobBecomes(slot[w].task, Retried(j, c))
      BY <1>0, <3>1, <3>2, <3>5, JobBecomesMoves DEF j
    <3>. QED
      BY <1>1, <3>3, <3>4, <3>5
  <2>4. ASSUME NEW t \in Tasks, StallOrphan(t) \/ StallLive(t)
        PROVE  JobTyped' /\ \A u \in Tasks : JobMoves(u)
    BY <1>0, <2>4, StalledMoves DEF StallOrphan, StallLive, Orphan
  <2>5. ASSUME NEW w \in Slots, Attempt(w) \/ AttemptErrors(w) \/ ReportLost(w) PROVE UNCHANGED job
    BY <2>5 DEF Attempt, AttemptRefused, AttemptFindsResult, AttemptCommits, AttemptTooLarge,
       AttemptErrors, ReportLost
  <2>6. ASSUME WorkerCrash \/ \E o \in observations : Observe(o) \/ ObservationLost(o) PROVE UNCHANGED job
    BY <2>6 DEF WorkerCrash, Observe, ObservationLost
  <2>. QED
    BY <1>1, <1>4, <2>1, <2>2, <2>3, <2>4, <2>5, <2>6 DEF Worker
<1>5. CASE DispatchEnqueue
  <2>1. PICK t \in Tasks : /\ Current(t)
                           /\ QueueAnswers(t, row[t].intent) \/ QueueUnknown(t, row[t].intent)
    BY <1>5 DEF DispatchEnqueue
  <2>2. row[t].status # "absent" /\ row[t].intent \in Intents \cup {NoIntent}
    BY <2>1 DEF Current, ReferencesHold, TypeOK, Rows
  <2>. QED
    BY <1>0, <2>1, <2>2, QueueMoves
<1>6. CASE Dispatch \/ DispatchAborts
  BY <1>1, <1>5, <1>6 DEF Dispatch, DispatchPage, DispatchNext, DispatchAuthorize, DispatchState,
     DispatchRecord, DispatchAborts
<1>. QED
  BY <1>2, <1>3, <1>4, <1>6 DEF Next
-----------------------------------------------------------------------------
(* The invariant, part by part: each part is what IInv says of one variable *)

Carried(t, i) == t \in Tasks /\ i \in Intents \cup {NoIntent}
                 /\ row[t].status # "absent" /\ row[t].intent = i

JobsPart ==
    /\ JobTyped
    /\ \A t \in Tasks : job[t].state # "absent" =>
          row[t].status # "absent" /\ job[t].intent = row[t].intent
    /\ CompletedJobHasResult

LateAddsPart ==
    /\ lateAdds \subseteq [task : Tasks, intent : Intents \cup {NoIntent}]
    /\ \A m \in lateAdds : Carried(m.task, m.intent)

ObservationsPart ==
    /\ observations \subseteq Observations
    /\ \A o \in observations : Carried(o.task, o.intent)

RequestsPart ==
    /\ request \in [Requests -> Calls]
    /\ \A r \in Requests : request[r].pc \in ActiveRequest \ {"received"} =>
          Carried(TaskOf[r], IntentOf[r])

SlotFine(w) ==
    /\ slot[w] \in SlotStates
    /\ slot[w].pc # "idle" => Carried(slot[w].task, slot[w].intent)
    /\ slot[w].pc = "returned" => row[slot[w].task].result # "none"

SlotsPart == slot \in [Slots -> SlotStates] /\ \A w \in Slots : SlotFine(w)

DispatcherPart ==
    /\ dispatcher \in DispatcherStates
    /\ \A t \in dispatcher.page : row[t].status # "absent"
    /\ dispatcher.pc = "record" => dispatcher.status # "none"

CountersPart ==
    /\ standing \in [Actors -> DenialCodes \cup {"member", "ACCOUNT_SUSPENDED"}]
    /\ faults \in 0..MaxFaults
    /\ changes \in 0..MaxChanges

FactsPart ==
    /\ FactsTyped /\ LedgerMatchesStatus /\ EffectsMatchStatus /\ ResultMatchesStatus
    /\ \A t \in Tasks : row[t].status = "absent" => row[t].result = "none"

Parts == FactsPart /\ JobsPart /\ LateAddsPart /\ ObservationsPart /\ RequestsPart
         /\ SlotsPart /\ DispatcherPart /\ CountersPart

\* The parts are the inductive invariant.
LEMMA PartsAreIInv == Parts <=> IInv
<1>1. ASSUME Parts PROVE IInv
  <2>1. TypeOK
    BY <1>1 DEF Parts, FactsPart, FactsTyped, JobsPart, JobTyped, LateAddsPart, ObservationsPart,
       RequestsPart, SlotsPart, DispatcherPart, CountersPart, TypeOK
  <2>2. LedgerMatchesStatus /\ EffectsMatchStatus /\ ResultMatchesStatus /\ CompletedJobHasResult
    BY <1>1 DEF Parts, FactsPart, JobsPart
  <2>3. IntentAgrees
    BY <1>1 DEF Parts, JobsPart, LateAddsPart, ObservationsPart, SlotsPart, SlotFine, Carried,
       IntentAgrees
  <2>4. ReferencesHold
    BY <1>1 DEF Parts, FactsPart, JobsPart, LateAddsPart, ObservationsPart, RequestsPart, SlotsPart,
       SlotFine, DispatcherPart, Carried, ReferencesHold
  <2>. QED
    BY <2>1, <2>2, <2>3, <2>4 DEF IInv
<1>2. ASSUME IInv PROVE Parts
  <2>. USE <1>2 DEF IInv
  <2>1. FactsPart
    BY DEF TypeOK, ReferencesHold, FactsPart, FactsTyped
  <2>2. JobsPart
    BY DEF TypeOK, ReferencesHold, IntentAgrees, JobsPart, JobTyped
  <2>3. LateAddsPart /\ ObservationsPart
    <3>1. ASSUME NEW m \in lateAdds PROVE Carried(m.task, m.intent)
      BY DEF TypeOK, ReferencesHold, IntentAgrees, Carried
    <3>2. ASSUME NEW o \in observations PROVE Carried(o.task, o.intent)
      BY DEF TypeOK, Observations, ReferencesHold, IntentAgrees, Carried
    <3>. QED
      BY <3>1, <3>2 DEF TypeOK, LateAddsPart, ObservationsPart
  <2>4. RequestsPart
    BY RequestAssumption DEF TypeOK, ReferencesHold, RequestsPart, Carried
  <2>5. SlotsPart
    <3>1. ASSUME NEW w \in Slots PROVE SlotFine(w)
      BY DEF TypeOK, SlotStates, ReferencesHold, IntentAgrees, SlotFine, Carried
    <3>. QED
      BY <3>1 DEF TypeOK, SlotsPart
  <2>6. DispatcherPart /\ CountersPart
    BY DEF TypeOK, ReferencesHold, DispatcherPart, CountersPart
  <2>. QED
    BY <2>1, <2>2, <2>3, <2>4, <2>5, <2>6 DEF Parts
<1>. QED
  BY <1>1, <1>2

CarriedNext(t, i) == t \in Tasks /\ i \in Intents \cup {NoIntent}
                     /\ row'[t].status # "absent" /\ row'[t].intent = i

\* What is carried stays carried.
LEMMA CarriedStays ==
    ASSUME Keeps, NEW t, NEW i, Carried(t, i)
    PROVE  CarriedNext(t, i) /\ Carried(t, i)'
BY DEF Keeps, Carried, CarriedNext

\* Every step keeps what is said of rows, ledgers, effects and jobs.
LEMMA FactsAndJobsKept ==
    ASSUME IInv, Next
    PROVE  FactsPart' /\ JobsPart'
<1>1. FactsPart /\ JobsPart
  BY PartsAreIInv DEF Parts
<1>2. Keeps /\ FactsTyped' /\ \A t \in Tasks : Moves(t)
  BY StepKeeps, StepMoves, OneMovesMoves
<1>3. FactsPart'
  BY <1>1, <1>2, MovesKeepFacts DEF FactsPart
<1>4. JobTyped' /\ \A t \in Tasks : JobMoves(t)
  BY JobSteps
<1>5. ASSUME NEW t \in Tasks
      PROVE  /\ job'[t].state # "absent" => row'[t].status # "absent" /\ job'[t].intent = row'[t].intent
             /\ job'[t].state = "completed" => row'[t].result # "none"
  BY <1>1, <1>2, <1>4 DEF JobsPart, JobMoves, Keeps, CompletedJobHasResult
<1>. QED
  BY <1>3, <1>4, <1>5 DEF JobsPart, CompletedJobHasResult

\* A producer that gives up waiting leaves an add for a row that is there.
LEMMA LateAddsKept ==
    ASSUME IInv, Next
    PROVE  LateAddsPart'
<1>1. LateAddsPart /\ RequestsPart /\ DispatcherPart /\ FactsTyped /\ Keeps
  BY StepKeeps, PartsAreIInv DEF Parts, FactsPart
<1>2. SUFFICES \A m \in lateAdds' : m \in lateAdds
                  \/ \E t, i : Carried(t, i) /\ m = [task |-> t, intent |-> i]
  <2>1. ASSUME NEW m \in lateAdds'
        PROVE  m \in [task : Tasks, intent : Intents \cup {NoIntent}] /\ Carried(m.task, m.intent)'
    <3>1. CASE m \in lateAdds
      BY <1>1, <3>1, CarriedStays DEF LateAddsPart
    <3>2. CASE m \notin lateAdds
      <4>1. PICK t, i : Carried(t, i) /\ m = [task |-> t, intent |-> i]
        BY <1>2, <2>1, <3>2
      <4>2. Carried(t, i)' /\ m.task = t /\ m.intent = i
        BY <1>1, <4>1, CarriedStays
      <4>. QED
        BY <4>1, <4>2 DEF Carried
    <3>. QED
      BY <3>1, <3>2
  <2>. QED
    BY <2>1 DEF LateAddsPart
<1>3. ASSUME NEW t, NEW i, Carried(t, i), lateAdds' \subseteq lateAdds \cup {[task |-> t, intent |-> i]}
      PROVE  \A m \in lateAdds' : m \in lateAdds
                 \/ \E u, k : Carried(u, k) /\ m = [task |-> u, intent |-> k]
  BY <1>3
<1>4. ASSUME NEW r \in Requests, Enqueue(r)
      PROVE  \A m \in lateAdds' : m \in lateAdds
                 \/ \E t, i : Carried(t, i) /\ m = [task |-> t, intent |-> i]
  <2>1. Carried(TaskOf[r], IntentOf[r])
    BY <1>1, <1>4 DEF Enqueue, RequestsPart, ActiveRequest
  <2>2. lateAdds' \subseteq lateAdds \cup {[task |-> TaskOf[r], intent |-> IntentOf[r]]}
    BY <1>4 DEF Enqueue, QueueAnswers, QueueUnknown
  <2>. QED
    BY <1>3, <2>1, <2>2
<1>5. CASE DispatchEnqueue
  <2>1. PICK t \in Tasks : /\ t \in dispatcher.page
                           /\ QueueAnswers(t, row[t].intent) \/ QueueUnknown(t, row[t].intent)
    BY <1>5 DEF DispatchEnqueue, Current
  <2>2. Carried(t, row[t].intent)
    BY <1>1, <2>1 DEF DispatcherPart, Carried, FactsTyped, Rows
  <2>3. lateAdds' \subseteq lateAdds \cup {[task |-> t, intent |-> row[t].intent]}
    BY <2>1 DEF QueueAnswers, QueueUnknown
  <2>. QED
    BY <1>3, <2>2, <2>3
<1>6. CASE Environment
  BY <1>6 DEF Environment, ChangeStanding, LateAdd, RedisLosesJob, Retention
<1>7. CASE Api
  BY <1>4, <1>7 DEF Api, Persist, Authorize, MarkQueued, RecordRefusal, RequestDies
<1>8. CASE Worker
  BY <1>8 DEF Worker, Take, Attempt, AttemptRefused, AttemptFindsResult, AttemptCommits,
     AttemptTooLarge, AttemptErrors, Acknowledge, Reject, ReportLost, StallOrphan, StallLive,
     Observe, ObservationLost, WorkerCrash
<1>9. CASE Dispatch \/ DispatchAborts
  BY <1>5, <1>9 DEF Dispatch, DispatchPage, DispatchNext, DispatchAuthorize, DispatchState,
     DispatchRecord, DispatchAborts
<1>. QED
  BY <1>6, <1>7, <1>8, <1>9 DEF Next

\* The observer hears only of jobs and slots, which carry their row's intent.
LEMMA ObservationsKept ==
    ASSUME IInv, Next
    PROVE  ObservationsPart'
<1>1. ObservationsPart /\ JobsPart /\ SlotsPart /\ FactsTyped /\ Keeps
  BY StepKeeps, PartsAreIInv DEF Parts, FactsPart
<1>. DEFINE Heard(o) == \E t, i, s, c : /\ Carried(t, i) /\ c \in Codes
                                        /\ s \in {"running", "failed", "rejected"}
                                        /\ o = Observation(t, i, s, c)
<1>2. SUFFICES \A o \in observations' : o \in observations \/ Heard(o)
  <2>1. ASSUME NEW o \in observations'
        PROVE  o \in Observations /\ Carried(o.task, o.intent)'
    <3>1. CASE o \in observations
      BY <1>1, <3>1, CarriedStays DEF ObservationsPart
    <3>2. CASE Heard(o)
      <4>1. PICK t, i, s, c : /\ Carried(t, i) /\ c \in Codes
                              /\ s \in {"running", "failed", "rejected"}
                              /\ o = Observation(t, i, s, c)
        BY <3>2
      <4>2. Carried(t, i)' /\ o.task = t /\ o.intent = i
        BY <1>1, <4>1, CarriedStays DEF Observation
      <4>. QED
        BY <4>1, <4>2 DEF Carried, Observation, Observations
    <3>. QED
      BY <1>2, <3>1, <3>2
  <2>. QED
    BY <2>1 DEF ObservationsPart
<1>3. ASSUME NEW t, NEW i, NEW c \in Codes, NEW s \in {"running", "failed", "rejected"},
             Carried(t, i), Observed({Observation(t, i, s, c)})
      PROVE  \A o \in observations' : o \in observations \/ Heard(o)
  BY <1>3 DEF Observed
<1>4. ASSUME NEW w \in Slots, NEW t \in Tasks, Take(w, t)
      PROVE  \A o \in observations' : o \in observations \/ Heard(o)
  <2>1. Carried(t, job[t].intent) /\ "none" \in Codes
    BY <1>1, <1>4 DEF Take, JobsPart, JobTyped, Jobs, Carried, Codes
  <2>2. Observed({Observation(t, job[t].intent, "running", "none")})
    BY <1>4 DEF Take
  <2>. QED
    BY <1>3, <2>1, <2>2
<1>5. ASSUME NEW w \in Slots, Reject(w)
      PROVE  \A o \in observations' : o \in observations \/ Heard(o)
  <2>1. Carried(slot[w].task, slot[w].intent) /\ slot[w].code \in Codes
    BY <1>1, <1>5 DEF Reject, SlotsPart, SlotFine, SlotStates
  <2>2. \/ UNCHANGED observations
        \/ \E s \in {"rejected", "failed"} :
              Observed({Observation(slot[w].task, slot[w].intent, s, slot[w].code)})
    BY <1>5 DEF Reject
  <2>. QED
    BY <1>3, <2>1, <2>2
<1>6. ASSUME NEW t \in Tasks, StallOrphan(t) \/ StallLive(t)
      PROVE  \A o \in observations' : o \in observations \/ Heard(o)
  <2>1. job[t].state = "active" /\ Stalled(t)
    BY <1>6 DEF StallOrphan, StallLive, Orphan
  <2>2. Carried(t, job[t].intent) /\ "EXECUTION_FAILED" \in Codes
    BY <1>1, <2>1 DEF JobsPart, JobTyped, Jobs, Carried, Codes
  <2>3. \/ UNCHANGED observations
        \/ Observed({Observation(t, job[t].intent, "rejected", "EXECUTION_FAILED")})
    BY <2>1 DEF Stalled
  <2>. QED
    BY <1>3, <2>2, <2>3
<1>7. CASE Environment
  BY <1>7 DEF Environment, ChangeStanding, LateAdd, RedisLosesJob, Retention
<1>8. CASE Api
  BY <1>8 DEF Api, Persist, Authorize, Enqueue, MarkQueued, RecordRefusal, RequestDies
<1>9. CASE Worker
  <2>1. ASSUME NEW w \in Slots, Attempt(w) \/ AttemptErrors(w) \/ Acknowledge(w) \/ ReportLost(w)
        PROVE  UNCHANGED observations
    BY <2>1 DEF Attempt, AttemptRefused, AttemptFindsResult, AttemptCommits, AttemptTooLarge,
       AttemptErrors, Acknowledge, ReportLost
  <2>2. ASSUME WorkerCrash \/ \E o \in observations : Observe(o) \/ ObservationLost(o)
        PROVE  observations' \subseteq observations
    BY <2>2 DEF WorkerCrash, Observe, ObservationLost
  <2>. QED
    BY <1>4, <1>5, <1>6, <1>9, <2>1, <2>2 DEF Worker
<1>10. CASE Dispatch \/ DispatchAborts
  BY <1>10 DEF Dispatch, DispatchPage, DispatchNext, DispatchAuthorize, DispatchEnqueue,
     DispatchState, DispatchRecord, DispatchAborts
<1>. QED
  BY <1>7, <1>8, <1>9, <1>10 DEF Next

\* A call goes on only for a row that is there with the call's own intent.
LEMMA RequestsKept ==
    ASSUME IInv, Next
    PROVE  RequestsPart'
<1>1. RequestsPart /\ FactsTyped /\ Keeps
  BY StepKeeps, PartsAreIInv DEF Parts, FactsPart
<1>2. CASE UNCHANGED request
  BY <1>1, <1>2, CarriedStays DEF RequestsPart
<1>3. ASSUME NEW r \in Requests, NEW pc \in ActiveRequest \cup {"done"}, NEW c \in Codes,
             request' = [request EXCEPT ![r] = [pc |-> pc, code |-> c]],
             pc = "done" \/ Carried(TaskOf[r], IntentOf[r])'
      PROVE  RequestsPart'
  <2>1. [pc |-> pc, code |-> c] \in Calls
    BY DEF Calls
  <2>2. request' \in [Requests -> Calls]
    BY <1>1, <1>3, <2>1 DEF RequestsPart
  <2>3. ASSUME NEW q \in Requests, request'[q].pc \in ActiveRequest \ {"received"}
        PROVE  Carried(TaskOf[q], IntentOf[q])'
    <3>1. CASE q = r
      BY <1>1, <1>3, <2>3, <3>1 DEF RequestsPart, ActiveRequest
    <3>2. CASE q # r
      BY <1>1, <1>3, <2>3, <3>2, CarriedStays DEF RequestsPart
    <3>. QED
      BY <3>1, <3>2
  <2>. QED
    BY <2>2, <2>3 DEF RequestsPart
<1>4. ASSUME NEW r \in Requests, NEW pc \in ActiveRequest \cup {"done"}, RequestAt(r, pc),
             pc = "done" \/ Carried(TaskOf[r], IntentOf[r])'
      PROVE  RequestsPart'
  BY <1>3, <1>4 DEF RequestAt, Codes
<1>5. ASSUME NEW r \in Requests, NEW c \in Codes, RequestRefused(r, c),
             Carried(TaskOf[r], IntentOf[r])'
      PROVE  RequestsPart'
  BY <1>3, <1>5 DEF RequestRefused, ActiveRequest
<1>6. ASSUME NEW r \in Requests, Persist(r) PROVE RequestsPart'
  <2>1. TaskOf[r] \in Tasks /\ IntentOf[r] \in Intents
    BY RequestAssumption
  <2>2. CASE RequestAt(r, "done")
    BY <1>4, <2>2
  <2>3. CASE /\ RequestAt(r, "persisted")
             /\ row' = [row EXCEPT ![TaskOf[r]].status = "submitted", ![TaskOf[r]].intent = IntentOf[r]]
    <3>1. row[TaskOf[r]] \in Rows
      BY <1>1, <2>1 DEF FactsTyped
    <3>2. row'[TaskOf[r]].status = "submitted" /\ row'[TaskOf[r]].intent = IntentOf[r]
      BY <1>1, <2>1, <2>3, <3>1 DEF FactsTyped, Rows
    <3>3. Carried(TaskOf[r], IntentOf[r])'
      BY <2>1, <3>2 DEF Carried
    <3>. QED
      BY <1>4, <2>3, <3>3 DEF ActiveRequest
  <2>4. CASE /\ RequestAt(r, "persisted")
             /\ row[TaskOf[r]].status # "absent" /\ row[TaskOf[r]].intent = IntentOf[r]
    BY <1>1, <1>4, <2>1, <2>4, CarriedStays DEF Carried, ActiveRequest
  <2>. QED
    BY <1>6, <2>2, <2>3, <2>4 DEF Persist
<1>7. ASSUME NEW r \in Requests, Authorize(r) \/ Enqueue(r) PROVE RequestsPart'
  <2>1. Carried(TaskOf[r], IntentOf[r])'
    BY <1>1, <1>7, CarriedStays DEF RequestsPart, Authorize, Enqueue, ActiveRequest
  <2>2. \/ \E pc \in {"done", "authorized", "enqueued"} : RequestAt(r, pc)
        \/ \E c \in DenialCodes \cup {"RESOURCE_DENIED", "EXECUTION_FAILED"} : RequestRefused(r, c)
    BY <1>7 DEF Authorize, Enqueue
  <2>3. CASE \E pc \in {"done", "authorized", "enqueued"} : RequestAt(r, pc)
    BY <1>4, <2>1, <2>3 DEF ActiveRequest
  <2>4. CASE \E c \in DenialCodes \cup {"RESOURCE_DENIED", "EXECUTION_FAILED"} : RequestRefused(r, c)
    BY <1>5, <2>1, <2>4 DEF Codes
  <2>. QED
    BY <2>2, <2>3, <2>4
<1>8. ASSUME NEW r \in Requests, MarkQueued(r) \/ RecordRefusal(r) \/ RequestDies(r) PROVE RequestsPart'
  BY <1>4, <1>8 DEF MarkQueued, RecordRefusal, RequestDies
<1>9. CASE Environment
  BY <1>2, <1>9 DEF Environment, ChangeStanding, LateAdd, RedisLosesJob, Retention
<1>10. CASE Api
  BY <1>6, <1>7, <1>8, <1>10 DEF Api
<1>11. CASE Worker
  BY <1>2, <1>11 DEF Worker, Take, Attempt, AttemptRefused, AttemptFindsResult, AttemptCommits,
     AttemptTooLarge, AttemptErrors, Acknowledge, Reject, ReportLost, StallOrphan, StallLive,
     Observe, ObservationLost, WorkerCrash
<1>12. CASE Dispatch \/ DispatchAborts
  BY <1>2, <1>12 DEF Dispatch, DispatchPage, DispatchNext, DispatchAuthorize, DispatchEnqueue,
     DispatchState, DispatchRecord, DispatchAborts
<1>. QED
  BY <1>9, <1>10, <1>11, <1>12 DEF Next

\* A slot works for the row of the job it took, and reports success only of a
\* row with a result.
LEMMA SlotsKept ==
    ASSUME IInv, Next
    PROVE  SlotsPart'
<1>1. SlotsPart /\ JobsPart /\ FactsTyped /\ Keeps
  BY StepKeeps, PartsAreIInv DEF Parts, FactsPart
<1>2. ASSUME NEW w \in Slots, slot'[w] = slot[w] PROVE SlotFine(w)'
  <2>1. slot'[w] \in SlotStates
    BY <1>1, <1>2 DEF SlotsPart
  <2>2. slot[w].pc # "idle" => CarriedNext(slot[w].task, slot[w].intent)
    BY <1>1, <1>2, CarriedStays DEF SlotsPart, SlotFine
  <2>3. slot'[w].pc = "returned" => row'[slot'[w].task].result # "none"
    BY <1>1, <1>2 DEF SlotsPart, SlotFine, Carried, Keeps
  <2>. QED
    BY <1>2, <2>1, <2>2, <2>3 DEF SlotFine, Carried, CarriedNext
<1>3. IdleSlot \in SlotStates /\ IdleSlot.pc = "idle"
  BY DEF IdleSlot, SlotStates, Codes
<1>4. CASE UNCHANGED slot
  BY <1>1, <1>2, <1>4 DEF SlotsPart
<1>5. ASSUME NEW w \in Slots, NEW s \in SlotStates, slot' = [slot EXCEPT ![w] = s],
             s.pc # "idle" => CarriedNext(s.task, s.intent),
             s.pc = "returned" => row'[s.task].result # "none"
      PROVE  SlotsPart'
  <2>1. slot' \in [Slots -> SlotStates] /\ slot'[w] = s
    BY <1>1, <1>5 DEF SlotsPart
  <2>2. SlotFine(w)'
    BY <1>5, <2>1 DEF SlotFine, Carried, CarriedNext
  <2>3. \A v \in Slots \ {w} : SlotFine(v)'
    BY <1>1, <1>2, <1>5 DEF SlotsPart
  <2>. QED
    BY <2>1, <2>2, <2>3 DEF SlotsPart
<1>6. ASSUME NEW w \in Slots, Acknowledge(w) \/ Reject(w) \/ ReportLost(w) PROVE SlotsPart'
  BY <1>3, <1>5, <1>6 DEF Acknowledge, Reject, ReportLost, Release
<1>7. ASSUME NEW w \in Slots, NEW t \in Tasks, Take(w, t) PROVE SlotsPart'
  <2>. DEFINE s == [pc |-> "running", task |-> t, intent |-> job[t].intent, code |-> "none"]
  <2>1. Carried(t, job[t].intent)
    BY <1>1, <1>7 DEF Take, JobsPart, JobTyped, Jobs, Carried
  <2>2. s \in SlotStates /\ CarriedNext(t, job[t].intent)
    BY <1>1, <2>1, CarriedStays DEF SlotStates, Codes, Carried
  <2>3. slot' = [slot EXCEPT ![w] = s]
    BY <1>7 DEF Take
  <2>. QED
    BY <1>5, <2>2, <2>3
<1>8. ASSUME NEW w \in Slots, slot[w].pc = "running",
             NEW pc \in {"returned", "refused", "failed"}, NEW c \in Codes,
             AttemptEnds(w, pc, c), pc = "returned" => row'[slot[w].task].result # "none"
      PROVE  SlotsPart'
  <2>. DEFINE s == [slot[w] EXCEPT !.pc = pc, !.code = c]
  <2>1. slot[w] \in SlotStates /\ CarriedNext(slot[w].task, slot[w].intent)
    BY <1>1, <1>8, CarriedStays DEF SlotsPart, SlotFine
  <2>2. s \in SlotStates /\ s.pc = pc /\ s.task = slot[w].task /\ s.intent = slot[w].intent
    BY <2>1 DEF SlotStates
  <2>3. slot' = [slot EXCEPT ![w] = s]
    BY <1>1, <1>8 DEF AttemptEnds, SlotsPart
  <2>. HIDE DEF s
  <2>. QED
    BY <1>5, <1>8, <2>1, <2>2, <2>3
<1>9. ASSUME NEW w \in Slots, AttemptRefused(w) \/ AttemptTooLarge(w) \/ AttemptErrors(w)
      PROVE  SlotsPart'
  <2>1. /\ slot[w].pc = "running"
        /\ \E pc \in {"refused", "failed"}, c \in Codes : AttemptEnds(w, pc, c)
    BY <1>9 DEF AttemptRefused, AttemptTooLarge, AttemptErrors, Codes
  <2>. QED
    BY <1>8, <2>1
<1>10. ASSUME NEW w \in Slots, AttemptFindsResult(w) PROVE SlotsPart'
  <2>1. slot[w].pc = "running" /\ AttemptEnds(w, "returned", "none") /\ "none" \in Codes
    BY <1>10 DEF AttemptFindsResult, Codes
  <2>2. row'[slot[w].task].result # "none"
    BY <1>10 DEF AttemptFindsResult, FoundCommitted
  <2>. QED
    BY <1>8, <2>1, <2>2
<1>11. ASSUME NEW w \in Slots, AttemptCommits(w) PROVE SlotsPart'
  <2>1. slot[w].pc = "running" /\ slot[w].task \in Tasks
    BY <1>1, <1>11 DEF AttemptCommits, SlotsPart, SlotFine, Carried
  <2>2. PICK s : Finish(slot[w].task, s)
    BY <1>11 DEF AttemptCommits
  <2>3. row[slot[w].task] \in Rows
    BY <1>1, <2>1 DEF FactsTyped
  <2>4. row'[slot[w].task].result # "none"
    BY <1>1, <2>1, <2>2, <2>3 DEF Finish, FactsTyped, Rows
  <2>5. \E pc \in {"returned", "failed"}, c \in Codes : AttemptEnds(w, pc, c)
    BY <1>11 DEF AttemptCommits, Codes
  <2>. QED
    BY <1>8, <2>1, <2>4, <2>5
<1>12. CASE WorkerCrash
  <2>1. slot' = [w \in Slots |-> IdleSlot]
    BY <1>12 DEF WorkerCrash
  <2>2. \A w \in Slots : SlotFine(w)'
    BY <1>3, <2>1 DEF SlotFine
  <2>. QED
    BY <1>3, <2>1, <2>2 DEF SlotsPart
<1>13. CASE Environment
  BY <1>4, <1>13 DEF Environment, ChangeStanding, LateAdd, RedisLosesJob, Retention
<1>14. CASE Api
  BY <1>4, <1>14 DEF Api, Persist, Authorize, Enqueue, MarkQueued, RecordRefusal, RequestDies
<1>15. CASE Worker
  <2>1. ASSUME NEW t \in Tasks, StallOrphan(t) \/ StallLive(t) PROVE UNCHANGED slot
    BY <2>1 DEF StallOrphan, StallLive
  <2>2. ASSUME NEW o \in observations, Observe(o) \/ ObservationLost(o) PROVE UNCHANGED slot
    BY <2>2 DEF Observe, ObservationLost
  <2>. QED
    BY <1>4, <1>6, <1>7, <1>9, <1>10, <1>11, <1>12, <1>15, <2>1, <2>2 DEF Worker, Attempt
<1>16. CASE Dispatch \/ DispatchAborts
  BY <1>4, <1>16 DEF Dispatch, DispatchPage, DispatchNext, DispatchAuthorize, DispatchEnqueue,
     DispatchState, DispatchRecord, DispatchAborts
<1>. QED
  BY <1>13, <1>14, <1>15, <1>16 DEF Next

DispatcherNext ==
    /\ dispatcher' \in DispatcherStates
    /\ \A t \in dispatcher'.page : row[t].status # "absent"
    /\ dispatcher'.pc = "record" => dispatcher'.status # "none"

\* The dispatcher's page holds rows that are there, and what it is about to
\* record is a status.
LEMMA DispatcherKept ==
    ASSUME IInv, Next
    PROVE  DispatcherPart'
<1>1. DispatcherPart /\ JobsPart /\ FactsTyped /\ Keeps
  BY StepKeeps, PartsAreIInv DEF Parts, FactsPart
<1>2. SUFFICES DispatcherNext
  BY <1>1 DEF DispatcherNext, DispatcherPart, DispatcherStates, Keeps
<1>3. CASE UNCHANGED dispatcher
  BY <1>1, <1>3 DEF DispatcherPart, DispatcherNext
<1>4. CASE dispatcher' = IdleDispatcher
  BY <1>4 DEF IdleDispatcher, DispatcherStates, Codes, DispatcherNext
<1>5. ASSUME NEW t, Skip(t) PROVE DispatcherNext
  BY <1>1, <1>5 DEF DispatcherPart, Skip, NextTask, DispatcherStates, Codes, DispatcherNext
<1>6. ASSUME NEW pc \in {"fetch", "submit", "queue"}, DispatcherAt(pc) PROVE DispatcherNext
  BY <1>1, <1>6 DEF DispatcherPart, DispatcherAt, DispatcherStates, DispatcherNext
<1>7. ASSUME NEW s \in {"queued", "running", "failed", "rejected"}, NEW c \in Codes, ToRecord(s, c)
      PROVE  DispatcherNext
  BY <1>1, <1>7 DEF DispatcherPart, ToRecord, DispatcherStates, DispatcherNext
<1>8. CASE DispatchPage
  <2>1. ASSUME NEW last, last \in PendingScopes(dispatcher.after),
               dispatcher' = [NextTask EXCEPT !.after = last, !.page = PendingScopes(dispatcher.after)]
        PROVE  DispatcherNext
    <3>1. /\ PendingScopes(dispatcher.after) \in SUBSET Tasks
          /\ \A t \in PendingScopes(dispatcher.after) : row[t].status # "absent"
      BY DEF PendingScopes, Pending
    <3>2. last \in Tasks
      BY <2>1, <3>1
    <3>. HIDE DEF PendingScopes
    <3>. QED
      BY <1>1, <2>1, <3>1, <3>2 DEF DispatcherPart, NextTask, DispatcherStates, Codes, DispatcherNext
  <2>. QED
    BY <1>4, <1>8, <2>1 DEF DispatchPage
<1>9. CASE DispatchNext \/ DispatchAuthorize
  <2>1. \/ dispatcher' = IdleDispatcher
        \/ \E pc \in {"fetch", "submit", "queue"} : DispatcherAt(pc)
        \/ \E t \in Tasks : Skip(t)
        \/ \E c \in DenialCodes \cup {"RESOURCE_DENIED"} : ToRecord("rejected", c)
    BY <1>9 DEF DispatchNext, DispatchAuthorize
  <2>. QED
    BY <1>4, <1>5, <1>6, <1>7, <2>1 DEF Codes
<1>10. CASE DispatchEnqueue
  <2>1. PICK t \in Tasks :
           \/ ToRecord("queued", "none")
           \/ ToRecord("rejected", "EXECUTION_FAILED")
           \/ dispatcher' = [dispatcher EXCEPT !.pc = "state", !.code = job[t].reason]
           \/ Skip(t)
    BY <1>10 DEF DispatchEnqueue
  <2>2. CASE dispatcher' = [dispatcher EXCEPT !.pc = "state", !.code = job[t].reason]
    <3>1. job[t].reason \in Codes
      BY <1>1 DEF JobsPart, JobTyped, Jobs
    <3>. QED
      BY <1>1, <2>2, <3>1 DEF DispatcherPart, DispatcherStates, DispatcherNext
  <2>. QED
    BY <1>5, <1>7, <2>1, <2>2 DEF Codes
<1>11. CASE DispatchState
  <2>1. \/ \E t \in Tasks : Skip(t) \/ Recovered(job[t].state, dispatcher.code)
    BY <1>11 DEF DispatchState
  <2>2. ASSUME NEW st, Recovered(st, dispatcher.code) PROVE DispatcherNext
    <3>1. dispatcher.code \in Codes /\ "none" \in Codes /\ "EXECUTION_FAILED" \in Codes
      BY <1>1 DEF DispatcherPart, DispatcherStates, Codes
    <3>2. \/ ToRecord("running", "none")
          \/ ToRecord("rejected", dispatcher.code)
          \/ ToRecord("failed", "EXECUTION_FAILED")
          \/ ToRecord("queued", "none")
      BY <2>2 DEF Recovered
    <3>. QED
      BY <1>7, <3>1, <3>2
  <2>. QED
    BY <1>5, <2>1, <2>2
<1>12. CASE DispatchRecord \/ DispatchAborts
  BY <1>4, <1>5, <1>12 DEF DispatchRecord, DispatchAborts
<1>13. CASE Environment
  BY <1>3, <1>13 DEF Environment, ChangeStanding, LateAdd, RedisLosesJob, Retention
<1>14. CASE Api
  BY <1>3, <1>14 DEF Api, Persist, Authorize, Enqueue, MarkQueued, RecordRefusal, RequestDies
<1>15. CASE Worker
  BY <1>3, <1>4, <1>15 DEF Worker, Take, Attempt, AttemptRefused, AttemptFindsResult, AttemptCommits,
     AttemptTooLarge, AttemptErrors, Acknowledge, Reject, ReportLost, StallOrphan, StallLive,
     Observe, ObservationLost, WorkerCrash
<1>. QED
  BY <1>8, <1>9, <1>10, <1>11, <1>12, <1>13, <1>14, <1>15 DEF Next, Dispatch

\* Standings stay standings and the bounds bound.
LEMMA CountersKept ==
    ASSUME IInv, Next
    PROVE  CountersPart'
<1>1. CountersPart
  BY PartsAreIInv DEF Parts
<1>2. ASSUME UNCHANGED <<standing, changes>>, UNCHANGED faults \/ Fault PROVE CountersPart'
  BY <1>1, <1>2, LimitAssumption DEF CountersPart, Fault
<1>3. ASSUME NEW a \in Actors, ChangeStanding(a) PROVE CountersPart'
  BY <1>1, <1>3, LimitAssumption, StandingAssumption DEF CountersPart, ChangeStanding
<1>4. CASE Environment
  BY <1>2, <1>3, <1>4 DEF Environment, LateAdd, RedisLosesJob, Retention
<1>5. CASE Api
  BY <1>2, <1>5 DEF Api, Persist, Authorize, Enqueue, QueueAnswers, QueueUnknown, NoFault,
     MarkQueued, RecordRefusal, RequestDies
<1>6. CASE Worker
  BY <1>2, <1>6 DEF Worker, Take, Attempt, AttemptRefused, AttemptFindsResult, AttemptCommits, NoFault,
     AttemptTooLarge, AttemptErrors, Acknowledge, Reject, ReportLost, StallOrphan, StallLive,
     Observe, ObservationLost, WorkerCrash
<1>7. CASE Dispatch \/ DispatchAborts
  BY <1>2, <1>7 DEF Dispatch, DispatchPage, DispatchNext, DispatchAuthorize, DispatchEnqueue, NoFault,
     QueueAnswers, QueueUnknown, DispatchState, DispatchRecord, DispatchAborts
<1>. QED
  BY <1>4, <1>5, <1>6, <1>7 DEF Next

-----------------------------------------------------------------------------
(* The inductive invariant and what follows from it *)

\* The initial state satisfies the inductive invariant.
LEMMA InitIInv == Init => IInv
<1>. SUFFICES ASSUME Init PROVE Parts
  BY PartsAreIInv
<1>1. FactsPart
  <2>1. NoRow \in Rows /\ NoLedger \in Ledgers
    BY DEF NoRow, Rows, Statuses, Codes, NoLedger, Ledgers
  <2>2. FactsTyped
    BY <2>1 DEF Init, FactsTyped
  <2>3. \A t \in Tasks : row[t] = NoRow /\ ledger[t] = NoLedger /\ effects[t] = 0
    BY DEF Init
  <2>. QED
    BY <2>2, <2>3 DEF FactsPart, LedgerMatchesStatus, EffectsMatchStatus, ResultMatchesStatus, NoRow, Terminal
<1>2. JobsPart
  BY DEF Init, JobsPart, JobTyped, CompletedJobHasResult, NoJob, Jobs, Codes
<1>3. LateAddsPart /\ ObservationsPart
  BY DEF Init, LateAddsPart, ObservationsPart
<1>4. RequestsPart
  BY DEF Init, RequestsPart, Calls, ActiveRequest, Codes
<1>5. SlotsPart
  BY DEF Init, SlotsPart, SlotFine, IdleSlot, SlotStates, Codes
<1>6. DispatcherPart
  BY DEF Init, DispatcherPart, IdleDispatcher, DispatcherStates, Codes
<1>7. CountersPart
  BY LimitAssumption DEF Init, CountersPart
<1>. QED
  BY <1>1, <1>2, <1>3, <1>4, <1>5, <1>6, <1>7 DEF Parts

\* Every step keeps the inductive invariant.
LEMMA NextIInv == IInv /\ [Next]_vars => IInv'
<1>1. ASSUME IInv, Next PROVE IInv'
  <2>1. Parts'
    BY <1>1, FactsAndJobsKept, LateAddsKept, ObservationsKept, RequestsKept, SlotsKept,
       DispatcherKept, CountersKept DEF Parts
  <2>. QED
    BY <2>1, PartsAreIInv, PTL
<1>2. ASSUME IInv, UNCHANGED vars PROVE IInv'
  BY <1>2 DEF vars, IInv, TypeOK, LedgerMatchesStatus, EffectsMatchStatus, ResultMatchesStatus,
     CompletedJobHasResult, IntentAgrees, ReferencesHold
<1>. QED
  BY <1>1, <1>2

\* Every reachable state satisfies the inductive invariant: types, settlement
\* facts, intents and references, for any number of tasks, calls and slots.
THEOREM InvariantHolds == Spec => []IInv
BY InitIInv, NextIInv, PTL DEF Spec

\* Type correctness.
THEOREM TypesHold == Spec => []TypeOK
<1>1. IInv => TypeOK
  BY DEF IInv
<1>. QED
  BY <1>1, InvariantHolds, PTL

\* One audit, one event and one notification per settled task, whoever of the
\* racing writers settled it.
THEOREM OneLedgerPerSettlement == Spec => []LedgerMatchesStatus
<1>1. IInv => LedgerMatchesStatus
  BY DEF IInv
<1>. QED
  BY <1>1, InvariantHolds, PTL

\* The domain writes of a task are committed exactly as often as its row says.
THEOREM EffectsExactlyOnce == Spec => []EffectsMatchStatus
<1>1. IInv => EffectsMatchStatus
  BY DEF IInv
<1>. QED
  BY <1>1, InvariantHolds, PTL

\* No refusal or exhausted retry erases a committed result.
THEOREM ResultsStay == Spec => []ResultMatchesStatus
<1>1. IInv => ResultMatchesStatus
  BY DEF IInv
<1>. QED
  BY <1>1, InvariantHolds, PTL

\* The queue calls no job completed without a durable result.
THEOREM CompletedJobsHaveResults == Spec => []CompletedJobHasResult
<1>1. IInv => CompletedJobHasResult
  BY DEF IInv
<1>. QED
  BY <1>1, InvariantHolds, PTL

\* A reused idempotency key never executes another call's input.
THEOREM IntentsAgree == Spec => []IntentAgrees
<1>1. IInv => IntentAgrees
  BY DEF IInv
<1>. QED
  BY <1>1, InvariantHolds, PTL

\* A settled row, its ledger and its effects never change again.
THEOREM SettledStaysSettled == Spec => SettledIsFinal
<1>1. ASSUME IInv, [Next]_vars, NEW t \in Tasks, row[t].status \in Terminal
      PROVE  row'[t] = row[t] /\ ledger'[t] = ledger[t] /\ effects'[t] = effects[t]
  <2>1. CASE UNCHANGED vars
    BY <2>1 DEF vars
  <2>2. CASE Next
    BY <1>1, <2>2, StepMoves, OneMovesMoves
       DEF Moves, Unmoved, Accepted, Progressed, GaveUp, Finished, Terminal, Pending
  <2>. QED
    BY <1>1, <2>1, <2>2
<1>2. IInv /\ [Next]_vars =>
          [\A t \in Tasks : row[t].status \in Terminal =>
              row'[t] = row[t] /\ ledger'[t] = ledger[t] /\ effects'[t] = effects[t]]_vars
  BY <1>1
<1>. QED
  BY <1>2, InvariantHolds, PTL DEF Spec, SettledIsFinal

\* A running row is never moved back, a queued one never before the queue.
THEOREM ProgressIsForward == Spec => NeverBackwards
<1>1. ASSUME IInv, [Next]_vars, NEW t \in Tasks
      PROVE  /\ row[t].status = "running" => row'[t].status \in {"running"} \cup Terminal
             /\ row[t].status = "queued" => row'[t].status \notin {"absent", "submitted"}
  <2>1. CASE UNCHANGED vars
    BY <2>1 DEF vars
  <2>2. CASE Next
    BY <1>1, <2>2, StepMoves, OneMovesMoves
       DEF Moves, Unmoved, Accepted, Progressed, GaveUp, Finished, Terminal, Pending
  <2>. QED
    BY <1>1, <2>1, <2>2
<1>2. IInv /\ [Next]_vars =>
          [\A t \in Tasks :
              /\ row[t].status = "running" => row'[t].status \in {"running"} \cup Terminal
              /\ row[t].status = "queued" => row'[t].status \notin {"absent", "submitted"}]_vars
  BY <1>1
<1>. QED
  BY <1>2, InvariantHolds, PTL DEF Spec, NeverBackwards

\* Queue, worker, observer and dispatcher together implement the one-step
\* settlement of TaskSettlement.
THEOREM SettlementImplemented == Spec => ImplementsSettlement
<1>1. Init => Settlement!Init
  BY DEF Init, Settlement!Init, OutcomeOf, NoRow, NoLedger
<1>2. ASSUME IInv, [Next]_vars PROVE [Settlement!Next]_(Settlement!vars)
  <2>1. CASE UNCHANGED vars
    BY <2>1 DEF vars, Settlement!vars, OutcomeOf
  <2>2. CASE Next
    <3>1. /\ FactsTyped /\ FactsTyped' /\ OneMoves
          /\ LedgerMatchesStatus /\ EffectsMatchStatus /\ ResultMatchesStatus
      BY <1>2, <2>2, StepMoves DEF IInv, TypeOK, FactsTyped
    <3>2. CASE \A u \in Tasks : Unmoved(u)
      BY <3>1, <3>2 DEF Unmoved, FactsTyped, Settlement!vars, OutcomeOf
    <3>3. ASSUME NEW t \in Tasks, Moves(t), \A u \in Tasks \ {t} : Unmoved(u)
          PROVE  [Settlement!Next]_(Settlement!vars)
      <4>1. \A u \in Tasks \ {t} : /\ row'[u].status = row[u].status
                                   /\ ledger'[u].events = ledger[u].events
                                   /\ effects'[u] = effects[u]
        BY <3>3 DEF Unmoved
      <4>2. CASE Unmoved(t)
        BY <3>1, <3>2, <3>3, <4>2
      <4>. DEFINE out == [u \in Tasks |-> OutcomeOf(u)]
                  ann == [u \in Tasks |-> ledger[u].events]
      <4>3. ASSUME NEW o, NEW e, (OutcomeOf(t))' = o, ledger'[t].events = e
            PROVE  out' = [out EXCEPT ![t] = o] /\ ann' = [ann EXCEPT ![t] = e]
        <5>1. \A u \in Tasks \ {t} : out'[u] = out[u] /\ ann'[u] = ann[u]
          BY <4>1 DEF OutcomeOf
        <5>. QED
          BY <4>3, <5>1
      <4>4. ASSUME effects'[t] = effects[t] PROVE effects' = effects
        BY <3>1, <4>1, <4>4 DEF FactsTyped
      <4>5. CASE Accepted(t)
        <5>1. OutcomeOf(t) = "none" /\ (OutcomeOf(t))' = "pending" /\ ledger'[t].events = ledger[t].events
          BY <4>5 DEF Accepted, OutcomeOf, Pending
        <5>2. out' = [out EXCEPT ![t] = "pending"] /\ ann' = [ann EXCEPT ![t] = ledger[t].events]
          BY <4>3, <5>1
        <5>3. ann' = ann
          BY <5>2
        <5>4. effects' = effects
          BY <4>4, <4>5 DEF Accepted
        <5>5. out[t] = "none"
          BY <5>1
        <5>. HIDE DEF out, ann
        <5>6. Settlement!Accept(t)
          BY <5>2, <5>3, <5>4, <5>5 DEF Settlement!Accept, out, ann
        <5>. QED
          BY <5>6 DEF Settlement!Next
      <4>6. CASE Progressed(t)
        <5>1. OutcomeOf(t) = "pending" /\ (OutcomeOf(t))' = "pending" /\ ledger'[t].events = ledger[t].events
          BY <4>6 DEF Progressed, OutcomeOf, Pending
        <5>2. out' = [out EXCEPT ![t] = "pending"] /\ ann' = [ann EXCEPT ![t] = ledger[t].events]
          BY <4>3, <5>1
        <5>3. out' = out /\ ann' = ann
          BY <5>1, <5>2
        <5>4. effects' = effects
          BY <4>4, <4>6 DEF Progressed
        <5>. QED
          BY <5>3, <5>4 DEF Settlement!vars
      <4>7. CASE GaveUp(t) \/ Finished(t)
        <5>0. PICK s : s = row'[t].status
          OBVIOUS
        <5>1. row[t].status \in Pending /\ s \in Terminal /\ row[t] \in Rows
          BY <3>1, <4>7, <5>0 DEF GaveUp, Finished, Terminal, FactsTyped
        <5>2. OutcomeOf(t) = "pending" /\ (OutcomeOf(t))' = s
          BY <5>0, <5>1 DEF OutcomeOf, Pending, Terminal
        <5>3. ledger[t] = NoLedger /\ effects[t] = 0
          BY <3>1, <5>1 DEF LedgerMatchesStatus, EffectsMatchStatus, Pending, Terminal
        <5>4. ledger'[t].events = <<Settlement!Announcement(s)>>
          BY <4>7, <5>0, <5>3 DEF GaveUp, Finished, Delivered, Audited, NoLedger, EventTypeOf,
             Settlement!Announcement
        <5>5. out' = [out EXCEPT ![t] = s] /\ ann' = [ann EXCEPT ![t] = <<Settlement!Announcement(s)>>]
          BY <4>3, <5>2, <5>4
        <5>6. effects' = IF s = "completed" THEN [effects EXCEPT ![t] = 1] ELSE effects
          BY <3>1, <4>1, <4>7, <5>0, <5>3 DEF GaveUp, Finished, FactsTyped
        <5>7. out[t] = "pending" /\ s \in Settlement!Outcomes
          BY <5>1, <5>2 DEF Terminal, Settlement!Outcomes
        <5>. HIDE DEF out, ann
        <5>8. Settlement!Settle(t, s)
          BY <5>5, <5>6, <5>7 DEF Settlement!Settle, out, ann
        <5>. QED
          BY <5>7, <5>8 DEF Settlement!Next
      <4>. QED
        BY <3>3, <4>2, <4>5, <4>6, <4>7 DEF Moves
    <3>. QED
      BY <3>1, <3>2, <3>3 DEF OneMoves
  <2>. QED
    BY <1>2, <2>1, <2>2
<1>. QED
  BY <1>1, <1>2, InvariantHolds, PTL DEF Spec, ImplementsSettlement, Settlement!Spec
=============================================================================
