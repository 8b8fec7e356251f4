--------------------------- MODULE EmailOutboxProofs ---------------------------
(***************************************************************************)
(* Theorems about EmailOutbox for any messages, dispatchers and bounds:    *)
(* the invariants of its run, the finality of settled rows, how often a    *)
(* message is sent, whose bound rests on a sum over the dispatchers, and   *)
(* that without slow dispatchers it implements BoundedDelivery.            *)
(***************************************************************************)
EXTENDS EmailOutbox, Sums, TLAPS

-----------------------------------------------------------------------------
(* The inductive invariant *)

\* A dispatcher at work has a message, one that was sent to the server's
\* acceptance has been taken, and a row that may be claimed has an attempt left.
WorkersHold ==
    \A d \in Dispatchers : Working(d) =>
        /\ dispatcher[d].of \in Messages
        /\ dispatcher[d].pc = "sent" => taken[dispatcher[d].of]
AttemptLeft ==
    \A m \in Messages :
        message[m].status \in {"absent", "queued", "sending", "retry"} =>
            message[m].attempts < MaxAttempts

\* While no dispatcher was slow, the row of a dispatcher at work is out of
\* reach of every other claim.
RowsGuarded ==
    slow = 0 => \A d \in Dispatchers : Working(d) =>
        message[dispatcher[d].of].status = "sending" /\ ~message[dispatcher[d].of].stale

IInv ==
    /\ TypeOK
    /\ WorkersHold
    /\ AttemptLeft
    /\ ErasedOnlyWhenTaken
    /\ ExclusiveUnlessSlow
    /\ RowsGuarded

LEMMA InitHolds == Init => IInv
<1>. SUFFICES ASSUME Init PROVE IInv
  OBVIOUS
<1>1. MaxAttempts \in Nat \ {0} /\ MaxCrashes \in Nat /\ MaxSlow \in Nat
  BY LimitAssumption
<1>2. NoMessage \in Rows /\ IdleDispatcher \in DispatcherStates
  BY <1>1 DEF NoMessage, Rows, IdleDispatcher, DispatcherStates
<1>3. TypeOK
  BY <1>1, <1>2 DEF Init, TypeOK
<1>4. \A d \in Dispatchers : ~Working(d)
  BY DEF Init, Working, IdleDispatcher
<1>5. AttemptLeft /\ ErasedOnlyWhenTaken
  BY <1>1 DEF Init, AttemptLeft, ErasedOnlyWhenTaken, NoMessage
<1>. QED
  BY <1>3, <1>4, <1>5 DEF IInv, WorkersHold, ExclusiveUnlessSlow, RowsGuarded

-----------------------------------------------------------------------------
(* Rows *)

LEMMA EnqueueHolds ==
    ASSUME IInv, NEW m \in Messages, Enqueue(m) PROVE IInv'
<1>1. NewMessage \in Rows /\ NewMessage.attempts < MaxAttempts /\ NewMessage.sealed
      /\ NewMessage.status = "queued"
  BY LimitAssumption DEF NewMessage, Rows
<1>2. \A n \in Messages : message'[n] = IF n = m THEN NewMessage ELSE message[n]
  BY DEF Enqueue, IInv, TypeOK
<1>3. TypeOK'
  BY <1>1 DEF Enqueue, IInv, TypeOK
<1>4. WorkersHold' /\ ExclusiveUnlessSlow'
  BY DEF Enqueue, IInv, WorkersHold, ExclusiveUnlessSlow, Working
<1>5. AttemptLeft' /\ ErasedOnlyWhenTaken'
  BY <1>1, <1>2 DEF Enqueue, IInv, AttemptLeft, ErasedOnlyWhenTaken
<1>6. RowsGuarded'
  BY <1>2 DEF Enqueue, IInv, RowsGuarded, WorkersHold, Working
<1>. QED
  BY <1>3, <1>4, <1>5, <1>6 DEF IInv

LEMMA TimeHolds ==
    ASSUME IInv, NEW m \in Messages, Time(m) PROVE IInv'
<1>1. /\ message' \in [Messages -> Rows]
      /\ \A n \in Messages : /\ message'[n].status = message[n].status
                             /\ message'[n].attempts = message[n].attempts
                             /\ message'[n].sealed = message[n].sealed
                             /\ n # m => message'[n] = message[n]
  <2>1. PICK r \in Rows : /\ message' = [message EXCEPT ![m] = r]
                          /\ r.status = message[m].status /\ r.attempts = message[m].attempts
                          /\ r.sealed = message[m].sealed
    <3>1. CASE Age(m)
      <4>. DEFINE new == [message[m] EXCEPT !.stale = TRUE]
      <4>1. /\ new \in Rows /\ new.status = message[m].status
            /\ new.attempts = message[m].attempts /\ new.sealed = message[m].sealed
        BY DEF IInv, TypeOK, Rows
      <4>2. message' = [message EXCEPT ![m] = new]
        BY <3>1 DEF Age, IInv, TypeOK, Rows
      <4>. HIDE DEF new
      <4>. QED
        BY <4>1, <4>2
    <3>2. CASE FallDue(m)
      <4>. DEFINE new == [message[m] EXCEPT !.due = TRUE]
      <4>1. /\ new \in Rows /\ new.status = message[m].status
            /\ new.attempts = message[m].attempts /\ new.sealed = message[m].sealed
        BY DEF IInv, TypeOK, Rows
      <4>2. message' = [message EXCEPT ![m] = new]
        BY <3>2 DEF FallDue, IInv, TypeOK, Rows
      <4>. HIDE DEF new
      <4>. QED
        BY <4>1, <4>2
    <3>3. CASE Expire(m)
      <4>. DEFINE new == [message[m] EXCEPT !.expired = TRUE]
      <4>1. /\ new \in Rows /\ new.status = message[m].status
            /\ new.attempts = message[m].attempts /\ new.sealed = message[m].sealed
        BY DEF IInv, TypeOK, Rows
      <4>2. message' = [message EXCEPT ![m] = new]
        BY <3>3 DEF Expire, IInv, TypeOK, Rows
      <4>. HIDE DEF new
      <4>. QED
        BY <4>1, <4>2
    <3>. QED
      BY <3>1, <3>2, <3>3 DEF Time
  <2>. QED
    BY <2>1 DEF IInv, TypeOK
<1>2. UNCHANGED <<dispatcher, sends, taken, crashes>>
  BY DEF Time, Age, FallDue, Expire
<1>3. slow' \in 0..MaxSlow /\ slow' >= slow
  BY LimitAssumption DEF Time, Age, FallDue, Expire, IInv, TypeOK
<1>4. TypeOK'
  BY <1>1, <1>2, <1>3 DEF IInv, TypeOK
<1>5. WorkersHold' /\ AttemptLeft' /\ ErasedOnlyWhenTaken'
  BY <1>1, <1>2 DEF IInv, WorkersHold, AttemptLeft, ErasedOnlyWhenTaken, Working
<1>6. slow' = 0 => slow = 0
  BY <1>3 DEF IInv, TypeOK
<1>7. ExclusiveUnlessSlow'
  BY <1>2, <1>6 DEF IInv, ExclusiveUnlessSlow, Working
<1>8. RowsGuarded'
  <2>. SUFFICES ASSUME slow' = 0, NEW d \in Dispatchers, Working(d)
                PROVE  /\ message'[dispatcher[d].of].status = "sending"
                       /\ ~message'[dispatcher[d].of].stale
    BY <1>2 DEF RowsGuarded, Working
  <2>1. dispatcher[d].of \in Messages /\ message[dispatcher[d].of].status = "sending"
        /\ ~message[dispatcher[d].of].stale
    BY <1>6 DEF IInv, WorkersHold, RowsGuarded
  <2>2. CASE Age(m)
    <3>1. ~Held(m)
      BY <2>2, <1>6 DEF Age, IInv, TypeOK
    <3>. QED
      BY <1>1, <2>1, <3>1 DEF Held
  <2>3. CASE FallDue(m) \/ Expire(m)
    <3>1. message'[m].stale = message[m].stale
      BY <2>3 DEF FallDue, Expire, IInv, TypeOK, Rows
    <3>. QED
      BY <1>1, <2>1, <3>1
  <2>. QED
    BY <2>2, <2>3 DEF Time
<1>. QED
  BY <1>4, <1>5, <1>7, <1>8 DEF IInv

-----------------------------------------------------------------------------
(* Dispatchers *)

\* A claim takes a row no dispatcher works for, unless one was slow; the sweep
\* leaves rows at work alone.
LEMMA ClaimHolds ==
    ASSUME IInv, NEW d \in Dispatchers, Claim(d) PROVE IInv'
<1>1. /\ Swept \in [Messages -> Rows]
      /\ \A n \in Messages : /\ Swept[n].attempts = message[n].attempts
                             /\ Swept[n].sealed = message[n].sealed
                             /\ Swept[n] = message[n] \/ Swept[n].status = "expired"
                             /\ message[n].status = "sending" => Swept[n] = message[n]
  BY DEF Swept, Waiting, IInv, TypeOK, Rows, Settled
<1>2. UNCHANGED <<sends, taken, crashes, slow>>
  BY DEF Claim
<1>3. ASSUME NEW m \in Messages, Claimable(message[m]),
             message' = [Swept EXCEPT ![m].status = "sending", ![m].stale = FALSE],
             dispatcher' = [dispatcher EXCEPT ![d] =
                    [pc |-> "claimed", of |-> m, attempts |-> message[m].attempts,
                     sealed |-> message[m].sealed]]
      PROVE  IInv'
  <2>1. message[m].status \in {"queued", "retry", "sending"}
        /\ message[m].attempts \in 0..MaxAttempts - 1
    <3>1. message[m].status \in {"queued", "retry", "sending"}
      BY <1>3 DEF Claimable, Waiting
    <3>2. message[m].attempts \in 0..MaxAttempts /\ message[m].attempts < MaxAttempts
      BY <3>1 DEF IInv, TypeOK, Rows, AttemptLeft
    <3>. QED
      BY <3>1, <3>2, LimitAssumption
  <2>2. /\ message'[m] = [Swept[m] EXCEPT !.status = "sending", !.stale = FALSE]
        /\ \A n \in Messages \ {m} : message'[n] = Swept[n]
    BY <1>1, <1>3
  <2>3. message'[m] \in Rows /\ message'[m].status = "sending" /\ ~message'[m].stale
        /\ message'[m].attempts = message[m].attempts /\ message'[m].sealed = message[m].sealed
    BY <1>1, <2>2 DEF Rows
  <2>4. /\ dispatcher'[d] = [pc |-> "claimed", of |-> m, attempts |-> message[m].attempts,
                             sealed |-> message[m].sealed]
        /\ \A e \in Dispatchers \ {d} : dispatcher'[e] = dispatcher[e]
    BY <1>3 DEF IInv, TypeOK
  <2>5. TypeOK'
    <3>1. message' \in [Messages -> Rows]
      BY <1>1, <1>3, <2>2, <2>3
    <3>2. dispatcher'[d] \in DispatcherStates
      BY <2>1, <2>4 DEF IInv, TypeOK, Rows, DispatcherStates
    <3>3. dispatcher' \in [Dispatchers -> DispatcherStates]
      BY <1>3, <2>4, <3>2 DEF IInv, TypeOK
    <3>. QED
      BY <1>2, <3>1, <3>3 DEF IInv, TypeOK
  <2>6. WorkersHold'
    BY <1>2, <2>4 DEF IInv, WorkersHold, Working
  <2>7. AttemptLeft' /\ ErasedOnlyWhenTaken'
    <3>1. ASSUME NEW n \in Messages
          PROVE  /\ message'[n].attempts = message[n].attempts
                 /\ message'[n].sealed = message[n].sealed
                 /\ message'[n].status = "accepted" => message[n].status = "accepted"
                 /\ message'[n].status \in {"absent", "queued", "sending", "retry"} =>
                       message[n].status \in {"absent", "queued", "sending", "retry"}
      <4>1. CASE n = m
        BY <4>1, <2>1, <2>3
      <4>2. CASE n # m
        BY <4>2, <1>1, <2>2
      <4>. QED
        BY <4>1, <4>2
    <3>2. AttemptLeft'
      BY <3>1 DEF IInv, AttemptLeft
    <3>3. ErasedOnlyWhenTaken'
      BY <1>2, <3>1 DEF IInv, ErasedOnlyWhenTaken
    <3>. QED
      BY <3>2, <3>3
  <2>8. slow = 0 => \A e \in Dispatchers : Working(e) => dispatcher[e].of # m
    BY <1>3 DEF IInv, RowsGuarded, Claimable, Waiting
  <2>9. ExclusiveUnlessSlow'
    BY <1>2, <2>4, <2>8 DEF IInv, ExclusiveUnlessSlow, Working
  <2>10. RowsGuarded'
    <3>. SUFFICES ASSUME slow = 0, NEW e \in Dispatchers, Working(e)'
                  PROVE  /\ message'[dispatcher'[e].of].status = "sending"
                         /\ ~message'[dispatcher'[e].of].stale
      BY <1>2 DEF RowsGuarded
    <3>1. CASE e = d
      BY <3>1, <2>3, <2>4
    <3>2. CASE e # d
      <4>1. Working(e) /\ dispatcher'[e] = dispatcher[e]
        BY <3>2, <2>4 DEF Working
      <4>2. dispatcher[e].of \in Messages \ {m} /\ message[dispatcher[e].of].status = "sending"
            /\ ~message[dispatcher[e].of].stale
        BY <4>1, <2>8 DEF IInv, WorkersHold, RowsGuarded
      <4>. QED
        BY <4>1, <4>2, <1>1, <2>2
    <3>. QED
      BY <3>1, <3>2
  <2>. QED
    BY <2>5, <2>6, <2>7, <2>9, <2>10 DEF IInv
<1>4. ASSUME message' = Swept, UNCHANGED dispatcher PROVE IInv'
  <2>1. TypeOK' /\ WorkersHold' /\ ExclusiveUnlessSlow'
    BY <1>1, <1>2, <1>4 DEF IInv, TypeOK, WorkersHold, ExclusiveUnlessSlow, Working
  <2>2. AttemptLeft' /\ ErasedOnlyWhenTaken'
    BY <1>1, <1>2, <1>4 DEF IInv, AttemptLeft, ErasedOnlyWhenTaken
  <2>3. RowsGuarded'
    BY <1>1, <1>2, <1>4 DEF IInv, RowsGuarded, WorkersHold, Working
  <2>. QED
    BY <2>1, <2>2, <2>3 DEF IInv
<1>. QED
  BY <1>3, <1>4 DEF Claim

\* What one dispatcher does that leaves the rows alone: it goes on with its
\* message or becomes idle, and nothing that was taken is forgotten.
LEMMA RowsUntouched ==
    ASSUME IInv, NEW d \in Dispatchers, UNCHANGED <<message, slow>>,
           dispatcher' \in [Dispatchers -> DispatcherStates],
           \A e \in Dispatchers \ {d} : dispatcher'[e] = dispatcher[e],
           Working(d)' => Working(d) /\ dispatcher'[d].of = dispatcher[d].of,
           Working(d)' /\ dispatcher'[d].pc = "sent" => taken'[dispatcher[d].of],
           taken' \in [Messages -> BOOLEAN],
           \A m \in Messages : taken[m] => taken'[m],
           sends' \in [Messages -> Nat], crashes' \in 0..MaxCrashes
    PROVE  IInv'
<1>1. \A e \in Dispatchers : Working(e)' => Working(e) /\ dispatcher'[e].of = dispatcher[e].of
  BY DEF Working
<1>2. TypeOK'
  BY DEF IInv, TypeOK
<1>3. WorkersHold'
  BY <1>1 DEF IInv, WorkersHold, Working
<1>4. AttemptLeft' /\ ErasedOnlyWhenTaken'
  BY DEF IInv, AttemptLeft, ErasedOnlyWhenTaken
<1>5. ExclusiveUnlessSlow' /\ RowsGuarded'
  BY <1>1 DEF IInv, ExclusiveUnlessSlow, RowsGuarded
<1>. QED
  BY <1>2, <1>3, <1>4, <1>5 DEF IInv

LEMMA SendHolds ==
    ASSUME IInv, NEW d \in Dispatchers, Send(d) PROVE IInv'
<1>. DEFINE m == dispatcher[d].of
<1>1. Working(d) /\ m \in Messages
  BY DEF Send, Working, IInv, WorkersHold
<1>2. PICK pc \in {"sent", "failing"} :
        /\ dispatcher' = [dispatcher EXCEPT ![d].pc = pc]
        /\ sends' \in {sends, [sends EXCEPT ![m] = @ + 1]}
        /\ taken' \in {taken, [taken EXCEPT ![m] = TRUE]}
        /\ pc = "sent" => taken' = [taken EXCEPT ![m] = TRUE]
  BY DEF Send, At
<1>3. sends' \in [Messages -> Nat] /\ taken' \in [Messages -> BOOLEAN]
      /\ \A n \in Messages : taken[n] => taken'[n]
  <2>1. sends \in [Messages -> Nat] /\ taken \in [Messages -> BOOLEAN]
    BY DEF IInv, TypeOK
  <2>2. [sends EXCEPT ![m] = @ + 1] \in [Messages -> Nat]
    BY <1>1, <2>1
  <2>3. [taken EXCEPT ![m] = TRUE] \in [Messages -> BOOLEAN]
        /\ \A n \in Messages : taken[n] => [taken EXCEPT ![m] = TRUE][n]
    BY <1>1, <2>1
  <2>. QED
    BY <1>2, <2>1, <2>2, <2>3
<1>4. /\ dispatcher' \in [Dispatchers -> DispatcherStates]
      /\ dispatcher'[d].of = m /\ dispatcher'[d].pc = pc
      /\ \A e \in Dispatchers \ {d} : dispatcher'[e] = dispatcher[e]
  BY <1>2 DEF IInv, TypeOK, DispatcherStates
<1>5. dispatcher'[d].pc = "sent" => taken'[m]
  BY <1>1, <1>2, <1>4 DEF IInv, TypeOK
<1>6. UNCHANGED <<message, slow>> /\ crashes' \in 0..MaxCrashes
  BY DEF Send, IInv, TypeOK
<1>. QED
  BY <1>1, <1>3, <1>4, <1>5, <1>6, RowsUntouched

LEMMA FaultHolds ==
    ASSUME IInv, NEW d \in Dispatchers, Fault(d) PROVE IInv'
<1>1. UNCHANGED <<message, slow, sends, taken>> /\ crashes' \in 0..MaxCrashes
  BY LimitAssumption DEF Fault, RecordingLost, Abandon, Crash, IInv, TypeOK
<1>2. taken \in [Messages -> BOOLEAN] /\ sends \in [Messages -> Nat]
  BY DEF IInv, TypeOK
<1>3. CASE RecordingLost(d)
  <2>1. Working(d)
    BY <1>3 DEF RecordingLost, Working
  <2>2. /\ dispatcher' \in [Dispatchers -> DispatcherStates]
        /\ dispatcher'[d].of = dispatcher[d].of /\ dispatcher'[d].pc = "failing"
        /\ \A e \in Dispatchers \ {d} : dispatcher'[e] = dispatcher[e]
    BY <1>3 DEF RecordingLost, At, IInv, TypeOK, DispatcherStates
  <2>. QED
    BY <1>1, <1>2, <2>1, <2>2, RowsUntouched
<1>4. CASE Abandon(d)
  <2>1. IdleDispatcher \in DispatcherStates
    BY LimitAssumption DEF IdleDispatcher, DispatcherStates
  <2>2. /\ dispatcher' \in [Dispatchers -> DispatcherStates] /\ ~Working(d)'
        /\ \A e \in Dispatchers \ {d} : dispatcher'[e] = dispatcher[e]
    BY <1>4, <2>1 DEF Abandon, Idle, IInv, TypeOK, Working, IdleDispatcher
  <2>. QED
    BY <1>1, <1>2, <2>2, RowsUntouched
<1>. QED
  BY <1>3, <1>4 DEF Fault

\* Recording a result: by id, over whatever the row holds by now.  A row
\* that no dispatcher was slow with is the recording dispatcher's own.
LEMMA RecordHolds ==
    ASSUME IInv, NEW d \in Dispatchers, RecordAccepted(d) \/ RecordFailure(d) PROVE IInv'
<1>. DEFINE m == dispatcher[d].of
<1>1. Working(d) /\ m \in Messages
  BY DEF RecordAccepted, RecordFailure, Working, IInv, WorkersHold
<1>2. UNCHANGED <<sends, taken, crashes, slow>>
  BY DEF RecordAccepted, RecordFailure
<1>3. PICK r \in Rows :
        /\ message' = [message EXCEPT ![m] = r]
        /\ r.status \in {"accepted", "failed", "retry"}
        /\ r.status = "retry" => r.attempts < MaxAttempts
        /\ ~r.sealed \/ r.status = "accepted" => taken[m]
  <2>1. CASE RecordAccepted(d)
    <3>. DEFINE r == [message[m] EXCEPT !.status = "accepted", !.sealed = FALSE, !.stale = FALSE]
    <3>1. r \in Rows /\ r.status = "accepted"
      BY <1>1 DEF IInv, TypeOK, Rows, Settled
    <3>2. message' = [message EXCEPT ![m] = r]
      BY <1>1, <2>1 DEF RecordAccepted, IInv, TypeOK, Rows
    <3>3. taken[m]
      BY <1>1, <2>1 DEF RecordAccepted, IInv, WorkersHold
    <3>. QED
      BY <3>1, <3>2, <3>3
  <2>2. CASE RecordFailure(d)
    <3>. DEFINE n == dispatcher[d].attempts + 1
                r == [message[m] EXCEPT !.status = IF n >= MaxAttempts THEN "failed" ELSE "retry",
                                        !.attempts = n, !.due = FALSE, !.stale = FALSE]
    <3>1. n \in 0..MaxAttempts
      BY LimitAssumption DEF IInv, TypeOK, DispatcherStates
    <3>2. /\ r \in Rows /\ r.attempts = n /\ r.sealed = message[m].sealed
          /\ r.status = IF n >= MaxAttempts THEN "failed" ELSE "retry"
      BY <1>1, <3>1, ZenonT(30) DEF IInv, TypeOK, Rows, Settled
    <3>3. message' = [message EXCEPT ![m] = r]
      BY <1>1, <2>2 DEF RecordFailure, IInv, TypeOK, Rows
    <3>4. r.status = "retry" => r.attempts < MaxAttempts
      BY <3>1, <3>2, LimitAssumption
    <3>5. ~r.sealed => taken[m]
      BY <1>1, <3>2 DEF IInv, ErasedOnlyWhenTaken
    <3>6. r \in Rows /\ r.status \in {"failed", "retry"}
      BY <3>2
    <3>. HIDE DEF r, n
    <3>. QED
      BY <3>3, <3>4, <3>5, <3>6
  <2>. QED
    BY <2>1, <2>2
<1>4. \A n \in Messages : message'[n] = IF n = m THEN r ELSE message[n]
  BY <1>1, <1>3 DEF IInv, TypeOK
<1>5. /\ dispatcher' \in [Dispatchers -> DispatcherStates] /\ ~Working(d)'
      /\ \A e \in Dispatchers \ {d} : dispatcher'[e] = dispatcher[e]
  <2>1. IdleDispatcher \in DispatcherStates
    BY LimitAssumption DEF IdleDispatcher, DispatcherStates
  <2>2. dispatcher' = [dispatcher EXCEPT ![d] = IdleDispatcher]
    BY DEF RecordAccepted, RecordFailure, Idle
  <2>3. dispatcher \in [Dispatchers -> DispatcherStates] /\ IdleDispatcher.pc = "idle"
    BY DEF IInv, TypeOK, IdleDispatcher
  <2>. QED
    BY <2>1, <2>2, <2>3 DEF Working
<1>6. \A e \in Dispatchers : Working(e)' => e # d /\ Working(e) /\ dispatcher'[e] = dispatcher[e]
  BY <1>5 DEF Working
<1>7. TypeOK'
  BY <1>1, <1>2, <1>3, <1>5 DEF IInv, TypeOK
<1>8. WorkersHold' /\ ExclusiveUnlessSlow'
  BY <1>2, <1>6 DEF IInv, WorkersHold, ExclusiveUnlessSlow
<1>9. AttemptLeft' /\ ErasedOnlyWhenTaken'
  BY <1>2, <1>3, <1>4 DEF IInv, AttemptLeft, ErasedOnlyWhenTaken
<1>10. RowsGuarded'
  <2>. SUFFICES ASSUME slow = 0, NEW e \in Dispatchers, Working(e)'
                PROVE  /\ message'[dispatcher'[e].of].status = "sending"
                       /\ ~message'[dispatcher'[e].of].stale
    BY <1>2 DEF RowsGuarded
  <2>1. e # d /\ Working(e) /\ dispatcher'[e] = dispatcher[e]
    BY <1>6
  <2>2. dispatcher[e].of \in Messages \ {m} /\ message[dispatcher[e].of].status = "sending"
        /\ ~message[dispatcher[e].of].stale
    BY <1>1, <2>1 DEF IInv, WorkersHold, RowsGuarded, ExclusiveUnlessSlow
  <2>. QED
    BY <1>4, <2>1, <2>2
<1>. QED
  BY <1>7, <1>8, <1>9, <1>10 DEF IInv

-----------------------------------------------------------------------------
(* Theorems *)

LEMMA StepHolds == IInv /\ [Next]_vars => IInv'
<1>. SUFFICES ASSUME IInv, [Next]_vars PROVE IInv'
  OBVIOUS
<1>1. CASE UNCHANGED vars
  BY <1>1 DEF vars, IInv, TypeOK, WorkersHold, AttemptLeft, ErasedOnlyWhenTaken,
              ExclusiveUnlessSlow, RowsGuarded, Working
<1>2. ASSUME NEW m \in Messages, Enqueue(m) \/ Time(m) PROVE IInv'
  BY <1>2, EnqueueHolds, TimeHolds
<1>3. ASSUME NEW d \in Dispatchers, DispatchOne(d) PROVE IInv'
  BY <1>3, ClaimHolds, SendHolds, RecordHolds DEF DispatchOne
<1>4. ASSUME NEW d \in Dispatchers, Fault(d) PROVE IInv'
  BY <1>4, FaultHolds
<1>. QED
  BY <1>1, <1>2, <1>3, <1>4 DEF Next

\* The inductive invariant of rows and dispatchers holds in every reachable
\* state (email-dispatcher.ts:49-149).
THEOREM InvariantHolds == Spec => []IInv
<1>. QED
  BY InitHolds, StepHolds, PTL DEF Spec

\* No row counts more attempts than config.retry.maxAttempts, and no
\* dispatcher takes up an attempt beyond it.
THEOREM TypesHold == Spec => []TypeOK
<1>1. IInv => TypeOK
  BY DEF IInv
<1>. QED
  BY <1>1, InvariantHolds, PTL

\* However recordings of slow, repeated and failed dispatchers overtake each
\* other, a payload is erased only once the SMTP server took the message.
THEOREM PayloadsKept == Spec => []ErasedOnlyWhenTaken
<1>1. IInv => ErasedOnlyWhenTaken
  BY DEF IInv
<1>. QED
  BY <1>1, InvariantHolds, PTL

\* The claim by status and age alone keeps dispatchers apart as long as none
\* is slower than the two minutes, whichever of them die.
THEOREM ClaimsExclusive == Spec => []ExclusiveUnlessSlow
<1>1. IInv => ExclusiveUnlessSlow
  BY DEF IInv
<1>. QED
  BY <1>1, InvariantHolds, PTL

\* As long as none is slow, no recording by id reaches a settled row.
THEOREM SettledRowsStay == Spec => FinalUnlessSlow
<1>. DEFINE Stays == slow = 0 => \A m \in Messages : message[m].status \in Settled =>
                        /\ message'[m].status = message[m].status
                        /\ message'[m].attempts = message[m].attempts
                        /\ message'[m].sealed = message[m].sealed
<1>1. IInv /\ [Next]_vars => [Stays]_vars
  <2>. SUFFICES ASSUME IInv, Next, slow = 0, NEW m \in Messages, message[m].status \in Settled
                PROVE  /\ message'[m].status = message[m].status
                       /\ message'[m].attempts = message[m].attempts
                       /\ message'[m].sealed = message[m].sealed
    OBVIOUS
  <2>1. message \in [Messages -> Rows] /\ message[m].status \notin {"absent", "queued", "retry", "sending"}
    BY DEF IInv, TypeOK, Settled
  <2>2. ASSUME NEW n \in Messages, Enqueue(n) \/ Time(n) PROVE message'[m].status = message[m].status
            /\ message'[m].attempts = message[m].attempts /\ message'[m].sealed = message[m].sealed
    BY <2>1, <2>2 DEF Enqueue, Time, Age, FallDue, Expire, Rows
  <2>3. ASSUME NEW d \in Dispatchers, Claim(d) PROVE message'[m] = message[m]
    BY <2>1, <2>3 DEF Claim, Claimable, Waiting, Swept
  <2>4. ASSUME NEW d \in Dispatchers, RecordAccepted(d) \/ RecordFailure(d) PROVE message'[m] = message[m]
    <3>1. Working(d)
      BY <2>4 DEF RecordAccepted, RecordFailure, Working
    <3>2. dispatcher[d].of # m
      BY <2>1, <3>1 DEF IInv, RowsGuarded
    <3>. QED
      BY <2>1, <2>4, <3>2 DEF RecordAccepted, RecordFailure
  <2>5. ASSUME NEW d \in Dispatchers, Send(d) \/ Fault(d) PROVE message'[m] = message[m]
    BY <2>5 DEF Send, Fault, RecordingLost, Abandon
  <2>. QED
    BY <2>2, <2>3, <2>4, <2>5 DEF Next, DispatchOne
<1>. QED
  BY <1>1, InvariantHolds, PTL DEF Spec, FinalUnlessSlow

-----------------------------------------------------------------------------
(* How often a message is sent *)

\* The attempts that are still to come: those a dispatcher at work may make or
\* give back to the row, and those the row grants to the next claim.  A row
\* that is being sent grants none while a dispatcher is at work that read no
\* larger count, since its attempts are those of the row.
Left(d) == MaxAttempts - dispatcher[d].attempts - (IF dispatcher[d].pc = "claimed" THEN 0 ELSE 1)
Works(d, m) == Working(d) /\ dispatcher[d].of = m
Owed(m) == [d \in Dispatchers |-> IF Works(d, m) THEN Left(d) ELSE 0]
Covered(m) == \E d \in Dispatchers : Works(d, m) /\ dispatcher[d].attempts <= message[m].attempts
Granted(m) ==
    CASE message[m].status = "absent" -> MaxAttempts
      [] message[m].status \in Settled -> 0
      [] message[m].status = "sending" /\ ~message[m].stale /\ Covered(m) -> 0
      [] OTHER -> MaxAttempts - message[m].attempts

\* Sends and attempts to come stay within the bound of SendsBounded.
Budget == MaxAttempts * (1 + slow) + crashes
Within(m) == sends[m] + Granted(m) + Total(Owed(m), Dispatchers) <= Budget
SendsPaid == \A m \in Messages : Within(m)

LEMMA Amounts ==
    ASSUME IInv, NEW m \in Messages
    PROVE  /\ \A d \in Dispatchers : Left(d) \in Nat /\ Owed(m)[d] \in Nat
           /\ Granted(m) \in 0..MaxAttempts /\ sends[m] \in Nat /\ Budget \in Nat
           /\ message[m].attempts \in 0..MaxAttempts
           /\ Total(Owed(m), Dispatchers) \in Nat
<1>1. MaxAttempts \in Nat \ {0} /\ slow \in Nat /\ crashes \in Nat /\ sends[m] \in Nat
  BY LimitAssumption DEF IInv, TypeOK
<1>2. \A d \in Dispatchers : dispatcher[d].attempts \in 0..MaxAttempts - 1
  BY DEF IInv, TypeOK, DispatcherStates
<1>3. \A d \in Dispatchers : Left(d) \in Nat
  BY <1>1, <1>2 DEF Left
<1>4. \A d \in Dispatchers : Owed(m)[d] \in Nat
  BY <1>3 DEF Owed
<1>5. message[m].attempts \in 0..MaxAttempts
  BY DEF IInv, TypeOK, Rows
<1>6. Granted(m) \in 0..MaxAttempts
  BY <1>1, <1>5 DEF Granted
<1>7. Total(Owed(m), Dispatchers) \in Nat
  BY <1>4, ProcessAssumption, TotalType
<1>8. Budget \in Nat
  BY <1>1 DEF Budget
<1>. QED
  BY <1>1, <1>3, <1>4, <1>5, <1>6, <1>7, <1>8

LEMMA AmountsNext ==
    ASSUME IInv', NEW m \in Messages
    PROVE  /\ \A d \in Dispatchers : Left(d)' \in Nat /\ Owed(m)'[d] \in Nat
           /\ Granted(m)' \in 0..MaxAttempts /\ sends'[m] \in Nat /\ Budget' \in Nat
           /\ message'[m].attempts \in 0..MaxAttempts
           /\ Total(Owed(m), Dispatchers)' \in Nat
<1>1. MaxAttempts \in Nat \ {0} /\ slow' \in Nat /\ crashes' \in Nat /\ sends'[m] \in Nat
  BY LimitAssumption DEF IInv, TypeOK
<1>2. \A d \in Dispatchers : dispatcher'[d].attempts \in 0..MaxAttempts - 1
  BY DEF IInv, TypeOK, DispatcherStates
<1>3. \A d \in Dispatchers : Left(d)' \in Nat
  BY <1>1, <1>2 DEF Left
<1>4. \A d \in Dispatchers : Owed(m)'[d] \in Nat
  BY <1>3 DEF Owed
<1>5. message'[m].attempts \in 0..MaxAttempts
  BY DEF IInv, TypeOK, Rows
<1>6. Granted(m)' \in 0..MaxAttempts
  BY <1>1, <1>5 DEF Granted
<1>7. Total(Owed(m), Dispatchers)' \in Nat
  <2>1. \A g : (\A d \in Dispatchers : g[d] \in Nat) => Total(g, Dispatchers) \in Nat
    BY ProcessAssumption, TotalType
  <2>2. PICK g : g = Owed(m)'
    OBVIOUS
  <2>3. Total(Owed(m), Dispatchers)' = Total(g, Dispatchers)
    BY <2>2
  <2>. QED
    BY <1>4, <2>1, <2>2, <2>3
<1>8. Budget' \in Nat
  <2>1. \A a, b \in Nat : MaxAttempts * (1 + a) + b \in Nat
    BY <1>1
  <2>2. Budget' = MaxAttempts * (1 + slow') + crashes'
    BY DEF Budget
  <2>. QED
    BY <1>1, <2>1, <2>2
<1>. QED
  BY <1>1, <1>3, <1>4, <1>5, <1>6, <1>7, <1>8

\* A step of one dispatcher moves a sum by what it moves that dispatcher's part.
LEMMA OwedStep ==
    ASSUME IInv, IInv', NEW m \in Messages, NEW d \in Dispatchers,
           \A e \in Dispatchers \ {d} : dispatcher'[e] = dispatcher[e]
    PROVE  Total(Owed(m), Dispatchers)' =
               Total(Owed(m), Dispatchers) - Owed(m)[d] + Owed(m)'[d]
<1>1. \A e \in Dispatchers : Owed(m)[e] \in Nat /\ Owed(m)'[e] \in Nat
  BY Amounts, AmountsNext
<1>2. \A e \in Dispatchers \ {d} : Owed(m)[e] = Owed(m)'[e]
  BY DEF Owed, Works, Working, Left
<1>. QED
  BY <1>1, <1>2, ProcessAssumption, TotalChanged

LEMMA OwedSame ==
    ASSUME NEW m \in Messages, UNCHANGED dispatcher
    PROVE  Total(Owed(m), Dispatchers)' = Total(Owed(m), Dispatchers) /\ Owed(m)' = Owed(m)
<1>. QED
  BY DEF Owed, Works, Working, Left

LEMMA BudgetGrows ==
    ASSUME IInv, IInv', slow' >= slow, crashes' >= crashes
    PROVE  /\ Budget' >= Budget
           /\ slow' = slow + 1 => Budget' >= Budget + MaxAttempts
           /\ crashes' = crashes + 1 => Budget' >= Budget + 1
<1>1. /\ MaxAttempts \in Nat /\ slow \in Nat /\ slow' \in Nat
      /\ crashes \in Nat /\ crashes' \in Nat
  BY LimitAssumption DEF IInv, TypeOK
<1>2. PICK k \in Nat : slow' = slow + k
  <2>1. \A a, b \in Nat : b >= a => b - a \in Nat /\ b = a + (b - a)
    OBVIOUS
  <2>. QED
    BY <1>1, <2>1
<1>3. MaxAttempts * (1 + (slow + k)) = MaxAttempts * (1 + slow) + MaxAttempts * k
  BY <1>1
<1>4. MaxAttempts * k \in Nat /\ MaxAttempts * (1 + slow) \in Nat
  BY <1>1
<1>5. slow' = slow + 1 => MaxAttempts * k = MaxAttempts
  BY <1>1, <1>2
<1>6. /\ Budget = MaxAttempts * (1 + slow) + crashes
      /\ Budget' = (MaxAttempts * (1 + slow) + MaxAttempts * k) + crashes'
  BY <1>2, <1>3 DEF Budget
<1>7. \A p, q, b, c \in Nat : c >= b =>
          /\ (p + q) + c >= p + b
          /\ c = b + 1 => (p + q) + c >= (p + b) + 1
          /\ q = MaxAttempts => (p + q) + c >= (p + b) + MaxAttempts
  BY <1>1
<1>. DEFINE x == MaxAttempts * (1 + slow)
            y == MaxAttempts * k
<1>8. /\ Budget = x + crashes /\ Budget' = (x + y) + crashes'
      /\ x \in Nat /\ y \in Nat /\ (slow' = slow + 1 => y = MaxAttempts)
  BY <1>4, <1>5, <1>6
<1>. HIDE DEF x, y
<1>9. /\ (x + y) + crashes' >= x + crashes
      /\ crashes' = crashes + 1 => (x + y) + crashes' >= (x + crashes) + 1
      /\ y = MaxAttempts => (x + y) + crashes' >= (x + crashes) + MaxAttempts
  BY <1>1, <1>7, <1>8
<1>. QED
  BY <1>8, <1>9

\* A message with whose row and dispatchers a step does nothing, or that is
\* swept, owes no more than before.
LEMMA OthersPaid ==
    ASSUME IInv, IInv', NEW n \in Messages, Within(n), slow' >= slow, crashes' >= crashes,
           sends'[n] = sends[n],
           \A e \in Dispatchers : Works(e, n) \/ Works(e, n)' => dispatcher'[e] = dispatcher[e],
           message'[n] = message[n] \/ message'[n].status \in Settled
    PROVE  Within(n)'
<1>1. Owed(n)' = Owed(n)
  BY DEF Owed, Works, Working, Left
<1>2. Total(Owed(n), Dispatchers)' = Total(Owed(n), Dispatchers)
  BY <1>1
<1>3. Granted(n)' <= Granted(n)
  <2>0. Granted(n) \in Nat /\ Granted(n)' \in Nat
    BY Amounts, AmountsNext, LimitAssumption
  <2>1. CASE message'[n] = message[n]
    <3>1. Covered(n)' <=> Covered(n)
      BY <2>1 DEF Covered, Works, Working
    <3>2. Granted(n)' = Granted(n)
      BY <2>1, <3>1 DEF Granted
    <3>. QED
      BY <2>0, <3>2
  <2>2. CASE message'[n].status \in Settled
    <3>1. Granted(n)' = 0
      BY <2>2 DEF Granted, Settled
    <3>. QED
      BY <2>0, <3>1
  <2>. QED
    BY <2>1, <2>2
<1>4. /\ sends[n] \in Nat /\ Granted(n) \in Nat /\ Granted(n)' \in Nat
      /\ Total(Owed(n), Dispatchers) \in Nat /\ Budget \in Nat /\ Budget' \in Nat
  BY Amounts, AmountsNext, LimitAssumption
<1>5. Budget' >= Budget
  BY BudgetGrows
<1>. QED
  BY <1>2, <1>3, <1>4, <1>5 DEF Within

LEMMA TimePaid ==
    ASSUME IInv, IInv', SendsPaid, NEW m \in Messages, Enqueue(m) \/ Time(m) PROVE SendsPaid'
<1>1. UNCHANGED <<dispatcher, sends, crashes>> /\ slow' >= slow /\ crashes' >= crashes
  BY DEF Enqueue, Time, Age, FallDue, Expire, IInv, TypeOK
<1>2. message \in [Messages -> Rows]
  BY DEF IInv, TypeOK
<1>3. ASSUME NEW n \in Messages, n # m PROVE Within(n)'
  <2>1. message'[n] = message[n]
    BY <1>2, <1>3 DEF Enqueue, Time, Age, FallDue, Expire
  <2>. QED
    BY <1>1, <2>1, OthersPaid DEF SendsPaid
<1>4. Within(m)'
  <2>0. /\ sends[m] \in Nat /\ Granted(m) \in 0..MaxAttempts /\ Granted(m)' \in 0..MaxAttempts
        /\ Total(Owed(m), Dispatchers) \in Nat /\ Budget \in Nat /\ Budget' \in Nat
        /\ MaxAttempts \in Nat
    BY Amounts, AmountsNext, LimitAssumption
  <2>1. Budget' >= Budget /\ (slow' = slow + 1 => Budget' >= Budget + MaxAttempts)
    BY <1>1, BudgetGrows
  <2>2. Granted(m)' <= Granted(m) \/ slow' = slow + 1
    <3>1. CASE Enqueue(m)
      <4>1. message[m].status = "absent" /\ message'[m] = NewMessage
        BY <1>2, <3>1 DEF Enqueue
      <4>2. Granted(m) = MaxAttempts
        BY <4>1 DEF Granted, Settled
      <4>. QED
        BY <2>0, <4>2
    <3>2. CASE Age(m)
      <4>1. /\ message[m].status = "sending" /\ ~message[m].stale
            /\ message'[m] = [message[m] EXCEPT !.stale = TRUE]
            /\ Held(m) => slow' = slow + 1
        BY <1>2, <3>2 DEF Age
      <4>2. message'[m].status = "sending" /\ message'[m].attempts = message[m].attempts
            /\ message'[m].stale
        BY <1>2, <4>1 DEF Rows
      <4>3. Granted(m)' = MaxAttempts - message[m].attempts
        BY <4>2 DEF Granted, Settled
      <4>4. CASE ~Held(m)
        <5>1. ~Covered(m)
          BY <4>4 DEF Held, Covered, Works
        <5>2. Granted(m) = MaxAttempts - message[m].attempts
          BY <4>1, <5>1 DEF Granted, Settled
        <5>. QED
          BY <2>0, <4>3, <5>2
      <4>. QED
        BY <4>1, <4>4
    <3>3. CASE FallDue(m) \/ Expire(m)
      <4>1. /\ message'[m].status = message[m].status /\ message'[m].attempts = message[m].attempts
            /\ message'[m].stale = message[m].stale
        BY <1>2, <3>3 DEF FallDue, Expire, Rows
      <4>2. Covered(m)' <=> Covered(m)
        BY <1>1, <4>1 DEF Covered, Works, Working
      <4>3. Granted(m)' = Granted(m)
        BY <4>1, <4>2 DEF Granted
      <4>. QED
        BY <2>0, <4>3
    <3>. QED
      BY <3>1, <3>2, <3>3 DEF Time
  <2>3. Total(Owed(m), Dispatchers)' = Total(Owed(m), Dispatchers)
    BY <1>1, OwedSame
  <2>4. Within(m)
    BY DEF SendsPaid
  <2>. QED
    BY <1>1, <2>0, <2>1, <2>2, <2>3, <2>4 DEF Within
<1>. QED
  BY <1>3, <1>4 DEF SendsPaid

\* A claim moves what the row grants to the dispatcher that claims it.
LEMMA ClaimPaid ==
    ASSUME IInv, IInv', SendsPaid, NEW d \in Dispatchers, Claim(d) PROVE SendsPaid'
<1>1. UNCHANGED <<sends, crashes, slow>> /\ slow' >= slow /\ crashes' >= crashes
  BY DEF Claim, IInv, TypeOK
<1>2. message \in [Messages -> Rows] /\ dispatcher \in [Dispatchers -> DispatcherStates] /\ ~Working(d)
  BY DEF Claim, IInv, TypeOK
<1>3. \A n \in Messages : Swept[n] = message[n] \/ Swept[n].status \in Settled
  BY DEF Swept, Settled, IInv, TypeOK, Rows
<1>4. ASSUME NEW m \in Messages, Claimable(message[m]),
             message' = [Swept EXCEPT ![m].status = "sending", ![m].stale = FALSE],
             dispatcher' = [dispatcher EXCEPT ![d] =
                    [pc |-> "claimed", of |-> m, attempts |-> message[m].attempts,
                     sealed |-> message[m].sealed]]
      PROVE  SendsPaid'
  <2>1. /\ dispatcher'[d].pc = "claimed" /\ dispatcher'[d].of = m
        /\ dispatcher'[d].attempts = message[m].attempts
        /\ \A e \in Dispatchers \ {d} : dispatcher'[e] = dispatcher[e]
    BY <1>2, <1>4
  <2>2. /\ message'[m].status = "sending" /\ ~message'[m].stale
        /\ message'[m].attempts = message[m].attempts
        /\ \A n \in Messages \ {m} : message'[n] = Swept[n]
    <3>1. Swept \in [Messages -> Rows] /\ Swept[m].attempts = message[m].attempts
      BY DEF Swept, Waiting, IInv, TypeOK, Rows, Settled
    <3>. QED
      BY <1>4, <3>1 DEF Rows
  <2>3. ASSUME NEW n \in Messages, n # m PROVE Within(n)'
    <3>1. \A e \in Dispatchers : Works(e, n) \/ Works(e, n)' => dispatcher'[e] = dispatcher[e]
      BY <1>2, <2>1, <2>3 DEF Works
    <3>2. message'[n] = message[n] \/ message'[n].status \in Settled
      BY <1>3, <2>2, <2>3
    <3>. QED
      BY <1>1, <3>1, <3>2, OthersPaid DEF SendsPaid
  <2>4. Within(m)'
    <3>0. /\ sends[m] \in Nat /\ message[m].attempts \in 0..MaxAttempts /\ MaxAttempts \in Nat
          /\ Total(Owed(m), Dispatchers) \in Nat /\ Budget \in Nat
      BY Amounts, AmountsNext, LimitAssumption
    <3>1. Granted(m) = MaxAttempts - message[m].attempts
      BY <1>4 DEF Claimable, Waiting, Granted, Settled
    <3>2. Works(d, m)' /\ Covered(m)'
      <4>1. Works(d, m)'
        BY <2>1 DEF Works, Working
      <4>. QED
        BY <2>1, <2>2, <3>0, <4>1 DEF Covered
    <3>3. Granted(m)' = 0
      BY <2>2, <3>2 DEF Granted, Settled
    <3>4. Owed(m)[d] = 0 /\ Owed(m)'[d] = MaxAttempts - message[m].attempts
      BY <1>2, <2>1, <3>0, <3>2 DEF Owed, Works, Left
    <3>5. Total(Owed(m), Dispatchers)' =
              Total(Owed(m), Dispatchers) - Owed(m)[d] + Owed(m)'[d]
      BY <2>1, OwedStep
    <3>6. Budget' = Budget
      BY <1>1 DEF Budget
    <3>7. Within(m)
      BY DEF SendsPaid
    <3>. QED
      BY <1>1, <3>0, <3>1, <3>3, <3>4, <3>5, <3>6, <3>7 DEF Within
  <2>. QED
    BY <2>3, <2>4 DEF SendsPaid
<1>5. ASSUME message' = Swept, UNCHANGED dispatcher PROVE SendsPaid'
  BY <1>1, <1>3, <1>5, OthersPaid DEF SendsPaid
<1>. QED
  BY <1>4, <1>5 DEF Claim

\* What a dispatcher does for its message m: the others are not concerned.
LEMMA OwnPaid ==
    ASSUME IInv, IInv', SendsPaid, NEW d \in Dispatchers, NEW m \in Messages, Works(d, m),
           \A e \in Dispatchers \ {d} : dispatcher'[e] = dispatcher[e],
           Working(d)' => dispatcher'[d].of = m,
           slow' = slow, crashes' >= crashes,
           \A n \in Messages \ {m} : message'[n] = message[n] /\ sends'[n] = sends[n],
           sends'[m] + Granted(m)' + Owed(m)'[d] + crashes
               <= sends[m] + Granted(m) + Owed(m)[d] + crashes'
    PROVE  SendsPaid'
<1>1. ASSUME NEW n \in Messages, n # m PROVE Within(n)'
  <2>1. \A e \in Dispatchers : Works(e, n) \/ Works(e, n)' => dispatcher'[e] = dispatcher[e]
    BY <1>1 DEF Works
  <2>2. slow' >= slow
    BY DEF IInv, TypeOK
  <2>. QED
    BY <1>1, <2>1, <2>2, OthersPaid DEF SendsPaid
<1>2. Within(m)'
  <2>1. /\ sends[m] \in Nat /\ Granted(m) \in 0..MaxAttempts /\ Owed(m)[d] \in Nat
        /\ sends'[m] \in Nat /\ Granted(m)' \in 0..MaxAttempts /\ Owed(m)'[d] \in Nat
        /\ Total(Owed(m), Dispatchers) \in Nat /\ Total(Owed(m), Dispatchers)' \in Nat
    BY Amounts, AmountsNext, LimitAssumption
  <2>2. Total(Owed(m), Dispatchers)' = Total(Owed(m), Dispatchers) - Owed(m)[d] + Owed(m)'[d]
    BY OwedStep
  <2>3. PICK b \in Nat : Budget = b + crashes /\ Budget' = b + crashes'
    <3>1. MaxAttempts * (1 + slow) \in Nat
      BY LimitAssumption DEF IInv, TypeOK
    <3>. QED
      BY <3>1 DEF Budget
  <2>4. crashes \in Nat /\ crashes' \in Nat
    BY DEF IInv, TypeOK
  <2>5. sends[m] + Granted(m) + Total(Owed(m), Dispatchers) <= Budget
    BY DEF SendsPaid, Within
  <2>6. sends'[m] + Granted(m)' + Total(Owed(m), Dispatchers)' <= Budget'
    BY <2>1, <2>2, <2>3, <2>4, <2>5
  <2>. QED
    BY <2>6 DEF Within
<1>. QED
  BY <1>1, <1>2 DEF SendsPaid

\* An exchange uses up one of the dispatcher's attempts; a payload that cannot
\* be decrypted uses it up without an exchange.
LEMMA SendPaid ==
    ASSUME IInv, IInv', SendsPaid, NEW d \in Dispatchers, Send(d) PROVE SendsPaid'
<1>0. PICK m \in Messages : m = dispatcher[d].of /\ Works(d, m)
  BY DEF Send, Working, Works, IInv, WorkersHold
<1>1. Works(d, m) /\ dispatcher[d].pc = "claimed"
  BY <1>0 DEF Send
<1>2. UNCHANGED <<message, crashes, slow>>
  BY DEF Send
<1>3. /\ dispatcher'[d].pc \in {"sent", "failing"} /\ dispatcher'[d].of = m
      /\ dispatcher'[d].attempts = dispatcher[d].attempts
      /\ \A e \in Dispatchers \ {d} : dispatcher'[e] = dispatcher[e]
  BY <1>0 DEF Send, At, IInv, TypeOK, DispatcherStates
<1>4. /\ \A n \in Messages \ {m} : sends'[n] = sends[n]
      /\ sends'[m] \in {sends[m], sends[m] + 1}
  BY <1>0, <1>1 DEF Send, IInv, TypeOK
<1>5. Works(d, m)'
  BY <1>3 DEF Works, Working
<1>6. Covered(m)' <=> Covered(m)
  <2>1. \A e \in Dispatchers : Works(e, m)' <=> Works(e, m)
    BY <1>0, <1>1, <1>3, <1>5 DEF Works, Working
  <2>2. \A e \in Dispatchers : dispatcher'[e].attempts = dispatcher[e].attempts
    BY <1>3
  <2>. QED
    BY <1>2, <2>1, <2>2 DEF Covered
<1>7. Granted(m)' = Granted(m)
  BY <1>2, <1>6 DEF Granted
<1>8. /\ Owed(m)[d] = MaxAttempts - dispatcher[d].attempts
      /\ Owed(m)'[d] = MaxAttempts - dispatcher[d].attempts - 1
      /\ dispatcher[d].attempts \in 0..MaxAttempts - 1
  <2>1. Owed(m)[d] = Left(d) /\ Owed(m)'[d] = Left(d)'
    BY <1>0, <1>1, <1>5 DEF Owed
  <2>2. dispatcher[d].attempts \in 0..MaxAttempts - 1
    BY DEF IInv, TypeOK, DispatcherStates
  <2>. QED
    BY <1>0, <1>1, <1>3, <2>1, <2>2, LimitAssumption DEF Left
<1>9. sends[m] \in Nat /\ Granted(m) \in 0..MaxAttempts /\ crashes \in Nat
  BY <1>0, <1>1, Amounts DEF IInv, TypeOK
<1>10. sends'[m] + Granted(m)' + Owed(m)'[d] + crashes
          <= sends[m] + Granted(m) + Owed(m)[d] + crashes'
  BY <1>2, <1>4, <1>7, <1>8, <1>9, LimitAssumption
<1>11. crashes' >= crashes
  BY <1>2, <1>9
<1>. QED
  BY <1>0, <1>1, <1>2, <1>3, <1>4, <1>10, <1>11, OwnPaid

\* A recording that fails takes no attempt; a dispatcher that dies gives its
\* own back to the row it covered, at most one more than it still had.
LEMMA FaultPaid ==
    ASSUME IInv, IInv', SendsPaid, NEW d \in Dispatchers, Fault(d) PROVE SendsPaid'
<1>0. PICK m \in Messages : m = dispatcher[d].of /\ Works(d, m)
  BY DEF Fault, RecordingLost, Abandon, Working, Works, IInv, WorkersHold
<1>2. UNCHANGED <<message, sends, slow>> /\ crashes' = crashes + 1
  BY DEF Fault, RecordingLost, Abandon, Crash
<1>3. /\ sends[m] \in Nat /\ Granted(m) \in 0..MaxAttempts /\ crashes \in Nat
      /\ message[m].attempts \in 0..MaxAttempts
  BY <1>0, Amounts DEF IInv, TypeOK
<1>4. dispatcher[d].attempts \in 0..MaxAttempts - 1 /\ Owed(m)[d] = Left(d)
  BY <1>0 DEF IInv, TypeOK, DispatcherStates, Owed
<1>5. CASE RecordingLost(d)
  <2>1. /\ dispatcher'[d].pc = "failing" /\ dispatcher[d].pc = "sent" /\ dispatcher'[d].of = m
        /\ dispatcher'[d].attempts = dispatcher[d].attempts
        /\ \A e \in Dispatchers \ {d} : dispatcher'[e] = dispatcher[e]
    BY <1>0, <1>5 DEF RecordingLost, At, IInv, TypeOK, DispatcherStates
  <2>2. Works(d, m)'
    BY <2>1 DEF Works, Working
  <2>3. Owed(m)'[d] = Owed(m)[d]
    BY <1>4, <2>1, <2>2 DEF Owed, Left
  <2>4. \A e \in Dispatchers : /\ Works(e, m)' <=> Works(e, m)
                               /\ dispatcher'[e].attempts = dispatcher[e].attempts
    BY <1>0, <2>1, <2>2 DEF Works, Working
  <2>5. Granted(m)' = Granted(m)
    BY <1>2, <2>4 DEF Granted, Covered
  <2>6. Owed(m)[d] \in Nat
    BY <1>0, Amounts
  <2>7. sends'[m] + Granted(m)' + Owed(m)'[d] + crashes
            <= sends[m] + Granted(m) + Owed(m)[d] + crashes'
    BY <1>2, <1>3, <2>3, <2>5, <2>6, LimitAssumption
  <2>8. crashes' >= crashes
    BY <1>2, <1>3
  <2>. QED
    BY <1>0, <1>2, <2>1, <2>7, <2>8, OwnPaid
<1>6. CASE Abandon(d)
  <2>1. ~Working(d)' /\ \A e \in Dispatchers \ {d} : dispatcher'[e] = dispatcher[e]
    BY <1>6 DEF Abandon, Idle, IInv, TypeOK, Working, IdleDispatcher
  <2>2. Owed(m)'[d] = 0
    BY <2>1 DEF Owed, Works
  <2>3. Granted(m)' <= Granted(m) + Owed(m)[d] + 1
    <3>1. CASE dispatcher[d].attempts <= message[m].attempts
      <4>1. MaxAttempts - message[m].attempts <= Owed(m)[d] + 1
        BY <1>3, <1>4, <3>1, LimitAssumption DEF Left
      <4>2. Granted(m)' \in {Granted(m), 0, MaxAttempts - message[m].attempts}
        <5>1. Covered(m)
          BY <1>0, <3>1 DEF Covered
        <5>. QED
          BY <1>2, <5>1 DEF Granted
      <4>3. Owed(m)[d] \in Nat
        BY <1>0, Amounts
      <4>. QED
        BY <1>3, <4>1, <4>2, <4>3, LimitAssumption
    <3>2. CASE ~(dispatcher[d].attempts <= message[m].attempts)
      <4>1. \A e \in Dispatchers \ {d} : /\ Works(e, m)' <=> Works(e, m)
                                         /\ dispatcher'[e].attempts = dispatcher[e].attempts
        BY <2>1 DEF Works, Working
      <4>2. Covered(m)' <=> Covered(m)
        BY <1>2, <2>1, <3>2, <4>1 DEF Covered, Works
      <4>3. Granted(m)' = Granted(m)
        BY <1>2, <4>2 DEF Granted
      <4>4. Owed(m)[d] \in Nat
        BY <1>0, Amounts
      <4>. QED
        BY <1>3, <4>3, <4>4, LimitAssumption
    <3>. QED
      BY <3>1, <3>2
  <2>4. Owed(m)[d] \in Nat /\ Granted(m)' \in 0..MaxAttempts
    BY <1>0, Amounts, AmountsNext
  <2>5. sends'[m] + Granted(m)' + Owed(m)'[d] + crashes
            <= sends[m] + Granted(m) + Owed(m)[d] + crashes'
    BY <1>2, <1>3, <2>2, <2>3, <2>4, LimitAssumption
  <2>6. crashes' >= crashes
    BY <1>2, <1>3
  <2>. QED
    BY <1>0, <1>2, <2>1, <2>5, <2>6, OwnPaid
<1>. QED
  BY <1>5, <1>6 DEF Fault

\* A recording gives the row what its dispatcher has left, or nothing.
LEMMA RecordPaid ==
    ASSUME IInv, IInv', SendsPaid, NEW d \in Dispatchers, RecordAccepted(d) \/ RecordFailure(d)
    PROVE  SendsPaid'
<1>0. PICK m \in Messages : m = dispatcher[d].of /\ Works(d, m)
  BY DEF RecordAccepted, RecordFailure, Working, Works, IInv, WorkersHold
<1>1. Works(d, m) /\ dispatcher[d].pc # "claimed"
  BY <1>0 DEF RecordAccepted, RecordFailure
<1>2. UNCHANGED <<sends, crashes, slow>>
  BY DEF RecordAccepted, RecordFailure
<1>3. /\ sends[m] \in Nat /\ Granted(m) \in 0..MaxAttempts /\ crashes \in Nat
      /\ Owed(m)[d] \in Nat /\ Granted(m)' \in 0..MaxAttempts
  BY <1>0, <1>1, Amounts, AmountsNext DEF IInv, TypeOK
<1>4. dispatcher[d].attempts \in 0..MaxAttempts - 1 /\ Owed(m)[d] = Left(d)
  BY <1>0, <1>1 DEF IInv, TypeOK, DispatcherStates, Owed
<1>5. ~Working(d)' /\ \A e \in Dispatchers \ {d} : dispatcher'[e] = dispatcher[e]
  BY <1>0 DEF RecordAccepted, RecordFailure, Idle, IInv, TypeOK, Working, IdleDispatcher
<1>6. Owed(m)'[d] = 0
  BY <1>5 DEF Owed, Works
<1>7. message \in [Messages -> Rows]
  BY DEF IInv, TypeOK
<1>8. Granted(m)' <= Owed(m)[d]
  <2>1. CASE RecordAccepted(d)
    <3>1. message'[m].status = "accepted"
      BY <1>0, <1>1, <1>7, <2>1 DEF RecordAccepted, Rows
    <3>. QED
      BY <1>3, <3>1 DEF Granted, Settled
  <2>2. CASE RecordFailure(d)
    <3>1. message'[m].attempts = dispatcher[d].attempts + 1
          /\ message'[m].status \in {"failed", "retry"}
      BY <1>0, <1>1, <1>7, <2>2, SMTT(30) DEF RecordFailure, Rows
    <3>2. Granted(m)' \in {0, MaxAttempts - (dispatcher[d].attempts + 1)}
      BY <1>0, <3>1 DEF Granted, Settled
    <3>3. Owed(m)[d] = MaxAttempts - (dispatcher[d].attempts + 1)
      BY <1>0, <1>1, <1>4, LimitAssumption DEF Left
    <3>. QED
      BY <1>3, <3>2, <3>3
  <2>. QED
    BY <2>1, <2>2
<1>9. \A n \in Messages \ {m} : message'[n] = message[n] /\ sends'[n] = sends[n]
  BY <1>0, <1>2, <1>7 DEF RecordAccepted, RecordFailure
<1>10. sends'[m] + Granted(m)' + Owed(m)'[d] + crashes
          <= sends[m] + Granted(m) + Owed(m)[d] + crashes'
  BY <1>2, <1>3, <1>6, <1>8, LimitAssumption
<1>11. crashes' >= crashes
  BY <1>2, <1>3
<1>. QED
  BY <1>0, <1>1, <1>2, <1>5, <1>9, <1>10, <1>11, OwnPaid

LEMMA SendsPaidStep == IInv /\ SendsPaid /\ [Next]_vars /\ IInv' => SendsPaid'
<1>. SUFFICES ASSUME IInv, IInv', SendsPaid, [Next]_vars PROVE SendsPaid'
  OBVIOUS
<1>1. CASE UNCHANGED vars
  <2>1. \A n \in Messages :
          Total(Owed(n), Dispatchers)' = Total(Owed(n), Dispatchers) /\ Granted(n)' = Granted(n)
    BY <1>1, OwedSame DEF vars, Granted, Covered, Works, Working
  <2>2. sends' = sends /\ Budget' = Budget
    BY <1>1 DEF vars, Budget
  <2>. QED
    BY <2>1, <2>2 DEF SendsPaid, Within
<1>2. ASSUME NEW m \in Messages, Enqueue(m) \/ Time(m) PROVE SendsPaid'
  BY <1>2, TimePaid
<1>3. ASSUME NEW d \in Dispatchers, DispatchOne(d) PROVE SendsPaid'
  BY <1>3, ClaimPaid, SendPaid, RecordPaid DEF DispatchOne
<1>4. ASSUME NEW d \in Dispatchers, Fault(d) PROVE SendsPaid'
  BY <1>4, FaultPaid
<1>. QED
  BY <1>1, <1>2, <1>3, <1>4 DEF Next

LEMMA PaidAtFirst == Init => SendsPaid
<1>. SUFFICES ASSUME Init, NEW m \in Messages PROVE Within(m)
  BY DEF SendsPaid
<1>1. \A d \in Dispatchers : Owed(m)[d] = 0
  BY DEF Init, Owed, Works, Working, IdleDispatcher
<1>2. Total(Owed(m), Dispatchers) = 0
  BY <1>1, ProcessAssumption, TotalZero
<1>3. Granted(m) = MaxAttempts
  BY DEF Init, NoMessage, Granted, Settled
<1>4. sends[m] = 0 /\ slow = 0 /\ crashes = 0
  BY DEF Init
<1>. QED
  BY <1>2, <1>3, <1>4, LimitAssumption DEF Within, Budget

\* However dispatchers die, lose recordings or are overtaken, no message is
\* sent more often than the attempts, the crashes and the attempts that slow
\* dispatchers win back allow (email-dispatcher.ts:49-149).
THEOREM SendsStayBounded == Spec => []SendsBounded
<1>1. Init => SendsPaid
  BY PaidAtFirst
<1>2. IInv /\ SendsPaid => SendsBounded
  <2>. SUFFICES ASSUME IInv, SendsPaid, NEW m \in Messages PROVE sends[m] <= Budget
    BY DEF SendsBounded, Budget
  <2>1. /\ sends[m] \in Nat /\ Granted(m) \in 0..MaxAttempts /\ Budget \in Nat
        /\ Total(Owed(m), Dispatchers) \in Nat
    BY Amounts
  <2>. QED
    BY <2>1, LimitAssumption DEF SendsPaid, Within
<1>. QED
  BY <1>1, <1>2, SendsPaidStep, InvariantHolds, PTL DEF Spec
-----------------------------------------------------------------------------
(* EmailOutbox implements BoundedDelivery *)

\* What the outside is promised of a message, as long as no dispatcher is
\* slower than the two minutes of a claim.
OutcomeOf(status) ==
    CASE status = "absent" -> "none"
      [] status = "accepted" -> "delivered"
      [] status \in {"failed", "expired"} -> "failed"
      [] OTHER -> "pending"
Told == [m \in Messages |-> OutcomeOf(message[m].status)]
Bounded == INSTANCE BoundedDelivery
    WITH Items <- Messages, Limit <- MaxAttempts + MaxCrashes, outcome <- Told, received <- taken
ImplementsBoundedDelivery == Bounded!Spec

LEMMA Outcomes ==
    /\ OutcomeOf("absent") = "none" /\ OutcomeOf("accepted") = "delivered"
    /\ OutcomeOf("failed") = "failed" /\ OutcomeOf("expired") = "failed"
    /\ \A status \in {"queued", "sending", "retry"} : OutcomeOf(status) = "pending"
<1>. QED
  BY DEF OutcomeOf

\* A step that settles nothing and sends nothing is not seen outside.
LEMMA SameOutcomes ==
    ASSUME \A m \in Messages : OutcomeOf(message'[m].status) = OutcomeOf(message[m].status),
           UNCHANGED <<sends, taken>>
    PROVE  UNCHANGED Bounded!vars
<1>1. Told' = Told
  BY DEF Told
<1>. QED
  BY <1>1 DEF Bounded!vars

\* Messages given up together, with no other outcome changed.
LEMMA GivenUp ==
    ASSUME NEW set \in SUBSET Messages,
           \A m \in set : OutcomeOf(message[m].status) = "pending",
           \A m \in Messages : OutcomeOf(message'[m].status) =
               IF m \in set THEN "failed" ELSE OutcomeOf(message[m].status),
           UNCHANGED <<sends, taken>>
    PROVE  Bounded!Next
<1>1. Bounded!GiveUp(set)
  BY DEF Bounded!GiveUp, Told
<1>. QED
  BY <1>1 DEF Bounded!Next

LEMMA EnqueueAccepts ==
    ASSUME IInv, NEW m \in Messages, Enqueue(m)
    PROVE  Bounded!Next
<1>1. \A n \in Messages : message'[n] = IF n = m THEN NewMessage ELSE message[n]
  BY DEF Enqueue, IInv, TypeOK
<1>2. Told' = [n \in Messages |-> IF n \in {m} THEN "pending" ELSE Told[n]] /\ Told[m] = "none"
  BY <1>1, Outcomes DEF Told, NewMessage, Enqueue
<1>3. Bounded!Accept({m})
  BY <1>2 DEF Bounded!Accept, Enqueue
<1>. QED
  BY <1>3 DEF Bounded!Next

\* The sweep ends what has expired; the claimed message stays pending.
LEMMA ClaimGivesUp ==
    ASSUME IInv, NEW d \in Dispatchers, Claim(d)
    PROVE  Bounded!Next
<1>. DEFINE set == {m \in Messages : Waiting(message[m]) /\ message[m].expired}
<1>1. \A m \in set : OutcomeOf(message[m].status) = "pending"
  BY Outcomes DEF Waiting
<1>2. \A m \in Messages : Swept[m].status = IF m \in set THEN "expired" ELSE message[m].status
  BY DEF Swept, IInv, TypeOK, Rows
<1>3. ASSUME NEW m \in Messages
      PROVE  \/ message'[m].status = Swept[m].status
             \/ message'[m].status = "sending" /\ Claimable(message[m])
  <2>1. Swept \in [Messages -> Rows]
    BY DEF Swept, IInv, TypeOK, Rows, Settled
  <2>2. CASE message' = Swept
    BY <2>2
  <2>3. ASSUME NEW n \in Messages, Claimable(message[n]),
               message' = [Swept EXCEPT ![n].status = "sending", ![n].stale = FALSE]
        PROVE  \/ message'[m].status = Swept[m].status
               \/ message'[m].status = "sending" /\ Claimable(message[m])
    <3>1. CASE n = m
      BY <2>1, <2>3, <3>1 DEF Rows
    <3>2. CASE n # m
      BY <2>1, <2>3, <3>2
    <3>. QED
      BY <3>1, <3>2
  <2>. QED
    BY <2>2, <2>3 DEF Claim
<1>4. ASSUME NEW m \in Messages, Claimable(message[m])
      PROVE  m \notin set /\ OutcomeOf(message[m].status) = "pending"
  BY <1>4, Outcomes DEF Claimable, Waiting
<1>5. \A m \in Messages : OutcomeOf(message'[m].status) =
         IF m \in set THEN "failed" ELSE OutcomeOf(message[m].status)
  BY <1>2, <1>3, <1>4, Outcomes
<1>6. UNCHANGED <<sends, taken>>
  BY DEF Claim
<1>. QED
  BY <1>1, <1>5, <1>6, GivenUp

LEMMA SendSends ==
    ASSUME IInv, SendsPaid', IInv', slow' = 0, NEW d \in Dispatchers, Send(d)
    PROVE  [Bounded!Next]_(Bounded!vars)
<1>1. PICK m \in Messages : m = dispatcher[d].of
  BY DEF Send, Working, IInv, WorkersHold
<1>2. Working(d) /\ UNCHANGED message
  BY DEF Send, Working
<1>3. CASE ~dispatcher[d].sealed
  BY <1>2, <1>3, SameOutcomes DEF Send
<1>4. CASE dispatcher[d].sealed
  <2>1. /\ sends' = [sends EXCEPT ![m] = @ + 1]
        /\ taken' \in {taken, [taken EXCEPT ![m] = TRUE]}
    BY <1>1, <1>4 DEF Send
  <2>2. sends'[m] = sends[m] + 1 /\ sends[m] \in Nat
    BY <2>1 DEF IInv, TypeOK
  <2>3. sends'[m] <= Budget'
    <3>1. /\ sends'[m] \in Nat /\ Granted(m)' \in 0..MaxAttempts /\ Budget' \in Nat
          /\ Total(Owed(m), Dispatchers)' \in Nat
      BY AmountsNext
    <3>. QED
      BY <3>1, LimitAssumption DEF SendsPaid, Within
  <2>4. Budget' <= MaxAttempts + MaxCrashes
    <3>1. Budget' = MaxAttempts * (1 + 0) + crashes' /\ crashes' \in 0..MaxCrashes
      BY DEF Budget, IInv, TypeOK
    <3>2. PICK c \in 0..MaxCrashes : c = crashes'
      BY <3>1
    <3>3. MaxAttempts * (1 + 0) = MaxAttempts
      BY LimitAssumption
    <3>4. Budget' = MaxAttempts + c
      BY <3>1, <3>2, <3>3
    <3>. QED
      BY <3>4, LimitAssumption
  <2>5. sends[m] < MaxAttempts + MaxCrashes
    <3>1. PICK b \in Nat : b = Budget'
      BY AmountsNext, <1>1
    <3>. QED
      BY <2>2, <2>3, <2>4, <3>1, LimitAssumption
  <2>6. Told[m] # "none"
    <3>1. message[m].status = "sending"
      BY <1>1, <1>2 DEF IInv, RowsGuarded, Send
    <3>. QED
      BY <3>1, Outcomes DEF Told
  <2>7. UNCHANGED Told
    BY <1>2 DEF Told
  <2>8. Bounded!Send(m)
    BY <2>1, <2>5, <2>6, <2>7 DEF Bounded!Send
  <2>. QED
    BY <2>8 DEF Bounded!Next
<1>. QED
  BY <1>3, <1>4

LEMMA RecordSettles ==
    ASSUME IInv, slow = 0, NEW d \in Dispatchers, RecordAccepted(d) \/ RecordFailure(d)
    PROVE  [Bounded!Next]_(Bounded!vars)
<1>1. PICK m \in Messages : m = dispatcher[d].of
  BY DEF RecordAccepted, RecordFailure, Working, IInv, WorkersHold
<1>2. Working(d) /\ UNCHANGED <<sends, taken>>
  BY DEF RecordAccepted, RecordFailure, Working
<1>3. message[m].status = "sending" /\ OutcomeOf(message[m].status) = "pending"
  BY <1>1, <1>2, Outcomes DEF IInv, RowsGuarded
<1>4. message \in [Messages -> Rows]
  BY DEF IInv, TypeOK
<1>5. \A n \in Messages \ {m} : message'[n] = message[n]
  BY <1>1, <1>4 DEF RecordAccepted, RecordFailure
<1>6. CASE RecordAccepted(d)
  <2>1. message'[m].status = "accepted" /\ taken[m]
    BY <1>1, <1>2, <1>4, <1>6 DEF RecordAccepted, Rows, IInv, WorkersHold
  <2>2. Told' = [Told EXCEPT ![m] = "delivered"] /\ Told[m] = "pending"
    BY <1>3, <1>5, <2>1, Outcomes DEF Told
  <2>3. Bounded!Settle(m)
    BY <1>2, <2>1, <2>2 DEF Bounded!Settle
  <2>. QED
    BY <2>3 DEF Bounded!Next
<1>7. CASE RecordFailure(d)
  <2>1. message'[m].status \in {"failed", "retry"}
    BY <1>1, <1>4, <1>7 DEF RecordFailure, Rows
  <2>2. CASE message'[m].status = "retry"
    BY <1>2, <1>3, <1>5, <2>2, Outcomes, SameOutcomes
  <2>3. CASE message'[m].status = "failed"
    <3>1. \A n \in Messages : OutcomeOf(message'[n].status) =
             IF n \in {m} THEN "failed" ELSE OutcomeOf(message[n].status)
      BY <1>5, <2>3, Outcomes
    <3>2. \A n \in {m} : OutcomeOf(message[n].status) = "pending"
      BY <1>3
    <3>. QED
      BY <1>2, <3>1, <3>2, GivenUp
  <2>. QED
    BY <2>1, <2>2, <2>3
<1>. QED
  BY <1>6, <1>7

\* Without a slow dispatcher the claim by status and age is as good as a
\* lease with a token: retries and crashes of any number of dispatchers make
\* a delivery with one final outcome, "delivered" only if the server took the
\* message, and with at most a send per attempt and one more per crash.
THEOREM BoundedDeliveryImplemented == MaxSlow = 0 => (Spec => ImplementsBoundedDelivery)
<1>. SUFFICES ASSUME MaxSlow = 0 PROVE Spec => ImplementsBoundedDelivery
  OBVIOUS
<1>1. Init => Bounded!Init
  BY Outcomes DEF Init, Bounded!Init, Told, NoMessage
<1>2. IInv /\ IInv' /\ SendsPaid' /\ [Next]_vars => [Bounded!Next]_(Bounded!vars)
  <2>. SUFFICES ASSUME IInv, IInv', SendsPaid', [Next]_vars PROVE [Bounded!Next]_(Bounded!vars)
    OBVIOUS
  <2>1. slow = 0 /\ slow' = 0
    BY DEF IInv, TypeOK
  <2>2. CASE UNCHANGED vars
    BY <2>2, SameOutcomes DEF vars
  <2>3. ASSUME NEW m \in Messages, Time(m) PROVE [Bounded!Next]_(Bounded!vars)
    <3>1. \A n \in Messages : message'[n].status = message[n].status
      BY <2>3 DEF Time, Age, FallDue, Expire, IInv, TypeOK, Rows
    <3>2. UNCHANGED <<sends, taken>>
      BY <2>3 DEF Time, Age, FallDue, Expire
    <3>. QED
      BY <3>1, <3>2, SameOutcomes
  <2>4. ASSUME NEW d \in Dispatchers, Fault(d) PROVE [Bounded!Next]_(Bounded!vars)
    BY <2>4, SameOutcomes DEF Fault, RecordingLost, Abandon
  <2>. QED
    BY <2>1, <2>2, <2>3, <2>4, EnqueueAccepts, ClaimGivesUp, SendSends, RecordSettles
       DEF Next, DispatchOne
<1>3. Init => SendsPaid
  BY PaidAtFirst
<1>. QED
  BY <1>1, <1>2, <1>3, SendsPaidStep, InvariantHolds, PTL
     DEF Spec, ImplementsBoundedDelivery, Bounded!Spec
=============================================================================
