----------------------------- MODULE EmailOutbox -----------------------------
(***************************************************************************)
(* The outbox of authentication mail: verification and reset messages are  *)
(* written as sealed rows and sent by the dispatchers of the API           *)
(* processes.  A dispatcher claims a row by its status and the time of its *)
(* last update, sends it over SMTP outside any transaction and records the *)
(* result by the row's id alone.                                           *)
(*                                                                         *)
(* The claim is one transaction and one step; the SMTP exchange and each   *)
(* recording UPDATE are steps of their own.                                *)
(***************************************************************************)
EXTENDS Naturals, FiniteSets

CONSTANTS
    Messages,     \* email_messages, one per idempotency key
    Dispatchers,  \* API processes; each runs one dispatcher
    MaxAttempts,  \* config.retry.maxAttempts
    MaxCrashes,   \* bound: processes that die, recordings that fail
    MaxSlow       \* bound: dispatchers slower than the two minutes of a claim

ASSUME LimitAssumption ==
    MaxAttempts \in Nat \ {0} /\ MaxCrashes \in Nat /\ MaxSlow \in Nat

\* A deployment runs finitely many processes.
ASSUME ProcessAssumption == IsFiniteSet(Dispatchers)

VARIABLES
    message,     \* email_messages
    dispatcher,  \* progress of each dispatchOne
    sends,       \* history: SMTP exchanges begun for a message
    taken,       \* history: the SMTP server took the message
    crashes, slow

vars == <<message, dispatcher, sends, taken, crashes, slow>>

Settled == {"accepted", "failed", "expired"}
NoMessage == [status |-> "absent", attempts |-> 0, sealed |-> TRUE, due |-> FALSE,
              stale |-> FALSE, expired |-> FALSE]
NewMessage == [status |-> "queued", attempts |-> 0, sealed |-> TRUE, due |-> TRUE,
               stale |-> FALSE, expired |-> FALSE]
IdleDispatcher == [pc |-> "idle", of |-> "none", attempts |-> 0, sealed |-> TRUE]

At(d, pc) == dispatcher' = [dispatcher EXCEPT ![d].pc = pc]
Idle(d) == dispatcher' = [dispatcher EXCEPT ![d] = IdleDispatcher]
Working(d) == dispatcher[d].pc # "idle"
Held(m) == \E d \in Dispatchers : Working(d) /\ dispatcher[d].of = m
Crash == crashes < MaxCrashes /\ crashes' = crashes + 1

-----------------------------------------------------------------------------
(* Rows and time *)

\* The link's hash is the idempotency key: the same link again does nothing.
Enqueue(m) ==
    /\ message[m].status = "absent"
    /\ message' = [message EXCEPT ![m] = NewMessage]
    /\ UNCHANGED <<dispatcher, sends, taken, crashes, slow>>

\* updated_at falls two minutes behind.  While a dispatcher still works for
\* the row that takes an SMTP exchange of several timeouts.
Age(m) ==
    /\ message[m].status = "sending" /\ ~message[m].stale
    /\ IF Held(m) THEN slow < MaxSlow /\ slow' = slow + 1 ELSE UNCHANGED slow
    /\ message' = [message EXCEPT ![m].stale = TRUE]
    /\ UNCHANGED <<dispatcher, sends, taken, crashes>>

\* next_attempt_at passes.
FallDue(m) ==
    /\ message[m].status = "retry" /\ ~message[m].due
    /\ message' = [message EXCEPT ![m].due = TRUE]
    /\ UNCHANGED <<dispatcher, sends, taken, crashes, slow>>

\* expires_at passes.
Expire(m) ==
    /\ message[m].status # "absent" /\ ~message[m].expired
    /\ message' = [message EXCEPT ![m].expired = TRUE]
    /\ UNCHANGED <<dispatcher, sends, taken, crashes, slow>>

-----------------------------------------------------------------------------
(* EmailDispatcher.dispatchOne *)

Waiting(r) == r.status \in {"queued", "retry"}
Swept == [m \in Messages |-> IF Waiting(message[m]) /\ message[m].expired
                             THEN [message[m] EXCEPT !.status = "expired", !.stale = FALSE]
                             ELSE message[m]]

\* Mutant: the two minutes are not waited for.
ClaimableAtOnce(r) == (Waiting(r) \/ r.status = "sending") /\ r.due /\ ~r.expired
\* Mutant: a row whose dispatcher died is never claimed again.
ClaimableOnce(r) == Waiting(r) /\ r.due /\ ~r.expired
Claimable(r) ==
    /\ Waiting(r) \/ (r.status = "sending" /\ r.stale)
    /\ r.due /\ ~r.expired

\* The oldest row that no other transaction locks: any of the claimable ones.
Claim(d) ==
    /\ ~Working(d)
    /\ \/ \E m \in Messages :
             /\ Claimable(message[m])
             /\ message' = [Swept EXCEPT ![m].status = "sending", ![m].stale = FALSE]
             /\ dispatcher' = [dispatcher EXCEPT ![d] =
                    [pc |-> "claimed", of |-> m, attempts |-> message[m].attempts,
                     sealed |-> message[m].sealed]]
       \/ /\ \A m \in Messages : ~Claimable(message[m])
          /\ message' = Swept
          /\ UNCHANGED dispatcher
    /\ UNCHANGED <<sends, taken, crashes, slow>>

\* Mutant: a lost answer counts as a success.
SendTrusting(d) ==
    LET m == dispatcher[d].of IN
    /\ dispatcher[d].pc = "claimed"
    /\ \/ ~dispatcher[d].sealed /\ At(d, "failing") /\ UNCHANGED <<sends, taken>>
       \/ /\ dispatcher[d].sealed
          /\ sends' = [sends EXCEPT ![m] = @ + 1]
          /\ At(d, "sent") /\ taken' \in {taken, [taken EXCEPT ![m] = TRUE]}
    /\ UNCHANGED <<message, crashes, slow>>

\* An erased payload cannot be decrypted; otherwise one SMTP exchange, whose
\* answer may be lost after the server took the message.
Send(d) ==
    LET m == dispatcher[d].of IN
    /\ dispatcher[d].pc = "claimed"
    /\ \/ ~dispatcher[d].sealed /\ At(d, "failing") /\ UNCHANGED <<sends, taken>>
       \/ /\ dispatcher[d].sealed
          /\ sends' = [sends EXCEPT ![m] = @ + 1]
          /\ \/ At(d, "sent") /\ taken' = [taken EXCEPT ![m] = TRUE]
             \/ At(d, "failing") /\ taken' \in {taken, [taken EXCEPT ![m] = TRUE]}
    /\ UNCHANGED <<message, crashes, slow>>

\* By id, whatever became of the row meanwhile; the payload is erased.
RecordAccepted(d) ==
    /\ dispatcher[d].pc = "sent"
    /\ message' = [message EXCEPT ![dispatcher[d].of].status = "accepted",
                                  ![dispatcher[d].of].sealed = FALSE,
                                  ![dispatcher[d].of].stale = FALSE]
    /\ Idle(d)
    /\ UNCHANGED <<sends, taken, crashes, slow>>

\* The recording itself fails: the catch treats it like a refused exchange.
RecordingLost(d) ==
    /\ Crash
    /\ dispatcher[d].pc = "sent"
    /\ At(d, "failing")
    /\ UNCHANGED <<message, sends, taken, slow>>

\* Mutant: the attempt is not counted.
RecordFailureUncounted(d) ==
    LET n == dispatcher[d].attempts IN
    /\ dispatcher[d].pc = "failing"
    /\ message' = [message EXCEPT ![dispatcher[d].of].status = "retry",
                                  ![dispatcher[d].of].attempts = n,
                                  ![dispatcher[d].of].due = FALSE,
                                  ![dispatcher[d].of].stale = FALSE]
    /\ Idle(d)
    /\ UNCHANGED <<sends, taken, crashes, slow>>

\* Mutant: one attempt more than the limit.
RecordFailureLate(d) ==
    LET n == dispatcher[d].attempts + 1 IN
    /\ dispatcher[d].pc = "failing"
    /\ message' = [message EXCEPT ![dispatcher[d].of].status = IF n > MaxAttempts THEN "failed" ELSE "retry",
                                  ![dispatcher[d].of].attempts = n,
                                  ![dispatcher[d].of].due = FALSE,
                                  ![dispatcher[d].of].stale = FALSE]
    /\ Idle(d)
    /\ UNCHANGED <<sends, taken, crashes, slow>>

\* The count the claim read, plus one, by id.
RecordFailure(d) ==
    LET n == dispatcher[d].attempts + 1 IN
    /\ dispatcher[d].pc = "failing"
    /\ message' = [message EXCEPT ![dispatcher[d].of].status = IF n >= MaxAttempts THEN "failed" ELSE "retry",
                                  ![dispatcher[d].of].attempts = n,
                                  ![dispatcher[d].of].due = FALSE,
                                  ![dispatcher[d].of].stale = FALSE]
    /\ Idle(d)
    /\ UNCHANGED <<sends, taken, crashes, slow>>

\* The process dies, or the recording of a failure fails: the row stays
\* "sending".
Abandon(d) ==
    /\ Crash
    /\ Working(d)
    /\ Idle(d)
    /\ UNCHANGED <<message, sends, taken, slow>>

-----------------------------------------------------------------------------
Init ==
    /\ message = [m \in Messages |-> NoMessage]
    /\ dispatcher = [d \in Dispatchers |-> IdleDispatcher]
    /\ sends = [m \in Messages |-> 0]
    /\ taken = [m \in Messages |-> FALSE]
    /\ crashes = 0
    /\ slow = 0

Time(m) == Age(m) \/ FallDue(m) \/ Expire(m)
DispatchOne(d) == Claim(d) \/ Send(d) \/ RecordAccepted(d) \/ RecordFailure(d)
Fault(d) == RecordingLost(d) \/ Abandon(d)

Next ==
    \/ \E m \in Messages : Enqueue(m) \/ Time(m)
    \/ \E d \in Dispatchers : DispatchOne(d) \/ Fault(d)

Spec == Init /\ [][Next]_vars

\* Every loop schedules its next tick whether or not the last one failed; the
\* two minutes and the backoff pass.  Messages need not outlive their link.
Fairness ==
    /\ \A d \in Dispatchers : WF_vars(DispatchOne(d))
    /\ \A m \in Messages : WF_vars(Age(m)) /\ WF_vars(FallDue(m))

FairSpec == Spec /\ Fairness

-----------------------------------------------------------------------------
(* Properties *)

Rows == [status : {"absent", "queued", "sending", "retry"} \cup Settled,
         attempts : 0..MaxAttempts, sealed : BOOLEAN, due : BOOLEAN, stale : BOOLEAN,
         expired : BOOLEAN]
DispatcherStates == [pc : {"idle", "claimed", "sent", "failing"}, of : Messages \cup {"none"},
                     attempts : 0..MaxAttempts - 1, sealed : BOOLEAN]

TypeOK ==
    /\ message \in [Messages -> Rows]
    /\ dispatcher \in [Dispatchers -> DispatcherStates]
    /\ sends \in [Messages -> Nat]
    /\ taken \in [Messages -> BOOLEAN]
    /\ crashes \in 0..MaxCrashes
    /\ slow \in 0..MaxSlow

\* A payload is erased, and a row called accepted, only when the SMTP server
\* took the message: no recording of a slow, repeated or failed dispatcher
\* loses a mail that was never sent.
ErasedOnlyWhenTaken ==
    \A m \in Messages : ~message[m].sealed \/ message[m].status = "accepted" => taken[m]

\* Rows are claimed by status and age, without a token: crashes alone never
\* put two dispatchers to work for one message, only a dispatcher slower than
\* the two minutes does.
ExclusiveUnlessSlow ==
    slow = 0 => \A d, e \in Dispatchers :
        d # e /\ Working(d) /\ Working(e) => dispatcher[d].of # dispatcher[e].of

\* Each message is sent at most once per counted attempt and once more per
\* crash; a slow dispatcher may win every attempt back once by writing the
\* count it had read.
SendsBounded ==
    \A m \in Messages : sends[m] <= MaxAttempts * (1 + slow) + crashes

\* A settled row stays as it is unless a dispatcher was slow.
FinalUnlessSlow ==
    [][slow = 0 => \A m \in Messages : message[m].status \in Settled =>
          /\ message'[m].status = message[m].status
          /\ message'[m].attempts = message[m].attempts
          /\ message'[m].sealed = message[m].sealed]_vars

\* Every message is settled, whichever dispatchers die on the way and whether
\* or not its link stays valid.  The one gap: a row whose link expires while it
\* is being sent is out of reach of both the sweep and the claim, and stays if
\* its dispatcher is gone.
EveryMessageSettles ==
    \A m \in Messages :
        message[m].status = "queued" ~>
            \/ message[m].status \in Settled
            \/ message[m].status = "sending" /\ message[m].expired /\ ~Held(m)

\* docs/architecture/email-infrastructure.md:1402-1429, the state machine of a
\* message: nothing leads from accepted back to retry or failed.
AcceptedIsFinal ==
    [][\A m \in Messages : message[m].status = "accepted" => message'[m].status = "accepted"]_vars
=============================================================================
