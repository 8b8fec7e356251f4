-------------------------- MODULE TaskSettlement --------------------------
(***************************************************************************)
(* What the framework promises about an organization task, without queue,  *)
(* worker or dispatcher: an accepted intent is settled once, and in that   *)
(* one step its outcome, its domain writes and its announcement appear     *)
(* together.                                                               *)
(***************************************************************************)
EXTENDS Naturals, Sequences

CONSTANT Tasks

VARIABLES
    outcome,    \* "none", "pending" or one of Outcomes
    announced,  \* the domain events of the task
    applied     \* how often its domain writes were applied

vars == <<outcome, announced, applied>>

Outcomes == {"completed", "failed", "rejected"}
Announcement(o) == IF o = "completed" THEN "task.completed" ELSE "task.failed"

Init ==
    /\ outcome = [t \in Tasks |-> "none"]
    /\ announced = [t \in Tasks |-> <<>>]
    /\ applied = [t \in Tasks |-> 0]

\* The intent is stored.
Accept(t) ==
    /\ outcome[t] = "none"
    /\ outcome' = [outcome EXCEPT ![t] = "pending"]
    /\ UNCHANGED <<announced, applied>>

\* Its one outcome is decided, applied and announced.
Settle(t, o) ==
    /\ outcome[t] = "pending"
    /\ outcome' = [outcome EXCEPT ![t] = o]
    /\ announced' = [announced EXCEPT ![t] = <<Announcement(o)>>]
    /\ applied' = IF o = "completed" THEN [applied EXCEPT ![t] = 1] ELSE applied

Next == \E t \in Tasks : Accept(t) \/ \E o \in Outcomes : Settle(t, o)

Spec == Init /\ [][Next]_vars
=============================================================================
