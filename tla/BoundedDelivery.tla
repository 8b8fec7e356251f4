-------------------------- MODULE BoundedDelivery --------------------------
(***************************************************************************)
(* What a persisted delivery promises to the outside, without processes,   *)
(* leases or timers: at most Limit sends, "delivered" only if the other    *)
(* side took one of them, and one final outcome.  A send may still happen  *)
(* after the outcome: the receiver deduplicates by the stable identity.    *)
(***************************************************************************)
EXTENDS Naturals

CONSTANTS Items, Limit

VARIABLES
    outcome,   \* "none", "pending", "delivered", "failed" or "withdrawn"
    sends,     \* how often the item was sent
    received   \* whether the other side took it

vars == <<outcome, sends, received>>

Init ==
    /\ outcome = [d \in Items |-> "none"]
    /\ sends = [d \in Items |-> 0]
    /\ received = [d \in Items |-> FALSE]

\* One transaction may accept several items.
Accept(set) ==
    /\ \A d \in set : outcome[d] = "none"
    /\ outcome' = [d \in Items |-> IF d \in set THEN "pending" ELSE outcome[d]]
    /\ UNCHANGED <<sends, received>>

Send(d) ==
    /\ outcome[d] # "none"
    /\ sends[d] < Limit
    /\ sends' = [sends EXCEPT ![d] = @ + 1]
    /\ received' \in {received, [received EXCEPT ![d] = TRUE]}
    /\ UNCHANGED outcome

Settle(d) ==
    /\ outcome[d] = "pending"
    /\ received[d]
    /\ outcome' = [outcome EXCEPT ![d] = "delivered"]
    /\ UNCHANGED <<sends, received>>

\* A sweep may give several items up at once.
GiveUp(set) ==
    /\ \A d \in set : outcome[d] = "pending"
    /\ outcome' = [d \in Items |-> IF d \in set THEN "failed" ELSE outcome[d]]
    /\ UNCHANGED <<sends, received>>

Withdraw(set) ==
    /\ \A d \in set : outcome[d] # "none"
    /\ outcome' = [d \in Items |-> IF d \in set THEN "withdrawn" ELSE outcome[d]]
    /\ UNCHANGED <<sends, received>>

Next ==
    \/ \E set \in SUBSET Items : Accept(set) \/ GiveUp(set) \/ Withdraw(set)
    \/ \E d \in Items : Send(d) \/ Settle(d)

Spec == Init /\ [][Next]_vars
=============================================================================
