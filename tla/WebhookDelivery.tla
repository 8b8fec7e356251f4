-------------------------- MODULE WebhookDelivery --------------------------
(***************************************************************************)
(* Webhook deliveries: one row per endpoint and event, claimed under a     *)
(* lease by the delivery loops of the API processes, posted to the         *)
(* endpoint outside any transaction and settled under the lease's token.   *)
(*                                                                         *)
(* Each database function and each tenant transaction is one step; a post  *)
(* with its answer is one step, and the process may die or lose its lease  *)
(* before and after it.                                                    *)
(***************************************************************************)
EXTENDS Naturals, FiniteSets

CONSTANTS
    Endpoints,   \* webhook_endpoints
    Events,      \* domain_events, each written once
    Hosts,       \* API processes; each runs one delivery loop
    Attempts,    \* WORKER_ATTEMPTS
    MaxFaults,   \* bound: crashes and database errors
    MaxChanges   \* bound: commands on endpoints and on their creators

ASSUME LimitAssumption ==
    Attempts \in 1..20 /\ MaxFaults \in Nat /\ MaxChanges \in Nat

\* (webhook_id, event_id) is unique.
Deliveries == Endpoints \X Events

VARIABLES
    delivery,  \* webhook_deliveries
    endpoint,  \* webhook_endpoints and the standing of their creators
    written,   \* the events that were recorded
    host,      \* progress of each host's dispatchOne
    requests,  \* history: posts made for a delivery
    received,  \* history: whether the endpoint took one of them
    answers,   \* history: what each attempt came to
    faults, changes

vars == <<delivery, endpoint, written, host, requests, received, answers, faults, changes>>

Settled == {"delivered", "failed"}
Unleased(status, due) == [status |-> status, attempts |-> 0, token |-> 0, lease |-> "none", due |-> due]
NoDelivery == Unleased("absent", FALSE)
NewDelivery == Unleased("pending", TRUE)
RemovedDelivery == Unleased("removed", FALSE)
IdleHost == [pc |-> "idle", of |-> <<>>, token |-> 0, verdict |-> "none"]

Fault == faults < MaxFaults /\ faults' = faults + 1
Answered(d, n, a) == answers' = [answers EXCEPT ![d][n] = a]

-----------------------------------------------------------------------------
(* Endpoints and events *)

Change == changes < MaxChanges /\ changes' = changes + 1

CreateEndpoint(n, events) ==
    /\ endpoint[n].state = "absent"
    /\ endpoint' = [endpoint EXCEPT ![n] = [state |-> "enabled", events |-> events,
                                            manager |-> TRUE]]
    /\ UNCHANGED <<delivery, written, host, requests, received, answers, faults, changes>>

UpdateEndpoint(n, state, events) ==
    /\ Change
    /\ endpoint[n].state \in {"enabled", "disabled"}
    /\ endpoint' = [endpoint EXCEPT ![n].state = state, ![n].events = events]
    /\ UNCHANGED <<delivery, written, host, requests, received, answers, faults>>

\* The foreign key removes the endpoint's deliveries with it.
DeleteEndpoint(n) ==
    /\ Change
    /\ endpoint[n].state \in {"enabled", "disabled"}
    /\ endpoint' = [endpoint EXCEPT ![n].state = "deleted"]
    /\ delivery' = [d \in Deliveries |->
                       IF d[1] = n /\ delivery[d].status # "absent"
                       THEN RemovedDelivery ELSE delivery[d]]
    /\ UNCHANGED <<written, host, requests, received, answers, faults>>

\* The creator loses or regains integration.manage, membership, account or
\* organization.
ChangeStanding(n) ==
    /\ Change
    /\ endpoint[n].state # "absent"
    /\ endpoint' = [endpoint EXCEPT ![n].manager = ~@]
    /\ UNCHANGED <<delivery, written, host, requests, received, answers, faults>>

\* The event and a delivery for every enabled subscriber, in the business
\* transaction that caused it.
Record(e) ==
    /\ e \notin written
    /\ written' = written \cup {e}
    /\ delivery' = [d \in Deliveries |->
                       IF d[2] = e /\ endpoint[d[1]].state = "enabled"
                          /\ e \in endpoint[d[1]].events
                       THEN NewDelivery ELSE delivery[d]]
    /\ UNCHANGED <<endpoint, host, requests, received, answers, faults, changes>>

-----------------------------------------------------------------------------
(* Time *)

\* lease_until passes: a host may be slow anywhere, the check before the post
\* waits for locks without a limit.
Lapse(d) ==
    /\ delivery[d].lease = "live"
    /\ delivery' = [delivery EXCEPT ![d].lease = "expired"]
    /\ UNCHANGED <<endpoint, written, host, requests, received, answers, faults, changes>>

\* next_attempt_at passes.
FallDue(d) ==
    /\ delivery[d].status = "pending" /\ ~delivery[d].due
    /\ delivery' = [delivery EXCEPT ![d].due = TRUE]
    /\ UNCHANGED <<endpoint, written, host, requests, received, answers, faults, changes>>

-----------------------------------------------------------------------------
(* WebhookDelivery.dispatchOne *)

HostAt(h, pc, verdict) == host' = [host EXCEPT ![h].pc = pc, ![h].verdict = verdict]
HostIdle(h) == host' = [host EXCEPT ![h] = IdleHost]

Unheld(d) == delivery[d].status = "pending" /\ delivery[d].lease # "live"
Exhausted(d) == Unheld(d) /\ delivery[d].attempts >= Attempts
\* Mutant: one attempt too many.
ClaimableOnceMore(d) == Unheld(d) /\ delivery[d].attempts <= Attempts /\ delivery[d].due
Claimable(d) == Unheld(d) /\ delivery[d].attempts < Attempts /\ delivery[d].due
Failed(r) == [r EXCEPT !.status = "failed", !.token = 0, !.lease = "none", !.due = FALSE]

\* A fresh token per claim: the count of attempts grows with each.
Leased(r) == [r EXCEPT !.attempts = @ + 1, !.token = r.attempts + 1, !.lease = "live"]

\* Mutant: rows whose last attempt died are never given up.
ClaimWithoutSweep(h) ==
    /\ host[h].pc = "idle"
    /\ \/ \E d \in Deliveries :
             /\ Claimable(d)
             /\ delivery' = [delivery EXCEPT ![d] = Leased(@)]
             /\ host' = [host EXCEPT ![h] = [pc |-> "claimed", of |-> d, verdict |-> "none",
                                             token |-> delivery[d].attempts + 1]]
       \/ /\ \A d \in Deliveries : ~Claimable(d)
          /\ UNCHANGED <<delivery, host>>
    /\ UNCHANGED <<endpoint, written, requests, received, answers, faults, changes>>

\* claim_webhook_delivery: exhausted rows are given up, then one due row is
\* leased and its attempt counted before anything is sent.
Claim(h) ==
    LET swept == [d \in Deliveries |-> IF Exhausted(d) THEN Failed(delivery[d]) ELSE delivery[d]] IN
    /\ host[h].pc = "idle"
    /\ \/ \E d \in Deliveries :
             /\ Claimable(d)
             /\ delivery' = [swept EXCEPT ![d] = Leased(@)]
             /\ host' = [host EXCEPT ![h] = [pc |-> "claimed", of |-> d, verdict |-> "none",
                                             token |-> delivery[d].attempts + 1]]
       \/ /\ \A d \in Deliveries : ~Claimable(d)
          /\ delivery' = swept
          /\ UNCHANGED host
    /\ UNCHANGED <<endpoint, written, requests, received, answers, faults, changes>>

\* The creator's standing now, and the row as outbound reads it.
MaySend(d, token) ==
    /\ endpoint[d[1]].manager
    /\ delivery[d].status = "pending" /\ delivery[d].token = token
    /\ endpoint[d[1]].state = "enabled"

\* A tenant transaction of its own: it ends before the post.
Authorize(h) ==
    LET d == host[h].of IN
    /\ host[h].pc = "claimed"
    /\ \/ MaySend(d, host[h].token) /\ HostAt(h, "authorized", "none") /\ UNCHANGED answers
       \/ ~MaySend(d, host[h].token) /\ HostAt(h, "answered", "failed")
          /\ Answered(d, host[h].token, "denied")
    /\ UNCHANGED <<delivery, endpoint, written, requests, received, faults, changes>>

\* Mutant: an unanswered post counts as delivered.
PostTrusting(h) ==
    LET d == host[h].of IN
    /\ host[h].pc = "authorized"
    /\ requests' = [requests EXCEPT ![d] = @ + 1]
    /\ received' \in {received, [received EXCEPT ![d] = TRUE]}
    /\ Answered(d, host[h].token, "accepted")
    /\ HostAt(h, "answered", "delivered")
    /\ UNCHANGED <<delivery, endpoint, written, faults, changes>>

\* Mutant: an unanswered post is repeated within the attempt.
PostAgain(h) ==
    LET d == host[h].of IN
    /\ host[h].pc = "authorized"
    /\ requests' = [requests EXCEPT ![d] = @ + 1]
    /\ \/ /\ received' = [received EXCEPT ![d] = TRUE]
          /\ Answered(d, host[h].token, "accepted")
          /\ HostAt(h, "answered", "delivered")
       \/ /\ UNCHANGED <<received, host>>
          /\ Answered(d, host[h].token, "unconfirmed")
    /\ UNCHANGED <<delivery, endpoint, written, faults, changes>>

\* The endpoint answers 2xx, answers otherwise, or its answer is lost.
Post(h) ==
    LET d == host[h].of IN
    /\ host[h].pc = "authorized"
    /\ requests' = [requests EXCEPT ![d] = @ + 1]
    /\ \/ /\ received' = [received EXCEPT ![d] = TRUE]
          /\ Answered(d, host[h].token, "accepted")
          /\ HostAt(h, "answered", "delivered")
       \/ /\ received' \in {received, [received EXCEPT ![d] = TRUE]}
          /\ Answered(d, host[h].token, "unconfirmed")
          /\ HostAt(h, "answered", IF host[h].token >= Attempts THEN "failed" ELSE "pending")
    /\ UNCHANGED <<delivery, endpoint, written, faults, changes>>

\* Mutant: the token of the claim is not compared.
SettleUnfenced(h) ==
    LET d == host[h].of IN
    /\ host[h].pc = "answered"
    /\ delivery' = IF delivery[d].status = "pending"
                   THEN [delivery EXCEPT ![d].status = host[h].verdict, ![d].token = 0,
                                         ![d].lease = "none", ![d].due = FALSE]
                   ELSE delivery
    /\ HostIdle(h)
    /\ UNCHANGED <<endpoint, written, requests, received, answers, faults, changes>>

\* settle_webhook_delivery: only under the token of the claim.
Settle(h) ==
    LET d == host[h].of IN
    /\ host[h].pc = "answered"
    /\ delivery' = IF delivery[d].status = "pending" /\ delivery[d].token = host[h].token
                   THEN [delivery EXCEPT ![d].status = host[h].verdict, ![d].token = 0,
                                         ![d].lease = "none", ![d].due = FALSE]
                   ELSE delivery
    /\ HostIdle(h)
    /\ UNCHANGED <<endpoint, written, requests, received, answers, faults, changes>>

\* The process dies or a database call fails: the tick ends, nothing is
\* settled, the lease is left to lapse.
Abandon(h) ==
    /\ Fault
    /\ host[h].pc # "idle"
    /\ HostIdle(h)
    /\ UNCHANGED <<delivery, endpoint, written, requests, received, answers, changes>>

-----------------------------------------------------------------------------
Init ==
    /\ delivery = [d \in Deliveries |-> NoDelivery]
    /\ endpoint = [n \in Endpoints |-> [state |-> "absent", events |-> {}, manager |-> TRUE]]
    /\ written = {}
    /\ host = [h \in Hosts |-> IdleHost]
    /\ requests = [d \in Deliveries |-> 0]
    /\ received = [d \in Deliveries |-> FALSE]
    /\ answers = [d \in Deliveries |-> [n \in 1..Attempts |-> "none"]]
    /\ faults = 0
    /\ changes = 0

Manage ==
    \E n \in Endpoints :
       \/ \E events \in SUBSET Events :
             \/ CreateEndpoint(n, events)
             \/ \E state \in {"enabled", "disabled"} : UpdateEndpoint(n, state, events)
       \/ DeleteEndpoint(n) \/ ChangeStanding(n)

Time == \E d \in Deliveries : Lapse(d) \/ FallDue(d)

DispatchOne(h) == Claim(h) \/ Authorize(h) \/ Post(h) \/ Settle(h)

Next ==
    \/ Manage
    \/ \E e \in Events : Record(e)
    \/ Time
    \/ \E h \in Hosts : DispatchOne(h) \/ Abandon(h)

Spec == Init /\ [][Next]_vars

\* Every loop schedules its next tick whether or not the last one failed, and
\* time passes.
Fairness ==
    /\ \A h \in Hosts : WF_vars(DispatchOne(h))
    /\ \A d \in Deliveries : WF_vars(Lapse(d)) /\ WF_vars(FallDue(d))

FairSpec == Spec /\ Fairness

-----------------------------------------------------------------------------
(* Properties *)

Verdicts == {"none", "pending"} \cup Settled
Rows == [status : {"absent", "removed", "pending"} \cup Settled, attempts : 0..Attempts,
         token : 0..Attempts, lease : {"none", "live", "expired"}, due : BOOLEAN]
HostStates == [pc : {"idle", "claimed", "authorized", "answered"},
               of : Deliveries \cup {<<>>}, token : 0..Attempts, verdict : Verdicts]

TypeOK ==
    /\ delivery \in [Deliveries -> Rows]
    /\ endpoint \in [Endpoints -> [state : {"absent", "enabled", "disabled", "deleted"},
                                   events : SUBSET Events, manager : BOOLEAN]]
    /\ written \subseteq Events
    /\ host \in [Hosts -> HostStates]
    /\ requests \in [Deliveries -> 0..Attempts]
    /\ received \in [Deliveries -> BOOLEAN]
    /\ answers \in [Deliveries -> [1..Attempts -> {"none", "denied", "accepted", "unconfirmed"}]]
    /\ faults \in 0..MaxFaults
    /\ changes \in 0..MaxChanges

LastAnswer(d) == answers[d][delivery[d].attempts]

\* The row always tells what became of its latest attempt, although older
\* attempts may still be posting or settling after their lease was taken
\* over: "delivered" is that attempt's 2xx, a retry is scheduled only after
\* it got no 2xx, and a row fails only by its denial or by the last attempt.
RowTellsLastAttempt ==
    \A d \in Deliveries :
        LET r == delivery[d] IN
        /\ r.status = "delivered" => r.attempts > 0 /\ LastAnswer(d) = "accepted"
        /\ r.status = "failed" =>
              r.attempts > 0 /\ (r.attempts = Attempts \/ LastAnswer(d) = "denied")
        /\ r.status = "pending" /\ r.lease = "none" /\ r.attempts > 0 =>
              LastAnswer(d) = "unconfirmed"

\* No host posts on the strength of another's lease: an attempt posts once,
\* so that crashes, takeovers and late posts together never make more
\* requests than were counted.
Posted(d) == {n \in 1..Attempts : answers[d][n] \in {"accepted", "unconfirmed"}}
EachAttemptPostsOnce == \A d \in Deliveries : requests[d] = Cardinality(Posted(d))

\* Every recorded delivery is settled or removed with its endpoint.
EveryDeliverySettles ==
    \A d \in Deliveries : delivery[d].status = "pending" ~> delivery[d].status \in Settled \cup {"removed"}

OutcomeOf(status) ==
    CASE status = "absent" -> "none" [] status = "removed" -> "withdrawn" [] OTHER -> status

Bounded == INSTANCE BoundedDelivery
    WITH Items <- Deliveries, Limit <- Attempts, sends <- requests, received <- received,
         outcome <- [d \in Deliveries |-> OutcomeOf(delivery[d].status)]

\* Leases, retries and crashes together make a bounded delivery with one
\* final outcome.
ImplementsBoundedDelivery == Bounded!Spec

\* The inductive invariant behind the theorems of WebhookDeliveryProofs: what
\* a row says of its lease, what a host at work may rely on, and that no two
\* hosts ever work for the same attempt.
LeasesHold ==
    \A d \in Deliveries :
        LET r == delivery[d] IN
        /\ r.status # "absent" => d[2] \in written
        /\ r.status = "absent" => r.attempts = 0
        /\ r.status # "removed" => \A n \in 1..Attempts : n > r.attempts => answers[d][n] = "none"
        /\ r.status = "pending" =>
              (r.lease = "none" <=> r.token = 0) /\ (r.token # 0 => r.token = r.attempts)
        /\ r.status = "delivered" => received[d]

Working(h) == host[h].pc # "idle"

HostHolds(h) ==
    LET d == host[h].of  n == host[h].token IN
    /\ d \in Deliveries /\ n \in 1..Attempts
    /\ delivery[d].status # "absent"
    /\ delivery[d].status # "removed" => n <= delivery[d].attempts
    /\ host[h].pc \in {"claimed", "authorized"} => answers[d][n] = "none"
    /\ host[h].pc = "answered" =>
          \/ host[h].verdict = "delivered" /\ answers[d][n] = "accepted" /\ received[d]
          \/ host[h].verdict = "failed" /\ (answers[d][n] = "denied" \/ n = Attempts)
          \/ host[h].verdict = "pending" /\ answers[d][n] = "unconfirmed"

HostsHold ==
    /\ \A h \in Hosts : Working(h) => HostHolds(h)
    /\ \A g, h \in Hosts : g # h /\ Working(g) /\ Working(h) /\ host[g].of = host[h].of =>
          host[g].token # host[h].token

IInv == TypeOK /\ RowTellsLastAttempt /\ EachAttemptPostsOnce /\ LeasesHold /\ HostsHold
=============================================================================
