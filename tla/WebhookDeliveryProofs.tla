----------------------- MODULE WebhookDeliveryProofs -----------------------
(***************************************************************************)
(* Theorems about WebhookDelivery for any endpoints, events, hosts and     *)
(* bounds: the invariants of its safety run, and that it implements        *)
(* BoundedDelivery.                                                        *)
(***************************************************************************)
EXTENDS WebhookDelivery, FiniteSetTheorems, TLAPS

-----------------------------------------------------------------------------
(* Counting posts *)

\* An attempt without an answer has not posted: one post more is still within
\* the limit and is counted once.
LEMMA OnePostMore ==
    ASSUME EachAttemptPostsOnce, NEW d \in Deliveries, NEW n \in 1..Attempts,
           answers[d][n] = "none"
    PROVE  /\ requests[d] \in Nat /\ requests[d] < Attempts
           /\ Cardinality(Posted(d) \cup {n}) = requests[d] + 1
<1>. DEFINE N == 1..Attempts
<1>1. Attempts \in Nat /\ Attempts >= 1
  BY LimitAssumption
<1>2. IsFiniteSet(N) /\ Cardinality(N) = Attempts
  BY <1>1, FS_Interval
<1>3. Posted(d) \subseteq N /\ Posted(d) # N /\ n \notin Posted(d)
  BY DEF Posted
<1>4. /\ IsFiniteSet(Posted(d)) /\ Cardinality(Posted(d)) <= Attempts
      /\ Cardinality(Posted(d)) # Attempts
  BY <1>2, <1>3, FS_Subset
<1>5. Cardinality(Posted(d)) \in Nat
  BY <1>4, FS_CardinalityType
<1>6. Cardinality(Posted(d) \cup {n}) = Cardinality(Posted(d)) + 1
  BY <1>3, <1>4, FS_AddElement
<1>. QED
  BY <1>1, <1>4, <1>5, <1>6 DEF EachAttemptPostsOnce

-----------------------------------------------------------------------------
(* The inductive invariant *)

\* The rows a delivery starts and ends with are rows.
LEMMA RowsTyped ==
    /\ NoDelivery \in Rows /\ NewDelivery \in Rows /\ RemovedDelivery \in Rows
    /\ NewDelivery.status = "pending" /\ NewDelivery.attempts = 0
    /\ NewDelivery.token = 0 /\ NewDelivery.lease = "none"
    /\ RemovedDelivery.status = "removed"
<1>1. 0 \in 0..Attempts
  BY LimitAssumption
<1>. QED
  BY <1>1 DEF NoDelivery, NewDelivery, RemovedDelivery, Unleased, Rows, Settled

LEMMA InitHolds == Init => IInv
<1>. SUFFICES ASSUME Init PROVE IInv
  OBVIOUS
<1>1. TypeOK
  BY LimitAssumption DEF Init, TypeOK, Rows, HostStates, NoDelivery, Unleased, IdleHost, Verdicts, Settled
<1>2. EachAttemptPostsOnce
  <2>1. \A d \in Deliveries : Posted(d) = {} /\ requests[d] = 0
    BY DEF Init, Posted
  <2>. QED
    BY <2>1, FS_EmptySet DEF EachAttemptPostsOnce
<1>3. RowTellsLastAttempt /\ LeasesHold
  BY DEF Init, RowTellsLastAttempt, LeasesHold, NoDelivery, Unleased
<1>4. HostsHold
  BY DEF Init, HostsHold, Working, IdleHost
<1>. QED
  BY <1>1, <1>2, <1>3, <1>4 DEF IInv

\* Commands that leave rows, hosts and answers alone preserve what is said of
\* them.
LEMMA RowsUntouched ==
    ASSUME IInv, TypeOK', written \subseteq written',
           UNCHANGED <<delivery, host, requests, received, answers>>
    PROVE  IInv'
<1>1. RowTellsLastAttempt'
  BY DEF IInv, RowTellsLastAttempt, LastAnswer
<1>2. EachAttemptPostsOnce'
  BY DEF IInv, EachAttemptPostsOnce, Posted
<1>3. LeasesHold'
  BY DEF IInv, LeasesHold
<1>4. HostsHold'
  BY DEF IInv, HostsHold, HostHolds, Working
<1>. QED
  BY <1>1, <1>2, <1>3, <1>4 DEF IInv

LEMMA ManageHolds == IInv /\ Manage => IInv'
<1>. SUFFICES ASSUME IInv, NEW n \in Endpoints,
                     \/ \E events \in SUBSET Events :
                           \/ CreateEndpoint(n, events)
                           \/ \E state \in {"enabled", "disabled"} : UpdateEndpoint(n, state, events)
                     \/ DeleteEndpoint(n) \/ ChangeStanding(n)
              PROVE  IInv'
  BY DEF Manage
<1>0. Change => changes' \in 0..MaxChanges
  BY LimitAssumption DEF Change, IInv, TypeOK
<1>1. ASSUME NEW events \in SUBSET Events, CreateEndpoint(n, events) PROVE IInv'
  <2>1. TypeOK'
    BY <1>1 DEF CreateEndpoint, IInv, TypeOK
  <2>. QED
    BY <1>1, <2>1, RowsUntouched DEF CreateEndpoint
<1>2. ASSUME NEW events \in SUBSET Events, NEW state \in {"enabled", "disabled"},
             UpdateEndpoint(n, state, events)
      PROVE  IInv'
  <2>1. TypeOK'
    BY <1>0, <1>2 DEF UpdateEndpoint, IInv, TypeOK
  <2>. QED
    BY <1>2, <2>1, RowsUntouched DEF UpdateEndpoint
<1>3. CASE ChangeStanding(n)
  <2>1. TypeOK'
    BY <1>0, <1>3 DEF ChangeStanding, IInv, TypeOK
  <2>. QED
    BY <1>3, <2>1, RowsUntouched DEF ChangeStanding
<1>4. CASE DeleteEndpoint(n)
  <2>. DEFINE Gone(d) == d[1] = n /\ delivery[d].status # "absent"
  <2>2. TypeOK'
    BY <1>0, <1>4, RowsTyped DEF DeleteEndpoint, IInv, TypeOK
  <2>3. \A d \in Deliveries : delivery'[d] = IF Gone(d) THEN RemovedDelivery
                                             ELSE delivery[d]
    BY <1>4 DEF DeleteEndpoint
  <2>4. \A d \in Deliveries : delivery'[d].status = "removed" \/ delivery'[d] = delivery[d]
    BY <2>3, RowsTyped
  <2>5. UNCHANGED <<written, host, requests, received, answers>>
    BY <1>4 DEF DeleteEndpoint
  <2>6. RowTellsLastAttempt'
    BY <2>4, <2>5 DEF IInv, RowTellsLastAttempt, LastAnswer
  <2>7. EachAttemptPostsOnce'
    BY <2>5 DEF IInv, EachAttemptPostsOnce, Posted
  <2>8. LeasesHold'
    BY <2>3, <2>4, <2>5 DEF IInv, LeasesHold
  <2>9. HostsHold'
    BY <2>4, <2>5 DEF IInv, HostsHold, HostHolds, Working
  <2>. QED
    BY <2>2, <2>6, <2>7, <2>8, <2>9 DEF IInv
<1>. QED
  BY <1>1, <1>2, <1>3, <1>4

LEMMA RecordHolds == ASSUME IInv, NEW e \in Events, Record(e) PROVE IInv'
<1>. DEFINE Subscribed(d) == d[2] = e /\ endpoint[d[1]].state = "enabled" /\ e \in endpoint[d[1]].events
<1>2. TypeOK'
  BY RowsTyped DEF Record, IInv, TypeOK
<1>3. \A d \in Deliveries : delivery'[d] = IF Subscribed(d) THEN NewDelivery ELSE delivery[d]
  BY DEF Record
<1>4. \A d \in Deliveries : Subscribed(d) => delivery[d].status = "absent"
  BY DEF Record, IInv, LeasesHold
<1>5. UNCHANGED <<host, requests, received, answers>> /\ written' = written \cup {e}
  BY DEF Record
<1>6. RowTellsLastAttempt'
  BY RowsTyped, <1>3, <1>5 DEF IInv, RowTellsLastAttempt, LastAnswer
<1>7. EachAttemptPostsOnce'
  BY <1>5 DEF IInv, EachAttemptPostsOnce, Posted
<1>8. LeasesHold'
  BY RowsTyped, <1>3, <1>4, <1>5 DEF IInv, LeasesHold
<1>9. HostsHold'
  <2>1. \A h \in Hosts : Working(h) => delivery'[host[h].of] = delivery[host[h].of]
    BY <1>3, <1>4 DEF IInv, HostsHold, HostHolds
  <2>. QED
    BY <1>5, <2>1 DEF IInv, HostsHold, HostHolds, Working
<1>. QED
  BY <1>2, <1>6, <1>7, <1>8, <1>9 DEF IInv

LEMMA TimeHolds == ASSUME IInv, NEW d \in Deliveries, Lapse(d) \/ FallDue(d) PROVE IInv'
<1>0. PICK row \in Rows :
         /\ row.status = delivery[d].status /\ row.attempts = delivery[d].attempts
         /\ row.token = delivery[d].token /\ (row.lease = "none" <=> delivery[d].lease = "none")
         /\ delivery' = [delivery EXCEPT ![d] = row]
  <2>1. delivery[d] \in Rows
    BY DEF IInv, TypeOK
  <2>2. CASE Lapse(d)
    <3>. DEFINE row == [delivery[d] EXCEPT !.lease = "expired"]
    <3>1. row \in Rows /\ row.status = delivery[d].status /\ row.attempts = delivery[d].attempts
          /\ row.token = delivery[d].token /\ row.lease = "expired"
      BY <2>1 DEF Rows
    <3>2. delivery' = [delivery EXCEPT ![d] = row] /\ delivery[d].lease = "live"
      BY <2>2 DEF Lapse
    <3>. QED
      BY <3>1, <3>2
  <2>3. CASE FallDue(d)
    <3>. DEFINE row == [delivery[d] EXCEPT !.due = TRUE]
    <3>1. row \in Rows /\ row.status = delivery[d].status /\ row.attempts = delivery[d].attempts
          /\ row.token = delivery[d].token /\ row.lease = delivery[d].lease
      BY <2>1 DEF Rows
    <3>2. delivery' = [delivery EXCEPT ![d] = row]
      BY <2>3 DEF FallDue
    <3>. QED
      BY <3>1, <3>2
  <2>. QED
    BY <2>2, <2>3
<1>1. TypeOK'
  BY <1>0 DEF Lapse, FallDue, IInv, TypeOK
<1>2. UNCHANGED <<written, host, requests, received, answers>>
  BY DEF Lapse, FallDue
<1>3. \A c \in Deliveries : /\ delivery'[c].status = delivery[c].status
                            /\ delivery'[c].attempts = delivery[c].attempts
                            /\ delivery'[c].token = delivery[c].token
                            /\ delivery'[c].lease = "none" <=> delivery[c].lease = "none"
  BY <1>0 DEF IInv, TypeOK
<1>4. RowTellsLastAttempt'
  BY <1>2, <1>3 DEF IInv, RowTellsLastAttempt, LastAnswer
<1>5. EachAttemptPostsOnce'
  BY <1>2 DEF IInv, EachAttemptPostsOnce, Posted
<1>6. LeasesHold'
  BY <1>2, <1>3 DEF IInv, LeasesHold
<1>7. HostsHold'
  BY <1>2, <1>3 DEF IInv, HostsHold, HostHolds, Working
<1>. QED
  BY <1>1, <1>4, <1>5, <1>6, <1>7 DEF IInv

\* A claim gives up exhausted rows; the leased row's new token is larger than
\* the token of any host still at work for an older attempt.
LEMMA ClaimHolds == ASSUME IInv, NEW h \in Hosts, Claim(h) PROVE IInv'
<1>. DEFINE Swept == [d \in Deliveries |-> IF Exhausted(d) THEN Failed(delivery[d]) ELSE delivery[d]]
<1>0. Attempts \in Nat /\ Attempts >= 1
  BY LimitAssumption
<1>1. UNCHANGED <<written, requests, received, answers, endpoint, faults, changes>>
  BY DEF Claim
<1>2. \A c \in Deliveries : Exhausted(c) =>
         /\ Swept[c].status = "failed" /\ Swept[c].attempts = delivery[c].attempts
         /\ Swept[c] \in Rows /\ delivery[c].attempts = Attempts
  <2>. SUFFICES ASSUME NEW c \in Deliveries, Exhausted(c)
                PROVE  /\ Failed(delivery[c]).status = "failed"
                       /\ Failed(delivery[c]).attempts = delivery[c].attempts
                       /\ Failed(delivery[c]) \in Rows /\ delivery[c].attempts = Attempts
    OBVIOUS
  <2>1. delivery[c] \in Rows /\ delivery[c].attempts >= Attempts
    BY DEF Exhausted, IInv, TypeOK
  <2>2. delivery[c].attempts \in 0..Attempts
    BY <2>1 DEF Rows
  <2>3. \A r \in Rows : Failed(r).status = "failed" /\ Failed(r).attempts = r.attempts /\ Failed(r) \in Rows
    <3>1. 0 \in 0..Attempts
      BY <1>0
    <3>. QED
      BY <3>1 DEF Failed, Rows, Settled
  <2>. QED
    BY <1>0, <2>1, <2>2, <2>3
<1>3. Swept \in [Deliveries -> Rows]
  BY <1>2 DEF IInv, TypeOK
<1>4. EachAttemptPostsOnce'
  BY <1>1 DEF IInv, EachAttemptPostsOnce, Posted
<1>5. CASE delivery' = Swept /\ UNCHANGED host
  <2>1. TypeOK'
    BY <1>1, <1>3, <1>5 DEF IInv, TypeOK
  <2>2. \A c \in Deliveries :
           \/ /\ delivery'[c].status = "failed" /\ delivery[c].status = "pending"
              /\ delivery'[c].attempts = delivery[c].attempts /\ delivery[c].attempts = Attempts
           \/ delivery'[c] = delivery[c]
    BY <1>2, <1>5 DEF Exhausted, Unheld
  <2>3. RowTellsLastAttempt'
    BY <1>0, <1>1, <2>2 DEF IInv, RowTellsLastAttempt, LastAnswer
  <2>4. LeasesHold'
    BY <1>1, <2>2 DEF IInv, LeasesHold
  <2>5. HostsHold'
    BY <1>1, <1>5, <2>2 DEF IInv, HostsHold, HostHolds, Working
  <2>. QED
    BY <1>4, <2>1, <2>3, <2>4, <2>5 DEF IInv
<1>6. ASSUME NEW d \in Deliveries, Claimable(d), delivery' = [Swept EXCEPT ![d] = Leased(@)],
             host' = [host EXCEPT ![h] = [pc |-> "claimed", of |-> d, verdict |-> "none",
                                          token |-> delivery[d].attempts + 1]]
      PROVE  IInv'
  <2>. DEFINE n == delivery[d].attempts + 1
  <2>1. /\ ~Exhausted(d) /\ delivery[d].status = "pending" /\ delivery[d].attempts \in 0..Attempts
        /\ n \in 1..Attempts /\ answers[d][n] = "none"
    <3>1. delivery[d].attempts \in 0..Attempts
      BY DEF IInv, TypeOK, Rows
    <3>2. delivery[d].status = "pending" /\ delivery[d].attempts < Attempts
      BY <1>6 DEF Claimable, Unheld
    <3>3. n \in 1..Attempts /\ n > delivery[d].attempts /\ ~Exhausted(d)
      BY <1>0, <3>1, <3>2 DEF Exhausted
    <3>. QED
      BY <3>1, <3>2, <3>3 DEF IInv, LeasesHold
  <2>2. /\ delivery'[d] \in Rows /\ delivery'[d].status = "pending" /\ delivery'[d].attempts = n
        /\ delivery'[d].token = n /\ delivery'[d].lease = "live"
    <3>1. \A r \in Rows : r.attempts + 1 \in 0..Attempts =>
             /\ Leased(r) \in Rows /\ Leased(r).status = r.status /\ Leased(r).lease = "live"
             /\ Leased(r).attempts = r.attempts + 1 /\ Leased(r).token = r.attempts + 1
      BY DEF Leased, Rows
    <3>2. delivery[d] \in Rows /\ n \in 0..Attempts
      BY <1>0, <2>1 DEF IInv, TypeOK
    <3>3. delivery'[d] = Leased(delivery[d])
      BY <1>6, <2>1
    <3>. QED
      BY <2>1, <3>1, <3>2, <3>3
  <2>3. \A c \in Deliveries \ {d} :
           \/ /\ delivery'[c].status = "failed" /\ delivery[c].status = "pending"
              /\ delivery'[c].attempts = delivery[c].attempts /\ delivery[c].attempts = Attempts
           \/ delivery'[c] = delivery[c]
    BY <1>2, <1>6 DEF Exhausted, Unheld
  <2>4. TypeOK'
    <3>1. delivery' \in [Deliveries -> Rows]
      BY <1>3, <1>6, <2>2
    <3>2. host' \in [Hosts -> HostStates]
      BY <1>0, <1>6, <2>1 DEF IInv, TypeOK, HostStates, Verdicts
    <3>. QED
      BY <1>1, <3>1, <3>2 DEF IInv, TypeOK
  <2>5. RowTellsLastAttempt'
    <3>. SUFFICES ASSUME NEW c \in Deliveries PROVE RowTellsLastAttempt!(c)'
      BY DEF RowTellsLastAttempt
    <3>1. CASE c = d
      BY <2>2, <3>1 DEF LastAnswer
    <3>2. CASE c # d
      BY <1>0, <1>1, <2>3, <3>2 DEF IInv, RowTellsLastAttempt, LastAnswer
    <3>. QED
      BY <3>1, <3>2
  <2>6. LeasesHold'
    <3>. SUFFICES ASSUME NEW c \in Deliveries PROVE LeasesHold!(c)'
      BY DEF LeasesHold
    <3>1. CASE c = d
      BY <1>0, <1>1, <2>1, <2>2, <3>1 DEF IInv, LeasesHold
    <3>2. CASE c # d
      BY <1>1, <2>3, <3>2 DEF IInv, LeasesHold
    <3>. QED
      BY <3>1, <3>2
  <2>7. HostsHold'
    <3>1. /\ host'[h].pc = "claimed" /\ host'[h].of = d /\ host'[h].token = n
          /\ \A g \in Hosts \ {h} : host'[g] = host[g]
      BY <1>6 DEF IInv, TypeOK
    <3>2. HostHolds(h)'
      BY <1>0, <1>1, <2>1, <2>2, <3>1 DEF HostHolds
    <3>3. \A g \in Hosts \ {h} : Working(g) => HostHolds(g)'
      <4>. SUFFICES ASSUME NEW g \in Hosts \ {h}, Working(g) PROVE HostHolds(g)'
        OBVIOUS
      <4>1. HostHolds(g) /\ host[g].of \in Deliveries
        BY DEF IInv, HostsHold, HostHolds
      <4>2. CASE host[g].of = d
        BY <1>1, <2>1, <2>2, <3>1, <4>1, <4>2 DEF HostHolds
      <4>3. CASE host[g].of # d
        BY <1>1, <2>3, <3>1, <4>1, <4>3 DEF HostHolds
      <4>. QED
        BY <4>2, <4>3
    <3>4. \A g \in Hosts \ {h} : Working(g) /\ host[g].of = d => host[g].token # n
      BY <2>1 DEF IInv, HostsHold, HostHolds
    <3>. QED
      BY <3>1, <3>2, <3>3, <3>4 DEF IInv, HostsHold, Working
  <2>. QED
    BY <1>4, <2>4, <2>5, <2>6, <2>7 DEF IInv
<1>. QED
  BY <1>5, <1>6 DEF Claim

\* An attempt that has no answer yet is answered once: its row cannot have
\* been settled by it, and no other host answers for it.
LEMMA AnswerHolds ==
    ASSUME IInv, TypeOK', NEW h \in Hosts, NEW a \in {"denied", "accepted", "unconfirmed"},
           NEW v \in {"delivered", "failed", "pending"}, NEW d, NEW n,
           d = host[h].of, n = host[h].token,
           host[h].pc \in {"claimed", "authorized"}, HostAt(h, "answered", v),
           Answered(d, n, a),
           a = "denied" => requests' = requests,
           a # "denied" => requests' = [requests EXCEPT ![d] = @ + 1],
           received' \in {received, [received EXCEPT ![d] = TRUE]},
           \/ v = "delivered" /\ a = "accepted" /\ received'[d]
           \/ v = "failed" /\ (a = "denied" \/ n = Attempts)
           \/ v = "pending" /\ a = "unconfirmed",
           UNCHANGED <<delivery, written>>
    PROVE  IInv'
<1>0. Attempts \in Nat
  BY LimitAssumption
<1>1. HostHolds(h) /\ d \in Deliveries /\ n \in 1..Attempts /\ answers[d][n] = "none"
  BY DEF IInv, HostsHold, HostHolds, Working
<1>2. /\ answers'[d][n] = a /\ \A m \in 1..Attempts \ {n} : answers'[d][m] = answers[d][m]
      /\ \A c \in Deliveries \ {d} : answers'[c] = answers[c]
  <2>1. /\ answers \in [Deliveries -> [1..Attempts -> {"none", "denied", "accepted", "unconfirmed"}]]
        /\ answers' = [answers EXCEPT ![d][n] = a]
    BY DEF Answered, IInv, TypeOK
  <2>2. answers[d] \in [1..Attempts -> {"none", "denied", "accepted", "unconfirmed"}]
    BY <1>1, <2>1
  <2>3. answers'[d] = [answers[d] EXCEPT ![n] = a]
    BY <1>1, <2>1
  <2>. QED
    BY <1>1, <2>1, <2>2, <2>3
<1>3. \A c \in Deliveries : received[c] => received'[c]
  BY <1>1 DEF IInv, TypeOK
<1>4. RowTellsLastAttempt'
  <2>. SUFFICES ASSUME NEW c \in Deliveries PROVE RowTellsLastAttempt!(c)'
    BY DEF RowTellsLastAttempt
  <2>0. delivery[c].attempts \in 0..Attempts
    BY DEF IInv, TypeOK, Rows
  <2>1. CASE c = d /\ delivery[c].attempts = n
    BY <1>1, <1>2, <2>0, <2>1 DEF IInv, RowTellsLastAttempt, LastAnswer
  <2>2. CASE c # d \/ delivery[c].attempts # n
    <3>1. delivery[c].attempts > 0 => LastAnswer(c)' = LastAnswer(c)
      BY <1>2, <2>0, <2>2 DEF LastAnswer
    <3>. QED
      BY <3>1, <2>0 DEF IInv, RowTellsLastAttempt
  <2>. QED
    BY <2>1, <2>2
<1>5. EachAttemptPostsOnce'
  <2>1. /\ Posted(d)' = IF a = "denied" THEN Posted(d) ELSE Posted(d) \cup {n}
        /\ \A c \in Deliveries \ {d} : Posted(c)' = Posted(c)
    <3>1. \A m \in 1..Attempts : answers'[d][m] = IF m = n THEN a ELSE answers[d][m]
      BY <1>2
    <3>. QED
      BY <1>1, <1>2, <3>1 DEF Posted
  <2>2. Cardinality(Posted(d) \cup {n}) = requests[d] + 1
    BY <1>1, OnePostMore DEF IInv
  <2>3. requests'[d] = IF a = "denied" THEN requests[d] ELSE requests[d] + 1
    BY <1>1 DEF IInv, TypeOK
  <2>4. \A c \in Deliveries \ {d} : requests'[c] = requests[c]
    BY DEF IInv, TypeOK
  <2>5. \A c \in Deliveries : requests[c] = Cardinality(Posted(c))
    BY DEF IInv, EachAttemptPostsOnce
  <2>6. requests'[d] = Cardinality(Posted(d)')
    BY <1>1, <2>1, <2>2, <2>3, <2>5
  <2>7. \A c \in Deliveries \ {d} : requests'[c] = Cardinality(Posted(c)')
    BY <2>1, <2>4, <2>5
  <2>. SUFFICES ASSUME NEW c \in Deliveries PROVE EachAttemptPostsOnce!(c)'
    BY DEF EachAttemptPostsOnce
  <2>8. CASE c = d
    BY <2>6, <2>8
  <2>9. CASE c # d
    BY <2>7, <2>9
  <2>. QED
    BY <2>8, <2>9
<1>6. LeasesHold'
  <2>. SUFFICES ASSUME NEW c \in Deliveries PROVE LeasesHold!(c)'
    BY DEF LeasesHold
  <2>0. delivery[c].attempts \in 0..Attempts
    BY DEF IInv, TypeOK, Rows
  <2>1. ASSUME delivery[c].status # "removed", NEW m \in 1..Attempts, m > delivery[c].attempts
        PROVE  answers'[c][m] = "none"
    <3>1. c # d \/ m # n
      BY <1>1, <2>0, <2>1 DEF HostHolds
    <3>2. answers'[c][m] = answers[c][m]
      BY <1>2, <3>1
    <3>. QED
      BY <2>1, <3>2 DEF IInv, LeasesHold
  <2>. QED
    BY <1>3, <2>1 DEF IInv, LeasesHold
<1>7. HostsHold'
  <2>1. /\ host'[h].pc = "answered" /\ host'[h].verdict = v /\ host'[h].of = d
        /\ host'[h].token = n /\ \A g \in Hosts \ {h} : host'[g] = host[g]
    BY DEF HostAt, IInv, TypeOK, HostStates
  <2>2. HostHolds(h)'
    BY <1>1, <1>2, <2>1 DEF HostHolds
  <2>3. \A g \in Hosts \ {h} : Working(g) => HostHolds(g)'
    <3>. SUFFICES ASSUME NEW g \in Hosts \ {h}, Working(g) PROVE HostHolds(g)'
      OBVIOUS
    <3>1. HostHolds(g) /\ (host[g].of # d \/ host[g].token # n)
      BY DEF IInv, HostsHold, Working
    <3>2. answers'[host[g].of][host[g].token] = answers[host[g].of][host[g].token]
      BY <1>2, <3>1 DEF HostHolds
    <3>. QED
      BY <1>3, <2>1, <3>1, <3>2 DEF HostHolds
  <2>. QED
    BY <1>1, <2>1, <2>2, <2>3 DEF IInv, HostsHold, Working
<1>. QED
  BY <1>4, <1>5, <1>6, <1>7 DEF IInv

\* What moving a host on, or ending its tick, leaves of the others.
LEMMA HostMoves ==
    ASSUME IInv, NEW h \in Hosts, NEW pc \in {"claimed", "authorized", "answered"},
           NEW v \in Verdicts, HostAt(h, pc, v)
    PROVE  /\ host' \in [Hosts -> HostStates]
           /\ host'[h].pc = pc /\ host'[h].of = host[h].of /\ host'[h].token = host[h].token
           /\ \A g \in Hosts \ {h} : host'[g] = host[g]
<1>. DEFINE next == [host[h] EXCEPT !.pc = pc, !.verdict = v]
<1>1. host \in [Hosts -> HostStates] /\ host[h] \in HostStates
  BY DEF IInv, TypeOK
<1>2. next \in HostStates /\ next.pc = pc /\ next.of = host[h].of /\ next.token = host[h].token
  BY <1>1 DEF HostStates
<1>3. host' = [host EXCEPT ![h] = next]
  BY <1>1 DEF HostAt
<1>. QED
  BY <1>1, <1>2, <1>3

LEMMA HostEnds ==
    ASSUME IInv, NEW h \in Hosts, HostIdle(h)
    PROVE  /\ host' \in [Hosts -> HostStates] /\ host'[h].pc = "idle"
           /\ \A g \in Hosts \ {h} : host'[g] = host[g]
<1>1. 0 \in 0..Attempts
  BY LimitAssumption
<1>2. IdleHost \in HostStates /\ IdleHost.pc = "idle"
  BY <1>1 DEF IdleHost, HostStates, Verdicts
<1>. QED
  BY <1>2 DEF HostIdle, IInv, TypeOK

LEMMA AuthorizeHolds == ASSUME IInv, NEW h \in Hosts, Authorize(h) PROVE IInv'
<1>. PICK d, n : d = host[h].of /\ n = host[h].token
  OBVIOUS
<1>0. HostHolds(h) /\ d \in Deliveries /\ n \in 1..Attempts
  BY DEF Authorize, IInv, HostsHold, HostHolds, Working
<1>1. CASE HostAt(h, "authorized", "none") /\ UNCHANGED answers
  <2>1. TypeOK'
    BY <1>1, HostMoves DEF Authorize, IInv, TypeOK, Verdicts
  <2>2. UNCHANGED <<delivery, written, requests, received, answers>>
    BY <1>1 DEF Authorize
  <2>3. /\ host'[h].pc = "authorized" /\ host'[h].of = d /\ host'[h].token = n
        /\ \A g \in Hosts \ {h} : host'[g] = host[g]
    BY <1>1, HostMoves DEF Verdicts
  <2>4. RowTellsLastAttempt'
    BY <2>2 DEF IInv, RowTellsLastAttempt, LastAnswer
  <2>5. EachAttemptPostsOnce'
    BY <2>2 DEF IInv, EachAttemptPostsOnce, Posted
  <2>6. LeasesHold'
    BY <2>2 DEF IInv, LeasesHold
  <2>7. HostsHold'
    BY <1>0, <2>2, <2>3 DEF Authorize, IInv, HostsHold, HostHolds, Working
  <2>. QED
    BY <2>1, <2>4, <2>5, <2>6, <2>7 DEF IInv
<1>2. CASE HostAt(h, "answered", "failed") /\ Answered(d, n, "denied")
  <2>1. TypeOK'
    <3>1. answers' \in [Deliveries -> [1..Attempts -> {"none", "denied", "accepted", "unconfirmed"}]]
      BY <1>2 DEF Answered, IInv, TypeOK
    <3>2. host' \in [Hosts -> HostStates]
      BY <1>2, HostMoves DEF Verdicts, Settled
    <3>. QED
      BY <3>1, <3>2 DEF Authorize, IInv, TypeOK
  <2>. QED
    BY <1>2, <2>1, AnswerHolds DEF Authorize
<1>. QED
  BY <1>1, <1>2 DEF Authorize

LEMMA PostHolds == ASSUME IInv, NEW h \in Hosts, Post(h) PROVE IInv'
<1>. PICK d, n : d = host[h].of /\ n = host[h].token
  OBVIOUS
<1>0. HostHolds(h) /\ d \in Deliveries /\ n \in 1..Attempts /\ answers[d][n] = "none"
  BY DEF Post, IInv, HostsHold, HostHolds, Working
<1>1. requests' = [requests EXCEPT ![d] = @ + 1] /\ UNCHANGED <<delivery, endpoint, written, faults, changes>>
  BY DEF Post
<1>2. PICK a \in {"accepted", "unconfirmed"}, v \in {"delivered", "failed", "pending"} :
         /\ HostAt(h, "answered", v) /\ Answered(d, n, a)
         /\ received' \in {received, [received EXCEPT ![d] = TRUE]}
         /\ \/ v = "delivered" /\ a = "accepted" /\ received' = [received EXCEPT ![d] = TRUE]
            \/ v = "failed" /\ n >= Attempts
            \/ v = "pending" /\ a = "unconfirmed"
  BY DEF Post
<1>3. TypeOK'
  <2>1. requests' \in [Deliveries -> 0..Attempts]
    <3>1. requests[d] + 1 \in 0..Attempts
      <4>1. requests[d] \in Nat /\ requests[d] < Attempts
        BY <1>0, OnePostMore DEF IInv
      <4>2. Attempts \in Nat
        BY LimitAssumption
      <4>. QED
        BY <4>1, <4>2
    <3>. QED
      BY <1>0, <1>1, <3>1 DEF IInv, TypeOK
  <2>2. received' \in [Deliveries -> BOOLEAN]
    BY <1>2 DEF IInv, TypeOK
  <2>3. answers' \in [Deliveries -> [1..Attempts -> {"none", "denied", "accepted", "unconfirmed"}]]
    BY <1>2 DEF Answered, IInv, TypeOK
  <2>4. host' \in [Hosts -> HostStates]
    BY <1>2, HostMoves DEF Verdicts, Settled
  <2>. QED
    BY <1>1, <2>1, <2>2, <2>3, <2>4 DEF IInv, TypeOK
<1>4. /\ v = "delivered" => received'[d]
      /\ v = "failed" => n = Attempts
  BY <1>0, <1>2, LimitAssumption DEF IInv, TypeOK
<1>5. host[h].pc \in {"claimed", "authorized"}
  BY DEF Post
<1>6. \/ v = "delivered" /\ a = "accepted" /\ received'[d]
      \/ v = "failed" /\ (a = "denied" \/ n = Attempts)
      \/ v = "pending" /\ a = "unconfirmed"
  BY <1>2, <1>4
<1>7. /\ a # "denied" /\ requests' = [requests EXCEPT ![d] = @ + 1]
      /\ UNCHANGED <<delivery, written>> /\ a \in {"denied", "accepted", "unconfirmed"}
  BY <1>1
<1>8. HostAt(h, "answered", v) /\ Answered(d, n, a) /\ received' \in {received, [received EXCEPT ![d] = TRUE]}
  BY <1>2
<1>. QED
  BY <1>3, <1>5, <1>6, <1>7, <1>8, AnswerHolds, ZenonT(60)

\* A token that still matches is the row's latest attempt, so the verdict is
\* about that attempt.
LEMMA SettleHolds == ASSUME IInv, NEW h \in Hosts, Settle(h) PROVE IInv'
<1>. PICK d, n : d = host[h].of /\ n = host[h].token
  OBVIOUS
<1>0. HostHolds(h) /\ d \in Deliveries /\ n \in 1..Attempts /\ host[h].pc = "answered"
  BY DEF Settle, IInv, HostsHold, HostHolds, Working
<1>1. UNCHANGED <<endpoint, written, requests, received, answers, faults, changes>>
  BY DEF Settle
<1>2. host'[h].pc = "idle" /\ \A g \in Hosts \ {h} : host'[g] = host[g]
  BY HostEnds DEF Settle
<1>3. host[h].verdict \in {"pending", "delivered", "failed"}
  BY <1>0 DEF HostHolds
<1>4. \/ delivery' = delivery
      \/ /\ delivery[d].status = "pending" /\ delivery[d].token = n
         /\ delivery' = [delivery EXCEPT ![d].status = host[h].verdict, ![d].token = 0,
                                         ![d].lease = "none", ![d].due = FALSE]
  BY DEF Settle
<1>5. PICK row \in Rows :
         /\ delivery' = [delivery EXCEPT ![d] = row]
         /\ \/ row = delivery[d]
            \/ /\ delivery[d].status = "pending" /\ delivery[d].token = n
               /\ row.status = host[h].verdict /\ row.token = 0 /\ row.lease = "none"
               /\ row.attempts = delivery[d].attempts
  <2>1. delivery[d] \in Rows /\ delivery \in [Deliveries -> Rows]
    BY <1>0 DEF IInv, TypeOK
  <2>2. CASE delivery' = delivery
    <3>1. delivery' = [delivery EXCEPT ![d] = delivery[d]]
      BY <1>0, <2>1, <2>2
    <3>. QED
      BY <2>1, <3>1
  <2>3. CASE /\ delivery[d].status = "pending" /\ delivery[d].token = n
             /\ delivery' = [delivery EXCEPT ![d].status = host[h].verdict, ![d].token = 0,
                                             ![d].lease = "none", ![d].due = FALSE]
    <3>. DEFINE row == [delivery[d] EXCEPT !.status = host[h].verdict, !.token = 0,
                                           !.lease = "none", !.due = FALSE]
    <3>1. 0 \in 0..Attempts
      BY LimitAssumption
    <3>2. row \in Rows /\ row.status = host[h].verdict /\ row.token = 0 /\ row.lease = "none"
          /\ row.attempts = delivery[d].attempts
      BY <1>3, <2>1, <3>1 DEF Rows, Settled
    <3>3. delivery' = [delivery EXCEPT ![d] = row]
      BY <1>0, <2>1, <2>3
    <3>. QED
      BY <2>3, <3>2, <3>3
  <2>. QED
    BY <1>4, <2>2, <2>3
<1>6. delivery'[d] = row /\ \A c \in Deliveries \ {d} : delivery'[c] = delivery[c]
  BY <1>0, <1>5 DEF IInv, TypeOK
<1>7. TypeOK'
  <2>1. host' \in [Hosts -> HostStates]
    BY HostEnds DEF Settle
  <2>2. delivery' \in [Deliveries -> Rows]
    BY <1>5 DEF IInv, TypeOK
  <2>. QED
    BY <1>1, <2>1, <2>2 DEF IInv, TypeOK
<1>8. delivery[d].status = "pending" /\ delivery[d].token = n => n = delivery[d].attempts
  BY <1>0 DEF IInv, LeasesHold
<1>9. RowTellsLastAttempt'
  <2>. SUFFICES ASSUME NEW c \in Deliveries PROVE RowTellsLastAttempt!(c)'
    BY DEF RowTellsLastAttempt
  <2>1. CASE c = d
    BY <1>0, <1>1, <1>5, <1>6, <1>8, <2>1, SMTT(30) DEF IInv, RowTellsLastAttempt, LastAnswer, HostHolds
  <2>2. CASE c # d
    BY <1>1, <1>6, <2>2 DEF IInv, RowTellsLastAttempt, LastAnswer
  <2>. QED
    BY <2>1, <2>2
<1>10. EachAttemptPostsOnce'
  BY <1>1 DEF IInv, EachAttemptPostsOnce, Posted
<1>11. LeasesHold'
  <2>. SUFFICES ASSUME NEW c \in Deliveries PROVE LeasesHold!(c)'
    BY DEF LeasesHold
  <2>1. CASE c = d
    BY <1>0, <1>1, <1>5, <1>6, <2>1 DEF IInv, LeasesHold, HostHolds
  <2>2. CASE c # d
    BY <1>1, <1>6, <2>2 DEF IInv, LeasesHold
  <2>. QED
    BY <2>1, <2>2
<1>12. HostsHold'
  <2>1. \A c \in Deliveries :
           /\ delivery'[c].attempts = delivery[c].attempts
           /\ \/ delivery'[c].status = delivery[c].status
              \/ /\ delivery[c].status = "pending"
                 /\ delivery'[c].status \in {"pending", "delivered", "failed"}
    <3>. SUFFICES ASSUME NEW c \in Deliveries
                  PROVE  /\ delivery'[c].attempts = delivery[c].attempts
                         /\ \/ delivery'[c].status = delivery[c].status
                            \/ /\ delivery[c].status = "pending"
                               /\ delivery'[c].status \in {"pending", "delivered", "failed"}
      OBVIOUS
    <3>1. CASE c = d
      BY <1>3, <1>5, <1>6, <3>1
    <3>2. CASE c # d
      BY <1>6, <3>2
    <3>. QED
      BY <3>1, <3>2
  <2>2. \A g \in Hosts \ {h} : Working(g) => HostHolds(g)'
    BY <1>1, <1>2, <2>1 DEF IInv, HostsHold, HostHolds
  <2>. QED
    BY <1>2, <2>2 DEF IInv, HostsHold, Working
<1>. QED
  BY <1>7, <1>9, <1>10, <1>11, <1>12 DEF IInv

LEMMA AbandonHolds == ASSUME IInv, NEW h \in Hosts, Abandon(h) PROVE IInv'
<1>1. UNCHANGED <<delivery, endpoint, written, requests, received, answers, changes>>
  BY DEF Abandon
<1>2. host'[h].pc = "idle" /\ \A g \in Hosts \ {h} : host'[g] = host[g]
  BY HostEnds DEF Abandon
<1>3. TypeOK'
  <2>1. host' \in [Hosts -> HostStates]
    BY HostEnds DEF Abandon
  <2>2. faults' \in 0..MaxFaults
    BY LimitAssumption DEF Abandon, Fault, IInv, TypeOK
  <2>. QED
    BY <1>1, <2>1, <2>2 DEF IInv, TypeOK
<1>4. RowTellsLastAttempt'
  BY <1>1 DEF IInv, RowTellsLastAttempt, LastAnswer
<1>5. EachAttemptPostsOnce'
  BY <1>1 DEF IInv, EachAttemptPostsOnce, Posted
<1>6. LeasesHold'
  BY <1>1 DEF IInv, LeasesHold
<1>7. HostsHold'
  BY <1>1, <1>2 DEF IInv, HostsHold, HostHolds, Working
<1>. QED
  BY <1>3, <1>4, <1>5, <1>6, <1>7 DEF IInv

LEMMA NextHolds == IInv /\ [Next]_vars => IInv'
<1>. SUFFICES ASSUME IInv, [Next]_vars PROVE IInv'
  OBVIOUS
<1>1. CASE UNCHANGED vars
  <2>1. UNCHANGED <<delivery, written, host, requests, received, answers>> /\ written \subseteq written'
    BY <1>1 DEF vars
  <2>2. TypeOK'
    BY <1>1 DEF vars, IInv, TypeOK
  <2>. QED
    BY <2>1, <2>2, RowsUntouched
<1>2. CASE Manage
  BY <1>2, ManageHolds
<1>3. ASSUME NEW e \in Events, Record(e) PROVE IInv'
  BY <1>3, RecordHolds
<1>4. CASE Time
  BY <1>4, TimeHolds DEF Time
<1>5. ASSUME NEW h \in Hosts, DispatchOne(h) \/ Abandon(h) PROVE IInv'
  BY <1>5, ClaimHolds, AuthorizeHolds, PostHolds, SettleHolds, AbandonHolds DEF DispatchOne
<1>. QED
  BY <1>1, <1>2, <1>3, <1>4, <1>5 DEF Next

-----------------------------------------------------------------------------
(* The invariants of the safety run *)

\* The inductive invariant of the deliveries and of the hosts at work for
\* them.
THEOREM InvariantHolds == Spec => []IInv
<1>. QED
  BY InitHolds, NextHolds, PTL DEF Spec

\* Types: no row counts more attempts than WORKER_ATTEMPTS, no delivery is
\* posted more often than that.
THEOREM TypesHold == Spec => []TypeOK
<1>1. IInv => TypeOK
  BY DEF IInv
<1>. QED
  BY <1>1, InvariantHolds, PTL

\* settle_webhook_delivery's comparison of tokens is enough: a row only ever
\* takes the verdict of its latest attempt.
THEOREM RowsTellLastAttempt == Spec => []RowTellsLastAttempt
<1>1. IInv => RowTellsLastAttempt
  BY DEF IInv
<1>. QED
  BY <1>1, InvariantHolds, PTL

\* A counted attempt makes at most one request, whoever takes the row over.
THEOREM AttemptsPostOnce == Spec => []EachAttemptPostsOnce
<1>1. IInv => EachAttemptPostsOnce
  BY DEF IInv
<1>. QED
  BY <1>1, InvariantHolds, PTL

-----------------------------------------------------------------------------
(* WebhookDelivery implements BoundedDelivery *)

LEMMA Outcomes ==
    /\ OutcomeOf("absent") = "none" /\ OutcomeOf("removed") = "withdrawn"
    /\ OutcomeOf("pending") = "pending" /\ OutcomeOf("delivered") = "delivered"
    /\ OutcomeOf("failed") = "failed"
<1>. QED
  BY DEF OutcomeOf

LEMMA KnownOutcomes ==
    ASSUME TypeOK, NEW d \in Deliveries, delivery[d].status # "absent"
    PROVE  OutcomeOf(delivery[d].status) # "none"
<1>1. delivery[d].status \in {"removed", "pending", "delivered", "failed"}
  BY DEF TypeOK, Rows, Settled
<1>. QED
  BY <1>1, Outcomes

\* A step that settles nothing and posts nothing is not seen outside.
LEMMA SameOutcomes ==
    ASSUME \A d \in Deliveries : delivery'[d].status = delivery[d].status,
           UNCHANGED <<requests, received>>
    PROVE  UNCHANGED Bounded!vars
<1>1. [d \in Deliveries |-> OutcomeOf(delivery'[d].status)]
         = [d \in Deliveries |-> OutcomeOf(delivery[d].status)]
  OBVIOUS
<1>. QED
  BY <1>1 DEF Bounded!vars

LEMMA DeleteWithdraws ==
    ASSUME IInv, NEW n \in Endpoints, DeleteEndpoint(n)
    PROVE  Bounded!Next
<1>. DEFINE gone == {d \in Deliveries : d[1] = n /\ delivery[d].status # "absent"}
<1>1. \A d \in Deliveries : delivery'[d] = IF d \in gone THEN RemovedDelivery ELSE delivery[d]
  BY DEF DeleteEndpoint
<1>2. \A d \in gone : OutcomeOf(delivery[d].status) # "none"
  BY KnownOutcomes DEF IInv
<1>3. \A d \in Deliveries : OutcomeOf(delivery'[d].status) =
         IF d \in gone THEN "withdrawn" ELSE OutcomeOf(delivery[d].status)
  BY <1>1, Outcomes, RowsTyped
<1>4. UNCHANGED <<requests, received>>
  BY DEF DeleteEndpoint
<1>5. Bounded!Withdraw(gone)
  BY <1>2, <1>3, <1>4 DEF Bounded!Withdraw
<1>. QED
  BY <1>5 DEF Bounded!Next

LEMMA RecordAccepts ==
    ASSUME IInv, NEW e \in Events, Record(e)
    PROVE  Bounded!Next
<1>. DEFINE new == {d \in Deliveries : /\ d[2] = e /\ endpoint[d[1]].state = "enabled"
                                       /\ e \in endpoint[d[1]].events}
<1>1. \A d \in Deliveries : delivery'[d] = IF d \in new THEN NewDelivery ELSE delivery[d]
  BY DEF Record
<1>2. \A d \in new : delivery[d].status = "absent"
  BY DEF Record, IInv, LeasesHold
<1>3. \A d \in new : OutcomeOf(delivery[d].status) = "none"
  BY <1>2, Outcomes
<1>4. \A d \in Deliveries : OutcomeOf(delivery'[d].status) =
         IF d \in new THEN "pending" ELSE OutcomeOf(delivery[d].status)
  BY <1>1, Outcomes, RowsTyped
<1>5. UNCHANGED <<requests, received>>
  BY DEF Record
<1>6. Bounded!Accept(new)
  BY <1>3, <1>4, <1>5 DEF Bounded!Accept
<1>. QED
  BY <1>6 DEF Bounded!Next

LEMMA ClaimGivesUp ==
    ASSUME IInv, NEW h \in Hosts, Claim(h)
    PROVE  Bounded!Next
<1>. DEFINE exhausted == {c \in Deliveries : Exhausted(c)}
<1>1. \A r \in Rows : Failed(r).status = "failed" /\ Leased(r).status = r.status
  BY DEF Rows, Failed, Leased
<1>2. \A c \in exhausted : OutcomeOf(delivery[c].status) = "pending"
  BY Outcomes DEF Exhausted, Unheld
<1>3. \A c \in Deliveries : delivery'[c].status = IF c \in exhausted THEN "failed" ELSE delivery[c].status
  <2>. DEFINE Swept == [d \in Deliveries |-> IF Exhausted(d) THEN Failed(delivery[d]) ELSE delivery[d]]
  <2>1. \A c \in Deliveries : Swept[c].status = IF c \in exhausted THEN "failed" ELSE delivery[c].status
    BY <1>1 DEF IInv, TypeOK
  <2>2. CASE delivery' = Swept
    BY <2>1, <2>2
  <2>3. ASSUME NEW d \in Deliveries, Claimable(d), delivery' = [Swept EXCEPT ![d] = Leased(@)]
        PROVE  \A c \in Deliveries :
                  delivery'[c].status = IF c \in exhausted THEN "failed" ELSE delivery[c].status
    <3>1. ~Exhausted(d)
      BY <2>3, LimitAssumption DEF Claimable, Exhausted, IInv, TypeOK, Rows
    <3>2. delivery'[d].status = delivery[d].status
      BY <1>1, <2>3, <3>1 DEF IInv, TypeOK
    <3>3. \A c \in Deliveries \ {d} : delivery'[c] = Swept[c]
      BY <2>3
    <3>. QED
      BY <2>1, <3>1, <3>2, <3>3
  <2>. QED
    BY <2>2, <2>3 DEF Claim
<1>4. \A c \in Deliveries : OutcomeOf(delivery'[c].status) =
         IF c \in exhausted THEN "failed" ELSE OutcomeOf(delivery[c].status)
  BY <1>3, Outcomes
<1>5. UNCHANGED <<requests, received>>
  BY DEF Claim
<1>6. Bounded!GiveUp(exhausted)
  BY <1>2, <1>4, <1>5 DEF Bounded!GiveUp
<1>. QED
  BY <1>6 DEF Bounded!Next

LEMMA PostSends ==
    ASSUME IInv, NEW h \in Hosts, Post(h)
    PROVE  Bounded!Next
<1>. PICK d, n : d = host[h].of /\ n = host[h].token
  OBVIOUS
<1>1. /\ d \in Deliveries /\ n \in 1..Attempts /\ answers[d][n] = "none"
      /\ delivery[d].status # "absent"
  BY DEF Post, IInv, HostsHold, HostHolds, Working
<1>2. requests[d] < Attempts
  BY <1>1, OnePostMore DEF IInv
<1>3. OutcomeOf(delivery[d].status) # "none"
  BY <1>1, KnownOutcomes DEF IInv
<1>4. /\ requests' = [requests EXCEPT ![d] = @ + 1] /\ UNCHANGED delivery
      /\ received' \in {received, [received EXCEPT ![d] = TRUE]}
  BY DEF Post
<1>5. Bounded!Send(d)
  BY <1>1, <1>2, <1>3, <1>4 DEF Bounded!Send
<1>. QED
  BY <1>1, <1>5 DEF Bounded!Next

LEMMA SettleSettles ==
    ASSUME IInv, NEW h \in Hosts, Settle(h)
    PROVE  [Bounded!Next]_(Bounded!vars)
<1>. PICK d : d = host[h].of
  OBVIOUS
<1>0. HostHolds(h) /\ d \in Deliveries /\ UNCHANGED <<requests, received>>
  BY DEF Settle, IInv, HostsHold, HostHolds, Working
<1>1. CASE delivery' = delivery
  BY <1>0, <1>1, SameOutcomes
<1>2. CASE delivery[d].status = "pending" /\ delivery' = [delivery EXCEPT
              ![d].status = host[h].verdict, ![d].token = 0, ![d].lease = "none", ![d].due = FALSE]
  <2>1. \A c \in Deliveries : delivery'[c].status = IF c = d THEN host[h].verdict ELSE delivery[c].status
    <3>1. delivery \in [Deliveries -> Rows] /\ delivery[d] \in Rows
      BY <1>0 DEF IInv, TypeOK
    <3>2. [delivery[d] EXCEPT !.status = host[h].verdict, !.token = 0, !.lease = "none",
                              !.due = FALSE].status = host[h].verdict
      BY <3>1 DEF Rows
    <3>. QED
      BY <1>0, <1>2, <3>1, <3>2
  <2>2. OutcomeOf(delivery[d].status) = "pending"
    BY <1>2, Outcomes
  <2>3. CASE host[h].verdict = "delivered"
    <3>1. received[d]
      BY <1>0, <2>3 DEF Settle, HostHolds
    <3>2. \A c \in Deliveries : OutcomeOf(delivery'[c].status) =
             IF c = d THEN "delivered" ELSE OutcomeOf(delivery[c].status)
      BY <2>1, <2>3, Outcomes
    <3>3. Bounded!Settle(d)
      BY <1>0, <2>2, <3>1, <3>2 DEF Bounded!Settle
    <3>. QED
      BY <1>0, <3>3 DEF Bounded!Next
  <2>4. CASE host[h].verdict = "failed"
    <3>1. \A c \in Deliveries : OutcomeOf(delivery'[c].status) =
             IF c \in {d} THEN "failed" ELSE OutcomeOf(delivery[c].status)
      BY <2>1, <2>4, Outcomes
    <3>2. Bounded!GiveUp({d})
      BY <1>0, <2>2, <3>1 DEF Bounded!GiveUp
    <3>. QED
      BY <1>0, <3>2 DEF Bounded!Next
  <2>5. CASE host[h].verdict = "pending"
    BY <1>0, <1>2, <2>1, <2>5, SameOutcomes
  <2>. QED
    BY <1>0, <2>3, <2>4, <2>5 DEF Settle, HostHolds
<1>. QED
  BY <1>1, <1>2 DEF Settle

\* Claims under leases, retries and crashes of any number of hosts make a
\* delivery with at most WORKER_ATTEMPTS sends and one final outcome, which
\* is "delivered" only if the endpoint took a send.
THEOREM BoundedDeliveryImplemented == Spec => ImplementsBoundedDelivery
<1>1. Init => Bounded!Init
  BY Outcomes DEF Init, Bounded!Init, NoDelivery, Unleased
<1>2. IInv /\ [Next]_vars => [Bounded!Next]_(Bounded!vars)
  <2>. SUFFICES ASSUME IInv, [Next]_vars PROVE [Bounded!Next]_(Bounded!vars)
    OBVIOUS
  <2>1. CASE UNCHANGED vars
    BY <2>1, SameOutcomes DEF vars
  <2>2. CASE Manage
    <3>1. ASSUME NEW n \in Endpoints, DeleteEndpoint(n) PROVE [Bounded!Next]_(Bounded!vars)
      BY <3>1, DeleteWithdraws
    <3>2. CASE UNCHANGED <<delivery, requests, received>>
      BY <3>2, SameOutcomes
    <3>. QED
      BY <2>2, <3>1, <3>2 DEF Manage, CreateEndpoint, UpdateEndpoint, ChangeStanding
  <2>3. ASSUME NEW e \in Events, Record(e) PROVE [Bounded!Next]_(Bounded!vars)
    BY <2>3, RecordAccepts
  <2>4. CASE Time
    <3>1. \A d \in Deliveries : delivery'[d].status = delivery[d].status
      <4>1. delivery \in [Deliveries -> Rows]
        BY DEF IInv, TypeOK
      <4>2. \A r \in Rows : /\ [r EXCEPT !.lease = "expired"].status = r.status
                            /\ [r EXCEPT !.due = TRUE].status = r.status
        BY DEF Rows
      <4>. QED
        BY <2>4, <4>1, <4>2, ZenonT(30) DEF Time, Lapse, FallDue
    <3>2. UNCHANGED <<requests, received>>
      BY <2>4 DEF Time, Lapse, FallDue
    <3>. QED
      BY <3>1, <3>2, SameOutcomes
  <2>5. ASSUME NEW h \in Hosts, DispatchOne(h) \/ Abandon(h) PROVE [Bounded!Next]_(Bounded!vars)
    <3>1. CASE Authorize(h) \/ Abandon(h)
      BY <3>1, SameOutcomes DEF Authorize, Abandon
    <3>. QED
      BY <2>5, <3>1, ClaimGivesUp, PostSends, SettleSettles DEF DispatchOne
  <2>. QED
    BY <2>1, <2>2, <2>3, <2>4, <2>5 DEF Next
<1>. QED
  BY <1>1, <1>2, InvariantHolds, PTL DEF Spec, ImplementsBoundedDelivery, Bounded!Spec
=============================================================================
