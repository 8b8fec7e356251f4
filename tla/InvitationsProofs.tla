-------------------------- MODULE InvitationsProofs --------------------------
(***************************************************************************)
(* What Invitations promises for any users, addresses, loops and limits:   *)
(* an attempt is sent at most once, its verdict and its audit are true, an *)
(* address holds one invitation, an invitation makes one membership.       *)
(*                                                                         *)
(* Delivery rests on the senders: whoever claimed an attempt is alone with *)
(* it, and it is "unknown" and unaudited until its sender settles it.  All *)
(* steps but four are quiet: they stage new attempts at most.              *)
(*                                                                         *)
(* Mails are paced: the quotas, checked before an attempt is staged, hold  *)
(* of all that was sent within the hour, since an attempt only grows older *)
(* and keeps its invitation, which keeps its address.                      *)
(***************************************************************************)
EXTENDS Invitations, FiniteSetTheorems, TLAPS

Busy(s) == sender[s].pc \in {"claimed", "answered"}

\* What each attempt shows.
AttemptsCoherent ==
    \A a \in Attempts :
        /\ sends[a] <= 1
        /\ attempt[a].status \in {"absent", "pending"} =>
              sends[a] = 0 /\ ~taken[a] /\ audits[a] = <<>>
        /\ attempt[a].status = "unknown" => audits[a] \in {<<>>, <<"unknown">>}
        /\ attempt[a].status \in {"smtp_accepted", "failed"} => audits[a] = <<attempt[a].status>>
        /\ attempt[a].status = "smtp_accepted" => taken[a]
        /\ attempt[a].status = "failed" => ~taken[a]

\* What a busy sender knows of its attempt.
SendersCoherent ==
    \A s \in Senders : Busy(s) =>
        LET a == sender[s].of IN
        /\ a \in Attempts
        /\ attempt[a].status = "unknown" /\ audits[a] = <<>>
        /\ sender[s].pc = "claimed" => sends[a] = 0 /\ ~taken[a]
        /\ sender[s].pc = "answered" =>
              /\ sender[s].verdict \in Verdicts
              /\ sender[s].verdict = "smtp_accepted" => taken[a]
              /\ sender[s].verdict = "failed" => ~taken[a]

SendersApart ==
    \A s, t \in Senders : Busy(s) /\ Busy(t) /\ sender[s].of = sender[t].of => s = t

DeliveryInv == AttemptsCoherent /\ SendersCoherent /\ SendersApart
IInv == TypeOK /\ DeliveryInv

\* A step that sends, claims and settles nothing.
Quiet ==
    /\ UNCHANGED <<sends, taken, audits>>
    /\ \A a \in Attempts :
          \/ attempt'[a].status = attempt[a].status
          \/ attempt[a].status = "absent" /\ attempt'[a].status = "pending"
    /\ \A s \in Senders : sender'[s] = sender[s] \/ sender'[s].pc \in {"idle", "ready"}

LEMMA QuietPreserves == ASSUME IInv, Quiet PROVE DeliveryInv'
<1>1. AttemptsCoherent'
    BY DEF IInv, DeliveryInv, AttemptsCoherent, Quiet
<1>2. ASSUME NEW s \in Senders, Busy(s)'
      PROVE  Busy(s) /\ sender'[s] = sender[s]
    BY <1>2 DEF Quiet, Busy
<1>3. SendersCoherent'
  <2>. SUFFICES ASSUME NEW s \in Senders, Busy(s)'
                PROVE  LET a == sender[s].of IN
                       (/\ a \in Attempts
                        /\ attempt[a].status = "unknown" /\ audits[a] = <<>>
                        /\ sender[s].pc = "claimed" => sends[a] = 0 /\ ~taken[a]
                        /\ sender[s].pc = "answered" =>
                              /\ sender[s].verdict \in Verdicts
                              /\ sender[s].verdict = "smtp_accepted" => taken[a]
                              /\ sender[s].verdict = "failed" => ~taken[a])'
      BY DEF SendersCoherent
  <2>. DEFINE a == sender[s].of
  <2>1. Busy(s) /\ sender'[s] = sender[s]
      BY <1>2
  <2>2. a \in Attempts /\ attempt[a].status = "unknown"
      BY <2>1 DEF IInv, DeliveryInv, SendersCoherent
  <2>3. attempt'[a].status = "unknown"
      BY <2>2 DEF Quiet
  <2>. QED BY <2>1, <2>2, <2>3 DEF IInv, DeliveryInv, SendersCoherent, Quiet
<1>4. SendersApart'
    BY <1>2 DEF IInv, DeliveryInv, SendersApart
<1>. QED BY <1>1, <1>3, <1>4 DEF DeliveryInv

-----------------------------------------------------------------------------
(* Types *)

LEMMA Numbers == 0 \notin Attempts /\ Invitations \subseteq Nat /\ Attempts \subseteq Nat
    BY LimitAssumption DEF Attempts, Invitations

LEMMA StageTyped ==
    ASSUME TypeOK, NEW u \in Users, NEW i \in Invitations, NEW d \in BOOLEAN, Stage(u, i, d)
    PROVE  attempt' \in [Attempts -> AttemptRows] /\ sender' \in [Senders -> SenderStates]
<1>1. PICK a \in Attempts :
        /\ attempt' = [attempt EXCEPT ![a] =
               [status |-> "pending", of |-> i, actor |-> u, age |-> "minute"]]
        /\ sender' = IF d THEN [sender EXCEPT ![a].pc = "ready", ![a].of = a] ELSE sender
    BY DEF Stage
<1>2. [status |-> "pending", of |-> i, actor |-> u, age |-> "minute"] \in AttemptRows
    BY DEF AttemptRows
<1>3. attempt' \in [Attempts -> AttemptRows]
    BY <1>1, <1>2 DEF TypeOK
<1>4. sender' \in [Senders -> SenderStates]
  <2>1. [sender[a] EXCEPT !.pc = "ready", !.of = a] \in SenderStates
    <3>1. sender[a] \in SenderStates
        BY DEF TypeOK, Senders
    <3>. QED BY <3>1 DEF SenderStates
  <2>2. CASE d
      BY <1>1, <2>1, <2>2 DEF TypeOK, Senders
  <2>3. CASE ~d
      BY <1>1, <2>3 DEF TypeOK
  <2>. QED BY <2>2, <2>3
<1>. QED BY <1>3, <1>4

LEMMA StageQuiet ==
    ASSUME TypeOK, NEW u, NEW i, NEW d, Stage(u, i, d), UNCHANGED <<sends, taken, audits>>
    PROVE  Quiet
<1>1. PICK a \in Attempts :
        /\ Fresh(attempt, a)
        /\ attempt' = [attempt EXCEPT ![a] =
               [status |-> "pending", of |-> i, actor |-> u, age |-> "minute"]]
        /\ sender' = IF d THEN [sender EXCEPT ![a].pc = "ready", ![a].of = a] ELSE sender
    BY DEF Stage
<1>2. \A b \in Attempts : \/ attempt'[b].status = attempt[b].status
                          \/ attempt[b].status = "absent" /\ attempt'[b].status = "pending"
    BY <1>1 DEF TypeOK, Fresh
<1>3. \A s \in Senders : sender'[s] = sender[s] \/ sender'[s].pc \in {"idle", "ready"}
  <2>1. CASE d
    <3>1. a \in Senders /\ sender \in [Senders -> SenderStates]
        BY DEF TypeOK, Senders
    <3>2. sender'[a].pc = "ready"
        BY <1>1, <2>1, <3>1 DEF SenderStates
    <3>3. \A s \in Senders : s # a => sender'[s] = sender[s]
        BY <1>1, <2>1, <3>1
    <3>. QED BY <3>2, <3>3
  <2>2. CASE ~d
    BY <1>1, <2>2
  <2>. QED BY <2>1, <2>2
<1>. QED BY <1>2, <1>3 DEF Quiet

LEMMA TypeInit == ASSUME Init PROVE TypeOK
<1>1. role \in [Users -> {"none", "member", "admin", "owner"}]
    BY DEF Init
<1>2. invitation \in [Invitations -> InvitationRows]
    BY DEF Init, NoInvitation, InvitationRows
<1>3. attempt \in [Attempts -> AttemptRows]
    BY DEF Init, NoAttempt, AttemptRows
<1>4. sender \in [Senders -> SenderStates]
    BY DEF Init, IdleSender, SenderStates
<1>5. /\ active \in BOOLEAN /\ email \in [Users -> Emails]
      /\ admitted \in [Invitations -> Nat] /\ sends \in [Attempts -> Nat]
      /\ taken \in [Attempts -> BOOLEAN] /\ faults \in 0..MaxFaults
    BY LimitAssumption DEF Init
<1>6. audits \in [Attempts -> Seq(Verdicts)]
    BY DEF Init
<1>. QED BY <1>1, <1>2, <1>3, <1>4, <1>5, <1>6 DEF TypeOK

LEMMA CommandTyped == ASSUME TypeOK, Command PROVE TypeOK'
<1>1. ASSUME NEW u \in Users, NEW e \in Emails, NEW r \in Offered, NEW d \in BOOLEAN,
             Invite(u, e, r, d)
      PROVE  TypeOK'
  <2>1. PICK i \in Invitations :
          /\ invitation' = [invitation EXCEPT ![i] =
                 [status |-> "pending", email |-> e, role |-> r, inviter |-> u, expired |-> FALSE]]
          /\ Stage(u, i, d)
      BY <1>1 DEF Invite
  <2>2. [status |-> "pending", email |-> e, role |-> r, inviter |-> u, expired |-> FALSE]
          \in InvitationRows
      BY DEF InvitationRows
  <2>3. invitation' \in [Invitations -> InvitationRows]
      BY <2>1, <2>2 DEF TypeOK
  <2>. QED BY <1>1, <2>1, <2>3, StageTyped DEF Invite, TypeOK, people, posts
<1>2. ASSUME NEW u \in Users, NEW i \in Invitations, Resend(u, i)
      PROVE  TypeOK'
    BY <1>2, StageTyped DEF Resend, TypeOK, people, posts
<1>3. ASSUME NEW i \in Invitations, NEW status \in Ended, IsActive(i), End(i, status)
      PROVE  invitation' \in [Invitations -> InvitationRows]
  <2>1. invitation[i] \in InvitationRows \ {NoInvitation}
      BY <1>3 DEF TypeOK, IsActive, NoInvitation
  <2>2. [invitation[i] EXCEPT !.status = status] \in InvitationRows
      BY <2>1 DEF InvitationRows
  <2>. QED BY <1>3, <2>2 DEF TypeOK, End
<1>4. ASSUME NEW u \in Users, NEW i \in Invitations, Accept(u, i)
      PROVE  TypeOK'
  <2>1. invitation' \in [Invitations -> InvitationRows]
      BY <1>3, <1>4 DEF Accept, Ended
  <2>2. invitation[i].role \in Offered
      BY <1>4 DEF Accept, TypeOK, InvitationRows, IsActive, NoInvitation
  <2>3. role' \in [Users -> {"none", "member", "admin", "owner"}]
      BY <1>4, <2>2 DEF Accept, Admit, TypeOK, Offered
  <2>4. admitted' \in [Invitations -> Nat]
    <3>1. admitted[i] + 1 \in Nat
        BY DEF TypeOK
    <3>. QED BY <1>4, <3>1 DEF Accept, Admit, TypeOK
  <2>. QED BY <1>4, <2>1, <2>3, <2>4 DEF Accept, TypeOK, posts
<1>5. ASSUME NEW u \in Users, NEW i \in Invitations, Reject(u, i) \/ Cancel(u, i)
      PROVE  TypeOK'
  <2>1. invitation' \in [Invitations -> InvitationRows]
      BY <1>3, <1>5 DEF Reject, Cancel, Ended
  <2>. QED BY <1>5, <2>1 DEF Reject, Cancel, TypeOK, people, posts
<1>. QED BY <1>1, <1>2, <1>4, <1>5 DEF Command

LEMMA AroundTyped == ASSUME TypeOK, Around PROVE TypeOK'
<1>1. ASSUME NEW u \in Users, ChangeRole(u)
      PROVE  TypeOK'
    BY <1>1 DEF ChangeRole, TypeOK, posts
<1>2. ASSUME NEW u \in Users, ChangeEmail(u)
      PROVE  TypeOK'
    BY <1>2 DEF ChangeEmail, TypeOK, posts
<1>3. ASSUME SuspendOrResume
      PROVE  TypeOK'
    BY <1>3 DEF SuspendOrResume, TypeOK, posts
<1>4. ASSUME NEW a \in Attempts, Grow(a)
      PROVE  TypeOK'
  <2>1. attempt[a] \in AttemptRows \ {NoAttempt}
      BY <1>4 DEF Grow, TypeOK, NoAttempt, Older
  <2>2. Older[attempt[a].age] \in {"hour", "old"}
      BY <1>4 DEF Grow, Older
  <2>3. [attempt[a] EXCEPT !.age = Older[@]] \in AttemptRows
      BY <2>1, <2>2 DEF AttemptRows
  <2>4. attempt' \in [Attempts -> AttemptRows]
      BY <1>4, <2>3 DEF Grow, TypeOK
  <2>. QED BY <1>4, <2>4 DEF Grow, TypeOK, people, posts
<1>5. ASSUME NEW i \in Invitations, Expire(i)
      PROVE  TypeOK'
  <2>1. invitation[i] \in InvitationRows \ {NoInvitation}
      BY <1>5 DEF Expire, TypeOK, NoInvitation
  <2>2. [invitation[i] EXCEPT !.expired = TRUE] \in InvitationRows
      BY <2>1 DEF InvitationRows
  <2>3. invitation' \in [Invitations -> InvitationRows]
      BY <1>5, <2>2 DEF Expire, TypeOK
  <2>. QED BY <1>5, <2>3 DEF Expire, TypeOK, people, posts
<1>. QED BY <1>1, <1>2, <1>3, <1>4, <1>5 DEF Around

\* An attempt that is present keeps its row's shape whatever its status.
LEMMA StatusTyped ==
    ASSUME TypeOK, NEW a \in Attempts, attempt[a].status # "absent", NEW status \in Verdicts
    PROVE  [attempt EXCEPT ![a].status = status] \in [Attempts -> AttemptRows]
<1>1. attempt[a] \in AttemptRows \ {NoAttempt}
    BY DEF TypeOK, NoAttempt
<1>2. [attempt[a] EXCEPT !.status = status] \in AttemptRows
    BY <1>1 DEF AttemptRows
<1>. QED BY <1>2 DEF TypeOK

LEMMA AuditTyped ==
    ASSUME TypeOK, NEW a \in Attempts, NEW status \in Verdicts
    PROVE  [audits EXCEPT ![a] = Append(@, status)] \in [Attempts -> Seq(Verdicts)]
<1>1. Append(audits[a], status) \in Seq(Verdicts)
    BY DEF TypeOK
<1>. QED BY <1>1 DEF TypeOK

LEMMA RestTyped ==
    ASSUME TypeOK, NEW s \in Senders, Rest(s)
    PROVE  sender' \in [Senders -> SenderStates]
    BY DEF TypeOK, Rest, IdleSender, SenderStates

LEMMA ClaimTyped ==
    ASSUME TypeOK, NEW s \in Senders, NEW a \in Attempts, Claim(s, a)
    PROVE  TypeOK'
<1>1. ASSUME ClaimNothing(s, a)
      PROVE  TypeOK'
    BY <1>1, RestTyped DEF ClaimNothing, TypeOK, people, posts
<1>2. ASSUME ClaimEnded(s, a)
      PROVE  TypeOK'
  <2>1. attempt' \in [Attempts -> AttemptRows]
      BY <1>2, StatusTyped DEF ClaimEnded, Pending, Verdicts
  <2>2. audits' \in [Attempts -> Seq(Verdicts)]
      BY <1>2, AuditTyped DEF ClaimEnded, Verdicts
  <2>. QED BY <1>2, <2>1, <2>2, RestTyped DEF ClaimEnded, TypeOK, people, posts
<1>3. ASSUME ClaimActive(s, a)
      PROVE  TypeOK'
  <2>1. attempt' \in [Attempts -> AttemptRows]
      BY <1>3, StatusTyped DEF ClaimActive, Pending, Verdicts
  <2>2. sender' \in [Senders -> SenderStates]
      BY <1>3 DEF ClaimActive, TypeOK, SenderStates
  <2>. QED BY <1>3, <2>1, <2>2 DEF ClaimActive, TypeOK, people, posts
<1>. QED BY <1>1, <1>2, <1>3 DEF Claim

LEMMA DeliverTyped ==
    ASSUME IInv, NEW s \in Senders, Deliver(s) \/ Abandon(s)
    PROVE  TypeOK'
<1>. DEFINE a == sender[s].of
<1>0. TypeOK
    BY DEF IInv
<1>1. ASSUME Send(s)
      PROVE  TypeOK'
  <2>1. a \in Attempts
      BY <1>1 DEF IInv, DeliveryInv, SendersCoherent, Busy, Send
  <2>2. sends' \in [Attempts -> Nat]
      BY <1>0, <1>1, <2>1 DEF Send, TypeOK
  <2>3. PICK v \in Verdicts, t \in BOOLEAN :
          /\ taken' = [taken EXCEPT ![a] = @ \/ t]
          /\ sender' = [sender EXCEPT ![s].pc = "answered", ![s].verdict = v]
      BY <1>1 DEF Send
  <2>4. taken' \in [Attempts -> BOOLEAN]
      BY <1>0, <2>1, <2>3 DEF TypeOK
  <2>5. sender' \in [Senders -> SenderStates]
      BY <1>0, <2>3 DEF TypeOK, SenderStates
  <2>. QED BY <1>0, <1>1, <2>2, <2>4, <2>5 DEF Send, TypeOK, people
<1>2. ASSUME Settle(s)
      PROVE  TypeOK'
  <2>1. a \in Attempts /\ attempt[a].status = "unknown" /\ sender[s].verdict \in Verdicts
      BY <1>2 DEF IInv, DeliveryInv, SendersCoherent, Busy, Settle
  <2>2. attempt' \in [Attempts -> AttemptRows]
      BY <1>0, <1>2, <2>1, StatusTyped DEF Settle
  <2>3. audits' \in [Attempts -> Seq(Verdicts)]
      BY <1>0, <1>2, <2>1, AuditTyped DEF Settle
  <2>. QED BY <1>0, <1>2, <2>2, <2>3, RestTyped DEF Settle, TypeOK, people, posts
<1>3. ASSUME Abandon(s)
      PROVE  TypeOK'
  <2>1. faults' \in 0..MaxFaults
      BY <1>0, <1>3, LimitAssumption DEF Abandon, TypeOK
  <2>. QED BY <1>0, <1>3, <2>1, RestTyped DEF Abandon, TypeOK, people, posts
<1>. QED BY <1>0, <1>1, <1>2, <1>3, ClaimTyped DEF Deliver

LEMMA TypeStep == ASSUME IInv, [Next]_vars PROVE TypeOK'
<1>1. CASE UNCHANGED vars
    BY <1>1 DEF IInv, TypeOK, vars
<1>. QED BY <1>1, CommandTyped, AroundTyped, DeliverTyped DEF IInv, Next

-----------------------------------------------------------------------------
(* Delivery *)

LEMMA CommandsQuiet == ASSUME TypeOK, Command PROVE Quiet
<1>1. ASSUME NEW u \in Users, NEW e \in Emails, NEW r \in Offered, NEW d \in BOOLEAN,
             Invite(u, e, r, d)
      PROVE  Quiet
    BY <1>1, StageQuiet DEF Invite, posts
<1>2. ASSUME NEW u \in Users, NEW i \in Invitations, Resend(u, i)
      PROVE  Quiet
    BY <1>2, StageQuiet DEF Resend, posts
<1>3. ASSUME NEW u \in Users, NEW i \in Invitations,
             Accept(u, i) \/ Reject(u, i) \/ Cancel(u, i)
      PROVE  Quiet
    BY <1>3 DEF Accept, Reject, Cancel, Quiet, posts
<1>. QED BY <1>1, <1>2, <1>3 DEF Command

LEMMA AroundQuiet == ASSUME TypeOK, Around PROVE Quiet
<1>1. ASSUME NEW a \in Attempts, Grow(a)
      PROVE  Quiet
  <2>1. \A b \in Attempts : attempt'[b].status = attempt[b].status
      BY <1>1 DEF Grow, TypeOK
  <2>. QED BY <1>1, <2>1 DEF Grow, Quiet, posts
<1>2. ASSUME SuspendOrResume \/ (\E u \in Users : ChangeRole(u) \/ ChangeEmail(u))
             \/ \E i \in Invitations : Expire(i)
      PROVE  Quiet
    BY <1>2 DEF SuspendOrResume, ChangeRole, ChangeEmail, Expire, Quiet, posts
<1>. QED BY <1>1, <1>2 DEF Around

LEMMA RestQuiet ==
    ASSUME TypeOK, NEW s \in Senders, Rest(s), UNCHANGED <<attempt, sends, taken, audits>>
    PROVE  Quiet
    BY DEF Rest, IdleSender, Quiet, TypeOK

\* Nobody holds a pending attempt, so giving it up leaves the senders alone.
LEMMA ClaimEndedKeeps ==
    ASSUME IInv, NEW s \in Senders, NEW a \in Attempts, ClaimEnded(s, a)
    PROVE  DeliveryInv'
<1>1. /\ attempt[a].status = "pending" /\ sends[a] = 0 /\ ~taken[a] /\ audits[a] = <<>>
      /\ attempt' = [attempt EXCEPT ![a].status = "failed"]
      /\ audits' = [audits EXCEPT ![a] = <<"failed">>]
      /\ UNCHANGED <<sends, taken>> /\ Rest(s)
  <2>1. attempt[a].status = "pending" /\ sends[a] = 0 /\ ~taken[a] /\ audits[a] = <<>>
      BY DEF IInv, DeliveryInv, AttemptsCoherent, ClaimEnded, Pending
  <2>2. Append(audits[a], "failed") = <<"failed">>
      BY <2>1
  <2>. QED BY <2>1, <2>2 DEF ClaimEnded, posts
<1>2. /\ attempt'[a].status = "failed" /\ audits'[a] = <<"failed">>
      /\ \A b \in Attempts : b # a => attempt'[b] = attempt[b] /\ audits'[b] = audits[b]
    BY <1>1 DEF IInv, TypeOK
<1>3. AttemptsCoherent'
    BY <1>1, <1>2 DEF IInv, DeliveryInv, AttemptsCoherent
<1>4. \A t \in Senders : Busy(t)' => Busy(t) /\ sender'[t] = sender[t]
    BY <1>1 DEF IInv, TypeOK, Rest, IdleSender, Busy
<1>5. \A t \in Senders : Busy(t) => sender[t].of \in Attempts \ {a}
    BY <1>1 DEF IInv, DeliveryInv, SendersCoherent
<1>6. SendersCoherent'
    BY <1>1, <1>2, <1>4, <1>5 DEF IInv, DeliveryInv, SendersCoherent
<1>7. SendersApart'
    BY <1>4 DEF IInv, DeliveryInv, SendersApart
<1>. QED BY <1>3, <1>6, <1>7 DEF DeliveryInv

LEMMA ClaimActiveKeeps ==
    ASSUME IInv, NEW s \in Senders, NEW a \in Attempts, ClaimActive(s, a)
    PROVE  DeliveryInv'
<1>1. /\ attempt[a].status = "pending" /\ sends[a] = 0 /\ ~taken[a] /\ audits[a] = <<>>
      /\ attempt' = [attempt EXCEPT ![a].status = "unknown"]
      /\ sender' = [sender EXCEPT ![s] = [pc |-> "claimed", of |-> a, verdict |-> "none"]]
      /\ UNCHANGED <<sends, taken, audits>>
    BY DEF IInv, DeliveryInv, AttemptsCoherent, ClaimActive, Pending, posts
<1>2. /\ attempt'[a].status = "unknown"
      /\ \A b \in Attempts : b # a => attempt'[b] = attempt[b]
      /\ sender'[s] = [pc |-> "claimed", of |-> a, verdict |-> "none"]
      /\ \A t \in Senders : t # s => sender'[t] = sender[t]
    BY <1>1 DEF IInv, TypeOK
<1>3. AttemptsCoherent'
    BY <1>1, <1>2 DEF IInv, DeliveryInv, AttemptsCoherent
<1>4. \A t \in Senders : Busy(t) => sender[t].of \in Attempts \ {a}
    BY <1>1 DEF IInv, DeliveryInv, SendersCoherent
<1>5. \A t \in Senders \ {s} : Busy(t)' => Busy(t) /\ sender'[t] = sender[t]
    BY <1>2 DEF Busy
<1>6. SendersCoherent'
    BY <1>1, <1>2, <1>4, <1>5 DEF IInv, DeliveryInv, SendersCoherent
<1>7. SendersApart'
    BY <1>2, <1>4, <1>5 DEF IInv, DeliveryInv, SendersApart
<1>. QED BY <1>3, <1>6, <1>7 DEF DeliveryInv

LEMMA SendKeeps ==
    ASSUME IInv, NEW s \in Senders, Send(s)
    PROVE  DeliveryInv'
<1>. DEFINE a == sender[s].of
<1>1. /\ Busy(s) /\ a \in Attempts
      /\ attempt[a].status = "unknown" /\ audits[a] = <<>> /\ sends[a] = 0 /\ ~taken[a]
    BY DEF IInv, DeliveryInv, SendersCoherent, Send, Busy
<1>2. PICK v \in Verdicts, t \in BOOLEAN :
        /\ v = "smtp_accepted" => t
        /\ v = "failed" => ~t
        /\ taken' = [taken EXCEPT ![a] = @ \/ t]
        /\ sender' = [sender EXCEPT ![s].pc = "answered", ![s].verdict = v]
    BY DEF Send
<1>3. /\ sends'[a] = 1
      /\ \A b \in Attempts : b # a => sends'[b] = sends[b]
      /\ UNCHANGED <<attempt, audits>>
    BY <1>1 DEF IInv, TypeOK, Send
<1>4. (taken'[a] <=> t) /\ \A b \in Attempts : b # a => taken'[b] = taken[b]
    BY <1>1, <1>2 DEF IInv, TypeOK
<1>5. /\ sender'[s].pc = "answered" /\ sender'[s].of = a /\ sender'[s].verdict = v
      /\ \A u \in Senders : u # s => sender'[u] = sender[u]
    BY <1>2 DEF IInv, TypeOK, SenderStates
<1>6. AttemptsCoherent'
  <2>. SUFFICES ASSUME NEW b \in Attempts
                PROVE  (/\ sends[b] <= 1
                        /\ attempt[b].status \in {"absent", "pending"} =>
                              sends[b] = 0 /\ ~taken[b] /\ audits[b] = <<>>
                        /\ attempt[b].status = "unknown" => audits[b] \in {<<>>, <<"unknown">>}
                        /\ attempt[b].status \in {"smtp_accepted", "failed"} =>
                              audits[b] = <<attempt[b].status>>
                        /\ attempt[b].status = "smtp_accepted" => taken[b]
                        /\ attempt[b].status = "failed" => ~taken[b])'
      BY DEF AttemptsCoherent
  <2>1. CASE b = a
      BY <1>1, <1>3, <2>1
  <2>2. CASE b # a
      BY <1>3, <1>4, <2>2 DEF IInv, DeliveryInv, AttemptsCoherent
  <2>. QED BY <2>1, <2>2
<1>7. \A u \in Senders \ {s} : Busy(u)' => /\ Busy(u) /\ sender'[u] = sender[u]
                                            /\ sender[u].of \in Attempts \ {a}
    BY <1>1, <1>5 DEF IInv, DeliveryInv, SendersCoherent, SendersApart, Busy
<1>8. SendersCoherent'
  <2>. SUFFICES ASSUME NEW u \in Senders, Busy(u)'
                PROVE  LET b == sender[u].of IN
                       (/\ b \in Attempts
                        /\ attempt[b].status = "unknown" /\ audits[b] = <<>>
                        /\ sender[u].pc = "claimed" => sends[b] = 0 /\ ~taken[b]
                        /\ sender[u].pc = "answered" =>
                              /\ sender[u].verdict \in Verdicts
                              /\ sender[u].verdict = "smtp_accepted" => taken[b]
                              /\ sender[u].verdict = "failed" => ~taken[b])'
      BY DEF SendersCoherent
  <2>1. CASE u = s
      BY <1>1, <1>2, <1>3, <1>4, <1>5, <2>1
  <2>2. CASE u # s
      BY <1>3, <1>4, <1>7, <2>2 DEF IInv, DeliveryInv, SendersCoherent
  <2>. QED BY <2>1, <2>2
<1>9. SendersApart'
    BY <1>5, <1>7 DEF IInv, DeliveryInv, SendersApart
<1>. QED BY <1>6, <1>8, <1>9 DEF DeliveryInv

LEMMA SettleKeeps ==
    ASSUME IInv, NEW s \in Senders, Settle(s)
    PROVE  DeliveryInv'
<1>. DEFINE a == sender[s].of
            v == sender[s].verdict
<1>1. /\ Busy(s) /\ a \in Attempts /\ v \in Verdicts
      /\ attempt[a].status = "unknown" /\ audits[a] = <<>>
      /\ v = "smtp_accepted" => taken[a]
      /\ v = "failed" => ~taken[a]
    BY DEF IInv, DeliveryInv, SendersCoherent, Settle, Busy
<1>2. /\ attempt' = [attempt EXCEPT ![a].status = v]
      /\ audits' = [audits EXCEPT ![a] = <<v>>]
      /\ UNCHANGED <<sends, taken>> /\ Rest(s)
    BY <1>1 DEF Settle, posts
<1>3. /\ attempt'[a].status = v /\ audits'[a] = <<v>>
      /\ \A b \in Attempts : b # a => attempt'[b] = attempt[b] /\ audits'[b] = audits[b]
    BY <1>1, <1>2 DEF IInv, TypeOK
<1>4. AttemptsCoherent'
    BY <1>1, <1>2, <1>3 DEF IInv, DeliveryInv, AttemptsCoherent, Verdicts
<1>5. \A u \in Senders : Busy(u)' => /\ u # s /\ Busy(u) /\ sender'[u] = sender[u]
                                      /\ sender[u].of \in Attempts \ {a}
    BY <1>1, <1>2 DEF IInv, TypeOK, DeliveryInv, SendersCoherent, SendersApart, Rest,
                      IdleSender, Busy
<1>6. SendersCoherent'
    BY <1>2, <1>3, <1>5 DEF IInv, DeliveryInv, SendersCoherent
<1>7. SendersApart'
    BY <1>5 DEF IInv, DeliveryInv, SendersApart
<1>. QED BY <1>4, <1>6, <1>7 DEF DeliveryInv

LEMMA DeliveryStep == ASSUME IInv, [Next]_vars PROVE DeliveryInv'
<1>0. TypeOK
    BY DEF IInv
<1>1. ASSUME Command \/ Around
      PROVE  DeliveryInv'
    BY <1>0, <1>1, CommandsQuiet, AroundQuiet, QuietPreserves
<1>2. ASSUME NEW s \in Senders, NEW a \in Attempts, ClaimNothing(s, a)
      PROVE  DeliveryInv'
    BY <1>0, <1>2, RestQuiet, QuietPreserves DEF ClaimNothing, posts
<1>3. ASSUME NEW s \in Senders, Abandon(s)
      PROVE  DeliveryInv'
    BY <1>0, <1>3, RestQuiet, QuietPreserves DEF Abandon, posts
<1>4. CASE UNCHANGED vars
  <2>1. Quiet
      BY <1>4 DEF vars, Quiet
  <2>. QED BY <2>1, QuietPreserves
<1>. QED BY <1>1, <1>2, <1>3, <1>4, ClaimEndedKeeps, ClaimActiveKeeps, SendKeeps, SettleKeeps
         DEF Next, Deliver, Claim

\* The inductive invariant of senders and attempts holds in every reachable
\* state of claim_invitation_delivery and deliverInvitation.
THEOREM InvariantHolds == Spec => []IInv
<1>1. Init => IInv
  <2>. SUFFICES ASSUME Init PROVE DeliveryInv
      BY TypeInit DEF IInv
  <2>1. AttemptsCoherent
      BY DEF Init, NoAttempt, AttemptsCoherent
  <2>2. \A s \in Senders : ~Busy(s)
      BY DEF Init, IdleSender, Busy
  <2>. QED BY <2>1, <2>2 DEF DeliveryInv, SendersCoherent, SendersApart
<1>2. IInv /\ [Next]_vars => IInv'
    BY TypeStep, DeliveryStep DEF IInv
<1>. QED BY <1>1, <1>2, PTL DEF Spec

\* Every row of invitations, attempts and senders keeps its type.
THEOREM TypesHold == Spec => []TypeOK
<1>1. IInv => TypeOK
    BY DEF IInv
<1>. QED BY <1>1, InvariantHolds, PTL

\* The claim before the SMTP exchange suffices: whatever senders die or race
\* for it, an attempt is sent at most once.
THEOREM AttemptsSentOnce == Spec => []SentAtMostOnce
<1>1. IInv => SentAtMostOnce
    BY DEF IInv, TypeOK, DeliveryInv, AttemptsCoherent, SentAtMostOnce
<1>. QED BY <1>1, InvariantHolds, PTL

\* What deliverInvitation records of the SMTP server's answer is true.
THEOREM VerdictsTrue == Spec => []VerdictIsTrue
<1>1. IInv => VerdictIsTrue
    BY DEF IInv, DeliveryInv, AttemptsCoherent, VerdictIsTrue
<1>. QED BY <1>1, InvariantHolds, PTL

\* The audit of an attempt is written once, with its status.
THEOREM AuditsAgree == Spec => []AuditAgrees
<1>1. ASSUME IInv, NEW a \in Attempts
      PROVE  /\ audits[a] \in {<<>>, <<attempt[a].status>>}
             /\ attempt[a].status \in {"smtp_accepted", "failed"} => audits[a] # <<>>
  <2>1. attempt[a].status \in {"absent", "pending", "unknown", "smtp_accepted", "failed"}
      BY <1>1 DEF IInv, TypeOK, AttemptRows, NoAttempt, Verdicts
  <2>2. <<attempt[a].status>> # <<>>
      OBVIOUS
  <2>. QED BY <1>1, <2>1, <2>2 DEF IInv, DeliveryInv, AttemptsCoherent
<1>2. IInv => AuditAgrees
    BY <1>1 DEF AuditAgrees
<1>. QED BY <1>2, InvariantHolds, PTL

-----------------------------------------------------------------------------
(* Memberships *)

MembershipInv == OneInvitationPerAddress /\ OneMembershipPerInvitation

\* What a step can do to an invitation: nothing, accept it, or end or expire
\* it without a membership.
Moves(i) ==
    \/ UNCHANGED <<invitation[i], admitted[i]>>
    \/ /\ IsActive(i)
       /\ invitation'[i] = [invitation[i] EXCEPT !.status = "accepted"]
       /\ admitted'[i] = admitted[i] + 1
       /\ MayGrant(invitation[i].inviter, invitation[i].role)
    \/ /\ IsActive(i)
       /\ invitation'[i].status \in {"rejected", "canceled"}
       /\ admitted'[i] = admitted[i]
    \/ /\ invitation'[i] = [invitation[i] EXCEPT !.expired = TRUE]
       /\ admitted'[i] = admitted[i]

\* What Invite adds.
Opens(i, e, r, u) ==
    /\ invitation[i].status = "absent" /\ ~Invited(e)
    /\ invitation' = [invitation EXCEPT ![i] =
           [status |-> "pending", email |-> e, role |-> r, inviter |-> u, expired |-> FALSE]]
    /\ admitted' = admitted

LEMMA StepMoves ==
    ASSUME TypeOK, [Next]_vars
    PROVE  \/ \A i \in Invitations : Moves(i)
           \/ \E i \in Invitations, e \in Emails, r \in Offered, u \in Users : Opens(i, e, r, u)
<1>1. ASSUME UNCHANGED <<invitation, admitted>>
      PROVE  \A i \in Invitations : Moves(i)
    BY <1>1 DEF Moves
<1>2. ASSUME NEW u \in Users, NEW e \in Emails, NEW r \in Offered, NEW d \in BOOLEAN,
             Invite(u, e, r, d)
      PROVE  \E i \in Invitations : Opens(i, e, r, u)
    BY <1>2 DEF Invite, Fresh, Opens
<1>3. ASSUME NEW u \in Users, NEW i \in Invitations, Accept(u, i)
      PROVE  \A j \in Invitations : Moves(j)
  <2>1. Moves(i)
      BY <1>3 DEF Accept, Admit, End, Moves, TypeOK
  <2>2. \A j \in Invitations : j # i => Moves(j)
      BY <1>3 DEF Accept, Admit, End, Moves, TypeOK
  <2>. QED BY <2>1, <2>2
<1>4. ASSUME NEW u \in Users, NEW i \in Invitations, Reject(u, i) \/ Cancel(u, i)
      PROVE  \A j \in Invitations : Moves(j)
  <2>1. Moves(i)
    <3>1. invitation[i] \in InvitationRows \ {NoInvitation}
        BY <1>4 DEF Reject, Cancel, IsActive, TypeOK, NoInvitation
    <3>2. invitation'[i].status \in {"rejected", "canceled"} /\ admitted' = admitted
        BY <1>4, <3>1 DEF Reject, Cancel, End, TypeOK, InvitationRows
    <3>. QED BY <1>4, <3>2 DEF Reject, Cancel, Moves
  <2>2. \A j \in Invitations : j # i => Moves(j)
      BY <1>4 DEF Reject, Cancel, End, Moves, TypeOK
  <2>. QED BY <2>1, <2>2
<1>5. ASSUME NEW i \in Invitations, Expire(i)
      PROVE  \A j \in Invitations : Moves(j)
    BY <1>5 DEF Expire, Moves, TypeOK
<1>6. ASSUME \/ SuspendOrResume
             \/ \E u \in Users : ChangeRole(u) \/ ChangeEmail(u)
             \/ \E a \in Attempts : Grow(a)
             \/ \E u \in Users, i \in Invitations : Resend(u, i)
             \/ \E s \in Senders : Send(s) \/ Settle(s) \/ Abandon(s)
             \/ \E s \in Senders, a \in Attempts : Claim(s, a)
             \/ UNCHANGED vars
      PROVE  UNCHANGED <<invitation, admitted>>
    BY <1>6 DEF SuspendOrResume, ChangeRole, ChangeEmail, Grow, Resend, Send, Settle, Abandon,
                Claim, ClaimNothing, ClaimEnded, ClaimActive, vars
<1>. QED BY <1>1, <1>2, <1>3, <1>4, <1>5, <1>6 DEF Next, Command, Around, Deliver

LEMMA MovesKeep ==
    ASSUME TypeOK, MembershipInv, \A i \in Invitations : Moves(i)
    PROVE  MembershipInv'
<1>1. ASSUME NEW i \in Invitations
      PROVE  /\ IsActive(i)' => IsActive(i) /\ invitation'[i].email = invitation[i].email
             /\ admitted'[i] = IF invitation'[i].status = "accepted" THEN 1 ELSE 0
  <2>0. /\ Moves(i)
        /\ admitted[i] = IF invitation[i].status = "accepted" THEN 1 ELSE 0
        /\ invitation[i] \in InvitationRows
      BY DEF MembershipInv, OneMembershipPerInvitation, TypeOK
  <2>1. CASE UNCHANGED <<invitation[i], admitted[i]>>
      BY <2>0, <2>1 DEF IsActive
  <2>2. CASE /\ IsActive(i)
             /\ invitation'[i] = [invitation[i] EXCEPT !.status = "accepted"]
             /\ admitted'[i] = admitted[i] + 1
    <3>1. invitation'[i].status = "accepted"
        BY <2>0, <2>2 DEF InvitationRows, NoInvitation
    <3>. QED BY <2>0, <2>2, <3>1 DEF IsActive
  <2>3. CASE /\ IsActive(i)
             /\ invitation'[i].status \in {"rejected", "canceled"}
             /\ admitted'[i] = admitted[i]
      BY <2>0, <2>3 DEF IsActive
  <2>4. CASE /\ invitation'[i] = [invitation[i] EXCEPT !.expired = TRUE]
             /\ admitted'[i] = admitted[i]
    <3>1. invitation'[i].expired /\ invitation'[i].status = invitation[i].status
        BY <2>0, <2>4 DEF InvitationRows, NoInvitation
    <3>. QED BY <2>0, <2>4, <3>1 DEF IsActive
  <2>. QED BY <2>0, <2>1, <2>2, <2>3, <2>4 DEF Moves
<1>2. OneInvitationPerAddress'
    BY <1>1 DEF MembershipInv, OneInvitationPerAddress, ActiveInvitations
<1>3. OneMembershipPerInvitation'
    BY <1>1 DEF OneMembershipPerInvitation
<1>. QED BY <1>2, <1>3 DEF MembershipInv

LEMMA OpensKeeps ==
    ASSUME TypeOK, MembershipInv, NEW i \in Invitations, NEW e \in Emails, NEW r \in Offered,
           NEW u \in Users, Opens(i, e, r, u)
    PROVE  MembershipInv'
<1>1. /\ invitation'[i].status = "pending" /\ invitation'[i].email = e
      /\ \A j \in Invitations : j # i => invitation'[j] = invitation[j]
    BY DEF Opens, TypeOK
<1>2. \A j \in Invitations : j # i /\ IsActive(j)' => IsActive(j) /\ invitation'[j].email # e
    BY <1>1 DEF Opens, Invited, ActiveInvitations, IsActive
<1>3. OneInvitationPerAddress'
    BY <1>1, <1>2 DEF MembershipInv, OneInvitationPerAddress, ActiveInvitations
<1>4. OneMembershipPerInvitation'
    BY <1>1 DEF MembershipInv, OneMembershipPerInvitation, Opens
<1>. QED BY <1>3, <1>4 DEF MembershipInv

LEMMA MembershipHolds == Spec => [](TypeOK /\ MembershipInv)
<1>1. Init => MembershipInv
    BY DEF Init, MembershipInv, OneInvitationPerAddress, OneMembershipPerInvitation,
           ActiveInvitations, IsActive, NoInvitation
<1>2. TypeOK /\ MembershipInv /\ [Next]_vars => MembershipInv'
    BY StepMoves, MovesKeep, OpensKeeps
<1>. QED BY <1>1, <1>2, TypesHold, PTL DEF Spec

\* Whoever invites, resends and imports at the same time, and however
\* addresses change hands: one active invitation per address.
THEOREM AddressesInvitedOnce == Spec => []OneInvitationPerAddress
<1>1. MembershipInv => OneInvitationPerAddress
    BY DEF MembershipInv
<1>. QED BY <1>1, MembershipHolds, PTL

\* An accepted invitation has made one membership, any other none: no replay
\* of a link brings a removed member back.
THEOREM InvitationsAdmitOnce == Spec => []OneMembershipPerInvitation
<1>1. MembershipInv => OneMembershipPerInvitation
    BY DEF MembershipInv
<1>. QED BY <1>1, MembershipHolds, PTL

\* The inviter of a new admin is an owner when the invitation is accepted.
THEOREM AdminsFromOwners == Spec => AdminsComeFromOwners
<1>1. ASSUME TypeOK, [Next]_vars, NEW i \in Invitations,
             admitted'[i] > admitted[i], invitation[i].role = "admin"
      PROVE  role[invitation[i].inviter] = "owner"
  <2>1. admitted[i] \in Nat
      BY <1>1 DEF TypeOK
  <2>2. Moves(i)
      BY <1>1, <2>1, StepMoves DEF Opens
  <2>3. MayGrant(invitation[i].inviter, invitation[i].role)
      BY <1>1, <2>1, <2>2 DEF Moves
  <2>. QED BY <1>1, <2>3 DEF MayGrant
<1>2. TypeOK /\ [Next]_vars => [\A i \in Invitations :
          admitted'[i] > admitted[i] /\ invitation[i].role = "admin"
              => role[invitation[i].inviter] = "owner"]_vars
    BY <1>1
<1>. QED BY <1>2, TypesHold, PTL DEF Spec, AdminsComeFromOwners

\* Neither a command nor a late answer moves an invitation that has ended or
\* expired.
THEOREM EndsAreFinal == Spec => EndedStaysEnded
<1>1. ASSUME TypeOK, [Next]_vars, NEW i \in Invitations,
             invitation[i].status \in Ended \/ invitation[i].expired
      PROVE  invitation'[i].status = invitation[i].status
  <2>1. invitation[i] \in InvitationRows
      BY <1>1 DEF TypeOK
  <2>2. CASE \A j \in Invitations : Moves(j)
      BY <1>1, <2>1, <2>2 DEF Moves, IsActive, Ended, InvitationRows, NoInvitation
  <2>3. CASE \E j \in Invitations, e \in Emails, r \in Offered, u \in Users : Opens(j, e, r, u)
    <3>1. invitation[i].status # "absent"
        BY <1>1, <2>1 DEF InvitationRows, NoInvitation, Ended
    <3>. QED BY <1>1, <2>3, <3>1 DEF Opens, TypeOK
  <2>. QED BY <1>1, <2>2, <2>3, StepMoves
<1>2. TypeOK /\ [Next]_vars => [\A i \in Invitations :
          invitation[i].status \in Ended \/ invitation[i].expired
              => invitation'[i].status = invitation[i].status]_vars
    BY <1>1
<1>. QED BY <1>2, TypesHold, PTL DEF Spec, EndedStaysEnded
-----------------------------------------------------------------------------
(* Quotas *)

\* An attempt refers to an invitation that exists, so that no new invitation
\* inherits the mails of an old one.
AttemptsRefer ==
    \A a \in Attempts : attempt[a].status # "absent" => invitation[attempt[a].of].status # "absent"
QuotaInv == AttemptsRefer /\ MailsArePaced

Recent(i) == {a \in Attempts : attempt[a].of = i /\ attempt[a].age = "minute"}

\* Invitations that exist stay and keep their address.
AddressesStay ==
    \A i \in Invitations : invitation[i].status # "absent" =>
        invitation'[i].status # "absent" /\ invitation'[i].email = invitation[i].email

\* No mail is staged and none becomes younger.
NothingStaged ==
    \A a \in Attempts :
        /\ attempt'[a].status = "absent" <=> attempt[a].status = "absent"
        /\ attempt'[a].of = attempt[a].of /\ attempt'[a].actor = attempt[a].actor
        /\ attempt'[a].age = "minute" => attempt[a].age = "minute"
        /\ attempt'[a].age \in {"minute", "hour"} => attempt[a].age \in {"minute", "hour"}

\* What the sets of attempts are made of: they are finite, and those counted
\* are present.
LEMMA AttemptSets ==
    ASSUME TypeOK
    PROVE  /\ IsFiniteSet(Attempts)
           /\ \A a \in Attempts : attempt[a].age \in {"minute", "hour"} =>
                  attempt[a].status # "absent" /\ attempt[a].of \in Invitations
           /\ \A a \in Attempts : attempt[a].status = "absent" => attempt[a] = NoAttempt
<1>1. IsFiniteSet(Attempts)
  <2>1. 1 \in Int /\ MaxAttempts \in Int
      BY LimitAssumption
  <2>. QED BY <2>1, FS_Interval DEF Attempts
<1>2. \A a \in Attempts : attempt[a] \in AttemptRows
    BY DEF TypeOK
<1>. QED BY <1>1, <1>2 DEF AttemptRows, NoAttempt, Verdicts

LEMMA SmallerSet ==
    ASSUME NEW S \in SUBSET Attempts, NEW T \in SUBSET S, NEW n \in Nat, IsFiniteSet(Attempts),
           Cardinality(S) <= n
    PROVE  Cardinality(T) <= n
<1>1. IsFiniteSet(S) /\ IsFiniteSet(T)
    BY FS_Subset
<1>2. Cardinality(S) \in Nat /\ Cardinality(T) \in Nat /\ Cardinality(T) <= Cardinality(S)
    BY <1>1, FS_Subset, FS_CardinalityType
<1>. QED BY <1>2

LEMMA OneMore ==
    ASSUME NEW S \in SUBSET Attempts, NEW a \in Attempts, NEW T \in SUBSET (S \cup {a}),
           NEW n \in Nat, IsFiniteSet(Attempts), Cardinality(S) < n
    PROVE  Cardinality(T) <= n
<1>1. IsFiniteSet(S) /\ IsFiniteSet(S \cup {a}) /\ IsFiniteSet(T)
    BY FS_Subset, FS_AddElement
<1>2. /\ Cardinality(S) \in Nat /\ Cardinality(T) \in Nat /\ Cardinality(S \cup {a}) \in Nat
      /\ Cardinality(T) <= Cardinality(S \cup {a})
      /\ Cardinality(S \cup {a}) <= Cardinality(S) + 1
    BY <1>1, FS_Subset, FS_CardinalityType, FS_AddElement
<1>. QED BY <1>2

LEMMA QuotasStay ==
    ASSUME TypeOK, QuotaInv, AddressesStay, NothingStaged
    PROVE  QuotaInv'
<1>1. IsFiniteSet(Attempts) /\ EmailLimit \in Nat /\ OrganizationLimit \in Nat /\ ActorLimit \in Nat
    BY AttemptSets, LimitAssumption
<1>2. \A a \in Attempts : attempt[a].status # "absent" => attempt[a].of \in Invitations
    BY DEF TypeOK, AttemptRows, NoAttempt
<1>3. AttemptsRefer'
    BY <1>2 DEF QuotaInv, AttemptsRefer, AddressesStay, NothingStaged
<1>4. ASSUME NEW i \in Invitations
      PROVE  Cardinality(Recent(i)') <= 1
  <2>1. Recent(i)' \subseteq Recent(i) /\ Recent(i) \subseteq Attempts
      BY DEF Recent, NothingStaged
  <2>2. Cardinality(Recent(i)) <= 1
      BY DEF QuotaInv, MailsArePaced, Recent
  <2>. QED BY <1>1, <2>1, <2>2, SmallerSet
<1>5. Counted' \subseteq Counted /\ Counted \subseteq Attempts
    BY DEF Counted, NothingStaged
<1>6. ASSUME NEW e \in Emails
      PROVE  Cardinality(CountedFor(e)') <= EmailLimit
  <2>1. ASSUME NEW a \in Counted'
        PROVE  invitation'[attempt'[a].of].email = invitation[attempt[a].of].email
    <3>1. a \in Counted /\ attempt[a].status # "absent" /\ attempt[a].of \in Invitations
        BY <1>5, AttemptSets DEF Counted
    <3>2. attempt'[a].of = attempt[a].of /\ invitation[attempt[a].of].status # "absent"
        BY <1>5, <3>1 DEF QuotaInv, AttemptsRefer, NothingStaged, Counted
    <3>. QED BY <3>1, <3>2 DEF AddressesStay
  <2>2. CountedFor(e)' \subseteq CountedFor(e) /\ CountedFor(e) \subseteq Attempts
      BY <1>5, <2>1 DEF CountedFor
  <2>3. Cardinality(CountedFor(e)) <= EmailLimit
      BY DEF QuotaInv, MailsArePaced
  <2>. QED BY <1>1, <2>2, <2>3, SmallerSet
<1>7. ASSUME NEW u \in Users
      PROVE  Cardinality(CountedBy(u)') <= ActorLimit
  <2>1. CountedBy(u)' \subseteq CountedBy(u) /\ CountedBy(u) \subseteq Attempts
      BY <1>5 DEF CountedBy, NothingStaged, Counted
  <2>2. Cardinality(CountedBy(u)) <= ActorLimit
      BY DEF QuotaInv, MailsArePaced
  <2>. QED BY <1>1, <2>1, <2>2, SmallerSet
<1>8. Cardinality(Counted') <= OrganizationLimit
  <2>1. Cardinality(Counted) <= OrganizationLimit
      BY DEF QuotaInv, MailsArePaced
  <2>. QED BY <1>1, <1>5, <2>1, SmallerSet
<1>9. MailsArePaced'
    BY <1>4, <1>6, <1>7, <1>8 DEF MailsArePaced, Recent
<1>. QED BY <1>3, <1>9 DEF QuotaInv

\* A mail is staged for an invitation that is new or not cooling, within the
\* quotas: each set it counts in had room for one more.
LEMMA StagedWithinQuotas ==
    ASSUME TypeOK, QuotaInv, AddressesStay,
           NEW u \in Users, NEW i \in Invitations, NEW e \in Emails, NEW d \in BOOLEAN,
           Stage(u, i, d), WithinQuota(u, e),
           invitation'[i].status # "absent", invitation'[i].email = e,
           invitation[i].status = "absent" \/ ~Cooling(i)
    PROVE  QuotaInv'
<1>0. IsFiniteSet(Attempts) /\ EmailLimit \in Nat /\ OrganizationLimit \in Nat /\ ActorLimit \in Nat
    BY AttemptSets, LimitAssumption
<1>. DEFINE row == [status |-> "pending", of |-> i, actor |-> u, age |-> "minute"]
<1>1. PICK a \in Attempts : attempt[a].status = "absent" /\ attempt' = [attempt EXCEPT ![a] = row]
    BY DEF Stage, Fresh
<1>2. attempt'[a] = row /\ \A b \in Attempts : b # a => attempt'[b] = attempt[b]
    BY <1>1 DEF TypeOK
<1>. HIDE DEF row
<1>3. row.status = "pending" /\ row.of = i /\ row.actor = u /\ row.age = "minute"
    BY DEF row
<1>4. \A b \in Attempts : attempt[b].status # "absent" => attempt[b].of \in Invitations
    BY DEF TypeOK, AttemptRows, NoAttempt
<1>5. AttemptsRefer'
    BY <1>2, <1>3, <1>4 DEF QuotaInv, AttemptsRefer, AddressesStay
<1>6. ASSUME NEW j \in Invitations
      PROVE  Cardinality(Recent(j)') <= 1
  <2>1. CASE j = i
    <3>1. \A b \in Attempts : ~(attempt[b].of = i /\ attempt[b].age = "minute")
      <4>1. CASE invitation[i].status = "absent"
          BY <4>1, AttemptSets DEF QuotaInv, AttemptsRefer
      <4>2. CASE ~Cooling(i)
          BY <4>2 DEF Cooling
      <4>. QED BY <4>1, <4>2
    <3>2. Recent(j)' = {a}
        BY <1>2, <1>3, <2>1, <3>1 DEF Recent
    <3>. QED BY <3>2, FS_Singleton
  <2>2. CASE j # i
    <3>1. Recent(j)' \subseteq Recent(j) /\ Recent(j) \subseteq Attempts
        BY <1>2, <1>3, <2>2 DEF Recent
    <3>2. Cardinality(Recent(j)) <= 1
        BY DEF QuotaInv, MailsArePaced, Recent
    <3>. QED BY <1>0, <3>1, <3>2, SmallerSet
  <2>. QED BY <2>1, <2>2
<1>7. Counted' \subseteq Counted \cup {a} /\ Counted \subseteq Attempts
    BY <1>2 DEF Counted
<1>8. Cardinality(Counted') <= OrganizationLimit
  <2>1. Cardinality(Counted) < OrganizationLimit
      BY DEF WithinQuota
  <2>. QED BY <1>0, <1>1, <1>7, <2>1, OneMore
<1>9. ASSUME NEW v \in Users
      PROVE  Cardinality(CountedBy(v)') <= ActorLimit
  <2>0. CountedBy(v) \subseteq Attempts
      BY DEF CountedBy, Counted
  <2>1. CASE v = u
    <3>1. Cardinality(CountedBy(v)) < ActorLimit
        BY <2>1 DEF WithinQuota
    <3>2. CountedBy(v)' \subseteq CountedBy(v) \cup {a}
        BY <1>2 DEF CountedBy, Counted
    <3>. QED BY <1>0, <1>1, <2>0, <3>1, <3>2, OneMore
  <2>2. CASE v # u
    <3>1. CountedBy(v)' \subseteq CountedBy(v)
        BY <1>2, <1>3, <2>2 DEF CountedBy, Counted
    <3>2. Cardinality(CountedBy(v)) <= ActorLimit
        BY DEF QuotaInv, MailsArePaced
    <3>. QED BY <1>0, <2>0, <3>1, <3>2, SmallerSet
  <2>. QED BY <2>1, <2>2
<1>10. ASSUME NEW f \in Emails
       PROVE  Cardinality(CountedFor(f)') <= EmailLimit
  <2>0. CountedFor(f) \subseteq Attempts
      BY DEF CountedFor, Counted
  <2>1. ASSUME NEW b \in Counted', b # a
        PROVE  b \in Counted /\ invitation'[attempt'[b].of].email = invitation[attempt[b].of].email
    <3>1. b \in Attempts /\ b \in Counted /\ attempt'[b] = attempt[b]
        BY <1>2, <2>1 DEF Counted
    <3>2. attempt[b].status # "absent" /\ attempt[b].of \in Invitations
        BY <3>1, AttemptSets DEF Counted
    <3>. QED BY <3>1, <3>2 DEF QuotaInv, AttemptsRefer, AddressesStay
  <2>2. CASE f = e
    <3>1. Cardinality(CountedFor(f)) < EmailLimit
        BY <2>2 DEF WithinQuota
    <3>2. CountedFor(f)' \subseteq CountedFor(f) \cup {a}
        BY <2>1 DEF CountedFor
    <3>. QED BY <1>0, <1>1, <2>0, <3>1, <3>2, OneMore
  <2>3. CASE f # e
    <3>1. invitation'[attempt'[a].of].email = e
        BY <1>2, <1>3
    <3>2. CountedFor(f)' \subseteq CountedFor(f)
        BY <2>1, <2>3, <3>1 DEF CountedFor
    <3>3. Cardinality(CountedFor(f)) <= EmailLimit
        BY DEF QuotaInv, MailsArePaced
    <3>. QED BY <1>0, <2>0, <3>2, <3>3, SmallerSet
  <2>. QED BY <2>2, <2>3
<1>11. MailsArePaced'
    BY <1>6, <1>8, <1>9, <1>10 DEF MailsArePaced, Recent
<1>. QED BY <1>5, <1>11 DEF QuotaInv

LEMMA AddressesStayPut == ASSUME TypeOK, [Next]_vars PROVE AddressesStay
<1>1. ASSUME UNCHANGED invitation
      PROVE  AddressesStay
    BY <1>1 DEF AddressesStay
<1>2. ASSUME NEW u \in Users, NEW e \in Emails, NEW r \in Offered, NEW d \in BOOLEAN,
             Invite(u, e, r, d)
      PROVE  AddressesStay
    BY <1>2 DEF Invite, Fresh, AddressesStay, TypeOK
<1>3. ASSUME NEW i \in Invitations, NEW status \in Ended, End(i, status)
      PROVE  AddressesStay
  <2>1. status # "absent" /\ invitation[i] \in InvitationRows
      BY DEF Ended, TypeOK
  <2>2. \A j \in Invitations : invitation[j].status # "absent" =>
            invitation'[j].status # "absent" /\ invitation'[j].email = invitation[j].email
    <3>. SUFFICES ASSUME NEW j \in Invitations, invitation[j].status # "absent"
                  PROVE  invitation'[j].status # "absent" /\ invitation'[j].email = invitation[j].email
        OBVIOUS
    <3>1. invitation[j] \in InvitationRows \ {NoInvitation}
        BY DEF TypeOK, NoInvitation
    <3>. QED BY <1>3, <2>1, <3>1 DEF End, TypeOK, InvitationRows
  <2>. QED BY <2>2 DEF AddressesStay
<1>4. ASSUME NEW i \in Invitations, Expire(i)
      PROVE  AddressesStay
  <2>1. ASSUME NEW j \in Invitations, invitation[j].status # "absent"
        PROVE  invitation'[j].status # "absent" /\ invitation'[j].email = invitation[j].email
    <3>1. invitation[j] \in InvitationRows \ {NoInvitation}
        BY <2>1 DEF TypeOK, NoInvitation
    <3>. QED BY <1>4, <2>1, <3>1 DEF Expire, TypeOK, InvitationRows
  <2>. QED BY <2>1 DEF AddressesStay
<1>5. ASSUME NEW u \in Users, NEW i \in Invitations, Accept(u, i) \/ Reject(u, i) \/ Cancel(u, i)
      PROVE  AddressesStay
    BY <1>3, <1>5 DEF Accept, Reject, Cancel, Ended
<1>6. ASSUME \/ SuspendOrResume
             \/ \E u \in Users : ChangeRole(u) \/ ChangeEmail(u)
             \/ \E a \in Attempts : Grow(a)
             \/ \E u \in Users, i \in Invitations : Resend(u, i)
             \/ \E s \in Senders : Send(s) \/ Settle(s) \/ Abandon(s)
             \/ \E s \in Senders, a \in Attempts : Claim(s, a)
             \/ UNCHANGED vars
      PROVE  UNCHANGED invitation
    BY <1>6 DEF SuspendOrResume, ChangeRole, ChangeEmail, Grow, Resend, Send, Settle, Abandon,
                Claim, ClaimNothing, ClaimEnded, ClaimActive, vars
<1>. QED BY <1>1, <1>2, <1>4, <1>5, <1>6 DEF Next, Command, Around, Deliver

LEMMA QuotaStep == ASSUME IInv, QuotaInv, [Next]_vars PROVE QuotaInv'
<1>0. TypeOK /\ AddressesStay
    BY AddressesStayPut DEF IInv
<1>1. ASSUME UNCHANGED attempt
      PROVE  NothingStaged
    BY <1>1 DEF NothingStaged
<1>2. ASSUME NEW u \in Users, NEW e \in Emails, NEW r \in Offered, NEW d \in BOOLEAN,
             Invite(u, e, r, d)
      PROVE  QuotaInv'
  <2>1. PICK i \in Invitations :
          /\ invitation[i].status = "absent" /\ Stage(u, i, d)
          /\ invitation'[i].status = "pending" /\ invitation'[i].email = e
      BY <1>0, <1>2 DEF Invite, Fresh, TypeOK
  <2>2. WithinQuota(u, e)
      BY <1>2 DEF Invite
  <2>. QED BY <1>0, <2>1, <2>2, StagedWithinQuotas
<1>3. ASSUME NEW u \in Users, NEW i \in Invitations, Resend(u, i)
      PROVE  QuotaInv'
  <2>1. /\ invitation'[i] = invitation[i] /\ invitation[i].status = "pending"
        /\ invitation[i].email \in Emails
      BY <1>0, <1>3 DEF Resend, IsActive, TypeOK, InvitationRows, NoInvitation
  <2>2. Stage(u, i, TRUE) /\ WithinQuota(u, invitation[i].email) /\ ~Cooling(i)
      BY <1>3 DEF Resend
  <2>. QED BY <1>0, <2>1, <2>2, StagedWithinQuotas
<1>4. ASSUME NEW a \in Attempts, Grow(a)
      PROVE  NothingStaged
  <2>1. /\ attempt[a] \in AttemptRows \ {NoAttempt}
        /\ Older[attempt[a].age] \in {"hour", "old"}
        /\ attempt[a].age \in {"minute", "hour"}
      BY <1>0, <1>4 DEF Grow, TypeOK, NoAttempt, Older
  <2>2. attempt' = [attempt EXCEPT ![a].age = Older[attempt[a].age]]
      BY <1>4 DEF Grow
  <2>3. \A b \in Attempts : b # a => attempt'[b] = attempt[b]
      BY <1>0, <2>2 DEF TypeOK
  <2>4. /\ attempt'[a].status = attempt[a].status /\ attempt'[a].of = attempt[a].of
        /\ attempt'[a].actor = attempt[a].actor /\ attempt'[a].age = Older[attempt[a].age]
      BY <1>0, <2>1, <2>2 DEF TypeOK, AttemptRows
  <2>5. attempt'[a].age # "minute"
      BY <2>1, <2>4
  <2>. QED BY <2>1, <2>3, <2>4, <2>5 DEF NothingStaged
<1>5. ASSUME NEW a \in Attempts, attempt[a].status # "absent", NEW status \in Verdicts,
             attempt' = [attempt EXCEPT ![a].status = status]
      PROVE  NothingStaged
  <2>1. attempt[a] \in AttemptRows \ {NoAttempt} /\ status # "absent"
      BY <1>0, <1>5 DEF TypeOK, NoAttempt, Verdicts
  <2>2. \A b \in Attempts : b # a => attempt'[b] = attempt[b]
      BY <1>0, <1>5 DEF TypeOK
  <2>3. /\ attempt'[a].status = status /\ attempt'[a].of = attempt[a].of
        /\ attempt'[a].actor = attempt[a].actor /\ attempt'[a].age = attempt[a].age
      BY <1>0, <1>5, <2>1 DEF TypeOK, AttemptRows
  <2>. QED BY <1>5, <2>1, <2>2, <2>3 DEF NothingStaged
<1>6. ASSUME NEW s \in Senders, NEW a \in Attempts, Claim(s, a)
      PROVE  NothingStaged
  <2>1. CASE ClaimNothing(s, a)
      BY <1>1, <2>1 DEF ClaimNothing
  <2>2. CASE ClaimEnded(s, a)
      BY <1>5, <2>2 DEF ClaimEnded, Pending, Verdicts
  <2>3. CASE ClaimActive(s, a)
      BY <1>5, <2>3 DEF ClaimActive, Pending, Verdicts
  <2>. QED BY <1>6, <2>1, <2>2, <2>3 DEF Claim
<1>7. ASSUME NEW s \in Senders, Settle(s)
      PROVE  NothingStaged
  <2>1. /\ sender[s].of \in Attempts /\ attempt[sender[s].of].status = "unknown"
        /\ sender[s].verdict \in Verdicts
      BY <1>7 DEF IInv, DeliveryInv, SendersCoherent, Busy, Settle
  <2>. QED BY <1>5, <1>7, <2>1 DEF Settle
<1>8. ASSUME \/ SuspendOrResume
             \/ \E u \in Users : ChangeRole(u) \/ ChangeEmail(u)
             \/ \E i \in Invitations : Expire(i)
             \/ \E u \in Users, i \in Invitations : Accept(u, i) \/ Reject(u, i) \/ Cancel(u, i)
             \/ \E s \in Senders : Send(s) \/ Abandon(s)
             \/ UNCHANGED vars
      PROVE  UNCHANGED attempt
    BY <1>8 DEF SuspendOrResume, ChangeRole, ChangeEmail, Expire, Accept, Reject, Cancel, Send,
                Abandon, vars
<1>. QED BY <1>0, <1>1, <1>2, <1>3, <1>4, <1>6, <1>7, <1>8, QuotasStay
         DEF Next, Command, Around, Deliver

\* Creation and resend draw on the same quotas: however they, the minutes and
\* the hours interleave, no invitation, address, member or organization sends
\* more than it may.
THEOREM MailsPaced == Spec => []MailsArePaced
<1>1. Init => QuotaInv
  <2>. SUFFICES ASSUME Init PROVE QuotaInv
      OBVIOUS
  <2>1. \A a \in Attempts : attempt[a].status = "absent" /\ attempt[a].age = "none"
      BY DEF Init, NoAttempt
  <2>2. Counted = {}
      BY <2>1 DEF Counted
  <2>3. /\ \A i \in Invitations : Recent(i) = {}
        /\ \A e \in Emails : CountedFor(e) = {}
        /\ \A u \in Users : CountedBy(u) = {}
      BY <2>1, <2>2 DEF Recent, CountedFor, CountedBy
  <2>4. Cardinality({}) = 0 /\ 0 <= 1 /\ 0 <= EmailLimit /\ 0 <= ActorLimit /\ 0 <= OrganizationLimit
      BY FS_EmptySet, LimitAssumption
  <2>. QED BY <2>1, <2>2, <2>3, <2>4 DEF QuotaInv, AttemptsRefer, MailsArePaced, Recent
<1>2. IInv /\ QuotaInv /\ [Next]_vars => QuotaInv'
    BY QuotaStep
<1>3. QuotaInv => MailsArePaced
    BY DEF QuotaInv
<1>. QED BY <1>1, <1>2, <1>3, InvariantHolds, PTL DEF Spec
-----------------------------------------------------------------------------
(* Invitations implements BoundedDelivery *)

\* What the outside is promised of a mail: a single send.  A mail nobody knows
\* the fate of stays pending.
OutcomeOf(status) ==
    CASE status = "absent" -> "none"
      [] status = "smtp_accepted" -> "delivered"
      [] status = "failed" -> "failed"
      [] OTHER -> "pending"
Told == [a \in Attempts |-> OutcomeOf(attempt[a].status)]
Bounded == INSTANCE BoundedDelivery
    WITH Items <- Attempts, Limit <- 1, outcome <- Told, received <- taken
ImplementsBoundedDelivery == Bounded!Spec

LEMMA Outcomes ==
    /\ OutcomeOf("absent") = "none" /\ OutcomeOf("smtp_accepted") = "delivered"
    /\ OutcomeOf("failed") = "failed"
    /\ OutcomeOf("pending") = "pending" /\ OutcomeOf("unknown") = "pending"
<1>. QED BY DEF OutcomeOf

LEMMA SameOutcomes ==
    ASSUME \A a \in Attempts : OutcomeOf(attempt'[a].status) = OutcomeOf(attempt[a].status),
           UNCHANGED <<sends, taken>>
    PROVE  UNCHANGED Bounded!vars
<1>1. Told' = Told
    BY DEF Told
<1>. QED BY <1>1 DEF Bounded!vars

\* Commands stage mails at most.
LEMMA QuietAccepts ==
    ASSUME Quiet
    PROVE  Bounded!Next
<1>. DEFINE new == {a \in Attempts : attempt[a].status = "absent" /\ attempt'[a].status = "pending"}
<1>1. \A a \in new : Told[a] = "none"
    BY Outcomes DEF Told
<1>2. Told' = [a \in Attempts |-> IF a \in new THEN "pending" ELSE Told[a]]
    BY Outcomes DEF Told, Quiet
<1>3. new \in SUBSET Attempts /\ UNCHANGED <<sends, taken>>
    BY DEF Quiet
<1>. HIDE DEF new
<1>4. Bounded!Accept(new)
    BY <1>1, <1>2, <1>3 DEF Bounded!Accept
<1>. QED BY <1>3, <1>4 DEF Bounded!Next

\* A mail whose invitation has ended, or which the server refused.
LEMMA FailureGivesUp ==
    ASSUME TypeOK, NEW a \in Attempts, attempt[a].status \in {"pending", "unknown"},
           attempt' = [attempt EXCEPT ![a].status = "failed"], UNCHANGED <<sends, taken>>
    PROVE  Bounded!Next
<1>1. attempt'[a].status = "failed" /\ \A b \in Attempts \ {a} : attempt'[b] = attempt[b]
    BY DEF TypeOK, AttemptRows, NoAttempt
<1>2. Told' = [b \in Attempts |-> IF b \in {a} THEN "failed" ELSE Told[b]] /\ Told[a] = "pending"
    BY <1>1, Outcomes DEF Told
<1>3. Bounded!GiveUp({a})
    BY <1>2 DEF Bounded!GiveUp
<1>. QED BY <1>3 DEF Bounded!Next

LEMMA ClaimTold ==
    ASSUME IInv, NEW s \in Senders, NEW a \in Attempts, Claim(s, a)
    PROVE  [Bounded!Next]_(Bounded!vars)
<1>1. CASE ClaimNothing(s, a)
    BY <1>1, SameOutcomes DEF ClaimNothing, posts
<1>2. CASE ClaimEnded(s, a)
    BY <1>2, FailureGivesUp DEF ClaimEnded, Pending, posts, IInv
<1>3. CASE ClaimActive(s, a)
  <2>1. \A b \in Attempts : attempt'[b].status = IF b = a THEN "unknown" ELSE attempt[b].status
      BY <1>3 DEF ClaimActive, IInv, TypeOK, AttemptRows, NoAttempt
  <2>2. attempt[a].status = "pending" /\ UNCHANGED <<sends, taken>>
      BY <1>3 DEF ClaimActive, Pending, posts
  <2>. QED BY <2>1, <2>2, Outcomes, SameOutcomes
<1>. QED BY <1>1, <1>2, <1>3 DEF Claim

LEMMA SendTold ==
    ASSUME IInv, NEW s \in Senders, Send(s)
    PROVE  Bounded!Next
<1>1. PICK a \in Attempts : a = sender[s].of /\ attempt[a].status = "unknown" /\ sends[a] = 0 /\ ~taken[a]
    BY DEF IInv, DeliveryInv, SendersCoherent, Send, Busy
<1>2. PICK t \in BOOLEAN : taken' = [taken EXCEPT ![a] = @ \/ t]
    BY <1>1 DEF Send
<1>3. taken' \in {taken, [taken EXCEPT ![a] = TRUE]}
  <2>1. taken \in [Attempts -> BOOLEAN] /\ taken[a] = FALSE
      BY <1>1 DEF IInv, TypeOK
  <2>2. CASE t = TRUE
      BY <1>2, <2>1, <2>2
  <2>3. CASE t = FALSE
    <3>1. taken' = [taken EXCEPT ![a] = FALSE]
        BY <1>2, <2>1, <2>3
    <3>. QED BY <2>1, <3>1
  <2>. QED BY <2>2, <2>3
<1>4. sends' = [sends EXCEPT ![a] = @ + 1] /\ sends[a] < 1 /\ UNCHANGED attempt
    BY <1>1 DEF Send
<1>5. Told[a] # "none" /\ UNCHANGED Told
    BY <1>1, <1>4, Outcomes DEF Told
<1>6. Bounded!Send(a)
    BY <1>3, <1>4, <1>5 DEF Bounded!Send
<1>. QED BY <1>6 DEF Bounded!Next

LEMMA SettleTold ==
    ASSUME IInv, NEW s \in Senders, Settle(s)
    PROVE  [Bounded!Next]_(Bounded!vars)
<1>1. PICK a \in Attempts, v \in Verdicts :
         /\ a = sender[s].of /\ v = sender[s].verdict /\ attempt[a].status = "unknown"
         /\ v = "smtp_accepted" => taken[a]
    BY DEF IInv, DeliveryInv, SendersCoherent, Settle, Busy
<1>2. attempt' = [attempt EXCEPT ![a].status = v] /\ UNCHANGED <<sends, taken>>
    BY <1>1 DEF Settle, posts
<1>3. attempt'[a].status = v /\ \A b \in Attempts \ {a} : attempt'[b] = attempt[b]
    BY <1>1, <1>2 DEF IInv, TypeOK, AttemptRows, NoAttempt
<1>4. CASE v = "unknown"
    BY <1>1, <1>2, <1>3, <1>4, SameOutcomes
<1>5. CASE v = "failed"
    BY <1>1, <1>2, <1>5, FailureGivesUp DEF IInv
<1>6. CASE v = "smtp_accepted"
  <2>1. Told' = [Told EXCEPT ![a] = "delivered"] /\ Told[a] = "pending"
      BY <1>1, <1>3, <1>6, Outcomes DEF Told
  <2>2. Bounded!Settle(a)
      BY <1>1, <1>2, <1>6, <2>1 DEF Bounded!Settle
  <2>. QED BY <2>2 DEF Bounded!Next
<1>. QED BY <1>4, <1>5, <1>6 DEF Verdicts

\* Loops, the requests' own sends and failures at any point make of each
\* staged mail a delivery with a single send and one final outcome, which is
\* "delivered" only if the server took it; a mail whose answer was lost is not
\* sent again.
THEOREM BoundedDeliveryImplemented == Spec => ImplementsBoundedDelivery
<1>1. Init => Bounded!Init
    BY Outcomes DEF Init, Bounded!Init, Told, NoAttempt
<1>2. IInv /\ [Next]_vars => [Bounded!Next]_(Bounded!vars)
  <2>. SUFFICES ASSUME IInv, [Next]_vars PROVE [Bounded!Next]_(Bounded!vars)
      OBVIOUS
  <2>1. CASE UNCHANGED vars
      BY <2>1, SameOutcomes DEF vars
  <2>2. CASE Command \/ Around
      BY <2>2, CommandsQuiet, AroundQuiet, QuietAccepts DEF IInv
  <2>3. ASSUME NEW s \in Senders, Abandon(s) PROVE [Bounded!Next]_(Bounded!vars)
      BY <2>3, SameOutcomes DEF Abandon, posts
  <2>. QED BY <2>1, <2>2, <2>3, ClaimTold, SendTold, SettleTold DEF Next, Deliver
<1>. QED BY <1>1, <1>2, InvariantHolds, PTL DEF Spec, ImplementsBoundedDelivery, Bounded!Spec
=============================================================================
