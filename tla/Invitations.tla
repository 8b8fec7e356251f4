----------------------------- MODULE Invitations -----------------------------
(***************************************************************************)
(* The invitations of one organization and the mail that carries them.     *)
(* Members invite addresses, resend, cancel; recipients accept and reject. *)
(* Each mail is a delivery attempt of its own: the request that staged it  *)
(* sends it after its commit, unless a delivery loop claims it first.      *)
(*                                                                         *)
(* Commands run in one transaction under the lock of the organization's    *)
(* status row, and so does the claim: each is one step.  The SMTP exchange *)
(* and the settlement of an attempt are steps of their own.                *)
(***************************************************************************)
EXTENDS Naturals, FiniteSets, Sequences

CONSTANTS
    Users, Emails,
    Loops,              \* API processes; each runs one delivery loop
    MaxInvitations,     \* bound: invitation rows
    MaxAttempts,        \* bound: invitation_delivery_attempts rows
    MaxFaults,          \* bound: senders that die or lose the database
    PendingLimit,       \* ORGANIZATION_PENDING_INVITATION_LIMIT
    EmailLimit, OrganizationLimit, ActorLimit  \* mails within an hour

ASSUME LimitAssumption ==
    /\ MaxInvitations \in Nat /\ MaxAttempts \in Nat /\ MaxFaults \in Nat
    /\ PendingLimit \in Nat \ {0}
    /\ EmailLimit \in Nat /\ OrganizationLimit \in Nat /\ ActorLimit \in Nat

VARIABLES
    active,      \* organization_status
    role,        \* member: the role of each user, "none" for an outsider
    email,       \* user: the verified address
    invitation,  \* invitation
    attempt,     \* invitation_delivery_attempts with their invitation_send_events
    sender,      \* progress of each delivery loop and of each request's own send
    admitted,    \* history: memberships an invitation has made
    sends,       \* history: SMTP exchanges begun for an attempt
    taken,       \* history: the SMTP server took the mail
    audits,      \* history: invitation.delivery_* events of an attempt
    faults

people == <<active, role, email>>
posts == <<sends, taken>>
vars == <<active, role, email, invitation, attempt, sender, admitted, sends, taken, audits, faults>>

Invitations == 1..MaxInvitations
Attempts == 1..MaxAttempts
Senders == Loops \cup Attempts

Offered == {"member", "admin"}
Ended == {"accepted", "rejected", "canceled"}
Verdicts == {"smtp_accepted", "failed", "unknown"}

NoInvitation == [status |-> "absent", email |-> "none", role |-> "none",
                 inviter |-> "none", expired |-> FALSE]
NoAttempt == [status |-> "absent", of |-> 0, actor |-> "none", age |-> "none"]
IdleSender == [pc |-> "idle", of |-> 0, verdict |-> "none"]

-----------------------------------------------------------------------------
(* What the commands ask *)

\* Rows are numbered in the order of their creation.
Fresh(rows, n) == rows[n].status = "absent" /\ \A k \in 1..n - 1 : rows[k].status # "absent"

\* assertInvitationActive
IsActive(i) == invitation[i].status = "pending" /\ ~invitation[i].expired
ActiveInvitations == {i \in Invitations : IsActive(i)}

\* assertInvitationRole; "admin" stands for every role that may invite.
MayGrant(u, r) == role[u] = "owner" \/ (role[u] = "admin" /\ r # "admin")

IsMember(e) == \E u \in Users : email[u] = e /\ role[u] # "none"
Invited(e) == \E i \in ActiveInvitations : invitation[i].email = e

\* reserveInvitationSend: what was sent within the hour.
Counted == {a \in Attempts : attempt[a].age \in {"minute", "hour"}}
CountedFor(e) == {a \in Counted : invitation[attempt[a].of].email = e}
CountedBy(u) == {a \in Counted : attempt[a].actor = u}
\* Mutant: one mail too many.
WithinQuotaInclusive(u, e) ==
    /\ Cardinality(CountedFor(e)) <= EmailLimit
    /\ Cardinality(Counted) <= OrganizationLimit
    /\ Cardinality(CountedBy(u)) <= ActorLimit
WithinQuota(u, e) ==
    /\ Cardinality(CountedFor(e)) < EmailLimit
    /\ Cardinality(Counted) < OrganizationLimit
    /\ Cardinality(CountedBy(u)) < ActorLimit

\* An attempt is staged with the command; its request sends it after the
\* commit, an import leaves it to the loops.
Stage(u, i, deferred) ==
    \E a \in Attempts :
        /\ Fresh(attempt, a)
        /\ attempt' = [attempt EXCEPT ![a] =
               [status |-> "pending", of |-> i, actor |-> u, age |-> "minute"]]
        /\ sender' = IF deferred THEN [sender EXCEPT ![a].pc = "ready", ![a].of = a] ELSE sender

-----------------------------------------------------------------------------
(* Commands *)

\* Mutant: an address that is invited may be invited again.
InviteTwice(u, e, r, deferred) ==
    /\ active /\ MayGrant(u, r) /\ ~IsMember(e)
    /\ Cardinality(ActiveInvitations) < PendingLimit
    /\ WithinQuota(u, e)
    /\ \E i \in Invitations :
          /\ Fresh(invitation, i)
          /\ invitation' = [invitation EXCEPT ![i] =
                 [status |-> "pending", email |-> e, role |-> r, inviter |-> u, expired |-> FALSE]]
          /\ Stage(u, i, deferred)
    /\ UNCHANGED <<people, admitted, posts, audits, faults>>

\* createOrganizationInvitation, from invite-member or from an import.
Invite(u, e, r, deferred) ==
    /\ active /\ MayGrant(u, r) /\ ~IsMember(e) /\ ~Invited(e)
    /\ Cardinality(ActiveInvitations) < PendingLimit
    /\ WithinQuota(u, e)
    /\ \E i \in Invitations :
          /\ Fresh(invitation, i)
          /\ invitation' = [invitation EXCEPT ![i] =
                 [status |-> "pending", email |-> e, role |-> r, inviter |-> u, expired |-> FALSE]]
          /\ Stage(u, i, deferred)
    /\ UNCHANGED <<people, admitted, posts, audits, faults>>

Cooling(i) == \E a \in Attempts : attempt[a].of = i /\ attempt[a].age = "minute"

\* invite-member with resend: both who resends and who invited must be allowed.
Resend(u, i) ==
    /\ active /\ IsActive(i) /\ ~IsMember(invitation[i].email)
    /\ MayGrant(u, invitation[i].role)
    /\ MayGrant(invitation[i].inviter, invitation[i].role)
    /\ ~Cooling(i)
    /\ WithinQuota(u, invitation[i].email)
    /\ Stage(u, i, TRUE)
    /\ UNCHANGED <<people, invitation, admitted, posts, audits, faults>>

End(i, status) == invitation' = [invitation EXCEPT ![i].status = status]
Admit(u, i) ==
    /\ role' = [role EXCEPT ![u] = invitation[i].role]
    /\ admitted' = [admitted EXCEPT ![i] = @ + 1]

\* Mutant: only that the invitation has not expired is asked.
AcceptAgain(u, i) ==
    /\ active /\ invitation[i].status # "absent" /\ ~invitation[i].expired
    /\ email[u] = invitation[i].email
    /\ MayGrant(invitation[i].inviter, invitation[i].role)
    /\ role[u] = "none"
    /\ End(i, "accepted") /\ Admit(u, i)
    /\ UNCHANGED <<active, email, attempt, sender, posts, audits, faults>>

\* Mutant: the inviter is only asked for the right to invite, as the trigger does.
AcceptAnyRole(u, i) ==
    /\ active /\ IsActive(i)
    /\ email[u] = invitation[i].email
    /\ MayGrant(invitation[i].inviter, "member")
    /\ role[u] = "none"
    /\ End(i, "accepted") /\ Admit(u, i)
    /\ UNCHANGED <<active, email, attempt, sender, posts, audits, faults>>

\* A user who is a member already fails on member_organization_user_unique.
Accept(u, i) ==
    /\ active /\ IsActive(i)
    /\ email[u] = invitation[i].email
    /\ MayGrant(invitation[i].inviter, invitation[i].role)
    /\ role[u] = "none"
    /\ End(i, "accepted") /\ Admit(u, i)
    /\ UNCHANGED <<active, email, attempt, sender, posts, audits, faults>>

\* Allowed in a suspended organization too.
Reject(u, i) ==
    /\ IsActive(i)
    /\ email[u] = invitation[i].email
    /\ End(i, "rejected")
    /\ UNCHANGED <<people, attempt, sender, admitted, posts, audits, faults>>

\* Mutant: whatever became of the invitation.
CancelAlways(u, i) ==
    /\ active /\ invitation[i].status # "absent" /\ MayGrant(u, invitation[i].role)
    /\ End(i, "canceled")
    /\ UNCHANGED <<people, attempt, sender, admitted, posts, audits, faults>>

Cancel(u, i) ==
    /\ active /\ IsActive(i) /\ MayGrant(u, invitation[i].role)
    /\ End(i, "canceled")
    /\ UNCHANGED <<people, attempt, sender, admitted, posts, audits, faults>>

-----------------------------------------------------------------------------
(* What goes on around the invitations *)

\* Members change roles and leave; an owner remains.
ChangeRole(u) ==
    /\ active /\ role[u] # "none"
    /\ \E r \in {"none", "member", "admin", "owner"} \ {role[u]} :
          role' = [role EXCEPT ![u] = r]
    /\ \E o \in Users : role'[o] = "owner"
    /\ UNCHANGED <<active, email, invitation, attempt, sender, admitted, posts, audits, faults>>

SuspendOrResume ==
    /\ active' = ~active
    /\ UNCHANGED <<role, email, invitation, attempt, sender, admitted, posts, audits, faults>>

ChangeEmail(u) ==
    /\ \E e \in Emails \ {email[v] : v \in Users} : email' = [email EXCEPT ![u] = e]
    /\ UNCHANGED <<active, role, invitation, attempt, sender, admitted, posts, audits, faults>>

\* The first minute, then the first hour of an attempt pass, the oldest first.
Older == [minute |-> "hour", hour |-> "old"]
Grow(a) ==
    /\ attempt[a].age \in DOMAIN Older
    /\ \A b \in 1..a - 1 : attempt[b].age \in {Older[attempt[a].age], "old"}
    /\ attempt' = [attempt EXCEPT ![a].age = Older[@]]
    /\ UNCHANGED <<people, invitation, sender, admitted, posts, audits, faults>>

\* Seven days pass, for the oldest invitation first.
Expire(i) ==
    /\ invitation[i].status # "absent" /\ ~invitation[i].expired
    /\ \A j \in 1..i - 1 : invitation[j].expired
    /\ \E a \in Attempts : attempt[a].of = i /\ attempt[a].age = "old"
    /\ invitation' = [invitation EXCEPT ![i].expired = TRUE]
    /\ UNCHANGED <<people, attempt, sender, admitted, posts, audits, faults>>

-----------------------------------------------------------------------------
(* claim_invitation_delivery and deliverInvitation *)

Rest(s) == sender' = [sender EXCEPT ![s] = IdleSender]
Pending(a) == attempt[a].status = "pending"
Oldest(a) == Pending(a) /\ \A b \in 1..a - 1 : ~Pending(b)
Asked(s, a) ==
    \/ s \in Loops /\ sender[s].pc = "idle" /\ Oldest(a)
    \/ s = a /\ sender[s].pc = "ready"

\* Claimed by another sender first.
ClaimNothing(s, a) ==
    /\ Asked(s, a) /\ ~Pending(a)
    /\ Rest(s)
    /\ UNCHANGED <<people, invitation, attempt, admitted, posts, audits, faults>>

\* Failed with its audit in the same transaction: nothing is sent.
ClaimEnded(s, a) ==
    /\ Asked(s, a) /\ Pending(a) /\ ~IsActive(attempt[a].of)
    /\ attempt' = [attempt EXCEPT ![a].status = "failed"]
    /\ audits' = [audits EXCEPT ![a] = Append(@, "failed")]
    /\ Rest(s)
    /\ UNCHANGED <<people, invitation, admitted, posts, faults>>

\* Mutant: the claim leaves the attempt pending until it is settled.
ClaimSilently(s, a) ==
    /\ Asked(s, a) /\ Pending(a) /\ IsActive(attempt[a].of)
    /\ sender' = [sender EXCEPT ![s] = [pc |-> "claimed", of |-> a, verdict |-> "none"]]
    /\ UNCHANGED <<people, invitation, attempt, admitted, posts, audits, faults>>

\* Unknown before anything is sent: whatever happens, nobody sends it again.
ClaimActive(s, a) ==
    /\ Asked(s, a) /\ Pending(a) /\ IsActive(attempt[a].of)
    /\ attempt' = [attempt EXCEPT ![a].status = "unknown"]
    /\ sender' = [sender EXCEPT ![s] = [pc |-> "claimed", of |-> a, verdict |-> "none"]]
    /\ UNCHANGED <<people, invitation, admitted, posts, audits, faults>>

\* Mutant: an attempt whose invitation has ended is passed over.
ClaimActiveOnly(s, a) == ClaimNothing(s, a) \/ ClaimActive(s, a)
Claim(s, a) == ClaimNothing(s, a) \/ ClaimEnded(s, a) \/ ClaimActive(s, a)

\* Mutant: an answer that never came counts as a refusal.
SendHasty(s) ==
    LET a == sender[s].of IN
    /\ sender[s].pc = "claimed"
    /\ sends' = [sends EXCEPT ![a] = @ + 1]
    /\ \E v \in {"smtp_accepted", "failed"}, t \in BOOLEAN :
          /\ v = "smtp_accepted" => t
          /\ taken' = [taken EXCEPT ![a] = @ \/ t]
          /\ sender' = [sender EXCEPT ![s].pc = "answered", ![s].verdict = v]
    /\ UNCHANGED <<people, invitation, attempt, admitted, audits, faults>>

\* The server takes the mail, refuses it, or its answer is lost either way.
Send(s) ==
    LET a == sender[s].of IN
    /\ sender[s].pc = "claimed"
    /\ sends' = [sends EXCEPT ![a] = @ + 1]
    /\ \E v \in Verdicts, t \in BOOLEAN :
          /\ v = "smtp_accepted" => t
          /\ v = "failed" => ~t
          /\ taken' = [taken EXCEPT ![a] = @ \/ t]
          /\ sender' = [sender EXCEPT ![s].pc = "answered", ![s].verdict = v]
    /\ UNCHANGED <<people, invitation, attempt, admitted, audits, faults>>

\* Mutant: the answer is not waited for.
SettleEarly(s) ==
    LET a == sender[s].of IN
    /\ sender[s].pc \in {"claimed", "answered"}
    /\ attempt' = [attempt EXCEPT ![a].status = sender[s].verdict]
    /\ audits' = [audits EXCEPT ![a] = Append(@, sender[s].verdict)]
    /\ Rest(s)
    /\ UNCHANGED <<people, invitation, admitted, posts, faults>>

\* Mutant: the audit is written in a transaction of its own.
SettleLoosely(s) ==
    LET a == sender[s].of IN
    /\ sender[s].pc = "answered"
    /\ attempt' = [attempt EXCEPT ![a].status = sender[s].verdict]
    /\ audits' \in {audits, [audits EXCEPT ![a] = Append(@, sender[s].verdict)]}
    /\ Rest(s)
    /\ UNCHANGED <<people, invitation, admitted, posts, faults>>

\* By id: the verdict and its audit in one transaction.
Settle(s) ==
    LET a == sender[s].of IN
    /\ sender[s].pc = "answered"
    /\ attempt' = [attempt EXCEPT ![a].status = sender[s].verdict]
    /\ audits' = [audits EXCEPT ![a] = Append(@, sender[s].verdict)]
    /\ Rest(s)
    /\ UNCHANGED <<people, invitation, admitted, posts, faults>>

\* The process dies or a query fails at any point after the commit.
Abandon(s) ==
    /\ faults < MaxFaults /\ faults' = faults + 1
    /\ sender[s].pc # "idle"
    /\ Rest(s)
    /\ UNCHANGED <<people, invitation, attempt, admitted, posts, audits>>

-----------------------------------------------------------------------------
Init ==
    /\ active = TRUE
    /\ \E o \in Users : role = [u \in Users |-> IF u = o THEN "owner" ELSE "none"]
    /\ email \in {f \in [Users -> Emails] : \A u, v \in Users : f[u] = f[v] => u = v}
    /\ invitation = [i \in Invitations |-> NoInvitation]
    /\ attempt = [a \in Attempts |-> NoAttempt]
    /\ sender = [s \in Senders |-> IdleSender]
    /\ admitted = [i \in Invitations |-> 0]
    /\ sends = [a \in Attempts |-> 0]
    /\ taken = [a \in Attempts |-> FALSE]
    /\ audits = [a \in Attempts |-> <<>>]
    /\ faults = 0

Command ==
    \/ \E u \in Users, e \in Emails, r \in Offered, d \in BOOLEAN : Invite(u, e, r, d)
    \/ \E u \in Users, i \in Invitations :
          Resend(u, i) \/ Accept(u, i) \/ Reject(u, i) \/ Cancel(u, i)

Around ==
    \/ \E u \in Users : ChangeRole(u) \/ ChangeEmail(u)
    \/ SuspendOrResume
    \/ \E a \in Attempts : Grow(a)
    \/ \E i \in Invitations : Expire(i)

Deliver(s) == (\E a \in Attempts : Claim(s, a)) \/ Send(s) \/ Settle(s)

Next == Command \/ Around \/ \E s \in Senders : Deliver(s) \/ Abandon(s)

Spec == Init /\ [][Next]_vars

\* Every loop schedules its next tick whether or not the last one failed.
\* Nothing is owed to commands, nor to a request's own send.
Fairness == \A s \in Loops : WF_vars(Deliver(s))

FairSpec == Spec /\ Fairness

-----------------------------------------------------------------------------
(* Properties *)

InvitationRows == {NoInvitation} \cup
    [status : {"pending"} \cup Ended, email : Emails, role : Offered, inviter : Users,
     expired : BOOLEAN]
AttemptRows == {NoAttempt} \cup
    [status : {"pending"} \cup Verdicts, of : Invitations, actor : Users,
     age : {"minute", "hour", "old"}]
SenderStates == [pc : {"idle", "ready", "claimed", "answered"}, of : {0} \cup Attempts,
                 verdict : Verdicts \cup {"none"}]

TypeOK ==
    /\ active \in BOOLEAN
    /\ role \in [Users -> {"none", "member", "admin", "owner"}]
    /\ email \in [Users -> Emails]
    /\ invitation \in [Invitations -> InvitationRows]
    /\ attempt \in [Attempts -> AttemptRows]
    /\ sender \in [Senders -> SenderStates]
    /\ admitted \in [Invitations -> Nat]
    /\ sends \in [Attempts -> Nat]
    /\ taken \in [Attempts -> BOOLEAN]
    /\ audits \in [Attempts -> Seq(Verdicts)]
    /\ faults \in 0..MaxFaults

\* An address holds at most one invitation it could accept, however requests,
\* imports, expiry and changes of address interleave.
OneInvitationPerAddress ==
    \A i, j \in ActiveInvitations : invitation[i].email = invitation[j].email => i = j

\* An invitation makes a membership exactly when it is accepted, and only one:
\* a member who was removed does not come back through the old link.
OneMembershipPerInvitation ==
    \A i \in Invitations : admitted[i] = IF invitation[i].status = "accepted" THEN 1 ELSE 0

\* Nobody becomes an admin through an invitation unless its inviter is an
\* owner at that moment.
AdminsComeFromOwners ==
    [][\A i \in Invitations :
          admitted'[i] > admitted[i] /\ invitation[i].role = "admin"
              => role[invitation[i].inviter] = "owner"]_vars

\* An invitation that has ended or expired keeps its status.
EndedStaysEnded ==
    [][\A i \in Invitations :
          invitation[i].status \in Ended \/ invitation[i].expired
              => invitation'[i].status = invitation[i].status]_vars

\* However many senders ask for it, an attempt is sent at most once, and not
\* at all while it is pending.
SentAtMostOnce ==
    \A a \in Attempts : sends[a] <= IF attempt[a].status \in {"absent", "pending"} THEN 0 ELSE 1

\* A settled attempt tells the truth; what nobody knows stays "unknown".
VerdictIsTrue ==
    \A a \in Attempts :
        /\ attempt[a].status = "smtp_accepted" => taken[a]
        /\ attempt[a].status = "failed" => ~taken[a]

\* The audit of an attempt never says anything but its status, is written at
\* most once, and is there once the attempt is settled.
AuditAgrees ==
    \A a \in Attempts :
        /\ audits[a] \in {<<>>, <<attempt[a].status>>}
        /\ attempt[a].status \in {"smtp_accepted", "failed"} => audits[a] # <<>>

\* An invitation is mailed at most once a minute; an address over all its
\* invitations, a member who invites and the organization never exceed what
\* they may send within an hour, however commands and the hours interleave.
MailsArePaced ==
    /\ \A i \in Invitations :
          Cardinality({a \in Attempts : attempt[a].of = i /\ attempt[a].age = "minute"}) <= 1
    /\ \A e \in Emails : Cardinality(CountedFor(e)) <= EmailLimit
    /\ \A u \in Users : Cardinality(CountedBy(u)) <= ActorLimit
    /\ Cardinality(Counted) <= OrganizationLimit

\* Every staged mail is claimed or given up in the end, even when the request
\* that staged it dies.
EveryMailIsTakenUp == \A a \in Attempts : Pending(a) ~> ~Pending(a)
=============================================================================
