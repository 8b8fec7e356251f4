---------------------------- MODULE MCInvitations ----------------------------
(* Instances of Invitations for TLC. *)
EXTENDS Invitations, TLC

Symmetry == Permutations(Users) \cup Permutations(Emails)

\* Commands without delivery: no command reads the status of an attempt or a
\* sender, so what concerns memberships is complete.
MembershipNext ==
    \/ \E u \in Users, e \in Emails, r \in Offered : Invite(u, e, r, FALSE)
    \/ \E u \in Users, i \in Invitations :
          Resend(u, i) \/ Accept(u, i) \/ Reject(u, i) \/ Cancel(u, i)
    \/ Around

MembershipSpec == Init /\ [][MembershipNext]_vars

\* Delivery while nobody changes role or address: no step of a sender reads
\* the organization or its members.
MailNext ==
    \/ Command
    \/ \E a \in Attempts : Grow(a)
    \/ \E i \in Invitations : Expire(i)
    \/ \E s \in Senders : Deliver(s) \/ Abandon(s)

FairMailSpec == Init /\ [][MailNext]_vars /\ Fairness
=============================================================================
