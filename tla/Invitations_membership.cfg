SPECIFICATION MembershipSpec
CONSTANTS
    Users = {u1, u2, u3}
    Emails = {e1, e2, e3, e4}
    Loops = {}
    MaxInvitations = 2
    MaxAttempts = 2
    MaxFaults = 0
    PendingLimit = 2
    EmailLimit = 1
    OrganizationLimit = 3
    ActorLimit = 2
SYMMETRY Symmetry
INVARIANTS
    OneInvitationPerAddress
    OneMembershipPerInvitation
    MailsArePaced
PROPERTIES
    AdminsComeFromOwners
    EndedStaysEnded
