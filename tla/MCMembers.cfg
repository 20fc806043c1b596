SPECIFICATION Spec
CONSTANTS
    q1 = q1
    q2 = q2
    i1 = i1
    i2 = i2
    ana = ana
    Requests = {q1, q2}
    Guests = {ana}
    Invites = {i1, i2}
    Personal = TRUE
SYMMETRY Symmetry
INVARIANTS
    MembersWereInvited
    EnteredHadRank
PROPERTIES
    ClosedInvitesAdmitNobody
