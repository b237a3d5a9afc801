SPECIFICATION Spec
CONSTANTS
    c1 = c1
    c2 = c2
    u1 = u1
    u2 = u2
    u3 = u3
    None = None
    Clients = {c1, c2}
    Users = {u1, u2, u3}
    Founder = u1
    Verified = {u1, u2}
    Grants = {"organization_admin", "viewer"}
    MaxRequests = 4
    MaxFailures = 1
SYMMETRY MCSymmetry
INVARIANTS
    MembersWereInvited
PROPERTIES
    AdministratorsRemain
    ClosedInvitationsAdmitNobody
CHECK_DEADLOCK FALSE
