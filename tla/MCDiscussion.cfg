SPECIFICATION Spec
CONSTANTS
    c1 = c1
    c2 = c2
    u1 = u1
    u2 = u2
    None = None
    Clients = {c1, c2}
    Users = {u1, u2}
    Role <- MCRole
    Bodies <- MCBodies
    MaxComments = 2
    MaxRequests = 3
    MaxFailures = 1
SYMMETRY MCSymmetry
INVARIANTS
    TypeOK
    QuietCommentsAreConsistent
    MentionsAreAnnounced
CHECK_DEADLOCK FALSE
