SPECIFICATION Spec
CONSTANTS
    c1 = c1
    c2 = c2
    u1 = u1
    u2 = u2
    r1 = r1
    r2 = r2
    r3 = r3
    None = None
    Clients = {c1, c2}
    Users = {u1, u2}
    Members = {u1}
    Statuses = {"draft", "implemented"}
    Rules = {r1, r2, r3}
    Rule <- MCRule
    MaxRequests = 3
    MaxFailures = 1
SYMMETRY MCSymmetry
INVARIANTS
    NoCascade
    RunsAreRecorded
PROPERTIES
    AutomationAssignsOnce
CHECK_DEADLOCK FALSE
