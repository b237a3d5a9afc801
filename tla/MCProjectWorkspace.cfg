SPECIFICATION FairSpec
CONSTANTS
    s1 = s1
    s2 = s2
    d1 = d1
    d2 = d2
    d3 = d3
    r1 = r1
    r2 = r2
    None = None
    Sessions = {s1}
    Docs = {d1, d2, d3}
    Records = {r1, r2}
    Clients <- MCClients
    Normalized <- MCNormalized
    MaxSurprises = 4
INVARIANTS
    SavedWasStored
PROPERTIES
    ConflictStopsTheSession
    RevisionNeverGoesBack
    EditsSettle
    RestoreEnds
CHECK_DEADLOCK FALSE
