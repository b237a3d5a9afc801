SPECIFICATION Spec
CONSTANTS
    c1 = c1
    c2 = c2
    n1 = n1
    n2 = n2
    t1 = t1
    t2 = t2
    t3 = t3
    p1 = p1
    p2 = p2
    None = None
    Clients = {c1, c2}
    Names = {n1, n2}
    Texts = {t1, t2, t3}
    Params = {p1, p2}
    Inputs <- MCInputs
    Unwritable <- MCUnwritable
    AutoKeep = 1
    PreKeep = 2
    MaxRevision = 2
    MaxSnapshots = 3
    MaxFailures = 1
SYMMETRY MCSymmetry
INVARIANTS
    TypeOK
    AnswersAreTrue
    PartialWritesKeepTheRest
    SnapshotsAreFaithful
    RetentionHolds
    RevisionCountsCommits
PROPERTIES
    RestoreLeavesRecoveryPoint
    PruningSparesNamedAndNewest
    ImplementsRevisionLog
CHECK_DEADLOCK FALSE
