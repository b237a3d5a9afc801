SPECIFICATION Spec
CONSTANTS
    p1 = p1
    p2 = p2
    None = None
    Projects = {p1, p2}
    SampleSize = 1
    MaxWrites = 3
    MaxRuns = 2
    MaxCrashes = 1
SYMMETRY MCSymmetry
INVARIANTS
    AcceptedCopyIsFaithful
    TimelinesAgree
PROPERTIES
    RunsOnlyAdd
CHECK_DEADLOCK FALSE
