SPECIFICATION Spec
CONSTANTS
    c1 = c1
    c2 = c2
    k1 = k1
    None = None
    Clients <- MCClients
    Controls <- MCControls
    MaxUploads = 2
    MaxFailures = 1
SYMMETRY MCSymmetry
INVARIANTS
    VersionsAreConsistent
    FilesMatchVersions
    UploadAnswersAreTrue
    LinksAreAudited
CHECK_DEADLOCK FALSE
