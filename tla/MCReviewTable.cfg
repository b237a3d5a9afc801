SPECIFICATION Spec
CONSTANTS
    c1 = c1
    c2 = c2
    k1 = k1
    k2 = k2
    f1 = f1
    f2 = f2
    v0 = v0
    v1 = v1
    None = None
    Clients <- MCClients
    Controls <- MCControls
    Fields <- MCFields
    Values <- MCValues
    Default <- MCDefault
    MaxRequests = 4
    MaxFailures = 0
SYMMETRY MCSymmetry
PROPERTIES
    ReviewObeysTable
CHECK_DEADLOCK FALSE
