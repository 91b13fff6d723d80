SPECIFICATION Spec
CONSTANTS
    r1 = r1
    r2 = r2
    b1 = b1
    b2 = b2
    None = None
    Requests <- MCRequests
    Blocks <- MCBlocks
    MaxServed = 4
SYMMETRY MCSymmetry
INVARIANTS
    KindAnnounced
    ApprovedDeletionSticks
PROPERTY EditsBehindModelSurvive
CHECK_DEADLOCK FALSE
