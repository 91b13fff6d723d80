SPECIFICATION MCSpec
CONSTANTS
    r1 = r1
    r2 = r2
    Requests <- MCRequests
    MaxServed = 4
    NoScore = NoScore
    Open <- LastOpen
    Past <- Pasts
SYMMETRY MCSymmetry
INVARIANTS TypeOK CompletedOnce PendingMatchesScore
PROPERTIES DecisionsOutlastFreshReads SignalsMatchScore
CHECK_DEADLOCK FALSE
