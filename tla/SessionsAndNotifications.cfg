SPECIFICATION MCSpec
CONSTANTS
    s1 = s1
    s2 = s2
    s3 = s3
    f1 = f1
    f2 = f2
    r1 = r1
    r2 = r2
    None = None
    Ids <- ThreeRows
    Families <- TwoFamilies
    Requests <- TwoRequests
    u1 = u1
    u2 = u2
    u3 = u3
    t1 = t1
    t2 = t2
    Users <- ThreeUsers
    Txns <- WorkerAndRequest
    WorkerTxns <- Worker
    Actor <- ByFirst
    WantsMail <- Mailed
    MaxEvents = 2
    RedisMayFail = TRUE
SYMMETRY Symmetric
INVARIANTS OneHeir MailIffRow FramesHaveRows
PROPERTIES NoHeirOfRevoked
CHECK_DEADLOCK FALSE
