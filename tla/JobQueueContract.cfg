SPECIFICATION FairSpec
CONSTANTS
    w1 = w1
    w2 = w2
    Jobs <- ThreeJobs
    Workers <- TwoWorkers
    BatchSize = 2
    MaxAttempts = 2
    Mailing <- SecondJob
    Unhandled <- ThirdJob
    Poison <- NoJobs
    SlowWorkers = FALSE
    CountCap = 4
    MaxCrashes = 1
    MaxOverruns = 0
INVARIANTS ExclusiveExecution RetryBudget
PROPERTIES ImplementsContract KeepsContract
