SPECIFICATION FairSpec
CONSTANTS
    w1 = w1
    w2 = w2
    Jobs <- TwoJobs
    Workers <- TwoWorkers
    BatchSize = 2
    MaxAttempts = 2
    Mailing <- FirstJob
    Unhandled <- NoJobs
    Poison <- SecondJob
    SlowWorkers = TRUE
    CountCap = 4
    MaxCrashes = 1
    MaxOverruns = 1
INVARIANT EffectsPaidFor
PROPERTY InnocentJobsSettle
