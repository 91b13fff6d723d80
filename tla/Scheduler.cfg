SPECIFICATION MCSpec
CONSTANTS
    r1 = r1
    r2 = r2
    s1 = s1
    m1 = m1
    None = None
    Replicas <- TwoReplicas
    Startups <- OneStartup
    Milestones <- OneMilestone
    Owner <- OwnerOfOne
    InitialDue <- DueYesterday
    MaxDay = 2
    QuarterDays = 3
    ReassessDays = 1
    MaxCrashes = 1
    MaxEdits = 1
INVARIANTS ExactlyOncePerPeriod
PROPERTIES DueIsClaimed
