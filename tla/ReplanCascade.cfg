SPECIFICATION Spec
CONSTANTS
    t1 = t1
    t2 = t2
    t3 = t3
    m1 = m1
    m2 = m2
    m3 = m3
    r1 = r1
    None = None
    NoDue = NoDue
    Tasks <- ThreeTasks
    Editors <- OneEditor
    Milestones <- ThreeMilestones
    Buffer = 1
    MaxDay = 2
    MaxDue = 2
INVARIANTS ShiftsWithLatestBlocker WholeProposalSettles
SYMMETRY Exchanged
