\* One updateTrustScore at a time against a changing creator record.
CONSTANTS
    p1 = p1
    p2 = p2
    m1 = m1
    m2 = m2
    Projects <- MCProjects
    Milestones <- MCMilestones
    Goal <- MCGoal
    FundStep = 2
    MaxFunds = 4
    Completion = {"same", "later"}
    UpdateSlots = {1}
SPECIFICATION Spec
INVARIANTS
    TypeOK
PROPERTY
    ScoreMonotone
