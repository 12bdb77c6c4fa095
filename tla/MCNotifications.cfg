\* One hourly run at a time, distinct titles, a failed insert and a restart.
CONSTANTS
    u1 = u1
    u2 = u2
    p1 = p1
    p2 = p2
    r1 = r1
    r2 = r2
    Users <- MCUsers
    Projects <- MCProjects
    HasEmail <- MCHasEmail
    Subscribers <- MCSubscribers
    SettingValues <- MCSettingValues
    VapidKey = TRUE
    RunSlots <- OneRun
    TitleOf <- DistinctTitles
    MaxDbFaults = 1
    MaxRestarts = 1
SPECIFICATION FairSpec
INVARIANT
    TypeOK
    DispatchRecorded
PROPERTY
    ProjectAlerted
    ImplementsAlertRounds
