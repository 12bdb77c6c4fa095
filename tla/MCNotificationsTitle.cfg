\* Two projects in the window with the same title.
CONSTANTS
    u1 = u1
    u2 = u2
    p1 = p1
    p2 = p2
    r1 = r1
    r2 = r2
    Users <- MCUsers
    Projects <- MCProjects
    HasEmail <- MCHasEmail
    Subscribers <- MCSubscribers
    SettingValues <- MCSettingValues
    VapidKey = TRUE
    RunSlots <- OneRun
    TitleOf <- SharedTitle
    MaxDbFaults = 0
    MaxRestarts = 0
SPECIFICATION FairSpec
PROPERTY
    ProjectAlerted
