\* One retry run at a time (no overlap), all provider outcomes, one database
\* fault and one restart.
CONSTANTS
    e1 = e1
    e2 = e2
    r1 = r1
    r2 = r2
    Emails <- MCEmails
    RunSlots <- OneRun
    ProviderOutcomes <- AllOutcomes
    MAX_ATTEMPTS = 3
    BatchSize = 1
    SendCap = 6
    MaxDbFaults = 1
    MaxRestarts = 1
SPECIFICATION FairSpec
INVARIANT TypeOK
INVARIANT SentRowsWereDelivered
 
