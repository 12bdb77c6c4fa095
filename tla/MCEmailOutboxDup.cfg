\* A single retry run, no provider timeouts, no restarts: the one database
\* fault is enough for a recipient to get the same email twice.
CONSTANTS
    e1 = e1
    e2 = e2
    r1 = r1
    r2 = r2
    Emails <- MCEmails
    RunSlots <- OneRun
    ProviderOutcomes <- NoTimeouts
    MAX_ATTEMPTS = 3
    BatchSize = 1
    SendCap = 6
    MaxDbFaults = 1
    MaxRestarts = 0
SPECIFICATION Spec
INVARIANT DeliveredAtMostOnce
