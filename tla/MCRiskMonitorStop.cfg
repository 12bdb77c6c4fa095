\* A poll in flight across stopMonitoring (and a restart of the monitor).
CONSTANTS
    h1 = h1
    d1 = d1
    d2 = d2
    Handlers <- MCHandlers
    Data <- MCData
    Assess <- MCAssess
    Cap = 3
    PollSlots = {1, 2}
    MaxSessions = 2
    MaxChanges = 1
SPECIFICATION Spec
INVARIANT NoCallbackAfterStop
CHECK_DEADLOCK FALSE
