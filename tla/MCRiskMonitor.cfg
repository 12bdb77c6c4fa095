\* Overlapping polls, retries, and start, stop and a second start of the monitor
\* (a start while a session exists is refused).
CONSTANTS
    h1 = h1
    d1 = d1
    d2 = d2
    Handlers <- MCHandlers
    Data <- MCData
    Assess <- MCAssess
    Cap = 2
    PollSlots = {1, 2}
    MaxSessions = 2
    MaxChanges = 1
SPECIFICATION Spec
INVARIANTS
    TypeOK
    TimerOnlyForLiveSession
CHECK_DEADLOCK FALSE
