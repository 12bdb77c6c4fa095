\* Three clicks, fetch never rejects: a second click before the first claim applies.
CONSTANTS
    i1 = i1
    i2 = i2
    i3 = i3
    i4 = i4
    c1 = c1
    c2 = c2
    c3 = c3
    Ids <- MCIds
    Initial <- MCInitial
    Clicks <- MCClicks
    FetchResults <- NoNetworkErrors
SPECIFICATION Spec
SYMMETRY ClickSymmetry
CHECK_DEADLOCK FALSE
INVARIANT
    TotalMatchesInvestments
