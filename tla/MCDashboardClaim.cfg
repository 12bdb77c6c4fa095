\* Three clicks on any claimable investment of the four, every fetch outcome.
CONSTANTS
    i1 = i1
    i2 = i2
    i3 = i3
    i4 = i4
    c1 = c1
    c2 = c2
    c3 = c3
    Ids <- MCIds
    Initial <- MCInitial
    Clicks <- MCClicks
    FetchResults <- AllResults
SPECIFICATION Spec
SYMMETRY ClickSymmetry
CHECK_DEADLOCK FALSE
INVARIANT
    TypeOK
    
