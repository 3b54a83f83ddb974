SPECIFICATION PathSpec
CONSTANTS
    SubSlots = 4
    MaxOctaves = 5
    Values <- MCValues
    MaxSamples = 3
    Captures <- MCCaptures
    Table <- MCTable
    Words <- MCWords
    MaxTrips = 2
    None = None
CHECK_DEADLOCK FALSE
INVARIANTS
    PercentileInBucket
    LayoutsAgree
    RoundTripKeeps
    NoTripMakesMoreBetter
