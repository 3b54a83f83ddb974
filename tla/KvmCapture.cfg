SPECIFICATION Spec
CONSTANTS
    t1 = t1
    t2 = t2
    g1 = g1
    g2 = g2
    r1 = r1
    Tids <- MCTids
    Guests <- MCGuests
    Reasons <- MCReasons
    PerGuest = TRUE
    MaxKeys = 1
    MaxStarts = 2
    MaxHists = 1
    MaxExits = 4
    MaxThreads = 3
SYMMETRY KvmSymmetry
CHECK_DEADLOCK FALSE
INVARIANTS
    SamplesConserved
    DropsAreFlagged
