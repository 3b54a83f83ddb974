SPECIFICATION Spec
CONSTANTS
    c1 = c1
    c2 = c2
    e1 = e1
    e2 = e2
    e3 = e3
    Elements <- MCElements
    MaxReqs = 2
    Bytes <- MCBytes
    Writes = {1}
    Devs = {1}
    Sectors = {0, 8}
    CPUs <- MCCPUs
    MaxInflight = 1
    MaxStats = 1
    MaxRequeues = 2
    None = None
SYMMETRY BlockSymmetry
CHECK_DEADLOCK FALSE
INVARIANTS
    ExactWithoutCollision
    EntriesAreOutstanding
    FragmentCovers
