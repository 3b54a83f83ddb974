SPECIFICATION Spec
CONSTANTS
    c1 = c1
    c2 = c2
    p1 = p1
    p2 = p2
    Procs <- MCProcs
    Ifaces = {1, 2}
    Ephemeral = {1}
    Args <- MCArgs
    CPUs <- MCCPUs
    MaxStats = 1
    MaxPackets = 2
    None = None
SYMMETRY NetSymmetry
CHECK_DEADLOCK FALSE
INVARIANTS
    CountersAgree
    WindowPacketsCounted
    FragmentCovers
