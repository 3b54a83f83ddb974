SPECIFICATION Spec
CONSTANTS
    c1 = c1
    c2 = c2
    a1 = a1
    a2 = a2
    b1 = b1
    gu = gu
    ga = ga
    gb = gb
    Idle = Idle
    Cpus <- MCCpus
    Tasks <- MCTasks
    Cgroups <- MCCgroups
    CgroupOf <- MCCgroupOf
    Allowed <- MCWatched
    MaxKeys = 1
    MaxTime = 5
CHECK_DEADLOCK FALSE
SYMMETRY SchedSymmetry
INVARIANTS
    OnCpuNeverOverstated
    LossBoundedByCpus
    WakeupDatesOneWait
    FragmentCoversWindow
