SPECIFICATION Spec
CONSTANTS
    Metrics <- MCMetrics
    Polarity <- MCPolarity
    Source <- MCSource
    Probes <- MCProbes
    Producers <- MCProducers
    Cpus = {cpu0, cpu1}
    cpu0 = cpu0
    cpu1 = cpu1
    FirstCpu = cpu0
    NoFragment = NoFragment
    Options <- MCOptions
    Fragments <- EntryFragments
    MaxDrifts = 1
CHECK_DEADLOCK FALSE
INVARIANT OverflowContaminates
