SPECIFICATION GateSpec
CONSTANTS
    Metrics <- MCMetrics
    Polarity <- MCPolarity
    Source <- MCSource
    Probes <- MCProbes
    RunShapes <- MCRunShapes
    MaxGroup = 2
CHECK_DEADLOCK FALSE
INVARIANTS
    DirtNeverPasses
    MirrorImage
