SPECIFICATION FairSpec
CONSTANTS
    Ifindexes = {i1, i2, i3}
    MaxVms = 2
    MaxHandles = 3
    MaxCommands = 5
    MaxStarts = 2
INVARIANTS
    TypeOK
    ReplyMatches
    ProvenanceSound
    HandleUnique
    NoStaleEntries
    OccupancyReported
CHECK_DEADLOCK FALSE
PROPERTIES
    CommandReturns
    ImplementsRegistry
