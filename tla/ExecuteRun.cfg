SPECIFICATION FairSpec
CONSTANTS
    MaxInstances = 3
    NumGadgets = 2
    MaxVms = 2
INVARIANTS
    EntryHasTap
    AttributedInWindow
    OkLeavesNothing
    TornDownOnceSteady
    CollectedIsOwn
CHECK_DEADLOCK FALSE
PROPERTIES
    RunReturns
