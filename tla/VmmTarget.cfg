SPECIFICATION Spec
CONSTANT MaxRuns = 3
CHECK_DEADLOCK FALSE
INVARIANTS
    NothingLeftUnsignalled
    WindowOpensSteady
    AttributesOwnTap
    SocketHandedOver
