SPECIFICATION FairSpec
CONSTANTS
    Inputs <- AllInputs
    WindowSize = 6
    SkipThreshold = 2
    PublishStep = 6
    MaxInterfaces = 2
INVARIANTS ReadExact ProgressExact
PROPERTIES NeverBackwards ReadersStop
CHECK_DEADLOCK FALSE
