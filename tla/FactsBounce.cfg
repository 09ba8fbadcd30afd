\* One place; the elements' loops run in step.
CONSTANTS
    Peers = {p1}
    StaleAge = 3
    ExpireAge = 4
    MaxDelay = 1
    BiasNum = 1
    BiasDen = 1
    MaxClock = 8
    MaxLives = 2
    MaxInFlight = 2
    Elements = {1, 2}
    Places = {1}
    Radius = 1
    Kinds <- PlainTarget
    MergedTypes = {"TARGET"}
    Capacity = 2
    PerOrigin = 2
    SeqMod = 4
    TombstoneTtl = 2
    SyncTimeout = 1
    MaxStamp = 2
    MaxEpoch = 1
    Rebooters = {}
SPECIFICATION BounceSpec
PROPERTIES TombstonesGo
CHECK_DEADLOCK FALSE
