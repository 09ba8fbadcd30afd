\* Peers: one that may reboot once, frames delayed by up to one cycle.
\* Facts: two replicas of two slots, one of which may reboot; two priorities.
CONSTANTS
    Peers = {p1}
    StaleAge = 3
    ExpireAge = 4
    MaxDelay = 1
    BiasNum = 1
    BiasDen = 1
    MaxClock = 8
    MaxLives = 2
    MaxInFlight = 2
    Elements = {1, 2}
    Places = {1, 2, 3}
    Radius = 1
    Kinds <- TwoKinds
    MergedTypes = {"TARGET"}
    Capacity = 2
    PerOrigin = 2
    SeqMod = 4
    TombstoneTtl = 1
    SyncTimeout = 1
    MaxStamp = 2
    MaxEpoch = 2
    Rebooters = {1}
SPECIFICATION CsmSpec
INVARIANTS
    PastLifeFades BlindnessBounded NoNearbyDuplicates SameKeySameFact
PROPERTIES
    ImplementsTable RetractionStands EventuallyAgreed
CHECK_DEADLOCK FALSE
