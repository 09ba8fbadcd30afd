SPECIFICATION FairSpec
CONSTANTS
    Top = 3
    MaxDist = 2
    StaleTicks = 1
    SettleTicks = 1
    BrakeTicks = 1
    TumbleTicks = 1
    Sustain = 0
    Base = 1
    Heights = {3}
    Fence = 1
    Grace = 1
    LandSettle = 2
    LandForce = 5
INVARIANTS
    CutAloftOnlyBlind
PROPERTIES
    HomeHeld
    BrakeRunsDown
    CoastStaysInFence
    CriticalStaysDown
    HungComesDown
