\* One peer that may reboot once.
CONSTANTS
    Peers = {p1}
    StaleAge = 3
    ExpireAge = 4
    MaxDelay = 1
    BiasNum = 1
    BiasDen = 1
    MaxClock = 8
    MaxLives = 2
    MaxInFlight = 2
SPECIFICATION Spec
PROPERTIES NewerFrameTaken
CHECK_DEADLOCK FALSE
