\* Relay: a line of five, the first sends, the third may restart.
CONSTANTS
    Elements = {1, 2, 3, 4, 5}
    Neighbours <- Line
    Origins = {1}
    Restarting = {3}
    Hops = 2
    Depth = 1
    MaxClock = 2
    MaxBoots = 1
    Hosts = {h1}
    MaxSeq = 3
    MaxReboots = 1
    MaxRestarts = 1
    MaxPoll = 2
    StaleTicks = 2
    AdoptTicks = 3
    Wrap = 4
    Joiners = {1, 2, 3}
    Nonce <- nonces0
    MaxIds = 7
    Window = 2
    MaxOffs = 1
SPECIFICATION Spec
INVARIANTS
    NoStorm SteersWhileFed EqualViewsDiffer
PROPERTIES
    HardKeepsItsSlot ReplaysAreInert IsolationResolves
CHECK_DEADLOCK FALSE
