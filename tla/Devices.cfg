\* Barrier: three robots and a post.  Finder: two robots, one leg.
\* Serial: frames of two bytes, one damaged.  Handshake: a boot of six ticks, two losses.
CONSTANTS
    Bots = {1, 2, 3}
    Posts = 1
    Stale = 2
    Expire = 4
    Settle = 2
    MaxOuts = 1
    Robots = {1, 2}
    Legs = 1
    Confirm = 1
    SyncTicks = 3
    MaxRestarts = 1
    Turn = 2
    Rate = 3
    Slack = 1
    Rebase = 3
    Nonsense <- NonsenseReads
    MaxTicks = 8
    MaxSpan = 6
    Field = {0, 1, 2}
    Ghosts = {9, 16}
    Floor = 3
    Speed = 1
    RejectN = 3
    MaxQuiet = 8
    Payloads <- PeerPayloads
    Odd <- PreambleLike
    OwnPayload <- OwnFrame
    Wire = 2
    Mtu = 4
    MaxByte = 8
    Depth = 1
    EchoDepth = 2
    MaxFaults = 1
    Tries = 4
    KickEvery = 3
    MaxBoot = 6
    MaxLost = 2
SPECIFICATION Spec
INVARIANTS FinderStands MotionMadeUp FramesGetThrough
PROPERTIES StartsTogether BarrierOpens FindIsShared FlipFlopSeedsNothing LinkComesUp
CHECK_DEADLOCK FALSE
