\* The runtime: two peers around the element, the application may put it to
\* sleep.  The engine: element 2 with peers 1 and 3; a swarm of three on a line
\* of five places; two elements ten apart.
CONSTANTS
    Peers = {1, 3}
    Self = 2
    NoLeader = 255
    StaleAge = 2
    ExpireAge = 3
    QuorumMin = 1
    QuorumTarget = 2
    HoldTicks = 2
    Whitelist = {}
    Capabilities = {"SENSOR"}
    GossipTicks = 3
    GraceTicks = 2
    Me = 2
    Others = {1, 3}
    Untrusted = {}
    Energy <- Charge
    Marks = {1, 2}
    MarkAt <- MarksAt
    Scenes <- AllScenes
    AnchorHold = 2
    AchieveHold = 2
    ArcTicks = 2
    Eps = 0
    Spacing = 2
    Layout <- Shapes
    Arena <- Fence
    Occupied = 4
    Standoff = 5
    Pair = {1, 2}
    Stations <- Ends
    Shift = 1
    Team = {1, 2, 3}
    Places = {0, 1, 2, 3, 4}
    Origin = 1
SPECIFICATION EngineSpec
INVARIANTS
    ElectionConsistent AssignmentIsBest StationWasVisited
PROPERTIES
    ImplementsSignal Recovers OneAnnouncementPerLoss
    ShapeFormed SwapCompletes AnchorHoldsStill
CHECK_DEADLOCK FALSE
