\* Two peers, three scripts of which two are refused, two shows of which one is
\* refused while the battery is full, one goal out of reach.
CONSTANTS
    Peers = {p1, p2}
    Scripts <- AllScripts
    TrackSets <- AllShows
    TrackHold = 1
    Goals = {"MOVE", "HOLD", "CONVERGE", "FORM"}
    Able = {"MOVE", "HOLD", "CONVERGE"}
    Mode = "LAND_IN_PLACE"
    Reasons = {"LOST", "DECLARED"}
    MinParticipants = 2
    QuorumMin = 1
    HoldTimeout = 2
    MaxMs = 3
SPECIFICATION FairSpec
INVARIANTS StacksAgree TrackRunsItsOwn
PROPERTIES DepartureIsFinal IsolationEnds
CHECK_DEADLOCK FALSE
