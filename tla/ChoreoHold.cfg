\* One script with the hold policy on its first step.
CONSTANTS
    Peers = {p1, p2}
    Scripts <- Bounded
    TrackSets <- NoTracks
    TrackHold = 1
    Goals = {"MOVE", "HOLD", "CONVERGE", "FORM"}
    Able = {"MOVE", "HOLD", "CONVERGE"}
    Mode = "LAND_IN_PLACE"
    Reasons = {"LOST", "DECLARED"}
    MinParticipants = 2
    QuorumMin = 1
    HoldTimeout = 3
    MaxMs = 2
SPECIFICATION MissionSpec
PROPERTIES HoldEnds
CHECK_DEADLOCK FALSE
