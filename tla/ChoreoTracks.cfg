\* One show: a track for other hardware, and one for a low battery.
CONSTANTS
    Peers = {p1, p2}
    Scripts <- AllScripts
    TrackSets <- Tracking
    TrackHold = 1
    Goals = {"MOVE", "HOLD", "CONVERGE", "FORM"}
    Able = {"MOVE", "HOLD", "CONVERGE"}
    Mode = "LAND_IN_PLACE"
    Reasons = {"LOST", "DECLARED"}
    MinParticipants = 2
    QuorumMin = 1
    HoldTimeout = 3
    MaxMs = 3
SPECIFICATION Spec
PROPERTIES OnlyASubmissionStarts
CHECK_DEADLOCK FALSE
