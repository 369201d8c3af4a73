SPECIFICATION TrafficSpec
CONSTANTS
    MaxQueue = 2
    MaxEdits = 2
INVARIANTS ReloadNotLost ExitStopsHandling
PROPERTIES ExitHonoured ReloadHonoured
CHECK_DEADLOCK FALSE
