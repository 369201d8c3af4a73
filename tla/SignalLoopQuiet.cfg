SPECIFICATION LoopSpec
CONSTANTS
    MaxQueue = 1
    MaxEdits = 0
PROPERTY ExitHonoured
CHECK_DEADLOCK FALSE
