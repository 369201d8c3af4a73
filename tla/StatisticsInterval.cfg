SPECIFICATION LinesSpec
CONSTANTS
    Intervals = {0, 2}
    MaxCount = 1
    MaxServers = 1
    MaxUpdates = 0
    MaxAge = 4
PROPERTY LinesAnIntervalApart
CHECK_DEADLOCK FALSE
