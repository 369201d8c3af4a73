SPECIFICATION Spec
CONSTANTS
    Intervals = {0, 2}
    MaxCount = 1
    MaxServers = 1
    MaxUpdates = 2
INVARIANT RequestsPrintedOnce
PROPERTIES QuietWhenOff NoStaleRequests Reported
CHECK_DEADLOCK FALSE
