SPECIFICATION Spec
CONSTANTS
    ClockRange = 16
    PeriodicLimit = 2
    Key = {k1}
    Value = {v1}
    Timeouts = {1}
    TickSteps = {125}
    MaxUptime = 2000
INVARIANT NoOverflowWithinDocumentedUptime
