SPECIFICATION Spec
CONSTANTS
    ClockRange = 4096
    PeriodicLimit = 3
    Key = {k1, k2}
    Value = {v1, v2}
    Timeouts = {0, 1, 2}
    TickSteps <- MCTickSteps
    MaxUptime = 3012
INVARIANT GarbageBounded
PROPERTY PromiseKept
