SPECIFICATION MCSpec
CONSTANTS
    ClockRange = 65536
    PeriodicLimit = 1
    Ips = {i1, i2, i3}
    i1 = i1
    i2 = i2
    i3 = i3
    V6Ips = {i3}
    Ports = {1, 2}
    Numbers = {n1, n2}
    n1 = n1
    valve = valve
    other = other
    Gamedirs = {valve, other}
    None = None
    Passwords = {right, wrong}
    right = right
    wrong = wrong
    Packets <- MCPackets
    InitConfig <- MCAdminConfig
    Configs <- MCConfigs
    CounterMax = 4
    TickSteps <- MCTickSteps
    MaxUptime = 6000
INVARIANTS NoBannedServer SilentToBanned OneFamily OneCommandPerChallenge AtMostTwoWindows
PROPERTIES WrongPasswordLocks GamedirIsTheClients
