SPECIFICATION RegSpec
CONSTANTS
    ClockRange = 65536
    PeriodicLimit = 2
    Ips = {i1, i2}
    i1 = i1
    i2 = i2
    V6Ips = {}
    Ports = {1, 2}
    Numbers = {n1, n2}
    dir = dir
    Gamedirs = {dir}
    None = None
    Passwords = {}
    Packets <- MCPackets
    InitConfig <- MCConfig
    Configs <- MCConfigs
    CounterMax = 3
    TickSteps <- MCTickSteps
    MaxUptime = 3000
SYMMETRY MCSymmetry
INVARIANTS OneRegistrationPerChallenge ListedServersAreFresh
    RegisteredServersStayListed MaxServersPerIp
