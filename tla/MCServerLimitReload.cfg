SPECIFICATION RegSpec
CONSTANTS
    ClockRange = 65536
    PeriodicLimit = 5
    Ips = {i1, i2}
    i1 = i1
    i2 = i2
    V6Ips = {}
    Ports = {1, 2}
    Numbers = {n1, n2}
    dir = dir
    Gamedirs = {dir}
    None = None
    Passwords = {}
    Packets <- MCPacketsOneIp
    InitConfig <- MCConfig
    Configs <- MCSlower
    CounterMax = 3
    TickSteps <- MCSecond
    MaxUptime = 3000
SYMMETRY MCSymmetry
INVARIANT MaxServersPerIp
