SPECIFICATION MCSpec
CONSTANTS
    m1 = m1
    m2 = m2
    s1 = s1
    s2 = s2
    good = good
    unusable = unusable
    info1 = info1
    info2 = info2
    None = None
    Masters = {m1, m2}
    Servers = {s1, s2}
    MasterInterval = 3
    ServerInterval = 1
    ServerTimeout = 3
    ServerCleanInterval = 3
    Challenges = {good, unusable}
    MaxChallenge = unusable
    Infos = {info1, info2}
    MaxFailures = 1
    MaxNow = 8
    MaxKeys = 3
    Speaks <- MCSpeaks
    Lists <- MCLists
    Stray <- MCStray
    Timeouts <- MCTimeouts
    Commands <- MCCommands
    MasterTimeout = 1
    GameTimeout = 2
INVARIANTS EverybodyAsked SilentServersForgotten NeverPanics EarlyEndComplete WaitsInTime ShownIsCurrent
PROPERTIES KeepsPromise BlameIsDeserved GoodResultKept
CHECK_DEADLOCK FALSE
