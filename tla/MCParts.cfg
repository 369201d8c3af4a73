SPECIFICATION MCSpec
CONSTANTS
    Addresses <- MCAddresses
    Mail <- MCMail
    HashLen = 2
    AddressWidth = 6
    Payloads <- MCPayloads
    FrameRoom = 30
    Letters = {"a"}
    ColorDigits = {"1", "2"}
    MaxText = 6
    Asks <- MCAsks
    GameServers <- MCGameServers
    MinVersion <- MCMinVersion
    MinBuildnum = 4000
    MinOldBuildnum = 0
    UpdateAddr <- MCUpdateAddr
    Mtu = 31
    QueryKey <- MCQueryKey
    StrayLists <- MCStrayLists
    CommandLines <- MCCommandLines
    Files <- MCFiles
    DefaultFile <- MCDefaultFile
    Broken = Broken
    Tools = {t1, t2}
    t1 = t1
    t2 = t2
    Characters = {"a"}
    RightPassword <- MCRightPassword
    MaxTyped = 2
    MaxPairs = 3
INVARIANTS RoundTrip CutLosesTheEndOnly FramesKeptApart ColorsRight ReadAsMeant ShownWasAsked ShownWhenDelivered SplitKeepsTheList OneConfiguration PasswordDecides
CHECK_DEADLOCK FALSE
