CONSTANTS
    Servers = {s1}
    Workers = {w1}
    Clients <- MCClients
    Callbacks <- MCCallbacks
    NoCallback = NoCallback
    Items = {i1, i2}
    NoItem = NoItem
    maxDepth = 1
    Net = Net
    Main = Main
    NetCallbacks = {c1}
    SyncItems = {i1}
    Best1 = Best1
    Best2 = Best2
    Stops = {}
SPECIFICATION FairSpec
PROPERTY ShutdownCompletes
CHECK_DEADLOCK FALSE
