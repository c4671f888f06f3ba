CONSTANTS
    P1 = P1
    P2 = P2
    T1 = T1
    T2 = T2
    T3 = T3
    X = X
    o0 = o0
    o1 = o1
    o2 = o2
    o3 = o3
    None = None
    NoPeer = NoPeer
    Peers = {P1, P2}
    Txs = {T1, T2, T3, X}
    Inputs <- MCInputs
    Outputs <- MCOutputs
    Coins = {o0}
    Invalid = {X}
    Large = {}
    Malleable = {X}
    MaxPending = 1
    NewBlocks = {{T1, T2}}
    MAX_ORPHANS = 2
    Companies <- MCCompanies
SPECIFICATION FairSpec
INVARIANTS OrphansExact OrphansWait OrphansOwned
PROPERTIES KeepsNodeLife MarkedNodesGo
CHECK_DEADLOCK FALSE
