CONSTANTS
    G = G
    A1 = A1
    A2 = A2
    A3 = A3
    B1 = B1
    B2 = B2
    B3 = B3
    D2 = D2
    t1 = t1
    t2 = t2
    Blocks = {G, A1, A2, B1, B2, B3}
    Genesis = G
    Parent <- MCParent
    Ancestors <- MCAncestors
    Height <- MCHeight
    Work <- MCWork
    BadBody = {}
    BadConnect = {}
    Addresses <- MCAddresses
    Threads = {t1, t2}
    None = None
    MIN_BLOCKS_TO_KEEP = 2
    MinimumChainWork = 1
    MinSequenceId <- MCMinSequenceId
    MaxSequenceId = 7
    Usages <- RaceUsages
SPECIFICATION Spec
INVARIANTS BestChainActive
