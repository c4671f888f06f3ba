CONSTANTS
    G = G
    B1 = B1
    B2 = B2
    X2 = X2
    X3 = X3
    P1 = P1
    P2 = P2
    Peers = {P1, P2}
    Inbound = {}
    Whitelisted = {}
    Manual = {P1}
    Slow = {P2}
    Companies <- MCCompanies
    Blocks = {G, B1, B2, X2, X3}
    Genesis = G
    Parent <- MCParent
    Ancestors <- MCAncestors
    Height <- MCHeight
    Work <- MCWork
    BadBlocks = {X2}
    Recent = {B1, B2, X2, X3}
    Fresh = {B1, B2, X2, X3}
    None = None
    MinimumChainWork = 1
    MIN_BLOCKS_TO_KEEP = 2
    MAX_BLOCKS_IN_TRANSIT_PER_PEER = 1
    BLOCK_DOWNLOAD_WINDOW = 1
    MAX_CMPCT_AHEAD = 1
    MAX_PROTECTED = 1
SPECIFICATION FairSpec
INVARIANTS DownloadsExact CountersExact
PROPERTIES ChainCompletes
CHECK_DEADLOCK FALSE
