CONSTANTS
    cA = cA
    N = N
    T1 = T1
    T2 = T2
    T3 = T3
    E = E
    R = R
    X = X
    D = D
    K = K
    F = F
    A1 = A1
    A2 = A2
    B1 = B1
    B2 = B2
    B3 = B3
    C2 = C2
    None = None
    Genesis = Genesis
    Txs = {cA, N, T1, T2, T3, E, R, X, D, K, F}
    Inputs <- MCInputs
    Size <- MCSize
    Fee <- MCFee
    MAX_POOL = 13
    Coins <- MCCoins
    Coinbases = {cA}
    Replaceable = {T1, T2}
    NonStandard = {N}
    LockHeight <- MCLockHeight
    MayExpire = {T2}
    Prioritised = {T2}
    Delta = 5
    Blocks = {A1, A2, B1, B2, B3, C2}
    Prev <- MCPrev
    vtx <- MCvtx
    InvalidBlocks = {B3}
    COINBASE_MATURITY = 2
    MAX_ANCESTORS = 3
    MAX_DESCENDANTS = 3
    MAX_DISCONNECTED = 4
    INCREMENTAL_FEE = 1
    Hash <- MCHash
    BLOCK_MAX = 8
    RESERVED = 2
    BLOCK_MIN_FEE = 2
    MAX_CONSECUTIVE_FAILURES = 1
    MaxStarts = 2
    Meanwhile = {R}
SPECIFICATION FileSpec
INVARIANTS TotalsFollowLinks PoolConsistent LimitsKept TemplateValid PoolReloaded
