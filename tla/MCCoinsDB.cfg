CONSTANTS
    G = G
    P1 = P1
    A2 = A2
    B2 = B2
    B3 = B3
    p = p
    t = t
    u = u
    x = x
    Blocks <- MCBlocks
    Genesis = G
    Parent <- MCParent
    Height <- MCHeight
    Txs <- MCTxs
    OutPoints <- MCOutPoints
    Spent = Spent
    Null = Null
SPECIFICATION Spec
INVARIANTS CoinsOfTip BestBlockTrue OldOrNewCoin StartSucceeds
