------------------------------ MODULE PoolReorg ------------------------------
(***************************************************************************)
(* The memory pool and the active chain (validation.cpp): what             *)
(* AcceptToMemoryPool adds and replaces, and how the pool follows the      *)
(* chain when blocks are connected and disconnected.                       *)
(*                                                                         *)
(* cs_main is held throughout ActivateBestChainStep and InvalidateBlock,   *)
(* so that nothing is accepted meanwhile; the pool's own lock is not, and  *)
(* a step is what is done to the pool in one go.  Errors of the system,    *)
(* after which the node stops, are left out.                               *)
(***************************************************************************)
EXTENDS TxPool

CONSTANTS
    Coins,              \* outpoints of coins that are in every chain
    Coinbases,          \* the members of Txs that are the first of a block
    Replaceable,        \* transactions that may be replaced (BIP 125)
    NonStandard,        \* transactions that are only taken in blocks
    LockHeight,         \* nLockTime, a height
    MayExpire,          \* transactions whose entries may get older than -mempoolexpiry
    Prioritised, Delta, \* the transactions a user may prioritise, and how
    Blocks, Genesis, Prev, vtx, \* the blocks that may come, and their transactions
    InvalidBlocks,      \* blocks that ConnectBlock finds invalid
    COINBASE_MATURITY,
    MAX_POOL,           \* -maxmempool, in the units of cachedInnerUsage
    MAX_ANCESTORS, MAX_DESCENDANTS,     \* -limitancestorcount, -limitdescendantcount
    MAX_DISCONNECTED,   \* MAX_DISCONNECTED_TX_POOL_SIZE, in transactions
    INCREMENTAL_FEE     \* incrementalRelayFee, for a unit of size

VARIABLES
    pool,
    tip,
    failed,             \* blocks known to be invalid
    doing,              \* what ActivateBestChainStep or InvalidateBlock is at
    goal, oldTip,       \* where it goes and where it came from
    disconnectpool,     \* queuedTx in the order of insertion
    vHashUpdate,
    reorganized         \* whether a block was ever disconnected

chainVars == <<tip, failed, doing, goal, oldTip, disconnectpool, vHashUpdate, reorganized>>
vars == <<pool, chainVars>>

RECURSIVE Chain(_)
Chain(b) == IF b = Genesis THEN <<>> ELSE Append(Chain(Prev[b]), b)

Height(b) == Len(Chain(b))
InChain(b, c) == b \in ToSet(Chain(c)) \cup {Genesis}

Confirmed(b) == UNION {ToSet(vtx[c]) : c \in ToSet(Chain(b))}

\* pcoinsTip has the coin.
HaveCoin(o) ==
    /\ o \in Coins \/ o[1] \in Confirmed(tip)
    /\ \A t \in Confirmed(tip) : o \notin Inputs[t]

Mature(o) ==
    o[1] \in Coinbases =>
        \E b \in ToSet(Chain(tip)) :
            o[1] \in ToSet(vtx[b]) /\ Height(tip) + 1 - Height(b) >= COINBASE_MATURITY

\* CCoinsViewMemPool has the coin, and it may be spent in the next block.
Available(p, o) == o[1] \in p.mapTx \/ (HaveCoin(o) /\ Mature(o))

IsFinal(t) == LockHeight[t] < Height(tip) + 1

Init ==
    /\ pool = EmptyPool /\ tip = Genesis /\ failed = {}
    /\ doing = "idle" /\ goal = Genesis /\ oldTip = Genesis
    /\ disconnectpool = <<>> /\ vHashUpdate = <<>> /\ reorganized = FALSE

-----------------------------------------------------------------------------
(* AcceptToMemoryPool.                                                     *)

Conflicts(p, t) == {p.mapNextTx[o] : o \in Inputs[t]} \ {None}

\* Slip: the ancestors may get too many descendants.
WithinAncestorLimit(p, t) == Cardinality(SearchAncestors(p, t)) + 1 <= MAX_ANCESTORS

\* The limits of CalculateMemPoolAncestors.
WithinLimits(p, t) ==
    LET ancestors == SearchAncestors(p, t)
    IN  /\ Cardinality(ancestors) + 1 <= MAX_ANCESTORS
        /\ \A a \in ancestors : p.withDescendants[a].count + 1 <= MAX_DESCENDANTS

\* A replacement pays for what it replaces and for itself, and depends on no
\* transaction of the pool that they did not depend on.
MayReplace(p, t, conflicts) ==
    LET fees == Fee[t] + p.mapDeltas[t]
        replaced == Sum(p, CalculateDescendants(p, conflicts))
    IN  /\ conflicts \subseteq Replaceable
        /\ SearchAncestors(p, t) \cap conflicts = {}
        /\ \A c \in conflicts : GetModifiedFee(p, c) * Size[t] < fees * Size[c]
        /\ ParentHashes(t) \cap p.mapTx \subseteq UNION {ParentHashes(c) : c \in conflicts}
        /\ fees - replaced.fees >= INCREMENTAL_FEE * Size[t]

Acceptable(p, t) ==
    /\ t \notin Coinbases \cup NonStandard \cup p.mapTx /\ IsFinal(t)
    /\ \A o \in Inputs[t] : Available(p, o)
    /\ WithinLimits(p, t)
    /\ Conflicts(p, t) # {} => MayReplace(p, t, Conflicts(p, t))

\* The ancestors are those from before the conflicting transactions went.
Accepted(p, t) ==
    addUnchecked(RemoveStaged(p, CalculateDescendants(p, Conflicts(p, t)), FALSE),
                 t, SearchAncestors(p, t))

RECURSIVE TrimToSize(_)
TrimToSize(p) ==
    IF p.cachedInnerUsage <= MAX_POOL THEN pool' = p
    ELSE \E t \in Worst(p) : TrimToSize(RemoveStaged(p, CalculateDescendants(p, {t}), FALSE))

\* Any of the entries may be too old by now.
LimitMempoolSize(p) ==
    \E old \in SUBSET (MayExpire \cap p.mapTx) : TrimToSize(Expire(p, old))

AcceptToMemoryPool(t) ==
    /\ doing = "idle" /\ Acceptable(pool, t)
    /\ LimitMempoolSize(Accepted(pool, t))
    /\ UNCHANGED chainVars

\* prioritisetransaction, there and back.
Prioritise(t) ==
    /\ doing = "idle"
    /\ pool' = PrioritiseTransaction(pool, t, IF pool.mapDeltas[t] = 0 THEN Delta ELSE -Delta)
    /\ UNCHANGED chainVars

-----------------------------------------------------------------------------
(* ActivateBestChainStep and InvalidateBlock.                              *)

Reorganize(b) ==
    /\ doing = "idle" /\ doing' = "disconnect"
    /\ goal' = b /\ oldTip' = tip
    /\ UNCHANGED <<pool, tip, disconnectpool, vHashUpdate, reorganized>>

ActivateBestChainStep(b) ==
    /\ Height(b) > Height(tip) /\ \A f \in failed : ~InChain(f, b)
    /\ Reorganize(b) /\ UNCHANGED failed

InvalidateBlock(b) ==
    /\ b \in ToSet(Chain(tip))
    /\ Reorganize(Prev[b]) /\ failed' = failed \cup {b}

\* The earliest entries are dropped when there are too many, with all that spends them.
DisconnectTip ==
    /\ doing = "disconnect" /\ ~InChain(tip, goal)
    /\ LET queued == disconnectpool \o Reverse(vtx[tip])
           excess == IF Len(queued) > MAX_DISCONNECTED THEN Len(queued) - MAX_DISCONNECTED ELSE 0
       IN  /\ pool' = FoldLeft(removeRecursive, pool, SubSeq(queued, 1, excess))
           /\ disconnectpool' = SubSeq(queued, excess + 1, Len(queued))
    /\ tip' = Prev[tip] /\ reorganized' = TRUE
    /\ UNCHANGED <<failed, doing, goal, oldTip, vHashUpdate>>

\* UpdateMempoolForReorg is for when blocks were disconnected.
Proceed(b) == doing' = IF InChain(oldTip, b) THEN "idle" ELSE "update"

NextBlock == Chain(goal)[Height(tip) + 1]

\* Until the chain is better than it was.
ConnectTip ==
    /\ doing = "disconnect" /\ InChain(tip, goal) /\ tip # goal /\ NextBlock \notin InvalidBlocks
    /\ pool' = removeForBlock(pool, vtx[NextBlock])
    /\ disconnectpool' = SelectSeq(disconnectpool, LAMBDA t : t \notin ToSet(vtx[NextBlock]))
    /\ tip' = NextBlock
    /\ IF tip' = goal \/ Height(tip') > Height(oldTip) THEN Proceed(tip') ELSE UNCHANGED doing
    /\ UNCHANGED <<failed, goal, oldTip, vHashUpdate, reorganized>>

\* fInvalidFound.
ConnectFails ==
    /\ doing = "disconnect" /\ InChain(tip, goal) /\ tip # goal /\ NextBlock \in InvalidBlocks
    /\ failed' = failed \cup {NextBlock} /\ Proceed(tip)
    /\ UNCHANGED <<pool, tip, goal, oldTip, disconnectpool, vHashUpdate, reorganized>>

\* InvalidateBlock connects no block.
ConnectNone ==
    /\ doing = "disconnect" /\ tip = goal /\ Proceed(tip)
    /\ UNCHANGED <<pool, tip, failed, goal, oldTip, disconnectpool, vHashUpdate, reorganized>>

\* UpdateMempoolForReorg, for one transaction: those of the earliest block come first.
Resurrect ==
    /\ doing = "update" /\ disconnectpool # <<>>
    /\ LET t == Last(disconnectpool)
       IN  IF Acceptable(pool, t)
           THEN pool' = Accepted(pool, t) /\ vHashUpdate' = Append(vHashUpdate, t)
           ELSE pool' = removeRecursive(pool, t) /\ UNCHANGED vHashUpdate
    /\ disconnectpool' = Front(disconnectpool)
    /\ UNCHANGED <<tip, failed, doing, goal, oldTip, reorganized>>

\* Slip: immature spends are not looked for.
removeNonFinal(p) ==
    RemoveStaged(p, CalculateDescendants(p, {t \in p.mapTx : ~IsFinal(t)}), FALSE)

removeForReorg(p) ==
    LET spendsCoinbase(t) == ParentHashes(t) \cap Coinbases # {}
        txToRemove == {t \in p.mapTx :
            ~IsFinal(t) \/ (spendsCoinbase(t) /\ \E o \in Inputs[t] : ~Available(p, o))}
    IN  RemoveStaged(p, CalculateDescendants(p, txToRemove), FALSE)

\* The rest of UpdateMempoolForReorg.
UpdateMempool ==
    /\ doing = "update" /\ disconnectpool = <<>> /\ doing' = "idle"
    /\ LimitMempoolSize(removeForReorg(UpdateTransactionsFromBlock(pool, vHashUpdate)))
    /\ vHashUpdate' = <<>>
    /\ UNCHANGED <<tip, failed, goal, oldTip, disconnectpool, reorganized>>

Next ==
    \/ \E t \in Txs : AcceptToMemoryPool(t)
    \/ \E t \in Prioritised : Prioritise(t)
    \/ \E b \in Blocks : ActivateBestChainStep(b) \/ InvalidateBlock(b)
    \/ DisconnectTip \/ ConnectTip \/ ConnectFails \/ ConnectNone \/ Resurrect \/ UpdateMempool

Spec == Init /\ [][Next]_vars

-----------------------------------------------------------------------------
(* Properties.                                                             *)

\* At every moment, in the middle of a reorganization too, the totals of an entry
\* are those of the transactions its links lead to, so that whatever is removed
\* next is taken off exactly the totals that it was added to ("the set of
\* ancestors reachable via mapLinks will be the same as the set of ancestors
\* whose packages include this transaction"); the links are mutual, mapNextTx is
\* what the entries spend, and cachedInnerUsage what they use.
TotalsFollowLinks ==
    /\ \A t \in pool.mapTx :
          /\ pool.withAncestors[t] = Sum(pool, Reach(pool.parents, {t}))
          /\ pool.withDescendants[t] = Sum(pool, Reach(pool.children, {t}))
          /\ pool.feeDelta[t] = pool.mapDeltas[t]
    /\ \A t, u \in Txs : t \in pool.parents[u] <=> u \in pool.children[t]
    /\ \A o \in Outpoints : {t \in pool.mapTx : o \in Inputs[t]} = {pool.mapNextTx[o]} \ {None}
    /\ pool.cachedInnerUsage =
          MapThenSumSet(LAMBDA t : Size[t] + Cardinality(pool.parents[t]) + Cardinality(pool.children[t]),
                        pool.mapTx)

\* Between the steps, as mempool.check asserts: every entry is linked to all its
\* parents in the pool, what else it spends is a coin of the active chain, and
\* the next block could hold it; the pool is within its limit, and nothing is
\* left of the disconnected blocks.
PoolConsistent ==
    doing = "idle" =>
        /\ \A t \in pool.mapTx :
              /\ pool.parents[t] = ParentHashes(t) \cap pool.mapTx
              /\ \A o \in Inputs[t] : Available(pool, o)
              /\ IsFinal(t)
        /\ pool.cachedInnerUsage <= MAX_POOL
        /\ disconnectpool = <<>>

\* Until blocks are disconnected, no entry has more ancestors or descendants than
\* the limits allow, whatever was replaced or confirmed since they were checked.
LimitsKept ==
    ~reorganized =>
        \A t \in pool.mapTx :
            /\ Cardinality(Reach(pool.parents, {t})) <= MAX_ANCESTORS
            /\ Cardinality(Reach(pool.children, {t})) <= MAX_DESCENDANTS

=============================================================================
