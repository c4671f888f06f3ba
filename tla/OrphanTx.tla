------------------------------- MODULE OrphanTx -------------------------------
(***************************************************************************)
(* Transactions that wait for their parents (net_processing.cpp):          *)
(* mapOrphanTransactions, its index by outpoint, the filter of recently    *)
(* rejected transactions and the handler of TX, which runs under cs_main.  *)
(*                                                                         *)
(* Of the memory pool there is the set of its transactions, and what       *)
(* AcceptToMemoryPool says; of the chain, the transactions in its blocks,  *)
(* which are connected and disconnected.  Replacement, fees and the limit  *)
(* of the pool are left out, and a peer that misbehaves is disconnected    *)
(* when any other may be.                                                  *)
(***************************************************************************)
EXTENDS Integers, FiniteSets, SequencesExt

CONSTANTS
    NoPeer,
    Txs,
    Inputs,             \* the set of outpoints a transaction spends
    Outputs,            \* the sequence of outpoints it creates
    Coins,              \* outpoints of coins that are in the chain
    Invalid,            \* transactions with an invalid script
    Large,              \* transactions too large to be kept as orphans
    Malleable,          \* transactions with a witness, or without the one they need
    NewBlocks,          \* the sets of transactions that may arrive in a block
    MaxPending,         \* bound: blocks whose callbacks have not run (10 in ActivateBestChain)
    MAX_ORPHANS         \* -maxorphantx

Spent(S) == UNION {Inputs[t] : t \in S}
Created(S) == UNION {ToSet(Outputs[t]) : t \in S}

Outpoints == Coins \cup Spent(Txs) \cup Created(Txs)

ASSUME TxsAssumption ==
    /\ DOMAIN Inputs = Txs /\ DOMAIN Outputs = Txs
    /\ Invalid \cup Large \cup Malleable \subseteq Txs
    /\ MAX_ORPHANS \in Nat /\ MaxPending \in Nat
    /\ NewBlocks \subseteq SUBSET (Txs \ Invalid)

VARIABLES
    fromPeer,           \* of the transactions in mapOrphanTransactions, or NoPeer
    mapOrphanTransactionsByPrev,
    recentRejects, hashRecentRejectsChainTip,
    mempool,
    chainActive,        \* the sequence of the blocks
    pendingConnected,   \* blocks that BlockConnected is still to be called for
    overlooked          \* history: orphans that nobody tried when all they spend was there

orphanVars == <<fromPeer, mapOrphanTransactionsByPrev, recentRejects, hashRecentRejectsChainTip,
                mempool, chainActive, pendingConnected, overlooked>>

InBlocks(chain) == UNION ToSet(chain)
confirmed == InBlocks(chainActive)

OrphanInit ==
    /\ fromPeer = [t \in Txs |-> NoPeer]
    /\ mapOrphanTransactionsByPrev = [o \in Outpoints |-> {}]
    /\ recentRejects = {} /\ hashRecentRejectsChainTip = <<>>
    /\ mempool = {} /\ chainActive = <<>> /\ pendingConnected = <<>> /\ overlooked = {}

-----------------------------------------------------------------------------
(* mapOrphanTransactions and its index.                                    *)

Map == [from |-> fromPeer, byPrev |-> mapOrphanTransactionsByPrev]

MapBecomes(m) == fromPeer' = m.from /\ mapOrphanTransactionsByPrev' = m.byPrev

Stored(m) == {t \in Txs : m.from[t] # NoPeer}

AddOrphanTx(m, t, p) ==
    IF t \in Stored(m) \cup Large THEN m
    ELSE [from |-> [m.from EXCEPT ![t] = p],
          byPrev |-> [o \in Outpoints |-> IF o \in Inputs[t] THEN m.byPrev[o] \cup {t} ELSE m.byPrev[o]]]

\* Slip: an erased orphan stays in the index under the inputs after the first.
EraseFirstInput(m, S) ==
    [from |-> [t \in Txs |-> IF t \in S THEN NoPeer ELSE m.from[t]],
     byPrev |-> [o \in Outpoints |->
        m.byPrev[o] \ {t \in S \cap Stored(m) : o = CHOOSE i \in Inputs[t] : TRUE}]]

\* EraseOrphanTx of each transaction of S.
EraseOrphanTxs(m, S) ==
    [from |-> [t \in Txs |-> IF t \in S THEN NoPeer ELSE m.from[t]],
     byPrev |-> [o \in Outpoints |-> m.byPrev[o] \ {t \in S \cap Stored(m) : o \in Inputs[t]}]]

\* Slip: the orphans of the peer stay.
ForgetNobody(p) == UNCHANGED <<fromPeer, mapOrphanTransactionsByPrev, overlooked>>

EraseOrphansFor(p) ==
    /\ MapBecomes(EraseOrphanTxs(Map, {t \in Txs : fromPeer[t] = p}))
    /\ overlooked' = overlooked \cap Stored(Map')

\* Those that have expired when the sweep is due, and random ones down to the
\* limit: the possible results.
LimitOrphanTxSize(m) ==
    LET swept == {EraseOrphanTxs(m, expired) : expired \in SUBSET Stored(m)}
        over(s) == Cardinality(Stored(s)) - MAX_ORPHANS
    IN  UNION {IF over(s) <= 0 THEN {s}
               ELSE {EraseOrphanTxs(s, E) : E \in kSubset(over(s), Stored(s))} : s \in swept}

-----------------------------------------------------------------------------
(* AcceptToMemoryPool.                                                     *)

\* The coins of a chain with the transactions of C and a pool with those of P.
Unspent(C, P) == (Coins \cup Created(C \cup P)) \ Spent(C)

\* A transaction of a block is known by an output that is in the coins cache.
MayBeKnown(t) == t \in confirmed /\ ~(ToSet(Outputs[t]) \subseteq Spent(confirmed))

\* What it may say of t.
AcceptToMemoryPool(pool, t) ==
    IF t \in pool \/ Inputs[t] \cap Spent(pool) # {} THEN {"refused"}
    ELSE IF ~(Inputs[t] \subseteq Unspent(confirmed, pool))
    THEN {"missing"} \cup IF MayBeKnown(t) THEN {"refused"} ELSE {}
    ELSE IF t \in Invalid THEN {"invalid"} ELSE {"accepted"}

-----------------------------------------------------------------------------
(* The handler of TX.                                                      *)

\* Slip: the outputs of an orphan that is accepted are not looked up in turn.
VisitOnce(d, x) ==
    {IF r = "missing" THEN d
     ELSE [d EXCEPT !.erase = @ \cup {x}, !.pool = IF r = "accepted" THEN @ \cup {x} ELSE @] :
     r \in AcceptToMemoryPool(d.pool, x)}

\* Another transaction with the same hash may be valid if it is a matter of the witness.
Rejected(rejects, t) == rejects \cup ({t} \ Malleable)

\* An orphan that spends an output of the queue.  It stays in the map until the
\* queue is empty, and may turn up again.
Visit(d, x) ==
    LET erased == [d EXCEPT !.erase = @ \cup {x}]
    IN  IF fromPeer[x] \in d.misbehaving THEN {[d EXCEPT !.passed = @ \cup {x}]}
        ELSE {CASE r = "accepted" -> [erased EXCEPT !.pool = @ \cup {x}, !.queue = @ \o Outputs[x]]
                [] r = "missing" -> d
                [] r = "refused" -> [erased EXCEPT !.rejects = Rejected(@, x)]
                [] r = "invalid" -> [erased EXCEPT !.rejects = Rejected(@, x),
                                                   !.misbehaving = @ \cup {fromPeer[x]}] :
              r \in AcceptToMemoryPool(d.pool, x)}

VisitAll(D, x) == UNION {Visit(d, x) : d \in D}

\* vWorkQueue until it is empty; the set of an index entry is in the order of
\* addresses.
RECURSIVE Resolve(_)
Resolve(d) ==
    IF d.queue = <<>> THEN {d}
    ELSE LET rest == [d EXCEPT !.queue = Tail(@)]
         IN  UNION {UNION {Resolve(e) : e \in FoldLeft(VisitAll, {rest}, s)} :
                    s \in SetToSeqs(mapOrphanTransactionsByPrev[Head(d.queue)])}

\* recentRejects is reset when the tip is another one.
Rejects == IF hashRecentRejectsChainTip = chainActive THEN recentRejects ELSE {}

AlreadyHave(t) ==
    IF t \in Rejects \cup mempool \cup Stored(Map) THEN {TRUE}
    ELSE IF MayBeKnown(t) THEN BOOLEAN ELSE {FALSE}

RejectedParents(t) == {u \in Rejects : ToSet(Outputs[u]) \cap Inputs[t] # {}}

TxAccepted(t) ==
    \E d \in Resolve([pool |-> mempool \cup {t}, rejects |-> Rejects, misbehaving |-> {},
                      passed |-> {}, erase |-> {}, queue |-> Outputs[t]]) :
        /\ mempool' = d.pool
        /\ MapBecomes(EraseOrphanTxs(Map, d.erase))
        /\ recentRejects' = d.rejects
        /\ overlooked' = (overlooked \cup d.passed) \cap Stored(Map')

TxMissingInputs(p, t) ==
    /\ mempool' = mempool
    /\ IF RejectedParents(t) = {}
       THEN /\ \E m \in LimitOrphanTxSize(AddOrphanTx(Map, t, p)) : MapBecomes(m)
            /\ recentRejects' = Rejects
       ELSE /\ UNCHANGED <<fromPeer, mapOrphanTransactionsByPrev>>
            /\ recentRejects' = Rejects \cup {t}
    /\ overlooked' = overlooked \cap Stored(Map')

TxRefused(t) ==
    /\ recentRejects' = Rejected(Rejects, t)
    /\ UNCHANGED <<mempool, fromPeer, mapOrphanTransactionsByPrev, overlooked>>

\* A transaction that is there already ends where a rejected one does.
Tx(p, t) ==
    /\ hashRecentRejectsChainTip' = chainActive
    /\ \E have \in AlreadyHave(t) :
          \E result \in IF have THEN {"refused"} ELSE AcceptToMemoryPool(mempool, t) :
              \/ result = "accepted" /\ TxAccepted(t)
              \/ result = "missing" /\ TxMissingInputs(p, t)
              \/ result \in {"refused", "invalid"} /\ TxRefused(t)
    /\ UNCHANGED <<chainActive, pendingConnected>>

-----------------------------------------------------------------------------
(* What else changes the pool and the chain.  None of it tries an orphan.  *)

\* Nothing that t spends is missing.
Complete(t) == Inputs[t] \subseteq Unspent(confirmed, mempool)

Overlooks == overlooked' = {t \in Stored(Map') : Complete(t)'}

\* sendrawtransaction, CommitTransaction and LoadMempool.
AcceptLocal(t) ==
    /\ "accepted" \in AcceptToMemoryPool(mempool, t)
    /\ mempool' = mempool \cup {t}
    /\ UNCHANGED <<fromPeer, mapOrphanTransactionsByPrev, recentRejects,
                   hashRecentRejectsChainTip, chainActive, pendingConnected>>
    /\ Overlooks

\* The transactions of P whose inputs are there, in a chain with those of C.
StillValid(C, P) == UNION {Q \in SUBSET P : Spent(Q) \subseteq Unspent(C, Q)}

\* ConnectTip.  removeForBlock takes the transactions of the block off the pool, and
\* those in conflict with it with all that spend them.  The subscribers hear of the
\* block later.
ConnectTip(S) ==
    /\ S \cap confirmed = {} /\ Len(pendingConnected) < MaxPending
    /\ Spent(S) \subseteq Unspent(confirmed, S)
    /\ mempool' = StillValid(confirmed \cup S, mempool \ S)
    /\ chainActive' = Append(chainActive, S)
    /\ pendingConnected' = Append(pendingConnected, S)
    /\ UNCHANGED <<fromPeer, mapOrphanTransactionsByPrev, recentRejects, hashRecentRejectsChainTip>>
    /\ Overlooks

\* DisconnectTip and UpdateMempoolForReorg: those of the block that are accepted again
\* are back in the pool, and what spends the others goes.
DisconnectTip ==
    /\ chainActive # <<>> /\ chainActive' = Front(chainActive)
    /\ \E accepted \in SUBSET Last(chainActive) :
          mempool' = StillValid(InBlocks(chainActive'), mempool \cup accepted)
    /\ UNCHANGED <<fromPeer, mapOrphanTransactionsByPrev, recentRejects,
                   hashRecentRejectsChainTip, pendingConnected>>
    /\ Overlooks

\* The orphans that are in the block or conflict with it go.
BlockConnected ==
    /\ pendingConnected # <<>> /\ pendingConnected' = Tail(pendingConnected)
    /\ LET conflicting == UNION {mapOrphanTransactionsByPrev[o] : o \in Spent(Head(pendingConnected))}
       IN  MapBecomes(EraseOrphanTxs(Map, conflicting))
    /\ overlooked' = overlooked \cap Stored(Map')
    /\ UNCHANGED <<recentRejects, hashRecentRejectsChainTip, mempool, chainActive>>

ChainStep ==
    \/ BlockConnected \/ DisconnectTip
    \/ \E S \in NewBlocks : ConnectTip(S)

-----------------------------------------------------------------------------
(* Properties.                                                             *)

\* The index holds the stored orphans under the outpoints they spend and no
\* others (its iterators never dangle), and -maxorphantx is kept.
OrphansExact ==
    /\ \A o \in Outpoints : mapOrphanTransactionsByPrev[o] = {t \in Stored(Map) : o \in Inputs[t]}
    /\ Cardinality(Stored(Map)) <= MAX_ORPHANS

\* An orphan waits for something: when the handler of TX has accepted the last of what
\* it spends, it was tried and accepted or erased in the same step, however long the
\* chain of orphans, unless its peer misbehaved in that step.  That is all the code
\* does: what a block, a reorganization, the wallet, an RPC call or LoadMempool
\* brings is not looked up, and an orphan that is complete by such a step stays.
OrphansWait == \A t \in Stored(Map) : Complete(t) => t \in overlooked

=============================================================================
