------------------------------ MODULE CoinsDB -------------------------------
(***************************************************************************)
(* The chainstate database and its recovery: CCoinsViewDB::BatchWrite      *)
(* (txdb.cpp) writes a flush in several batches, and ReplayBlocks          *)
(* (validation.cpp) repairs a database in which only some of them arrived. *)
(*                                                                         *)
(* A block is a sequence of transactions, a transaction the outpoints it   *)
(* spends and creates, a coin the height of the block that created it.     *)
(* The process may die between any two batches; a machine that loses power *)
(* also forgets batches LevelDB has not synced.  The block index is always *)
(* written with sync.                                                      *)
(***************************************************************************)
EXTENDS Integers, FiniteSets, SequencesExt

CONSTANTS
    Blocks,     \* all blocks
    Genesis,    \* its outputs are not part of the coins
    Parent,     \* pprev
    Height,     \* nHeight
    Txs,        \* vtx: a sequence of [ins, outs] records
    OutPoints,
    Spent,      \* no unspent coin
    Null        \* uint256()

ASSUME DBAssumption ==
    /\ Genesis \in Blocks /\ Null \notin Blocks
    /\ Parent \in [Blocks \ {Genesis} -> Blocks] /\ Height \in [Blocks -> Nat]
    /\ \A b \in Blocks \ {Genesis} : Height[b] = Height[Parent[b]] + 1
    /\ Txs \in [Blocks -> Seq([ins : SUBSET OutPoints, outs : SUBSET OutPoints])]
    /\ Spent \notin Nat

VARIABLES
    disk,       \* the chainstate database: coins, DB_BEST_BLOCK, DB_HEAD_BLOCKS
    synced,     \* the version of it that survives a loss of power
    diskIndex,  \* blocks whose data, undo data and index entry are on disk
    pc,         \* "run", "flush" (in BatchWrite), "replay" (BatchWrite called
                \* by ReplayBlocks), "down", "error" (start-up gave up)
    known,      \* mapBlockIndex
    tip,        \* best block of pcoinsTip, or of ReplayBlocks' cache
    coins,      \* the coins that cache shows
    dirty,      \* outpoints with a DIRTY entry in that cache
    assertFailed

vars == <<disk, synced, diskIndex, pc, known, tip, coins, dirty, assertFailed>>

NoCoins == [o \in OutPoints |-> Spent]

-----------------------------------------------------------------------------
(* Effects of blocks on coins.                                             *)

\* UpdateCoins, and one round of RollforwardBlock: spending what is not there
\* and adding what is there already change nothing else.
ApplyTx(c, tx, h) ==
    [o \in OutPoints |-> IF o \in tx.outs THEN h ELSE IF o \in tx.ins THEN Spent ELSE c[o]]

RollforwardBlock(c, b) ==
    FoldLeft(LAMBDA acc, tx : ApplyTx(acc, tx, Height[b]), c, Txs[b])

\* The reference: the coins after all blocks up to b.
Utxo[b \in Blocks] ==
    IF b = Genesis THEN NoCoins ELSE RollforwardBlock(Utxo[Parent[b]], b)

\* The coins the i-th transaction of b spent, as its undo data records them.
TxUndo(b, i) ==
    FoldLeft(LAMBDA acc, tx : ApplyTx(acc, tx, Height[b]), Utxo[Parent[b]],
             SubSeq(Txs[b], 1, i - 1))

\* Outputs are spent whether or not they are there, inputs restored.
UndoTx(c, tx, undo) ==
    [o \in OutPoints |-> IF o \in tx.ins THEN undo[o]
                         ELSE IF o \in tx.outs THEN Spent ELSE c[o]]

\* DisconnectBlock: in reverse order.  DISCONNECT_UNCLEAN is not an error.
DisconnectBlock(c, b) ==
    LET n == Len(Txs[b]) IN
    FoldLeft(LAMBDA acc, k : UndoTx(acc, Txs[b][n + 1 - k], TxUndo(b, n + 1 - k)),
             c, [k \in 1 .. n |-> k])

Touched(b) == UNION {Txs[b][i].ins \cup Txs[b][i].outs : i \in DOMAIN Txs[b]}

\* The blocks from genesis up to b, in order.
Branch[b \in Blocks] ==
    IF b = Genesis THEN <<Genesis>> ELSE Append(Branch[Parent[b]], b)

\* Blocks of b's branch that are not on the branch of a, lowest first.
Above(a, b) ==
    IF b = Null THEN <<>>
    ELSE IF a = Null THEN Tail(Branch[b])
    ELSE SelectSeq(Branch[b], LAMBDA x : x \notin ToSet(Branch[a]))

\* ReplayBlocks: back along the old branch to the fork, then forward.
Replayed(c, old, new) ==
    FoldLeft(RollforwardBlock,
             FoldLeft(DisconnectBlock, c, Reverse(Above(new, old))),
             Above(old, new))

\* cache.SetBestBlock before its Flush
ReplayBest(old, new) == new

ReplayTouched(old, new) ==
    UNION {Touched(b) : b \in ToSet(Above(new, old)) \cup ToSet(Above(old, new))}

OldBlock(old) == IF old = Null THEN Genesis ELSE old

\* Coins of which each is the old tip's or the new tip's.
Mixture(c, old, new) ==
    \A o \in OutPoints : c[o] \in {Utxo[OldBlock(old)][o], Utxo[new][o]}

Coins == [OutPoints -> {Height[b] : b \in Blocks} \cup {Spent}]

\* Blocks are valid: undo data undoes a block, a block changes only the coins
\* it names.
ASSUME BlocksAssumption ==
    /\ Utxo \in [Blocks -> Coins] /\ Utxo[Genesis] = NoCoins
    /\ \A b \in Blocks \ {Genesis} :
         /\ RollforwardBlock(Utxo[Parent[b]], b) = Utxo[b]
         /\ DisconnectBlock(Utxo[b], b) = Utxo[Parent[b]]
         /\ \A o \in OutPoints \ Touched(b) : Utxo[b][o] = Utxo[Parent[b]][o]

\* "as both writing a UTXO and deleting a UTXO are idempotent operations",
\* replaying any mixture gives the coins of the new tip.
ASSUME ReplayAssumption ==
    \A new \in Blocks, old \in Blocks \cup {Null} : \A c \in Coins :
        Mixture(c, old, new) => Replayed(c, old, new) = Utxo[new]

-----------------------------------------------------------------------------
(* The running node.                                                       *)

Init ==
    /\ disk = [coins |-> NoCoins, best |-> Null, heads |-> <<>>]
    /\ synced = disk
    /\ diskIndex = {Genesis}
    /\ pc = "run"
    /\ known = {Genesis}
    /\ tip = Genesis /\ coins = NoCoins /\ dirty = {}
    /\ assertFailed = FALSE

\* Slip: only created coins become DIRTY.
CacheCreated(b, c) ==
    dirty' = dirty \cup UNION {Txs[b][i].outs : i \in DOMAIN Txs[b]}

\* A block changed the cache.  An entry that is spent and FRESH, which it can
\* only be if the database has no coin for it, may be gone.
CacheAfter(b, c) ==
    \E gone \in SUBSET {o \in Touched(b) : disk.coins[o] = Spent /\ c[o] = Spent} :
        dirty' = (dirty \cup Touched(b)) \ gone

ConnectTip(b) ==
    /\ pc = "run" /\ b # Genesis /\ Parent[b] = tip
    /\ coins' = RollforwardBlock(coins, b)
    /\ CacheAfter(b, coins')
    /\ tip' = b
    /\ known' = known \cup {b}
    /\ UNCHANGED <<disk, synced, diskIndex, pc, assertFailed>>

DisconnectTip ==
    /\ pc = "run" /\ tip # Genesis
    /\ coins' = DisconnectBlock(coins, tip)
    /\ CacheAfter(tip, coins')
    /\ tip' = Parent[tip]
    /\ UNCHANGED <<disk, synced, diskIndex, pc, known, assertFailed>>

\* Slip: the coins are flushed without the block index.
IndexAsBefore == diskIndex

IndexWritten == known

\* FlushStateToDisk: block files, undo files and index first (fPeriodicWrite
\* stops there), then pcoinsTip->Flush().
FlushStateToDisk ==
    /\ pc = "run"
    /\ diskIndex' = IndexWritten
    /\ pc' \in {"run", "flush"}
    /\ UNCHANGED <<disk, synced, known, tip, coins, dirty, assertFailed>>

-----------------------------------------------------------------------------
(* CCoinsViewDB::BatchWrite.                                               *)

\* Slip: the tip is remembered only by DB_BEST_BLOCK.
NoOldTip == disk.best

\* "We may be in the middle of replaying."
OldTip == IF disk.best = Null /\ Len(disk.heads) = 2 THEN disk.heads[2] ELSE disk.best

HeadsAgree == disk.best = Null /\ Len(disk.heads) = 2 => disk.heads[1] = tip

Written(S) == [o \in OutPoints |-> IF o \in S THEN coins[o] ELSE disk.coins[o]]

\* Slip: partial batches leave DB_BEST_BLOCK alone.
Unmarked(S) == [disk EXCEPT !.coins = Written(S)]

\* A partial batch: the database is "in the middle of a transition".
PartialBatch(S) == [coins |-> Written(S), best |-> Null, heads |-> <<tip, OldTip>>]

WritePartialBatch ==
    /\ pc \in {"flush", "replay"}
    /\ IF HeadsAgree
       THEN /\ \E S \in SUBSET dirty : disk' = PartialBatch(S) /\ dirty' = dirty \ S
            /\ UNCHANGED assertFailed
       ELSE /\ assertFailed' = TRUE
            /\ UNCHANGED <<disk, dirty>>
    /\ UNCHANGED <<synced, diskIndex, pc, known, tip, coins>>

\* "In the last batch, mark the database as consistent with hashBlock again."
WriteFinalBatch ==
    /\ pc \in {"flush", "replay"}
    /\ IF HeadsAgree
       THEN /\ disk' = [coins |-> Written(dirty), best |-> tip, heads |-> <<>>]
            /\ dirty' = {} /\ pc' = "run"
            /\ UNCHANGED assertFailed
       ELSE /\ assertFailed' = TRUE
            /\ UNCHANGED <<disk, dirty, pc>>
    /\ UNCHANGED <<synced, diskIndex, known, tip, coins>>

\* LevelDB's log reaches the disk some time after WriteBatch without sync.
Sync ==
    /\ synced # disk /\ synced' = disk
    /\ UNCHANGED <<disk, diskIndex, pc, known, tip, coins, dirty, assertFailed>>

-----------------------------------------------------------------------------
(* Crash and start-up.                                                     *)

\* The process dies, or the machine does.
Crash ==
    /\ pc \in {"run", "flush", "replay"}
    /\ pc' = "down"
    /\ disk' \in {disk, synced} /\ synced' = disk'
    /\ tip' = Null /\ coins' = NoCoins /\ dirty' = {} /\ known' = {}
    /\ UNCHANGED <<diskIndex, assertFailed>>

\* LoadBlockIndex, then ReplayBlocks up to its Flush, or LoadChainTip.  An
\* empty database gets genesis connected again.
Start ==
    /\ pc = "down"
    /\ known' = diskIndex
    /\ IF disk.heads = <<>>
       THEN /\ tip' = IF disk.best = Null THEN Genesis ELSE disk.best
            /\ pc' = IF tip' \in diskIndex THEN "run" ELSE "error"
            /\ coins' = disk.coins /\ dirty' = {}
       ELSE LET new == disk.heads[1]
                old == disk.heads[2] IN
            IF {new, old} \subseteq diskIndex \cup {Null}
            THEN /\ tip' = ReplayBest(old, new) /\ pc' = "replay"
                 /\ coins' = Replayed(disk.coins, old, new)
                 /\ \E D \in SUBSET ReplayTouched(old, new) :
                       /\ \A o \in OutPoints : coins'[o] # disk.coins[o] => o \in D
                       /\ dirty' = D
            ELSE /\ pc' = "error" /\ UNCHANGED <<tip, coins, dirty>>
    /\ UNCHANGED <<disk, synced, diskIndex, assertFailed>>

Next ==
    \/ \E b \in Blocks : ConnectTip(b)
    \/ DisconnectTip \/ FlushStateToDisk
    \/ WritePartialBatch \/ WriteFinalBatch \/ Sync
    \/ Crash \/ Start

Spec == Init /\ [][Next]_vars

-----------------------------------------------------------------------------
(* Properties.                                                             *)

DB == [coins : Coins, best : Blocks \cup {Null},
       heads : {<<>>} \cup (Blocks \X (Blocks \cup {Null}))]

\* What is stored is what the keys of the databases can hold.
TypeOK ==
    /\ disk \in DB /\ synced \in DB
    /\ diskIndex \in SUBSET Blocks /\ known \in SUBSET Blocks
    /\ pc \in {"run", "flush", "replay", "down", "error"}
    /\ tip \in Blocks \cup {Null} /\ coins \in Coins
    /\ dirty \in SUBSET OutPoints /\ assertFailed \in BOOLEAN

\* Whatever crashed when, a node that runs again has exactly the coins of its
\* tip (init.cpp: "The on-disk coinsdb is now in a good state").
CoinsOfTip == pc \in {"run", "flush", "replay"} => tip # Null /\ coins = Utxo[tip]

\* A database that names a best block holds exactly the coins of that block.
BestBlockTrue == disk.best # Null => disk.coins = Utxo[disk.best]

\* In the middle of a transition every coin is that of the old or of the new
\* tip; ReplayBlocks relies on this.
OldOrNewCoin ==
    disk.heads # <<>> =>
        Mixture(disk.coins, disk.heads[2], disk.heads[1])

\* "Flush best chain related state. This can only be done if the blocks /
\* block index write was also done": every block the coins refer to is in the
\* index on disk, so start-up never fails; nor does the assert of BatchWrite on the
\* heads of an interrupted flush.
StartSucceeds == pc # "error" /\ ~assertFailed

=============================================================================
