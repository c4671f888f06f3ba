----------------------------- MODULE CoinsCache -----------------------------
(***************************************************************************)
(* The layered coins cache of coins.cpp: the chainstate database at the    *)
(* bottom, pcoinsTip above it, and above that the short-lived              *)
(* CCoinsViewCache of ConnectTip, DisconnectTip and TestBlockValidity.     *)
(* Every operation runs under cs_main, so each one is one step.            *)
(*                                                                         *)
(* A cache holds entries with a DIRTY and a FRESH flag.  FRESH is a        *)
(* promise about the layer BELOW: it has no unspent coin here, so a spend  *)
(* may forget the entry instead of writing the spend down.  A FRESH flag   *)
(* given wrongly resurrects a spent coin.                                  *)
(***************************************************************************)
CONSTANTS OutPoints,    \* COutPoint: a transaction id and an output index
          Coins,        \* unspent Coin objects (output, height, coinbase bit)
          Blocks,       \* block hashes a view can be the result of
          Spent,        \* a Coin for which IsSpent() holds
          Null,         \* the all-zero uint256
          NotCached     \* cacheCoins.find(outpoint) == cacheCoins.end()

ASSUME SpentIsNoCoin == Spent \notin Coins
ASSUME NullIsNoBlock == Null \notin Blocks

Entries == [coin : Coins \cup {Spent}, dirty : BOOLEAN, fresh : BOOLEAN]

ASSUME NotCachedIsNoEntry == NotCached \notin Entries

VARIABLES
    db,         \* CCoinsViewDB: the coin stored for an outpoint, Spent if none
    tip,        \* pcoinsTip->cacheCoins
    view,       \* cacheCoins of the view on top, while there is one
    open,       \* there is a view on top of pcoinsTip
    dbHash,     \* DB_BEST_BLOCK
    tipHash,    \* pcoinsTip->hashBlock (Null: not fetched yet)
    viewHash,   \* the view's hashBlock (Null: not fetched yet)
    thrown      \* a std::logic_error was thrown by AddCoin or BatchWrite

vars == <<db, tip, view, open, dbHash, tipHash, viewHash, thrown>>

EmptyCache == [o \in OutPoints |-> NotCached]

\* The coins a cache shows over the coins `under` of its base (AccessCoin).
Shown(cache, under) ==
    [o \in OutPoints |-> IF cache[o] = NotCached THEN under[o] ELSE cache[o].coin]

TipCoins == Shown(tip, db)
ViewCoins == Shown(view, TipCoins)

\* GetBestBlock falls through to the base while hashBlock is null.
TipBest == IF tipHash = Null THEN dbHash ELSE tipHash
ViewBest == IF viewHash = Null THEN TipBest ELSE viewHash

\* base->GetCoin returns true only for an unspent coin: a database entry is
\* erased when its coin is spent and CCoinsViewCache::GetCoin returns
\* !IsSpent(), so what is fetched is never spent and carries no flag.
FetchCoin(cache, under, o) ==
    IF cache[o] = NotCached /\ under[o] # Spent
    THEN [cache EXCEPT ![o] = [coin |-> under[o], dirty |-> FALSE, fresh |-> FALSE]]
    ELSE cache

\* A fetch by the view that misses reads through pcoinsTip, which fetches too.
FetchThroughTip(o) == IF view[o] = NotCached THEN FetchCoin(tip, db, o) ELSE tip

AddCoinThrows(cache, o, overwrite) ==
    /\ ~overwrite
    /\ cache[o] # NotCached
    /\ cache[o].coin # Spent

\* Slip: FRESH is given without looking at the DIRTY flag of a spent entry.
AddCoinIgnoresDirty(cache, o, c, overwrite) ==
    [cache EXCEPT ![o] = [coin |-> c, dirty |-> TRUE, fresh |-> ~overwrite]]

AddCoin(cache, o, c, overwrite) ==
    LET cached == cache[o] # NotCached
        fresh == ~overwrite /\ ~(cached /\ cache[o].dirty)
    IN  [cache EXCEPT ![o] = [coin |-> c, dirty |-> TRUE,
                              fresh |-> fresh \/ (cached /\ cache[o].fresh)]]

SpendEntry(cache, o) ==
    IF cache[o] = NotCached THEN cache
    ELSE IF cache[o].fresh THEN [cache EXCEPT ![o] = NotCached]
    ELSE [cache EXCEPT ![o] = [coin |-> Spent, dirty |-> TRUE, fresh |-> FALSE]]

\* Slip: the child's FRESH flag is copied to an entry the parent already has.
MergeEntryCopiesFresh(parent, child) ==
    IF child = NotCached THEN parent
    ELSE IF ~child.dirty THEN parent
    ELSE IF parent # NotCached /\ parent.fresh /\ child.coin = Spent THEN NotCached
    ELSE [coin |-> child.coin, dirty |-> TRUE,
          fresh |-> child.fresh \/ (parent # NotCached /\ parent.fresh)]

\* BatchWrite for one outpoint: the parent's entry after it took the child's.
MergeEntry(parent, child) ==
    IF child = NotCached THEN parent
    ELSE IF ~child.dirty THEN parent
    ELSE IF parent = NotCached
         THEN IF child.fresh /\ child.coin = Spent
              THEN NotCached
              ELSE [coin |-> child.coin, dirty |-> TRUE, fresh |-> child.fresh]
    ELSE IF parent.fresh /\ child.coin = Spent THEN NotCached
    ELSE [coin |-> child.coin, dirty |-> TRUE, fresh |-> parent.fresh]

BatchWrite(parent, child) == [o \in OutPoints |-> MergeEntry(parent[o], child[o])]

FreshMisapplied(parent, child) ==
    \E o \in OutPoints :
        /\ child[o] # NotCached /\ child[o].dirty /\ child[o].fresh
        /\ parent[o] # NotCached /\ parent[o].coin # Spent

-----------------------------------------------------------------------------

Init ==
    /\ db = [o \in OutPoints |-> Spent]
    /\ tip = EmptyCache
    /\ view = EmptyCache
    /\ open = FALSE
    /\ dbHash = Null
    /\ tipHash = Null
    /\ viewHash = Null
    /\ thrown = FALSE

\* CCoinsViewCache view(pcoinsTip.get())
OpenView ==
    /\ ~open
    /\ open' = TRUE
    /\ UNCHANGED <<db, tip, view, dbHash, tipHash, viewHash, thrown>>

\* AccessCoin, HaveCoin or GetCoin on the view: reading fills both caches.
ReadView(o) ==
    /\ open
    /\ tip' = FetchThroughTip(o)
    /\ view' = FetchCoin(view, TipCoins, o)
    /\ UNCHANGED <<db, open, dbHash, tipHash, viewHash, thrown>>

\* The AddCoin call for one spendable output (an unspendable one returns at
\* once).  A coinbase may overwrite; any other transaction only comes here
\* after ConnectBlock's BIP30 loop found no unspent coin at the outpoint.
AddOutput(o, c, fCoinbase) ==
    /\ open
    /\ fCoinbase \/ ViewCoins[o] = Spent
    /\ IF AddCoinThrows(view, o, fCoinbase)
       THEN thrown' = TRUE /\ view' = view
       ELSE thrown' = thrown /\ view' = AddCoin(view, o, c, fCoinbase)
    /\ UNCHANGED <<db, tip, open, dbHash, tipHash, viewHash>>

\* Slip: the undo always claims that nothing is overwritten.
ApplyTxInUndoNoCheck(o, c) ==
    /\ open
    /\ thrown' = (thrown \/ AddCoinThrows(view, o, FALSE))
    /\ view' = IF AddCoinThrows(view, o, FALSE) THEN view ELSE AddCoin(view, o, c, FALSE)
    /\ UNCHANGED <<db, tip, open, dbHash, tipHash, viewHash>>

\* Putting back a spent output when a block is disconnected: HaveCoin first,
\* and possible_overwrite is what it answered.
ApplyTxInUndo(o, c) ==
    LET fetched == FetchCoin(view, TipCoins, o)
        fClean == fetched[o] = NotCached \/ fetched[o].coin = Spent
    IN  /\ open
        /\ tip' = FetchThroughTip(o)
        /\ IF AddCoinThrows(fetched, o, ~fClean)
           THEN thrown' = TRUE /\ view' = fetched
           ELSE thrown' = thrown /\ view' = AddCoin(fetched, o, c, ~fClean)
        /\ UNCHANGED <<db, open, dbHash, tipHash, viewHash>>

\* SpendCoin of an input (ConnectBlock) or of an output (DisconnectBlock).
SpendCoin(o) ==
    /\ open
    /\ tip' = FetchThroughTip(o)
    /\ view' = SpendEntry(FetchCoin(view, TipCoins, o), o)
    /\ UNCHANGED <<db, open, dbHash, tipHash, viewHash, thrown>>

GetBestBlock ==
    /\ open
    /\ viewHash' = ViewBest
    /\ tipHash' = IF viewHash = Null THEN TipBest ELSE tipHash
    /\ UNCHANGED <<db, tip, view, open, dbHash, thrown>>

SetBestBlock(b) ==
    /\ open
    /\ viewHash' = b
    /\ UNCHANGED <<db, tip, view, open, dbHash, tipHash, thrown>>

\* view.Flush() at the end of ConnectTip and DisconnectTip, after the block
\* function has set the view's best block.
FlushView ==
    /\ open
    /\ viewHash # Null
    /\ IF FreshMisapplied(tip, view)
       THEN thrown' = TRUE /\ UNCHANGED <<tip, view, open, tipHash, viewHash>>
       ELSE /\ tip' = BatchWrite(tip, view)
            /\ tipHash' = viewHash
            /\ view' = EmptyCache
            /\ viewHash' = Null
            /\ open' = FALSE
            /\ thrown' = thrown
    /\ UNCHANGED <<db, dbHash>>

\* ConnectBlock failed, or TestBlockValidity is done: the view is destroyed.
DropView ==
    /\ open
    /\ open' = FALSE
    /\ view' = EmptyCache
    /\ viewHash' = Null
    /\ UNCHANGED <<db, tip, dbHash, tipHash, thrown>>

\* Mempool acceptance and RPC calls read pcoinsTip directly.
ReadTip(o) ==
    /\ ~open
    /\ tip' = FetchCoin(tip, db, o)
    /\ UNCHANGED <<db, view, open, dbHash, tipHash, viewHash, thrown>>

\* Mempool acceptance gives back the coins it pulled in for a rejected
\* transaction; an entry with a flag stays.
Uncache(o) ==
    /\ ~open
    /\ tip[o] # NotCached
    /\ ~tip[o].dirty /\ ~tip[o].fresh
    /\ tip' = [tip EXCEPT ![o] = NotCached]
    /\ UNCHANGED <<db, view, open, dbHash, tipHash, viewHash, thrown>>

\* pcoinsTip->Flush() in FlushStateToDisk, with CCoinsViewDB::BatchWrite taken
\* as one step here (CoinsDB.tla looks inside it).
FlushTip ==
    /\ ~open
    /\ tipHash # Null
    /\ db' = [o \in OutPoints |->
                IF tip[o] = NotCached THEN db[o]
                ELSE IF tip[o].dirty THEN tip[o].coin ELSE db[o]]
    /\ dbHash' = tipHash
    /\ tip' = EmptyCache
    /\ UNCHANGED <<view, open, tipHash, viewHash, thrown>>

ViewStep(o) ==
    \/ ReadView(o)
    \/ SpendCoin(o)
    \/ \E c \in Coins : ApplyTxInUndo(o, c)
    \/ \E c \in Coins, fCoinbase \in BOOLEAN : AddOutput(o, c, fCoinbase)

TipStep(o) == ReadTip(o) \/ Uncache(o)

Next ==
    \/ OpenView
    \/ \E o \in OutPoints : ViewStep(o) \/ TipStep(o)
    \/ GetBestBlock
    \/ \E b \in Blocks : SetBestBlock(b)
    \/ FlushView
    \/ DropView
    \/ FlushTip

Spec == Init /\ [][Next]_vars

-----------------------------------------------------------------------------

Caches == [OutPoints -> Entries \cup {NotCached}]

\* Type correctness of the three layers and their best-block hashes.
TypeOK ==
    /\ db \in [OutPoints -> Coins \cup {Spent}]
    /\ tip \in Caches
    /\ view \in Caches
    /\ open \in BOOLEAN
    /\ dbHash \in Blocks \cup {Null}
    /\ tipHash \in Blocks \cup {Null}
    /\ viewHash \in Blocks \cup {Null}
    /\ thrown \in BOOLEAN

\* What the flags of a cache say about the layer below it (coins.h, the
\* comments at DIRTY and FRESH): an entry that is not DIRTY equals what the
\* layer below shows, a FRESH entry has no unspent coin below it, and a FRESH
\* entry is itself DIRTY and unspent (SpendCoin and BatchWrite erase it
\* otherwise).
FlagsTruthful(cache, under) ==
    \A o \in OutPoints :
        cache[o] # NotCached =>
            /\ ~cache[o].dirty => cache[o].coin = under[o] /\ under[o] # Spent
            /\ cache[o].fresh => /\ under[o] = Spent
                                 /\ cache[o].dirty
                                 /\ cache[o].coin # Spent

\* The flags of pcoinsTip are truthful about the database and the flags of the
\* view are truthful about pcoinsTip, in every order of reads, writes, flushes
\* and uncaching: the condition under which AddCoin and BatchWrite may skip
\* writing a coin.
FlagsInv == FlagsTruthful(tip, db) /\ FlagsTruthful(view, TipCoins)

\* A view that is not open has no entries and no best block of its own.
ClosedViewEmpty == ~open => view = EmptyCache /\ viewHash = Null

\* Neither std::logic_error is ever thrown: AddCoin's "Adding new coin that
\* replaces non-pruned entry" and BatchWrite's "FRESH flag misapplied to cache
\* entry for base transaction with spendable outputs".
NoLogicError == ~thrown

IInv == TypeOK /\ FlagsInv /\ ClosedViewEmpty /\ NoLogicError

Layers == INSTANCE UtxoLayers WITH
    tip <- TipCoins, view <- ViewCoins,
    dbBest <- dbHash, tipBest <- TipBest, viewBest <- ViewBest

\* The caches behave like three plain maps: no sequence of fetches, writes,
\* uncaching, flushes and dropped views makes a layer show a coin that the
\* plain maps would not hold, or miss one that they would.
RefinesLayers == Layers!Spec
=============================================================================
