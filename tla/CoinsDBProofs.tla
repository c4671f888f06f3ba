--------------------------- MODULE CoinsDBProofs ----------------------------
(***************************************************************************)
(* Start-up after any crash succeeds, and BatchWrite's assert never fails, *)
(* for every tree of blocks and every contents of the blocks.              *)
(***************************************************************************)
EXTENDS CoinsDB, TLAPS

Up == pc \in {"run", "flush", "replay"}

\* A set of blocks with all their ancestors.
Closed(S) == S \subseteq Blocks /\ \A b \in S \ {Genesis} : Parent[b] \in S

\* A stored database names only indexed blocks, and either a best block or
\* the two heads of a transition.
Sound(d) ==
    /\ d.best \in diskIndex \cup {Null}
    /\ \/ d.heads = <<>>
       \/ /\ d.best = Null
          /\ \E new \in diskIndex, old \in diskIndex \cup {Null} : d.heads = <<new, old>>

\* The inductive invariant: both versions of the database are sound, a flush
\* has its tip in the index on disk, and a transition found while writing is
\* the one being written.
DBInv ==
    /\ Genesis \in diskIndex /\ Closed(diskIndex)
    /\ Sound(disk) /\ Sound(synced)
    /\ pc \in {"run", "flush", "replay", "down"}
    /\ ~assertFailed
    /\ Up => Closed(known) /\ diskIndex \subseteq known /\ tip \in known
    /\ pc \in {"flush", "replay"} => tip \in diskIndex
    /\ pc = "run" => disk.heads = <<>>
    /\ pc \in {"flush", "replay"} /\ disk.heads # <<>> => disk.heads[1] = tip

\* The invariant holds when the node runs for the first time.
LEMMA DBInvInit == Init => DBInv
  BY DBAssumption DEF Init, DBInv, Sound, Up, Closed

\* BatchWrite finds heads it agrees with, and an indexed old tip.
LEMMA BatchWriteAgrees ==
  ASSUME DBInv, pc \in {"flush", "replay"}
  PROVE  HeadsAgree /\ OldTip \in diskIndex \cup {Null} /\ tip \in diskIndex
<1>1. HeadsAgree
  BY DEF DBInv, Sound, HeadsAgree
<1>2. OldTip \in diskIndex \cup {Null}
  BY DEF DBInv, Sound, OldTip
<1>3. QED  BY <1>1, <1>2, Zenon DEF DBInv

\* Every step keeps the invariant.
LEMMA DBInvStep == DBInv /\ [Next]_vars => DBInv'
<1> SUFFICES ASSUME DBInv, [Next]_vars PROVE DBInv'
  BY Zenon
<1>1. ASSUME NEW b \in Blocks, ConnectTip(b) PROVE DBInv'
  BY <1>1, Zenon DEF ConnectTip, DBInv, Sound, Up, Closed
<1>2. CASE DisconnectTip
  BY <1>2, Zenon DEF DisconnectTip, DBInv, Sound, Up, Closed
<1>3. CASE FlushStateToDisk
  BY <1>3, Zenon DEF FlushStateToDisk, IndexWritten, DBInv, Sound, Up
<1>4. CASE WritePartialBatch
  <2>1. PICK S \in SUBSET dirty : disk' = PartialBatch(S)
    BY <1>4, BatchWriteAgrees, Zenon DEF WritePartialBatch
  <2>2. Sound(disk)'
    BY <1>4, <2>1, BatchWriteAgrees, Zenon DEF WritePartialBatch, PartialBatch, Sound
  <2>3. QED
    BY <1>4, <2>1, <2>2, BatchWriteAgrees, Zenon DEF WritePartialBatch, PartialBatch, DBInv, Sound, Up, Closed
<1>5. CASE WriteFinalBatch
  BY <1>5, BatchWriteAgrees DEF WriteFinalBatch, DBInv, Sound, Up, Closed
<1>6. CASE Sync
  BY <1>6, Zenon DEF Sync, DBInv, Sound, Up, Closed
<1>7. CASE Crash
  BY <1>7, Zenon DEF Crash, DBInv, Sound, Up, Closed
<1>8. CASE Start
  <2>1. CASE disk.heads = <<>>
    BY <1>8, <2>1, Zenon DEF Start, DBInv, Sound, Up, Closed
  <2>2. CASE disk.heads # <<>>
    <3>1. PICK new \in diskIndex, old \in diskIndex \cup {Null} : disk.heads = <<new, old>>
      BY <2>2, Zenon DEF DBInv, Sound
    <3>2. tip' = new /\ pc' = "replay" /\ known' = diskIndex
      BY <1>8, <2>2, <3>1 DEF Start, ReplayBest
    <3>3. UNCHANGED <<disk, synced, diskIndex, assertFailed>>
      BY <1>8, Zenon DEF Start
    <3>4. QED  BY <3>1, <3>2, <3>3 DEF DBInv, Sound, Up, Closed
  <2>3. QED  BY <2>1, <2>2, Zenon
<1>9. CASE UNCHANGED vars
  BY <1>9, Zenon DEF vars, DBInv, Sound, Up, Closed
<1>10. QED
  BY <1>1, <1>2, <1>3, <1>4, <1>5, <1>6, <1>7, <1>8, <1>9, Zenon DEF Next

\* Start-up never finds a database that refers to a block missing from the
\* index, wherever the crash was, and the heads BatchWrite finds are those of the
\* flush it is repeating.
THEOREM StartAlwaysSucceeds == Spec => []StartSucceeds
<1>1. DBInv => StartSucceeds
  BY Zenon DEF DBInv, StartSucceeds
<1>2. QED  BY DBInvInit, DBInvStep, <1>1, PTL DEF Spec

-----------------------------------------------------------------------------
(* The coins.                                                              *)

\* What a stored database holds, by its markers.
Faithful(d) ==
    /\ d.coins \in Coins
    /\ d.heads = <<>> => d.coins = Utxo[OldBlock(d.best)]
    /\ d.heads # <<>> => Mixture(d.coins, d.heads[2], d.heads[1])

\* The inductive invariant: both versions of the database are faithful, the
\* cache shows the coins of the tip, and differs from the database only in
\* DIRTY entries.
CoinInv ==
    /\ Faithful(disk) /\ Faithful(synced)
    /\ Up => /\ coins = Utxo[tip]
             /\ \A o \in OutPoints \ dirty : disk.coins[o] = coins[o]

\* The first start has no coins on either side.
LEMMA CoinInvInit == Init => CoinInv
<1> SUFFICES ASSUME Init PROVE CoinInv
  BY Zenon
<1>1. NoCoins \in Coins /\ NoCoins = Utxo[Genesis]
  BY DBAssumption, BlocksAssumption, Zenon
<1>2. QED  BY <1>1, Zenon DEF Init, CoinInv, Faithful, Up, OldBlock

\* A block that changes the coins leaves the database equal to them outside
\* the DIRTY entries.
LEMMA CacheCovers ==
  ASSUME NEW b \in Blocks, NEW c \in Coins, CacheAfter(b, c),
         \A o \in OutPoints \ dirty : disk.coins[o] = coins[o],
         \A o \in OutPoints \ Touched(b) : c[o] = coins[o]
  PROVE  \A o \in OutPoints \ dirty' : disk.coins[o] = c[o]
<1>1. PICK gone \in SUBSET {o \in Touched(b) : disk.coins[o] = Spent /\ c[o] = Spent} :
        dirty' = (dirty \cup Touched(b)) \ gone
  BY Zenon DEF CacheAfter
<1>2. QED  BY <1>1, Zenon

\* What BatchWrite stores: written entries are the tip's, others unchanged.
LEMMA WrittenCoins ==
  ASSUME DBInv, CoinInv, pc \in {"flush", "replay"}, NEW S \in SUBSET dirty
  PROVE  /\ Written(S) \in Coins
         /\ Mixture(Written(S), OldTip, tip)
<1>1. tip \in Blocks /\ coins = Utxo[tip] /\ coins \in Coins /\ disk.coins \in Coins
  BY BlocksAssumption DEF DBInv, CoinInv, Faithful, Up, Closed
<1>2. Mixture(disk.coins, OldTip, tip)
  <2>1. CASE disk.heads = <<>>
    <3>1. OldTip = disk.best
      BY <2>1 DEF OldTip
    <3>2. QED  BY <2>1, <3>1, Zenon DEF CoinInv, Faithful, Mixture
  <2>2. CASE disk.heads # <<>>
    <3>1. PICK new \in diskIndex, old \in diskIndex \cup {Null} :
             disk.best = Null /\ disk.heads = <<new, old>>
      BY <2>2, Zenon DEF DBInv, Sound
    <3>2. OldTip = disk.heads[2] /\ disk.heads[1] = tip
      BY <2>2, <3>1, Zenon DEF OldTip, DBInv
    <3>3. QED  BY <2>2, <3>2, Zenon DEF CoinInv, Faithful
  <2>3. QED  BY <2>1, <2>2, Zenon
<1>3. Written(S) \in Coins
  BY <1>1, Zenon DEF Written, Coins
<1>4. \A o \in OutPoints : Written(S)[o] \in {disk.coins[o], Utxo[tip][o]}
  BY <1>1, Zenon DEF Written
<1>5. QED  BY <1>2, <1>3, <1>4, Zenon DEF Mixture

\* Every step keeps the coins right.
LEMMA CoinInvStep == DBInv /\ CoinInv /\ [Next]_vars => CoinInv'
<1> SUFFICES ASSUME DBInv, CoinInv, [Next]_vars PROVE CoinInv'
  BY Zenon
<1>1. ASSUME NEW b \in Blocks, ConnectTip(b) PROVE CoinInv'
  <2>1. Up /\ coins = Utxo[tip] /\ Parent[b] = tip /\ b # Genesis
    BY <1>1, Zenon DEF ConnectTip, CoinInv, Up
  <2>2. coins' = Utxo[b] /\ coins' \in Coins /\ CacheAfter(b, coins')
    BY <1>1, <2>1, BlocksAssumption DEF ConnectTip
  <2>3. \A o \in OutPoints \ Touched(b) : coins'[o] = coins[o]
    BY <2>1, <2>2, BlocksAssumption, Zenon
  <2>4. \A o \in OutPoints \ dirty' : disk.coins[o] = coins'[o]
    BY <2>1, <2>2, <2>3, CacheCovers, Zenon DEF CoinInv
  <2>5. disk' = disk /\ synced' = synced /\ tip' = b
    BY <1>1, Zenon DEF ConnectTip
  <2>6. QED  BY <2>2, <2>4, <2>5, Zenon DEF CoinInv, Faithful, Mixture, OldBlock
<1>2. CASE DisconnectTip
  <2>1. Up /\ coins = Utxo[tip] /\ tip \in Blocks \ {Genesis} /\ Parent[tip] \in Blocks
    BY <1>2, DBAssumption, Zenon DEF DisconnectTip, CoinInv, DBInv, Up, Closed
  <2>2. coins' = Utxo[Parent[tip]] /\ coins' \in Coins /\ CacheAfter(tip, coins')
    BY <1>2, <2>1, BlocksAssumption, Zenon DEF DisconnectTip
  <2>3. \A o \in OutPoints \ Touched(tip) : coins'[o] = coins[o]
    BY <2>1, <2>2, BlocksAssumption, Zenon
  <2>4. \A o \in OutPoints \ dirty' : disk.coins[o] = coins'[o]
    BY <2>1, <2>2, <2>3, CacheCovers, Zenon DEF CoinInv
  <2>5. disk' = disk /\ synced' = synced /\ tip' = Parent[tip]
    BY <1>2, Zenon DEF DisconnectTip
  <2>6. QED  BY <2>2, <2>4, <2>5, Zenon DEF CoinInv, Faithful, Mixture, OldBlock
<1>3. CASE FlushStateToDisk
  BY <1>3, Zenon DEF FlushStateToDisk, CoinInv, Faithful, Mixture, OldBlock, Up
<1>4. CASE WritePartialBatch
  <2>1. PICK S \in SUBSET dirty : disk' = PartialBatch(S) /\ dirty' = dirty \ S
    BY <1>4, BatchWriteAgrees, Zenon DEF WritePartialBatch
  <2>2. pc \in {"flush", "replay"} /\ UNCHANGED <<synced, pc, tip, coins>>
    BY <1>4, Zenon DEF WritePartialBatch
  <2>3. Written(S) \in Coins /\ Mixture(Written(S), OldTip, tip)
    BY <2>2, WrittenCoins, Zenon
  <2>4. disk'.coins = Written(S) /\ disk'.heads = <<tip, OldTip>>
    BY <2>1, Zenon DEF PartialBatch
  <2>5. Faithful(disk)'
    BY <2>3, <2>4 DEF Faithful, Mixture, OldBlock
  <2>6. Faithful(synced)'
    BY <2>2, Zenon DEF CoinInv, Faithful, Mixture, OldBlock
  <2>7. \A o \in OutPoints \ dirty' : disk'.coins[o] = coins[o]
    BY <2>1, <2>2, <2>4, Zenon DEF Written, CoinInv, Up
  <2>8. QED  BY <2>2, <2>5, <2>6, <2>7, Zenon DEF CoinInv, Up
<1>5. CASE WriteFinalBatch
  <2>1. /\ disk' = [coins |-> Written(dirty), best |-> tip, heads |-> <<>>]
        /\ pc \in {"flush", "replay"} /\ UNCHANGED <<synced, tip, coins>>
    BY <1>5, BatchWriteAgrees, Zenon DEF WriteFinalBatch
  <2>2. coins = Utxo[tip] /\ tip \in Blocks /\ coins \in Coins
    BY <2>1, BlocksAssumption, Zenon DEF CoinInv, DBInv, Up, Closed
  <2>3. Written(dirty) = coins
    BY <2>1, <2>2, Zenon DEF Written, CoinInv, Up, Coins
  <2>4. Faithful(disk)'
    BY <2>1, <2>2, <2>3, DBAssumption, Zenon DEF Faithful, OldBlock
  <2>5. Faithful(synced)'
    BY <2>1, Zenon DEF CoinInv, Faithful, Mixture, OldBlock
  <2>6. QED  BY <2>1, <2>2, <2>3, <2>4, <2>5, Zenon DEF CoinInv, Up
<1>6. CASE Sync
  BY <1>6, Zenon DEF Sync, CoinInv, Faithful, Mixture, OldBlock, Up
<1>7. CASE Crash
  <2>1. pc' = "down" /\ disk' \in {disk, synced} /\ synced' = disk'
    BY <1>7, Zenon DEF Crash
  <2>2. QED  BY <2>1, Zenon DEF CoinInv, Faithful, Mixture, OldBlock, Up
<1>8. CASE Start
  <2>1. disk' = disk /\ synced' = synced
    BY <1>8, Zenon DEF Start
  <2>2. CASE disk.heads = <<>>
    <3>1. tip' = OldBlock(disk.best) /\ coins' = disk.coins
      BY <1>8, <2>2, Zenon DEF Start, OldBlock
    <3>2. QED  BY <2>1, <2>2, <3>1, Zenon DEF CoinInv, Faithful, Mixture, OldBlock
  <2>3. CASE disk.heads # <<>>
    <3>1. PICK new \in diskIndex, old \in diskIndex \cup {Null} : disk.heads = <<new, old>>
      BY <2>3, Zenon DEF DBInv, Sound
    <3>2. /\ tip' = new /\ coins' = Replayed(disk.coins, old, new)
          /\ \A o \in OutPoints : coins'[o] # disk.coins[o] => o \in dirty'
      BY <1>8, <2>3, <3>1 DEF Start, ReplayBest
    <3>3. new \in Blocks /\ old \in Blocks \cup {Null}
      BY Zenon DEF DBInv, Closed
    <3>4. disk.coins \in Coins /\ Mixture(disk.coins, old, new)
      BY <2>3, <3>1 DEF CoinInv, Faithful
    <3>5. coins' = Utxo[new]
      BY <3>2, <3>3, <3>4, ReplayAssumption, Zenon
    <3>6. QED  BY <2>1, <3>2, <3>5, Zenon DEF CoinInv, Faithful, Mixture, OldBlock
  <2>4. QED  BY <2>2, <2>3, Zenon
<1>9. CASE UNCHANGED vars
  BY <1>9, Zenon DEF vars, CoinInv, Faithful, Mixture, OldBlock, Up
<1>10. QED
  BY <1>1, <1>2, <1>3, <1>4, <1>5, <1>6, <1>7, <1>8, <1>9, Zenon DEF Next

\* A node that runs, after any crashes at any points, has exactly the coins of
\* its tip.
THEOREM AlwaysCoinsOfTip == Spec => []CoinsOfTip
<1>1. DBInv /\ CoinInv => CoinsOfTip
  BY DBAssumption, Zenon DEF DBInv, CoinInv, CoinsOfTip, Up, Closed
<1>2. QED  BY DBInvInit, DBInvStep, CoinInvInit, CoinInvStep, <1>1, PTL DEF Spec

\* DB_BEST_BLOCK is never on disk beside the coins of another block.
THEOREM BestBlockAlwaysTrue == Spec => []BestBlockTrue
<1>1. DBInv /\ CoinInv => BestBlockTrue
  BY Zenon DEF DBInv, Sound, CoinInv, Faithful, BestBlockTrue, OldBlock
<1>2. QED  BY DBInvInit, DBInvStep, CoinInvInit, CoinInvStep, <1>1, PTL DEF Spec

\* In the middle of a transition, that of a repeated replay included, every
\* coin is the old or the new tip's.
THEOREM AlwaysOldOrNewCoin == Spec => []OldOrNewCoin
<1>1. CoinInv => OldOrNewCoin
  BY Zenon DEF CoinInv, Faithful, OldOrNewCoin
<1>2. QED  BY DBInvInit, DBInvStep, CoinInvInit, CoinInvStep, <1>1, PTL DEF Spec

=============================================================================
