-------------------------- MODULE CoinsCacheProofs --------------------------
(***************************************************************************)
(* For any sets of outpoints, coins and block hashes: the flags of the     *)
(* coins caches stay truthful, no logic_error is thrown, and the caches    *)
(* implement the plain maps of UtxoLayers.                                 *)
(***************************************************************************)
EXTENDS CoinsCache, TLAPS

USE SpentIsNoCoin, NullIsNoBlock, NotCachedIsNoEntry

Map == [OutPoints -> Coins \cup {Spent}]

-----------------------------------------------------------------------------
(* What the operators on one cache do.                                     *)

\* A cache over a map shows a map.
LEMMA ShownType ==
    ASSUME NEW cache \in Caches, NEW under \in Map
    PROVE  Shown(cache, under) \in Map
  BY DEF Shown, Map, Caches, Entries

\* FetchCoin keeps the cache a cache, its flags truthful, and what it shows.
LEMMA FetchCoinOK ==
    ASSUME NEW cache \in Caches, NEW under \in Map, NEW o \in OutPoints,
           FlagsTruthful(cache, under)
    PROVE  /\ FetchCoin(cache, under, o) \in Caches
           /\ FlagsTruthful(FetchCoin(cache, under, o), under)
           /\ Shown(FetchCoin(cache, under, o), under) = Shown(cache, under)
  <1>1. CASE cache[o] = NotCached /\ under[o] # Spent
    <2> DEFINE e == [coin |-> under[o], dirty |-> FALSE, fresh |-> FALSE]
    <2>1. e \in Entries
      BY DEF Entries, Map
    <2>2. FetchCoin(cache, under, o) = [cache EXCEPT ![o] = e]
      BY <1>1 DEF FetchCoin
    <2>3. QED
      BY <1>1, <2>1, <2>2 DEF Caches, FlagsTruthful, Shown, Map
  <1>2. CASE ~(cache[o] = NotCached /\ under[o] # Spent)
    BY <1>2 DEF FetchCoin
  <1>3. QED
    BY <1>1, <1>2

\* AddCoin keeps the flags truthful and shows the new coin, provided that a
\* coin said not to overwrite anything finds no unspent coin.
LEMMA AddCoinOK ==
    ASSUME NEW cache \in Caches, NEW under \in Map, NEW o \in OutPoints,
           NEW c \in Coins, NEW overwrite \in BOOLEAN,
           FlagsTruthful(cache, under),
           overwrite \/ Shown(cache, under)[o] = Spent
    PROVE  /\ ~AddCoinThrows(cache, o, overwrite)
           /\ AddCoin(cache, o, c, overwrite) \in Caches
           /\ FlagsTruthful(AddCoin(cache, o, c, overwrite), under)
           /\ Shown(AddCoin(cache, o, c, overwrite), under) =
                [Shown(cache, under) EXCEPT ![o] = c]
  <1> DEFINE cached == cache[o] # NotCached
             fresh == ~overwrite /\ ~(cached /\ cache[o].dirty)
             e == [coin |-> c, dirty |-> TRUE,
                   fresh |-> fresh \/ (cached /\ cache[o].fresh)]
  <1>1. cached => cache[o] \in Entries
    BY DEF Caches
  <1>2. ~AddCoinThrows(cache, o, overwrite)
    BY DEF AddCoinThrows, Shown
  <1>3. e \in Entries
    BY <1>1 DEF Entries
  <1>4. AddCoin(cache, o, c, overwrite) = [cache EXCEPT ![o] = e]
    BY DEF AddCoin
  <1>5. e.fresh => under[o] = Spent
    <2>1. CASE fresh
      BY <2>1, <1>1 DEF FlagsTruthful, Shown
    <2>2. CASE ~fresh
      BY <2>2 DEF FlagsTruthful
    <2>3. QED
      BY <2>1, <2>2
  <1> HIDE DEF e
  <1>6. e.coin = c /\ e.dirty
    BY DEF e
  <1>7. FlagsTruthful([cache EXCEPT ![o] = e], under)
    BY <1>3, <1>5, <1>6 DEF FlagsTruthful, Caches
  <1>8. Shown([cache EXCEPT ![o] = e], under) = [Shown(cache, under) EXCEPT ![o] = c]
    BY <1>3, <1>6 DEF Shown, Caches
  <1>9. QED
    BY <1>2, <1>3, <1>4, <1>7, <1>8 DEF Caches

\* Spending an entry keeps the flags truthful and shows a spent coin, once the
\* fetch has made sure that an unspent coin below has an entry.
LEMMA SpendEntryOK ==
    ASSUME NEW cache \in Caches, NEW under \in Map, NEW o \in OutPoints,
           FlagsTruthful(cache, under),
           cache[o] = NotCached => under[o] = Spent
    PROVE  /\ SpendEntry(cache, o) \in Caches
           /\ FlagsTruthful(SpendEntry(cache, o), under)
           /\ Shown(SpendEntry(cache, o), under) =
                [Shown(cache, under) EXCEPT ![o] = Spent]
  <1> DEFINE e == [coin |-> Spent, dirty |-> TRUE, fresh |-> FALSE]
  <1>0. e \in Entries
    BY DEF Entries
  <1>1. CASE cache[o] = NotCached
    BY <1>1 DEF SpendEntry, Shown
  <1>2. CASE cache[o] # NotCached /\ cache[o].fresh
    BY <1>2 DEF SpendEntry, Shown, FlagsTruthful, Caches
  <1>3. CASE cache[o] # NotCached /\ ~cache[o].fresh
    <2>1. SpendEntry(cache, o) = [cache EXCEPT ![o] = e]
      BY <1>3 DEF SpendEntry
    <2>2. e.coin = Spent /\ e.dirty /\ ~e.fresh
      OBVIOUS
    <2> HIDE DEF e
    <2>3. [cache EXCEPT ![o] = e] \in Caches
      BY <1>0 DEF Caches
    <2>4. FlagsTruthful([cache EXCEPT ![o] = e], under)
      BY <1>0, <2>2 DEF FlagsTruthful, Caches
    <2>5. Shown([cache EXCEPT ![o] = e], under) = [Shown(cache, under) EXCEPT ![o] = Spent]
      BY <1>0, <2>2 DEF Shown, Caches
    <2>6. QED
      BY <2>1, <2>3, <2>4, <2>5
  <1>4. QED
    BY <1>1, <1>2, <1>3

\* With truthful flags the child's entries are never FRESH over an unspent
\* coin of the parent, and the parent that took them shows what the child did.
LEMMA BatchWriteOK ==
    ASSUME NEW parent \in Caches, NEW child \in Caches, NEW under \in Map,
           FlagsTruthful(parent, under),
           FlagsTruthful(child, Shown(parent, under))
    PROVE  /\ ~FreshMisapplied(parent, child)
           /\ BatchWrite(parent, child) \in Caches
           /\ FlagsTruthful(BatchWrite(parent, child), under)
           /\ Shown(BatchWrite(parent, child), under) =
                Shown(child, Shown(parent, under))
  <1>1. ~FreshMisapplied(parent, child)
    BY DEF FreshMisapplied, FlagsTruthful, Shown
  <1>2. ASSUME NEW o \in OutPoints
        PROVE  LET m == MergeEntry(parent[o], child[o]) IN
               /\ m \in Entries \cup {NotCached}
               /\ m # NotCached =>
                    /\ ~m.dirty => m.coin = under[o] /\ under[o] # Spent
                    /\ m.fresh => under[o] = Spent /\ m.dirty /\ m.coin # Spent
               /\ Shown(child, Shown(parent, under))[o] =
                    IF m = NotCached THEN under[o] ELSE m.coin
    <2> DEFINE p == parent[o]
               c == child[o]
               s == Shown(parent, under)[o]
    <2>1. p \in Entries \cup {NotCached} /\ c \in Entries \cup {NotCached}
      BY DEF Caches
    <2>2. s = IF p = NotCached THEN under[o] ELSE p.coin
      BY DEF Shown
    <2>3. Shown(child, Shown(parent, under))[o] = IF c = NotCached THEN s ELSE c.coin
      BY DEF Shown
    <2>4. p # NotCached =>
            /\ ~p.dirty => p.coin = under[o] /\ under[o] # Spent
            /\ p.fresh => under[o] = Spent /\ p.dirty /\ p.coin # Spent
      BY DEF FlagsTruthful
    <2>5. c # NotCached =>
            /\ ~c.dirty => c.coin = s /\ s # Spent
            /\ c.fresh => s = Spent /\ c.dirty /\ c.coin # Spent
      BY DEF FlagsTruthful
    <2> HIDE DEF p, c, s
    <2>6. MergeEntry(p, c) \in Entries \cup {NotCached}
      BY <2>1 DEF MergeEntry, Entries
    <2>7. CASE c = NotCached
      BY <2>7, <2>2, <2>3, <2>4, <2>6 DEF MergeEntry, p, c
    <2>8. CASE c # NotCached /\ ~c.dirty
      BY <2>8, <2>2, <2>3, <2>4, <2>5, <2>6 DEF MergeEntry, p, c
    <2>9. CASE c # NotCached /\ c.dirty /\ ~(p # NotCached /\ p.fresh /\ c.coin = Spent)
      <3> DEFINE f == IF p = NotCached THEN c.fresh ELSE p.fresh
                 e == [coin |-> c.coin, dirty |-> TRUE, fresh |-> f]
      <3>1. f \in BOOLEAN
        BY <2>1, <2>9 DEF Entries
      <3>2. MergeEntry(p, c) = e
        BY <2>5, <2>9 DEF MergeEntry
      <3>3. f => under[o] = Spent /\ c.coin # Spent
        BY <2>2, <2>4, <2>5, <2>9
      <3> HIDE DEF f
      <3>4. e \in Entries /\ e.coin = c.coin /\ e.dirty /\ e.fresh = f
        BY <2>1, <2>9, <3>1 DEF Entries
      <3> HIDE DEF e
      <3>5. e # NotCached
        BY <3>4
      <3>6. QED
        BY <2>9, <2>3, <3>2, <3>3, <3>4, <3>5 DEF p, c
    <2>10. CASE c # NotCached /\ c.dirty /\ p # NotCached /\ p.fresh /\ c.coin = Spent
      BY <2>10, <2>3, <2>4 DEF MergeEntry, p, c
    <2>11. QED
      BY <2>7, <2>8, <2>9, <2>10
  <1>3. BatchWrite(parent, child) \in Caches
    BY <1>2 DEF BatchWrite, Caches
  <1>4. FlagsTruthful(BatchWrite(parent, child), under)
    BY <1>2 DEF BatchWrite, FlagsTruthful
  <1>5. Shown(BatchWrite(parent, child), under) = Shown(child, Shown(parent, under))
    <2>1. \A o \in OutPoints : Shown(BatchWrite(parent, child), under)[o] =
                                Shown(child, Shown(parent, under))[o]
      BY <1>2 DEF BatchWrite, Shown
    <2>2. QED
      BY <2>1 DEF Shown
  <1>6. QED
    BY <1>1, <1>3, <1>4, <1>5

-----------------------------------------------------------------------------
(* The steps.  Each one keeps the invariant and is a step, or a stutter,    *)
(* of the plain maps.                                                      *)

\* The two layers hold maps, and a read through the tip changes no layer's coins.
LEMMA ReadThrough ==
    ASSUME IInv, NEW o \in OutPoints
    PROVE  /\ TipCoins \in Map
           /\ FetchThroughTip(o) \in Caches
           /\ FlagsTruthful(FetchThroughTip(o), db)
           /\ Shown(FetchThroughTip(o), db) = TipCoins
           /\ FetchCoin(view, TipCoins, o) \in Caches
           /\ FlagsTruthful(FetchCoin(view, TipCoins, o), TipCoins)
           /\ Shown(FetchCoin(view, TipCoins, o), TipCoins) = ViewCoins
           /\ FetchCoin(view, TipCoins, o)[o] = NotCached => TipCoins[o] = Spent
  <1>1. db \in Map /\ tip \in Caches /\ view \in Caches
    BY DEF IInv, TypeOK, Map
  <1>2. FlagsTruthful(tip, db) /\ FlagsTruthful(view, TipCoins)
    BY DEF IInv, FlagsInv
  <1>3. TipCoins \in Map
    BY <1>1, ShownType DEF TipCoins
  <1>4. FetchCoin(view, TipCoins, o)[o] = NotCached => TipCoins[o] = Spent
    <2>1. [coin |-> TipCoins[o], dirty |-> FALSE, fresh |-> FALSE] \in Entries
      BY <1>3 DEF Entries, Map
    <2>2. QED
      BY <1>1, <2>1 DEF FetchCoin, Caches
  <1>5. QED
    BY <1>1, <1>2, <1>3, <1>4, FetchCoinOK DEF FetchThroughTip, TipCoins, ViewCoins

\* A step that leaves the block hashes and the database alone, keeps what the
\* tip shows, and gives the view a cache with truthful flags, keeps IInv.
LEMMA ViewStepInv ==
    ASSUME IInv, open, NEW w,
           tip' \in Caches, FlagsTruthful(tip', db), Shown(tip', db) = TipCoins,
           view' = w, w \in Caches, FlagsTruthful(w, TipCoins), thrown' = thrown,
           UNCHANGED <<db, open, dbHash, tipHash, viewHash>>
    PROVE  /\ IInv'
           /\ TipCoins' = TipCoins
           /\ ViewCoins' = Shown(w, TipCoins)
           /\ UNCHANGED <<TipBest, ViewBest>>
  <1>1. TipCoins' = TipCoins
    BY DEF TipCoins
  <1>2. ViewCoins' = Shown(w, TipCoins)
    BY <1>1 DEF ViewCoins
  <1>3. FlagsInv'
    BY <1>1 DEF FlagsInv
  <1>4. IInv'
    BY <1>3 DEF IInv, TypeOK, ClosedViewEmpty, NoLogicError
  <1>5. QED
    BY <1>1, <1>2, <1>4 DEF TipBest, ViewBest

\* A view with no entries shows what the layer below shows.
LEMMA EmptyShows ==
    ASSUME NEW under \in Map
    PROVE  /\ Shown(EmptyCache, under) = under
           /\ EmptyCache \in Caches
           /\ FlagsTruthful(EmptyCache, under)
  BY DEF Shown, EmptyCache, Caches, FlagsTruthful, Map

\* ReadView: nothing a caller can see changes.
LEMMA ReadViewStep ==
    ASSUME IInv, NEW o \in OutPoints, ReadView(o)
    PROVE  IInv' /\ UNCHANGED Layers!vars
  <1>1. /\ IInv' /\ TipCoins' = TipCoins
        /\ ViewCoins' = Shown(FetchCoin(view, TipCoins, o), TipCoins)
        /\ UNCHANGED <<TipBest, ViewBest>>
    BY ReadThrough, ViewStepInv DEF ReadView, TipCoins, IInv, NoLogicError
  <1>2. QED
    BY <1>1, ReadThrough DEF Layers!vars, ReadView

\* SpendCoin: the view loses one coin.
LEMMA SpendCoinStep ==
    ASSUME IInv, NEW o \in OutPoints, SpendCoin(o)
    PROVE  IInv' /\ Layers!Write
  <1> DEFINE f == FetchCoin(view, TipCoins, o)
             w == SpendEntry(f, o)
  <1>1. /\ w \in Caches /\ FlagsTruthful(w, TipCoins)
        /\ Shown(w, TipCoins) = [ViewCoins EXCEPT ![o] = Spent]
    <2>1. /\ f \in Caches /\ FlagsTruthful(f, TipCoins) /\ TipCoins \in Map
          /\ f[o] = NotCached => TipCoins[o] = Spent
          /\ Shown(f, TipCoins) = ViewCoins
      BY ReadThrough
    <2> HIDE DEF f
    <2>2. QED
      BY <2>1, SpendEntryOK
  <1>2. view' = w /\ open /\ tip' = FetchThroughTip(o)
    BY DEF SpendCoin
  <1> HIDE DEF w
  <1>3. /\ IInv' /\ TipCoins' = TipCoins
        /\ ViewCoins' = [ViewCoins EXCEPT ![o] = Spent]
        /\ UNCHANGED <<TipBest, ViewBest>>
    BY <1>1, <1>2, ReadThrough, ViewStepInv DEF SpendCoin, IInv, NoLogicError
  <1>4. QED
    BY <1>3 DEF Layers!Write, SpendCoin

\* ApplyTxInUndo: the view gains one coin, whatever was there.
LEMMA ApplyTxInUndoStep ==
    ASSUME IInv, NEW o \in OutPoints, NEW c \in Coins, ApplyTxInUndo(o, c)
    PROVE  IInv' /\ Layers!Write
  <1> DEFINE f == FetchCoin(view, TipCoins, o)
             overwrite == ~(f[o] = NotCached \/ f[o].coin = Spent)
             w == AddCoin(f, o, c, overwrite)
  <1>1. /\ ~AddCoinThrows(f, o, overwrite)
        /\ w \in Caches /\ FlagsTruthful(w, TipCoins)
        /\ Shown(w, TipCoins) = [ViewCoins EXCEPT ![o] = c]
    <2>1. /\ f \in Caches /\ FlagsTruthful(f, TipCoins) /\ TipCoins \in Map
          /\ f[o] = NotCached => TipCoins[o] = Spent
          /\ Shown(f, TipCoins) = ViewCoins
      BY ReadThrough
    <2>2. overwrite \/ Shown(f, TipCoins)[o] = Spent
      BY <2>1 DEF Shown
    <2> HIDE DEF f
    <2>3. overwrite \in BOOLEAN
      OBVIOUS
    <2> HIDE DEF overwrite
    <2>4. QED
      BY <2>1, <2>2, <2>3, AddCoinOK
  <1>2. view' = w /\ open /\ tip' = FetchThroughTip(o) /\ thrown' = thrown
    BY <1>1 DEF ApplyTxInUndo, IInv, NoLogicError
  <1> HIDE DEF w
  <1>3. /\ IInv' /\ TipCoins' = TipCoins
        /\ ViewCoins' = [ViewCoins EXCEPT ![o] = c]
        /\ UNCHANGED <<TipBest, ViewBest>>
    BY <1>1, <1>2, ReadThrough, ViewStepInv DEF ApplyTxInUndo
  <1>4. QED
    BY <1>3 DEF Layers!Write, ApplyTxInUndo

\* AddOutput: the view gains one coin, and AddCoin does not throw.
LEMMA AddOutputStep ==
    ASSUME IInv, NEW o \in OutPoints, NEW c \in Coins, NEW fCoinbase \in BOOLEAN,
           AddOutput(o, c, fCoinbase)
    PROVE  IInv' /\ Layers!Write
  <1> DEFINE w == AddCoin(view, o, c, fCoinbase)
  <1>1. /\ ~AddCoinThrows(view, o, fCoinbase)
        /\ w \in Caches /\ FlagsTruthful(w, TipCoins)
        /\ Shown(w, TipCoins) = [ViewCoins EXCEPT ![o] = c]
    BY ReadThrough, AddCoinOK DEF AddOutput, ViewCoins, IInv, FlagsInv, TypeOK
  <1>2. view' = w /\ open /\ tip' = tip /\ thrown' = thrown
    BY <1>1 DEF AddOutput, IInv, NoLogicError
  <1> HIDE DEF w
  <1>3. tip \in Caches /\ FlagsTruthful(tip, db) /\ Shown(tip, db) = TipCoins
    BY DEF IInv, FlagsInv, TypeOK, TipCoins
  <1>4. /\ IInv' /\ TipCoins' = TipCoins
        /\ ViewCoins' = [ViewCoins EXCEPT ![o] = c]
        /\ UNCHANGED <<TipBest, ViewBest>>
    BY <1>1, <1>2, <1>3, ViewStepInv DEF AddOutput
  <1>5. QED
    BY <1>4 DEF Layers!Write, AddOutput
\* FlushView: the tip takes over the view, and BatchWrite does not throw.
LEMMA FlushViewStep ==
    ASSUME IInv, FlushView
    PROVE  IInv' /\ Layers!Flush
  <1>1. /\ db \in Map /\ tip \in Caches /\ view \in Caches
        /\ FlagsTruthful(tip, db) /\ FlagsTruthful(view, Shown(tip, db))
    BY DEF IInv, TypeOK, FlagsInv, TipCoins, Map
  <1>2. /\ ~FreshMisapplied(tip, view)
        /\ BatchWrite(tip, view) \in Caches
        /\ FlagsTruthful(BatchWrite(tip, view), db)
        /\ Shown(BatchWrite(tip, view), db) = ViewCoins
    BY <1>1, BatchWriteOK DEF ViewCoins, TipCoins
  <1>3. /\ open /\ viewHash # Null
        /\ tip' = BatchWrite(tip, view) /\ tipHash' = viewHash
        /\ view' = EmptyCache /\ viewHash' = Null /\ open' = FALSE
        /\ thrown' = thrown /\ db' = db /\ dbHash' = dbHash
    BY <1>2 DEF FlushView
  <1>4. TipCoins' = ViewCoins
    BY <1>2, <1>3 DEF TipCoins
  <1>5. TipCoins' \in Map
    BY <1>1, <1>2, <1>3, ShownType DEF TipCoins
  <1>6. ViewCoins' = ViewCoins
    BY <1>3, <1>4, <1>5, EmptyShows DEF ViewCoins
  <1>7. FlagsInv'
    BY <1>2, <1>3, <1>5, EmptyShows DEF FlagsInv
  <1>8. IInv'
    BY <1>2, <1>3, <1>5, <1>7, EmptyShows
       DEF IInv, TypeOK, ClosedViewEmpty, NoLogicError
  <1>9. TipBest' = ViewBest /\ ViewBest' = ViewBest
    BY <1>3 DEF TipBest, ViewBest
  <1>10. QED
    BY <1>3, <1>4, <1>6, <1>8, <1>9 DEF Layers!Flush

\* FlushTip: the database takes over the tip, which then has no entries.
LEMMA FlushTipStep ==
    ASSUME IInv, FlushTip
    PROVE  IInv' /\ Layers!FlushTip
  <1>1. /\ db \in Map /\ tip \in Caches /\ FlagsTruthful(tip, db)
        /\ view = EmptyCache /\ viewHash = Null /\ ~open
    BY DEF IInv, TypeOK, FlagsInv, Map, ClosedViewEmpty, FlushTip
  <1>2. db' = TipCoins
    <2>1. \A o \in OutPoints : db'[o] = TipCoins[o]
      BY <1>1 DEF FlushTip, TipCoins, Shown, FlagsTruthful
    <2>2. QED
      BY <2>1 DEF FlushTip, TipCoins, Shown
  <1>3. TipCoins \in Map
    BY <1>1, ShownType DEF TipCoins
  <1>4. TipCoins' = TipCoins
    BY <1>2, <1>3, EmptyShows DEF TipCoins, FlushTip
  <1>5. ViewCoins' = ViewCoins
    BY <1>4 DEF ViewCoins, FlushTip
  <1>6. FlagsInv'
    BY <1>1, <1>2, <1>3, <1>4, EmptyShows DEF FlagsInv, FlushTip
  <1>7. IInv'
    BY <1>1, <1>2, <1>3, <1>6, EmptyShows
       DEF IInv, TypeOK, ClosedViewEmpty, NoLogicError, FlushTip, Map
  <1>8. /\ TipBest' = TipBest /\ ViewBest' = ViewBest /\ dbHash' = TipBest
    BY DEF TipBest, ViewBest, FlushTip
  <1>9. QED
    BY <1>2, <1>4, <1>5, <1>7, <1>8 DEF Layers!FlushTip, FlushTip

\* Reading or uncaching a clean entry of pcoinsTip changes no layer's coins.
LEMMA TipStepStep ==
    ASSUME IInv, NEW o \in OutPoints, TipStep(o)
    PROVE  IInv' /\ UNCHANGED Layers!vars
  <1>1. db \in Map /\ tip \in Caches /\ FlagsTruthful(tip, db)
    BY DEF IInv, TypeOK, FlagsInv, Map
  <1>2. tip' \in Caches /\ FlagsTruthful(tip', db) /\ Shown(tip', db) = Shown(tip, db)
    <2>1. CASE ReadTip(o)
      BY <1>1, <2>1, FetchCoinOK DEF ReadTip
    <2>2. CASE Uncache(o)
      BY <1>1, <2>2 DEF Uncache, Caches, FlagsTruthful, Shown
    <2>3. QED
      BY <2>1, <2>2 DEF TipStep
  <1>3. UNCHANGED <<db, view, open, dbHash, tipHash, viewHash, thrown>>
    BY DEF TipStep, ReadTip, Uncache
  <1>4. TipCoins' = TipCoins
    BY <1>2, <1>3 DEF TipCoins
  <1>5. ViewCoins' = ViewCoins
    BY <1>3, <1>4 DEF ViewCoins
  <1>6. IInv'
    BY <1>2, <1>3, <1>4 DEF IInv, TypeOK, FlagsInv, ClosedViewEmpty, NoLogicError
  <1>7. QED
    BY <1>3, <1>4, <1>5, <1>6 DEF Layers!vars, TipBest, ViewBest

\* The steps that touch no coin.
LEMMA HashStep ==
    ASSUME IInv, OpenView \/ GetBestBlock \/ (\E b \in Blocks : SetBestBlock(b))
    PROVE  IInv' /\ (Layers!Open \/ Layers!SetBest \/ UNCHANGED Layers!vars)
  <1>1. UNCHANGED <<db, tip, view, dbHash, thrown>>
    BY DEF OpenView, GetBestBlock, SetBestBlock
  <1>2. UNCHANGED <<TipCoins, ViewCoins>>
    BY <1>1 DEF TipCoins, ViewCoins
  <1>3. FlagsInv'
    BY <1>1, <1>2 DEF IInv, FlagsInv
  <1>4. CASE OpenView
    <2>1. ViewCoins = TipCoins
      <3>1. db \in Map /\ tip \in Caches
        BY DEF IInv, TypeOK, Map
      <3>2. QED
        BY <1>4, <3>1, ShownType, EmptyShows
           DEF OpenView, IInv, ClosedViewEmpty, ViewCoins, TipCoins
    <2>2. ViewBest = TipBest
      BY <1>4 DEF OpenView, IInv, ClosedViewEmpty, ViewBest, TipBest
    <2>3. UNCHANGED <<TipBest, ViewBest>>
      BY <1>4 DEF OpenView, TipBest, ViewBest
    <2>4. IInv'
      BY <1>1, <1>3, <1>4 DEF OpenView, IInv, TypeOK, ClosedViewEmpty, NoLogicError
    <2>5. QED
      BY <1>1, <1>2, <1>4, <2>1, <2>2, <2>3, <2>4 DEF OpenView, Layers!Open
  <1>5. CASE GetBestBlock
    <2>1. UNCHANGED <<TipBest, ViewBest>>
      BY <1>5 DEF GetBestBlock, TipBest, ViewBest
    <2>2. IInv'
      BY <1>1, <1>3, <1>5
         DEF GetBestBlock, IInv, TypeOK, ClosedViewEmpty, NoLogicError, TipBest, ViewBest
    <2>3. QED
      BY <1>1, <1>2, <1>5, <2>1, <2>2 DEF GetBestBlock, Layers!vars
  <1>6. ASSUME NEW b \in Blocks, SetBestBlock(b)
        PROVE  IInv' /\ Layers!SetBest
    <2>1. TipBest' = TipBest /\ ViewBest' = b
      BY <1>6 DEF SetBestBlock, TipBest, ViewBest
    <2>2. IInv'
      BY <1>1, <1>3, <1>6 DEF SetBestBlock, IInv, TypeOK, ClosedViewEmpty, NoLogicError
    <2>3. QED
      BY <1>1, <1>2, <1>6, <2>1, <2>2 DEF SetBestBlock, Layers!SetBest
  <1>7. QED
    BY <1>4, <1>5, <1>6

\* DropView: the view shows the tip again.
LEMMA DropViewStep ==
    ASSUME IInv, DropView
    PROVE  IInv' /\ Layers!Drop
  <1>1. db \in Map /\ tip \in Caches
    BY DEF IInv, TypeOK, Map
  <1>2. TipCoins \in Map /\ TipCoins' = TipCoins
    BY <1>1, ShownType DEF TipCoins, DropView
  <1>3. ViewCoins' = TipCoins
    BY <1>2, EmptyShows DEF ViewCoins, DropView
  <1>4. FlagsInv'
    BY <1>2, EmptyShows DEF FlagsInv, IInv, DropView
  <1>5. IInv'
    BY <1>2, <1>4, EmptyShows
       DEF IInv, TypeOK, ClosedViewEmpty, NoLogicError, DropView
  <1>6. TipBest' = TipBest /\ ViewBest' = TipBest
    BY DEF DropView, TipBest, ViewBest
  <1>7. QED
    BY <1>2, <1>3, <1>5, <1>6 DEF Layers!Drop, DropView

\* Every step of the caches keeps IInv and is allowed by the plain maps.
LEMMA NextStep ==
    ASSUME IInv, [Next]_vars
    PROVE  IInv' /\ [Layers!Next]_(Layers!vars)
  <1>1. CASE UNCHANGED vars
    <2>1. UNCHANGED <<TipCoins, ViewCoins, TipBest, ViewBest>>
      BY <1>1 DEF vars, TipCoins, ViewCoins, TipBest, ViewBest
    <2>2. QED
      BY <1>1, <2>1
         DEF vars, IInv, TypeOK, FlagsInv, ClosedViewEmpty, NoLogicError, Layers!vars
  <1>2. ASSUME NEW o \in OutPoints, ViewStep(o)
        PROVE  IInv' /\ [Layers!Next]_(Layers!vars)
    BY <1>2, ReadViewStep, SpendCoinStep, ApplyTxInUndoStep, AddOutputStep
       DEF ViewStep, Layers!Next
  <1>3. ASSUME NEW o \in OutPoints, TipStep(o)
        PROVE  IInv' /\ [Layers!Next]_(Layers!vars)
    BY <1>3, TipStepStep
  <1>4. CASE OpenView \/ GetBestBlock \/ (\E b \in Blocks : SetBestBlock(b))
    BY <1>4, HashStep DEF Layers!Next
  <1>5. CASE FlushView
    BY <1>5, FlushViewStep DEF Layers!Next
  <1>6. CASE DropView
    BY <1>6, DropViewStep DEF Layers!Next
  <1>7. CASE FlushTip
    BY <1>7, FlushTipStep DEF Layers!Next
  <1>8. QED
    BY <1>1, <1>2, <1>3, <1>4, <1>5, <1>6, <1>7 DEF Next

\* Empty caches over an empty database satisfy IInv and are empty plain maps.
LEMMA InitStep ==
    ASSUME Init
    PROVE  IInv /\ Layers!Init
  <1>1. db \in Map
    BY DEF Init, Map
  <1>2. TipCoins = db /\ ViewCoins = db
    BY <1>1, EmptyShows DEF Init, TipCoins, ViewCoins
  <1>3. IInv
    BY <1>1, <1>2, EmptyShows
       DEF Init, IInv, TypeOK, FlagsInv, ClosedViewEmpty, NoLogicError, Map
  <1>4. QED
    BY <1>2, <1>3 DEF Init, Layers!Init, TipBest, ViewBest

-----------------------------------------------------------------------------

\* The flags of both caches are truthful in every reachable state, whatever
\* the order of reads, writes, uncaching and flushes: coins.h's condition for
\* marking an entry FRESH is always met.
THEOREM FlagsAlwaysTruthful == Spec => []FlagsInv
  <1>1. Init => IInv
    BY InitStep
  <1>2. IInv /\ [Next]_vars => IInv'
    BY NextStep
  <1>3. IInv => FlagsInv
    BY DEF IInv
  <1>4. QED
    BY <1>1, <1>2, <1>3, PTL DEF Spec

\* The logic_errors of AddCoin and BatchWrite are unreachable.
THEOREM LogicErrorUnreachable == Spec => []NoLogicError
  <1>1. Init => IInv
    BY InitStep
  <1>2. IInv /\ [Next]_vars => IInv'
    BY NextStep
  <1>3. IInv => NoLogicError
    BY DEF IInv
  <1>4. QED
    BY <1>1, <1>2, <1>3, PTL DEF Spec

\* The caches implement three plain maps: a flush hands down exactly what the
\* layer showed, and a dropped view leaves nothing behind.
THEOREM CachesImplementLayers == Spec => RefinesLayers
  <1>1. Init => IInv /\ Layers!Init
    BY InitStep
  <1>2. IInv /\ [Next]_vars => IInv' /\ [Layers!Next]_(Layers!vars)
    BY NextStep
  <1>3. QED
    BY <1>1, <1>2, PTL DEF Spec, RefinesLayers, Layers!Spec
=============================================================================
