# A TLA+ verification of catoshi

catoshi is a node, wallet and set of tools for several Bitcoin-like coins, built
from one code base (Bitcoin Core 0.15/0.16 with per-brand parameters). This
directory holds TLA+ modules for the parts of it in which state survives a lock
release, a thread switch, a message or a crash, the TLC configurations that check
them, and TLAPS proofs. Paths are relative to the repository; the code is under `src/`.

    tlc -workers 2 -config MCCoinsCache.cfg MCCoinsCache     model-check a run
    tlapm CoinsCacheProofs.tla                               check the proofs

`PROJECT.json` lists every component, run, theorem and hazard, and maps each
definition to the lines it models.

## 1. The system

| part | state | operations | what makes it hard | module |
|---|---|---|---|---|
| coins cache (`coins.cpp`) | `cacheCoins` with DIRTY/FRESH flags in each layer, `hashBlock` | AddCoin, SpendCoin, AccessCoin, BatchWrite, Flush, Uncache | a FRESH flag is a promise about another layer | CoinsCache, UtxoLayers |
| block index and best chain (`validation.cpp`) | `mapBlockIndex`, status bits, `setBlockIndexCandidates`, `mapBlocksUnlinked`, `g_failed_blocks`, `chainActive`, sequence ids | accept header/block, ActivateBestChain, invalidate, reconsider, precious, prune, restart | blocks in any order; failing reorganizations; `cs_main` released between rounds | ChainState |
| script check queue (`checkqueue.h`) | `queue`, `nIdle`, `nTotal`, `nTodo`, `fAllOk` | Loop, Add, Wait, control | wake-ups, early return, interruption inside `cond.wait` | CheckQueue |
| chainstate database (`txdb.cpp`, ReplayBlocks) | coins, best block, head blocks; block index on disk | connect, disconnect, flush in batches, replay | crash between batches, crash during replay, loss of unsynced batches | CoinsDB |
| scheduler (`scheduler.cpp`) | `taskQueue`, stop flags, `m_callbacks_pending`, `m_are_callbacks_running` | serviceQueue, schedule, stop, AddToProcessQueue, ProcessQueue | a decision under one mutex carried out under another | Scheduler |
| HTTP work queue (`httpserver.cpp`) | `queue`, `running`, `numThreads` | Enqueue, Run, Interrupt, WaitExit | full queue, deletion under running threads | WorkQueue |
| shutdown (`init.cpp`, `bitcoind.cpp`, `validationinterface.cpp`) | how far the main thread is | Interrupt, join, StopHTTPServer, flush, empty the callbacks | everyone waits for someone | Shutdown |
| block download (`net_processing.cpp`) | `CNodeState`, `mapBlocksInFlight`, `mapBlockSource`, five global counters | headers, blocks, compact blocks, SendMessages with its time-outs, FinalizeNode | counters kept in step by hand on every path; slow peers | BlockDownload |
| connections (`net.cpp`) | `vNodes`, `vNodesDisconnected`, reference counts, copies held by threads | add, mark, disconnect, delete, stop | deletion racing users | ConnMan, NodeLife |
| orphan transactions (`net_processing.cpp`) | `mapOrphanTransactions`, `mapOrphanTransactionsByPrev`, `recentRejects` | TX, EraseOrphansFor, LimitOrphanTxSize, BlockConnected | two maps in step, deferred callbacks, peers that go | OrphanTx, Relay |
| memory pool (`txmempool.cpp`, `validation.cpp`) | `mapTx` with its totals, `mapLinks`, `mapNextTx`, `mapDeltas`, DisconnectedBlockTransactions | accept, replace, expire, trim, prioritise, connect and disconnect a block, UpdateMempoolForReorg | totals are updated incrementally and are wrong in mid-reorganization | TxPool, PoolReorg |
| `mempool.dat` (`validation.cpp`, `init.cpp`) | the file, `fDumpMempoolLater` | DumpMempool, LoadMempool, savemempool | order of entries, stopping or saving while loading | PoolFile |
| block assembly (`miner.cpp`) | none that lasts | CreateNewBlock, addPackageTxs | cached totals of modified entries | BlockAssembler |
| address manager (`addrman.cpp`) | new and tried tables, reference counts | Add, Good, Attempt | eviction chains | none |
| wallet keys (`wallet/`) | key pool, master keys, database | reserve, keep, return, encrypt | crash between steps | none |
| block files (`validation.cpp`) | `vinfoBlockFile`, files | FindBlockPos, prune, flush | crash between two files | none |
| version bits, network time, locked pool | small tables | pure algorithms | boundaries | none |

How the parts meet. ActivateBestChain (ChainState) connects a block through a
short-lived view on the coins cache (CoinsCache) while the check queue verifies
its scripts (CheckQueue), and carries the memory pool over (PoolReorg, which
composes TxPool with a chain; BlockAssembler and PoolFile sit on top of it);
FlushStateToDisk hands the cache to the database (CoinsDB); each connected block
becomes a callback of the scheduler (Scheduler), on which RPC handlers of the work
queue may wait (WorkQueue; Shutdown composes the three). The threads of CConnman
(ConnMan) call the message handlers: Relay composes ConnMan with OrphanTx, and
BlockDownload relies on the abstract life of a node (NodeLife) that ConnMan is shown
to implement. The remaining neighbours are constants or free choices: ChainState
takes the verdict of ConnectBlock as a constant set of bad blocks, CheckQueue the
result of each check, OrphanTx the verdict of AcceptToMemoryPool from the
inputs, CoinsDB the effect of CoinsCache (proved to be that of plain maps) as one map
with a set of DIRTY outpoints.

## 2. Modules

**CoinsCache** has three layers: the database `db`, `pcoinsTip` (`tip`) and the
view ConnectTip, DisconnectTip and TestBlockValidity open on top (`view`). All
operations run under `cs_main`, so each is one step. FetchCoin through the view
also fills `tip`, as the recursive call does. **UtxoLayers** is the abstract
specification: three plain maps with no flags.

**ChainState** has one step per critical section of `cs_main`. ProcessNewBlock
and ProcessNewBlockHeaders include AcceptBlockHeader, AcceptBlock,
ReceivedBlockTransactions and the walk that marks descendants of failed blocks;
ActivateBestChain is one round of its loop with FindMostWorkChain,
ActivateBestChainStep, InvalidBlockFound and PruneBlockIndexCandidates, and keeps
`pindexMostWork` per thread; InvalidateBlock, ReconsiderBlock, PreciousBlock and
PruneBlock follow; Restart is LoadBlockIndex with what is rebuilt and what is lost.
The order of pointers, which the comparator falls back to, is one of the
constant `Addresses`. A behaviour chooses at its start one of `Usages`: which RPCs
and restarts may be called, by which threads, over which blocks, and which blocks may be
found damaged when they are read from disk (`damaged`): DisconnectTip then fails, and
ConnectBlock reports a possible corruption, for which InvalidBlockFound marks nothing. The
index is taken to be flushed when the node restarts (CoinsDB is about crashes). Two history
variables name what CheckBlockIndex does not account for: `forgotten`, the received blocks
that nothing will link any more, and `pardoned`, the blocks whose mark reconsiderblock took
off for the sake of a descendant.

**CheckQueue** has one step per critical section of the queue's mutex, with
notified, spurious and interrupted returns from `cond.wait` apart.

**CoinsDB** has blocks with real transactions over a few outpoints. BatchWrite
writes any set of the DIRTY entries per partial batch; Crash keeps what LevelDB
wrote (the process died) or what it had synced (the machine did).

**Scheduler**, **WorkQueue** and their composition **Shutdown** have one step
per critical section. The periodic task "tick" stands for scheduleEvery.
`finished` and `added` are history variables for the order of callbacks.

**BlockDownload** has one step per message handled and per SendMessages, both under
`cs_main`. The handlers are written as operators on the record `Now` of all that
they may change, so that a handler that calls another is the composition of two
operators, as in the code. ProcessNewBlock with ActivateBestChain is a step of its
own (ProcessBlock), after the handler has released `cs_main`; its effect on the chain
is that of a constant set of bad blocks. A time-out fires by choice: a timer that
is running may be late for a peer in `Slow`, for no other. Which messages a
peer sends is one of `Companies`, chosen at the start. One of them has a slow peer that
repeats a BLOCKTXN; after one that could not be used the second meets the assert of
FillBlock, and the step "assert" is the end of the node.

**NodeLife** is what the message handlers are promised: a node is initialized once,
finalized once, and that when it is marked and not being served. **ConnMan** has one
step per critical section of `cs_vNodes`. **OrphanTx** has the TX handler with its
work queue (`Resolve`), the random eviction of LimitOrphanTxSize as a choice, and
BlockConnected as a callback that runs some time after the block. The chain, the pool and
the RPCs change without a look at the orphans; the history variable `overlooked` holds the
orphans that nobody tried when all they spend was there. **Relay** composes
the two: a served node handles at most one TX, FinalizeNode is DeleteNode with
EraseOrphansFor.

**TxPool** has the bookkeeping of CTxMemPool as operators on the pool's record:
addUnchecked, removeUnchecked, UpdateForRemoveFromMempool, UpdateForDescendants,
UpdateTransactionsFromBlock, TrimToSize, PrioritiseTransaction. **PoolReorg** adds
AcceptToMemoryPool with replacement and limits, and the chain: ConnectTip,
DisconnectTip and UpdateMempoolForReorg are separate steps because only `cs_main`
is held between them, and the pool can be read meanwhile. **BlockAssembler** gives
the template of CreateNewBlock as an operator of the state, evaluated wherever
the pool is not in mid-reorganization. **PoolFile** adds the dump at shutdown, the
load at start-up entry by entry with transactions, a shutdown or a crash coming in between,
and savemempool. The history variables `dumped` and `savedEarly` are the pool that the last
shutdown wrote and whether savemempool has since replaced its file by a part of it.

Operators introduced by a comment that begins with "Slip:" are plausible mistakes; no
specification uses them. They serve to show that a property notices the mistake.

## 3. Runs

| run | instance | shows |
|---|---|---|
| `coins_cache` | 2 outpoints, 2 coins, 2 blocks | flags are truthful, neither logic_error is thrown, the caches implement UtxoLayers |
| `chain_sync` | branches A1-A2-A3 and B1-B2-B3 and D2 beside B2; B2 fails ConnectBlock, D2 its body check; eight usages, one of them with two threads and one with a damaged block | the asserts hold, and the checks of CheckBlockIndex, with the exceptions listed below; the best chain is active when a single thread is done; a precious block sorts first among equal work; an activation ends unless a damaged block is ahead (104,951 states) |
| `check_queue` | 2 workers, 2 masters, 3 checks, batch of 2 | Wait's answer is exact, counters exact, the queue is clean between controls, no wake-up is lost |
| `coins_db` | G-P1, then A2 or B2-B3; 4 outpoints | after any crashes the node starts and its coins are those of the tip (159,102 states) |
| `shutdown` | 2 scheduler threads, 1 worker, 2 requests (1 waits for callbacks), depth 1 | callbacks in order, one at a time, none forgotten or lost; no thread is left behind; work gets done (348,074 states) |
| `block_download` | chain G-B1-B2 and an invalid X2-X3 on B1; a prompt peer and a slow one, in four companies | queues, `mapBlocksInFlight` and the counters agree, FinalizeNode's asserts hold, the download completes if a prompt peer stays, unless the assert of FillBlock ends the node (61,138 states) |
| `relay` | 2 peers, 4 transactions, of which T2 spends T1, T3 both of them, and one is invalid, one block that may be disconnected, room for 2 orphans | ConnMan implements NodeLife, marked nodes go, orphans are indexed exactly, have an owner, and wait for something unless they were overlooked (51,064 states) |
| `mempool` | 11 transactions, 6 blocks on three branches, two restarts | totals follow the links at every moment, the pool fits the chain between steps, limits are kept until a reorganization, every block template is valid, a dumped pool is loaded back (123,221 states) |

Four runs exhibit a disagreement between the code and what it says of itself:

* `chain_reconsider_header` (FailedBlocksMarked). Reconsidering a descendant of an
  invalid block clears BLOCK_FAILED_VALID on the ancestors and leaves them in
  `g_failed_blocks`; the next header above them fails the assert of
  AcceptBlockHeader (`validation.cpp:3464`). In `chain_sync`, NoAssertFails therefore
  excepts states with a pardoned block in `g_failed_blocks`.
* `chain_forgotten` (ReceivedMeansLinked). A block received while its parent is marked as
  failed is not entered in `mapBlocksUnlinked`. When the parent has been reconsidered and
  arrives, nothing links the block, against the assert of CheckBlockIndex at
  `validation.cpp:4629` ("All parents having had data (at some point) is equivalent to ...
  nChainTx being set"). A restart links it.
* `chain_race` (BestChainActive). A thread that kept `pindexMostWork` over a
  release of `cs_main` can undo the better chain another thread activated
  meanwhile, and both end ("The result is either failure or an activated best
  chain", `validation.cpp:2759`). `chain_sync` therefore states the property for
  one thread (BestChainActiveAlone).
* `shutdown_rpc` (ShutdownCompletes). StopHTTPServer waits for a worker that
  waits for callbacks which are run only after StopHTTPServer.

CheckBlockIndex (`validation.cpp`) and the comments claim more than the code keeps; the
properties of ChainState say what is kept, and name every exception:

* *Forgotten blocks.* A block received while its parent is marked as failed is not entered in
  `mapBlocksUnlinked` (`WaitsForParent`), and pruning a waiting block takes its entry away
  (`WithoutPruned`). Nothing links such a block, nor what waits above it, until a restart
  or a second delivery. LinkedExact (4629) and UnlinkedExact (4672, 4675) are exact but for
  the variable `forgotten`; `chain_forgotten` checks the claim without it.
* *Pardoned blocks.* reconsiderblock unmarks the ancestors of its block, and leaves their
  other descendants marked without a marked cause (4641), the ancestors in `g_failed_blocks`
  and outside the candidates. FailureHasCause, NoAssertFails, CandidatesExact and
  BestChainActiveAlone except them by the variable `pardoned`.
* *A start-up after pruning* enters pruned blocks that never were linked in
  `mapBlocksUnlinked`, where CheckBlockIndex asserts that data is there (4674).
* *Damaged blocks.* A disconnection that meets one ends half way, which CandidatesExact and
  BestChainActiveAlone except. One that ConnectBlock refuses is not marked, so the loop of
  ActivateBestChain turns to it again and again: ActivationEnds excepts `DamagedAhead`.
* *invalidateblock with pruning or preciousblock.* The tip may lose work, after which a
  block of the active chain that was pruned is received again with a new sequence id, and
  preciousblock hands out an id that is in use. `InvalidatesOnly` excludes this in
  CandidatesExact and BestChainActiveAlone, PreciousPreferred excludes invalidateblock, and
  together with a pardon there may be no candidate left (NoAssertFails).
* *preciousblock at the end of its counter* gives several blocks the same last id
  (PreciousPreferred).
* *Two threads.* invalidateblock may come between two rounds of another thread, which
  then goes on to a target that has just been marked. `Unraced` excludes this in
  AncestryConsistent, `Alone` excludes a second thread in CandidatesExact, where a race
  leaves candidates worse than the tip, and in BestChainActiveAlone.

The other components have such exceptions too, each in the property itself: ChainCompletes
ends where FillBlock's assert fails, OrphansWait excepts the orphans that were overlooked,
PoolReloaded what savemempool replaced.

Bounds. *Chain*: two branches that fork at the root are the least in which a
reorganization, a failing reorganization and an equal-work tie occur; a third block on
one side allows a reorganization in two rounds (the race), and three blocks in a row are
the least in which one is forgotten. The sequence counters are capped by
`MaxSequenceId`, above what the blocks of the instance use, and `MinSequenceId` = -2
lets preciousblock reach the end of its counter. *Check queue*: two workers and two
masters compete for three checks, and a master opens its control twice. With three
checks a thread always takes one at a time (the queue's length over the threads is below
two), so larger batches are left to the theorems, which hold for every batch size and
number of checks. *Database*: one outpoint is created and spent within a block of one
branch and stays unspent, at another height, on the other; one is spent on both
branches, and one is created on one branch only. *Shutdown*: depth 1 with two requests
fills the queue; one callback from the network, one from a request and the two of
FlushStateToDisk overlap in every order. *Download*: with one block per peer in transit
and a window of one block, two peers suffice for a stall (the slow peer holds the only
block of the window), for a second peer that has the block in flight already, and for a
failing block whose source is gone; `MAX_PROTECTED` = 1 lets the protection run out.
*Relay*: `MAX_ORPHANS` = 2 with three possible orphans evicts; T3, which spends both T1
and T2, needs two passes of the work queue. *Memory pool*: `MAX_POOL` makes TrimToSize
evict packages with two of the transactions in it, both ancestor limits are three in a
chain of four, `MAX_DISCONNECTED` lets disconnected transactions overflow, and
`COINBASE_MATURITY` = 2 makes a spend of a coinbase immature by one disconnect.
`MaxStarts` = 2 lets a second shutdown or crash interrupt the load after the first;
restarts come before a reorganization, and only `Meanwhile` may arrive while the pool is
loaded.

Deadlock is not checked where the instance may run out of things to do: in
`chain_sync` and `block_download` the tree is finite, in `relay` all nodes are
gone in the end, and the two shutdown runs end.

Fairness. *CheckQueue*: a thread that can run is run and a check terminates;
nothing is assumed of spurious wake-ups, interrupts or masters before Wait.
*ChainState*: a thread in ActivateBestChain only waits for `cs_main`, which every
critical section gives back. *Shutdown*: every server, worker, the network and the
main thread run when they can; requests, signals, the clock and the decision to stop
are not promised. *Relay*: both threads of CConnman go on with their rounds and a
message handler returns (weak fairness); a disconnected node that is again
and again found unused is deleted (strong fairness, since TRY_LOCK may fail in a
round while another thread holds the node's locks). *BlockDownload*:
ThreadMessageHandler serves every node in turn for ever, so SendMessages is strongly
fair for each peer (its ENABLED is written out as `Due`, which is far cheaper for
TLC); time passes, so a running timer of a slow peer fires in the end; a prompt peer
answers GETHEADERS, GETDATA and GETBLOCKTXN. Nothing is assumed of a slow
peer, of sockets that close or of peers that connect.

## 4. Proofs

All for every value of the constants under the named assumptions.

**CoinsCacheProofs** (assumptions: Spent is no coin, Null no block, NotCached no
entry). The inductive invariant `IInv` is the type, truthful flags in both
layers, an empty closed view and no thrown error. Truthful flags alone
are not inductive: a view opened over left-over entries would break them. From
it: FlagsAlwaysTruthful, LogicErrorUnreachable and the refinement
CachesImplementLayers, in which every fetch and uncache is a stutter of the maps.

**CheckQueueProofs** (finite sets, disjoint roles, a batch size above zero).
`QueueInv` adds to the checked properties where each thread can be (`Places`),
that no check is held twice (`HeldOnce`) and what the flags are evidence of
(`Evidence`: while `fAllOk` holds, all finished checks were good; a cleared flag,
also a thread's stale copy of it, implies a bad check). The exactness of Wait
follows when nothing is outstanding: CountersNeverWrap, TodoAlwaysExact,
WaitAlwaysExact, AlwaysFinishedBeforeContinuing.

**CoinsDBProofs**. `DBInv` says both versions of the database (written and
synced) refer to indexed blocks only and the heads are those of the flush under
way: StartAlwaysSucceeds. `CoinInv` says both are faithful
(a best block names the coins exactly, heads name a mixture of two tips), the
cache shows the tip's coins, and it differs from the database only at DIRTY
entries: AlwaysCoinsOfTip, BestBlockAlwaysTrue, AlwaysOldOrNewCoin. These three
rest on two assumptions about block contents, `BlocksAssumption` (undo data undoes
a block) and `ReplayAssumption` (replaying a mixture gives the new tip's coins).
They speak of recursive definitions over arbitrary chains, which the
prover cannot induct over; TLC evaluates both on the instance.

**ShutdownProofs** (any finite numbers of scheduler threads, workers, clients
and callbacks). `Base` says where each thread can be and what it then
holds, that running tasks and waiting requests are where their threads are, and what the
main thread has already waited for. With it, InOrder (pending, running and finished
callbacks are, in this order, what was added) and NeverStranded (a pending
callback has a ProcessQueue scheduled, running or about to be scheduled) are
inductive. From them: AlwaysInOrder, CallbacksNeverStranded, ThreadsAlwaysGone,
AnswersAlwaysSynced, NothingLostAtShutdown.

**ConnManProofs** (finitely many nodes). `ConnInv` is the type, that the sets of
nodes are disjoint and the threads' copies are of live nodes while they run
(`Places`), that a served node is held by the handler, and that the reference counts
are exact. From it: RefsAlwaysExact and the refinement ConnManKeepsNodeLife, which is
what the modules of the message handlers rely on.

**BlockDownloadProofs**, with the operators' lemmas in **BlockDownloadLemmas** (finitely
many peers, finite chains of ancestors, positive limits). The handlers are operators on
the record `Now`, so the proof is one lemma per operator, `StateOK(d) => StateOK(op(d))`,
put together as the handlers are. `StateOK` says that each node's counts are those of its
queue and no hash is in it twice, that `mapBlocksInFlight` and the queues say the same,
that a running timer has what it waits for, that a node which is not there has nothing a
counter counts, and that each global counter is the cardinality of the peers it counts.
The last two together are what FinalizeNode's asserts need: DownloadsAreExact,
CountersAreExact.

**ChainStateProofs** (`TreeAssumption`: a finite tree whose `Ancestors`, `Height` and `Work`
follow `Parent`; `ConstantAssumption`: types, and addresses that differ). The tree lemmas
(ancestors nest, are linear and acyclic; a set closed under parents contains the
ancestors of its members) stand in for the induction over chains, by the least height at
which a claim would fail. The inductive invariant `ChainInv` has four layers, and holds for
every use of the node:

1. `IndexInv`: the linked blocks are closed under parents, what waits unlinked has an
   unlinked parent, candidates, tip and the threads' targets are linked, and nTx, data,
   validity and sequence ids agree; `forgotten` is exactly what was received and is neither
   linked nor waiting. Neither direction of LinkedExact is inductive without the second of
   these, and the last keeps the history variable from excusing more than it should.
2. `UnlinkedInv`: a linked block in `mapBlocksUnlinked` was put back by FindMostWorkChain,
   so a block below it lacks data and all between are there too, and the queue of
   ReceivedBlockTransactions finds them all when that data comes again.
3. `FailInv`: marks have causes, and the causes and `g_failed_blocks` are marked
   BLOCK_FAILED_VALID or pardoned.
4. `ValidInv`: the active chain has no block that fails ConnectBlock and none found
   invalid; without invalidateblock only such blocks and those above them are marked; a
   lone thread has no marked block on the active chain and, between rounds, none on the way
   to its target; and scripts are checked from below.

From it: LinksAreExact, UnlinkedIsExact, FailuresHaveCauses, AncestryIsConsistent,
FailedBlocksStayInvalid (the half of NoAssertFails about `g_failed_blocks`) and
ActiveChainUnmarked (the half of BestChainActiveAlone about marks, here at every moment and
not only at rest, and also for several threads unless invalidateblock is used).

Model-checked only:

* everything temporal under fairness (WaitReturns, ActivationEnds, WorkGetsDone,
  MarkedNodesGo, ChainCompletes), which is out of the prover's reach;
* in ChainState, CandidatesExact and what rests on it: that PruneBlockIndexCandidates leaves
  a candidate (the other half of NoAssertFails), that no usable block beats the tip
  (BestChainActiveAlone) and PreciousPreferred. CandidatesExact does not hold in general
  (pardons, damage, and the sequence ids after invalidateblock, above). A proof needs a weaker invariant in its place;
* OrphanTx and Relay's own invariants, because the work queue (`Resolve`) is a RECURSIVE
  operator, with which the prover loses its arithmetic;
* the memory pool, block templates and `mempool.dat`: their totals are sums and closures
  over arbitrary graphs of transactions, facts that take induction over data.

## 5. Not modelled

Parts without a module for good: scripts and cryptography (pure evaluation of
byte strings), proof of work and stake arithmetic, fee statistics (floating
point), serialization and text conversions, RPC/REST formatting, ZeroMQ, the
graphical interface, the command line tools, the tables of per-coin constants.
`PROJECT.json` gives the reason for each. These are most of the repository's lines;
what has concurrent, persistent or incrementally updated state is a small part of it.

What the modules leave out:

* ChainState: `pindexBestHeader`, `pindexBestInvalid`, block files, the VerifyDB of a
  start-up and notifications. Pruning removes one block at a time, the files' grouping
  being a matter of sizes. `mapBlocksUnlinked` is a set, so that pairs entered twice are
  one.
* CoinsCache: memory accounting, cursors and the memory-pool view.
* CoinsDB: a WriteBatch that fails while the process lives, pruned files and
  the start-up that ends before genesis is connected.
* Scheduler: real times; tasks are due now or in the future. Two threads that
  both time out on one task can take the next one early; no property covers it.
* WorkQueue: a worker thread that starts after the queue is deleted is a state
  of the model (`usedAfterDelete`), outside the properties; ThreadsGone is
  about threads that have begun to run.
* BlockDownload: misbehaviour below the ban threshold, one-shot and feeler
  connections, importing and reindexing, witness checks, and the list of peers asked
  to announce compact blocks. A block's age (`Recent`, `Fresh`) does not change. Descendants of a failed block are marked at once,
  and a compact block of a header known to have failed does nothing.
* ConnMan: sockets, buffers and pauses of sending and receiving. A node is added in
  one step, and Interrupt with the joins is one step.
* OrphanTx: an orphan whose parent arrives otherwise than by TX (in a block, by RPC, from the
  wallet or `mempool.dat`) is not promoted, as in the code; `overlooked` records it. The
  effect of a TX is that of the moment its handler returns.
* Memory pool: times (an entry in `MayExpire` may be too old, ties of TrimToSize are
  choices), minimum and rolling fees, rounding of fee rates, limits on the size of
  ancestors, the limit of 100 replacements, sequence locks, system errors. The
  cache of descendants in UpdateForDescendants is taken to be transparent.
* BlockAssembler: sigop costs, witness transactions and the coinbase; sizes are small
  integers. update_for_parent_inclusion (`miner.h`) takes GetFee of an included ancestor off
  totals that were summed with GetModifiedFee; the model does the same, and no property
  speaks of the fee rate of what is selected.
* PoolFile: errors in writing and reading the file, and that a crash may take the chain back
  to the last flush. A crash leaves the file as it was, and is a step while the pool is
  loaded and until it changes. savemempool is modelled while the pool is loaded; later the
  shutdown writes the whole pool again. The prioritisation and the acceptance of an entry
  are one step.

## 6. Plan

1. The invariant of `setBlockIndexCandidates` that survives pruning and downloading again,
   which the rest of NoAssertFails and BestChainActiveAlone need; `Resolve` as a fold, so
   that OrphansExact can be proved.
2. **AddrMan** (tables and reference counts) and **WalletKeys** (key pool and
   encryption with crashes).
3. **BlockStore**: files, pruning and crashes, composed with CoinsDB, and a
   WriteBatch that fails while the node goes on.
4. Small algorithms against reference definitions: version bits, the median
   filter of network time, the arena of the locked pool.
