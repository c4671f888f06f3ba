----------------------------- MODULE ChainState -----------------------------
(***************************************************************************)
(* CChainState of validation.cpp: the block index, the candidates for the  *)
(* best chain, and the threads that activate it.                           *)
(*                                                                         *)
(* One step is one critical section of cs_main.  A thread that accepted a  *)
(* block, or served invalidateblock, reconsiderblock or preciousblock,     *)
(* releases cs_main and then runs the loop of ActivateBestChain, which     *)
(* takes and releases cs_main once per round and keeps pindexMostWork in a *)
(* local variable between the rounds.  The message handler, the RPC        *)
(* workers and the block import can all be in that loop.                   *)
(*                                                                         *)
(* pindexBestInvalid and pindexBestHeader (warnings, progress estimates),  *)
(* the mempool and the coins are other modules' matter.                    *)
(***************************************************************************)
EXTENDS Integers, FiniteSets

CONSTANTS
    Blocks,         \* every block that may turn up, Genesis included
    Genesis,
    Parent,         \* pprev
    Ancestors,      \* the chain from the block down to Genesis, the block included
    Height,         \* nHeight
    Work,           \* nChainWork
    BadBody,        \* blocks that ContextualCheckBlock refuses
    BadConnect,     \* blocks that ConnectBlock refuses
    Addresses,      \* the orders of CBlockIndex pointers that may come about
    Threads,
    None,           \* nullptr
    MIN_BLOCKS_TO_KEEP,
    MinimumChainWork,
    MinSequenceId,  \* numeric_limits<int32_t>::min()
    MaxSequenceId,  \* bound on nBlockSequenceId
    Usages          \* how a node may be used: records of what is done with it (pruning,
                    \* restarts, RPCs), the threads that do it, the blocks that come, and
                    \* those of them whose body may be found damaged when read from disk

ASSUME TreeAssumption ==
    /\ IsFiniteSet(Blocks)
    /\ Genesis \in Blocks
    /\ Parent \in [Blocks \ {Genesis} -> Blocks]
    /\ Ancestors \in [Blocks -> SUBSET Blocks]
    /\ Ancestors[Genesis] = {Genesis}
    /\ \A b \in Blocks \ {Genesis} :
          /\ Ancestors[b] = {b} \cup Ancestors[Parent[b]]
          /\ b \notin Ancestors[Parent[b]]
    /\ Height \in [Blocks -> Nat]
    /\ \A b \in Blocks \ {Genesis} : Height[b] = Height[Parent[b]] + 1
    /\ Work \in [Blocks -> Nat]
    /\ \A b \in Blocks \ {Genesis} : Work[b] > Work[Parent[b]]

ASSUME ConstantAssumption ==
    /\ BadBody \subseteq Blocks \ {Genesis}
    /\ BadConnect \subseteq Blocks \ {Genesis}
    /\ Addresses \subseteq [Blocks -> Nat]
    /\ \A order \in Addresses : \A a, b \in Blocks : order[a] = order[b] => a = b
    /\ None \notin Blocks
    /\ MIN_BLOCKS_TO_KEEP \in Nat /\ MinimumChainWork \in Nat
    /\ MinSequenceId \in Int /\ MinSequenceId < 0 /\ MaxSequenceId \in Nat
    /\ Usages \subseteq
          [does: SUBSET {"invalidate", "reconsider", "precious", "prune", "restart"},
           threads: SUBSET Threads, blocks: SUBSET Blocks, damaged: SUBSET Blocks]

VALID_TREE == 2
VALID_TRANSACTIONS == 3
VALID_SCRIPTS == 5

VARIABLES
    mapBlockIndex,           \* blocks with a CBlockIndex
    validity,                \* nStatus & BLOCK_VALID_MASK
    failedValid,             \* blocks with BLOCK_FAILED_VALID
    failedChild,             \* blocks with BLOCK_FAILED_CHILD
    haveData,                \* blocks with BLOCK_HAVE_DATA
    nTx,                     \* blocks with nTx > 0
    nChainTx,                \* blocks with nChainTx > 0
    nSequenceId,
    address,                 \* the order of the pointers in this process
    setBlockIndexCandidates,
    mapBlocksUnlinked,       \* B for every pair A->B: A is B's parent
    g_failed_blocks,
    chainTip,                \* chainActive.Tip()
    nBlockSequenceId,
    nBlockReverseSequenceId,
    nLastPreciousChainwork,
    fHavePruned,
    pc,                      \* where each thread is
    pindexMostWork,          \* each thread's local in ActivateBestChain
    fate,                    \* "run", "shutdown" (AbortNode), or a failed assert
    usage,                   \* how this node is used
    forgotten,               \* history: received blocks that nothing will link any more
    pardoned                 \* history: blocks unmarked for the sake of a descendant

status == <<validity, failedValid, failedChild>>
received == <<haveData, nTx, nChainTx, nSequenceId, nBlockSequenceId, forgotten>>
precious == <<nBlockReverseSequenceId, nLastPreciousChainwork>>
threads == <<pc, pindexMostWork>>
vars == <<mapBlockIndex, status, received, address, setBlockIndexCandidates,
          mapBlocksUnlinked, g_failed_blocks, chainTip, precious, fHavePruned,
          threads, fate, usage, pardoned>>

-----------------------------------------------------------------------------
(* Reading the index.                                                      *)

\* The blocks above `low` on the way up to `high`.
PathTo(high, low) == Ancestors[high] \ Ancestors[low]

ActiveChain == Ancestors[chainTip]

FailedMask == failedValid \cup failedChild

IsValid(b, upTo) == b \notin FailedMask /\ validity[b] >= upTo

\* CBlockIndexWorkComparator: a sorts before (is worse than) b.
Worse(a, b, seq) ==
    \/ Work[a] < Work[b]
    \/ Work[a] = Work[b] /\ seq[a] > seq[b]
    \/ Work[a] = Work[b] /\ seq[a] = seq[b] /\ address[a] > address[b]

\* The member of S that sorts last.
Best(S, seq) == CHOOSE b \in S : \A x \in S \ {b} : Worse(x, b, seq)

Lowest(S) == CHOOSE b \in S : \A x \in S : Height[b] <= Height[x]
Highest(S) == CHOOSE b \in S : \A x \in S : Height[b] >= Height[x]

-----------------------------------------------------------------------------
(* Headers and blocks.                                                     *)

Init ==
    /\ mapBlockIndex = {Genesis}
    /\ validity = [b \in Blocks |-> IF b = Genesis THEN VALID_TRANSACTIONS ELSE 0]
    /\ failedValid = {} /\ failedChild = {}
    /\ haveData = {Genesis} /\ nTx = {Genesis} /\ nChainTx = {Genesis}
    /\ nSequenceId = [b \in Blocks |-> IF b = Genesis THEN 1 ELSE 0]
    /\ address \in Addresses
    /\ setBlockIndexCandidates = {Genesis}
    /\ mapBlocksUnlinked = {}
    /\ g_failed_blocks = {}
    /\ chainTip = Genesis
    /\ nBlockSequenceId = 2
    /\ nBlockReverseSequenceId = -1
    /\ nLastPreciousChainwork = 0
    /\ fHavePruned = FALSE
    /\ pc = [t \in Threads |-> "idle"]
    /\ pindexMostWork = [t \in Threads |-> None]
    /\ fate = "run"
    /\ usage \in Usages
    /\ forgotten = {} /\ pardoned = {}

\* The members of g_failed_blocks that a header on top of p descends from.
FailedBelow(p) ==
    IF IsValid(p, VALID_SCRIPTS) THEN {} ELSE g_failed_blocks \cap Ancestors[p]

\* g_failed_blocks is walked in pointer order up to the first hit.
FirstFailedBelow(p) ==
    CHOOSE f \in FailedBelow(p) : \A x \in FailedBelow(p) : address[f] <= address[x]

\* The header is unknown and its parent is not itself marked as failed.
ReachesFailedWalk(b) ==
    b \notin mapBlockIndex /\ Parent[b] \in mapBlockIndex \ FailedMask

HeaderRefused(b) ==
    \/ b \in mapBlockIndex /\ b \in FailedMask
    \/ b \notin mapBlockIndex /\ Parent[b] \notin mapBlockIndex \ FailedMask
    \/ ReachesFailedWalk(b) /\ FailedBelow(Parent[b]) # {}

NOT_FAILED_VALID == "assert: failedit->nStatus & BLOCK_FAILED_VALID"

\* AcceptBlockHeader returning false: nothing changes, except that the walk
\* down to a failed ancestor marks the blocks it passes.
RefuseHeader(b) ==
    LET p == Parent[b] IN
    IF ~ReachesFailedWalk(b) THEN UNCHANGED <<fate, failedChild>>
    ELSE IF FirstFailedBelow(p) \in failedValid
    THEN failedChild' = failedChild \cup PathTo(p, FirstFailedBelow(p)) /\ UNCHANGED fate
    ELSE fate' = NOT_FAILED_VALID /\ UNCHANGED failedChild

\* AddToBlockIndex, for a header not known yet.
AddedValidity(b) ==
    IF b \in mapBlockIndex THEN validity ELSE [validity EXCEPT ![b] = VALID_TREE]

ProcessNewBlockHeaders(t, b) ==
    /\ pc[t] = "idle"
    /\ b # Genesis
    /\ IF HeaderRefused(b)
       THEN RefuseHeader(b) /\ UNCHANGED <<mapBlockIndex, validity>>
       ELSE /\ mapBlockIndex' = mapBlockIndex \cup {b}
            /\ validity' = AddedValidity(b)
            /\ UNCHANGED <<fate, failedChild>>
    /\ UNCHANGED <<failedValid, received, address, setBlockIndexCandidates,
                   mapBlocksUnlinked, g_failed_blocks, chainTip, precious,
                   fHavePruned, threads, pardoned>>

\* AcceptBlock's early returns.
Unwanted(b, fRequested) ==
    \/ b \in haveData
    \/ /\ ~fRequested
       /\ \/ b \in nTx
          \/ Work[b] < Work[chainTip]
          \/ Height[b] > Height[chainTip] + MIN_BLOCKS_TO_KEEP
          \/ Work[b] < MinimumChainWork

\* Slip: the blocks that wait for b are not looked at.
NoQueue(b) == {}

\* The blocks that ReceivedBlockTransactions' queue reaches from b.
NowLinked(b) ==
    {d \in mapBlockIndex : b \in Ancestors[d] /\ PathTo(d, b) \subseteq mapBlocksUnlinked}

\* The ids the queue hands out: breadth first, siblings in the order in which
\* they came into mapBlocksUnlinked, which may be any.
SequenceIds(R) ==
    {ids \in [R -> nBlockSequenceId .. nBlockSequenceId + Cardinality(R) - 1] :
        \A x, y \in R : x # y => /\ ids[x] # ids[y]
                                 /\ Height[x] < Height[y] => ids[x] < ids[y]}

\* Slip: the parent must have transactions already.
WaitsForReceivedParent(b) == IsValid(Parent[b], VALID_TRANSACTIONS)

\* A block whose ancestors are not all there is remembered under its parent.
WaitsForParent(b) == IsValid(Parent[b], VALID_TREE)

\* It is not when that parent is marked as failed, and no restart or second
\* delivery has it remembered.
Forgets(b) ==
    IF Parent[b] \in FailedMask \ nChainTx THEN forgotten \cup ({b} \ mapBlocksUnlinked)
    ELSE forgotten \ {b}

ReceivedBlockTransactions(b) ==
    /\ haveData' = haveData \cup {b}
    /\ nTx' = nTx \cup {b}
    /\ validity' = [validity EXCEPT ![b] = IF @ < VALID_TRANSACTIONS
                                           THEN VALID_TRANSACTIONS ELSE @]
    /\ forgotten' = Forgets(b)
    /\ IF Parent[b] \in nChainTx
       THEN LET R == NowLinked(b) \cup {b} IN
            \E ids \in SequenceIds(R) :
               LET seq == [x \in Blocks |-> IF x \in R THEN ids[x] ELSE nSequenceId[x]] IN
               /\ nBlockSequenceId + Cardinality(R) - 1 <= MaxSequenceId
               /\ nSequenceId' = seq
               /\ nBlockSequenceId' = nBlockSequenceId + Cardinality(R)
               /\ nChainTx' = nChainTx \cup R
               /\ setBlockIndexCandidates' =
                    setBlockIndexCandidates \cup {x \in R : ~Worse(x, chainTip, seq)}
               /\ mapBlocksUnlinked' = mapBlocksUnlinked \ (R \ {b})
       ELSE /\ nChainTx' = nChainTx \ {b}
            /\ mapBlocksUnlinked' = IF WaitsForParent(b) THEN mapBlocksUnlinked \cup {b}
                                    ELSE mapBlocksUnlinked
            /\ UNCHANGED <<nSequenceId, nBlockSequenceId, setBlockIndexCandidates>>

\* ProcessNewBlock up to ActivateBestChain: AcceptBlock, with the header first.
\* (A body refused as possibly corrupted leaves what its header alone leaves.)
ProcessNewBlock(t, b, fRequested) ==
    /\ pc[t] = "idle"
    /\ b # Genesis
    /\ IF HeaderRefused(b)
       THEN /\ RefuseHeader(b)
            /\ UNCHANGED <<mapBlockIndex, validity, failedValid, received, pc,
                           setBlockIndexCandidates, mapBlocksUnlinked>>
       ELSE /\ mapBlockIndex' = mapBlockIndex \cup {b}
            /\ UNCHANGED <<fate, failedChild>>
            /\ \/ /\ Unwanted(b, fRequested)
                  /\ validity' = AddedValidity(b)
                  /\ pc' = [pc EXCEPT ![t] = "activate"]
                  /\ UNCHANGED <<failedValid, received, setBlockIndexCandidates,
                                 mapBlocksUnlinked>>
               \/ /\ ~Unwanted(b, fRequested)
                  /\ b \in BadBody
                  /\ validity' = AddedValidity(b)
                  /\ failedValid' = failedValid \cup {b}
                  /\ UNCHANGED <<received, pc, setBlockIndexCandidates, mapBlocksUnlinked>>
               \/ /\ ~Unwanted(b, fRequested)
                  /\ b \notin BadBody
                  /\ ReceivedBlockTransactions(b)
                  /\ pc' = [pc EXCEPT ![t] = "activate"]
                  /\ UNCHANGED failedValid
    /\ UNCHANGED <<address, g_failed_blocks, chainTip, precious, fHavePruned,
                   pindexMostWork, pardoned>>

-----------------------------------------------------------------------------
(* ActivateBestChain.                                                      *)

\* Slip: marks of failure are not looked at.
MissingOnly(c) == PathTo(c, chainTip) \ haveData

\* The blocks between a candidate and the active chain that rule it out.
Obstacles(c) ==
    {x \in PathTo(c, chainTip) : x \in FailedMask \/ x \notin haveData}

AboveObstacle(c) == PathTo(c, Highest(Obstacles(c)))

\* Slip: every block down to the active chain is marked.
MarkedToFork(c) == PathTo(c, chainTip)

MarkedFailed(c) == AboveObstacle(c)

Unlinked(c) == AboveObstacle(c)

\* FindMostWorkChain: candidates are tried best first.  One with an obstacle
\* leaves the set together with the blocks down to its highest obstacle; these
\* blocks are marked as children of a failed block, or go back to
\* mapBlocksUnlinked when only data is missing.
FindMostWorkChain ==
    LET usable == {c \in setBlockIndexCandidates : Obstacles(c) = {}}
        most == IF usable = {} THEN None ELSE Best(usable, nSequenceId)
        dropped == {c \in setBlockIndexCandidates \ usable :
                       most = None \/ Worse(most, c, nSequenceId)}
        isFailed(c) == Highest(Obstacles(c)) \in FailedMask
    IN  [most |-> most,
         failed |-> UNION {MarkedFailed(c) : c \in {d \in dropped : isFailed(d)}},
         unlinked |-> UNION {Unlinked(c) : c \in {d \in dropped : ~isFailed(d)}},
         erased |-> UNION {AboveObstacle(c) \cup {Highest(Obstacles(c))} : c \in dropped}]

\* The local variable still names the chain of an earlier round.
CachedMostWork(m) == [most |-> m, failed |-> {}, unlinked |-> {}, erased |-> {}]

\* Blocks among S that DisconnectTip cannot take off: one that it cannot read
\* from disk, which aborts the node, or of which the undo data does not fit.
Unreadable(S, corrupt) == {b \in S : b \notin haveData \/ b \in corrupt}

\* ActivateBestChainStep towards m: down to the fork, then up until a block
\* cannot be connected or the tip has more work than it had.  The body of a block
\* in `corrupt` does not have the merkle root of its header, which ReadBlockFromDisk
\* does not look at and the CheckBlock of ConnectBlock reports as possible
\* corruption: the step ends like that for an invalid block, which is not marked.
StepOutcome(m, corrupt) ==
    LET unreadable == Unreadable(PathTo(chainTip, m), corrupt)
        path == PathTo(m, chainTip)
        fails == {b \in path : b \in BadConnect \/ b \in corrupt \/ b \notin haveData}
        stops == {b \in path : b \in fails \/ Work[b] > Work[chainTip]}
        stop == Lowest(stops)
        reaches(b) == [tip |-> b, connected |-> path \cap Ancestors[b], bad |-> {},
                       fInvalidFound |-> FALSE, error |-> FALSE, abort |-> FALSE]
    IN  IF unreadable # {}
        THEN [reaches(Highest(unreadable)) EXCEPT
                !.connected = {}, !.error = TRUE, !.abort = Highest(unreadable) \notin haveData]
        ELSE IF stops = {} THEN reaches(m)
        ELSE IF stop \notin fails THEN reaches(stop)
        ELSE IF stop \notin haveData
        THEN [reaches(Parent[stop]) EXCEPT !.error = TRUE, !.abort = TRUE]
        ELSE [reaches(Parent[stop]) EXCEPT !.bad = {stop} \ corrupt, !.fInvalidFound = TRUE]

\* Slip: the current tip goes as well.
BetterThan(S, tip, seq) == {c \in S : Worse(tip, c, seq)}

\* PruneBlockIndexCandidates
NotWorseThan(S, tip, seq) == {c \in S : ~Worse(c, tip, seq)}

NO_CANDIDATE == "assert: !setBlockIndexCandidates.empty()"

\* Nothing to do: no candidate, or the tip is the best one.
NothingToDo(t) ==
    /\ pc' = [pc EXCEPT ![t] = "idle"]
    /\ pindexMostWork' = [pindexMostWork EXCEPT ![t] = None]
    /\ UNCHANGED <<validity, failedValid, g_failed_blocks, chainTip, fate>>

\* Slip: an invalid block ends the activation.
FinishedOrInvalid(most, step) == step.error \/ step.fInvalidFound \/ step.tip = most

\* The loop ends on a system error and when the tip is the wanted one.
Finished(most, step) == step.error \/ (~step.fInvalidFound /\ step.tip = most)

\* Slip: only the new tip is marked.
TipScriptsValid(step) == {step.tip} \cap step.connected

\* The blocks that ConnectBlock went through.
ScriptsValid(step) == step.connected

\* Called for every block that is invalid, it leaves one that may be corrupted
\* alone, which is not in `bad`.
InvalidBlockFound(bad) ==
    /\ failedValid' = failedValid \cup bad
    /\ g_failed_blocks' = g_failed_blocks \cup bad

\* The outcome of the step becomes the state: connected blocks are valid unless
\* marked as failed, candidates worse than the new tip go, a block that could
\* not be connected is marked and the local variable is wiped.
TakeStep(t, most, step, candidates) ==
    LET pruned == IF step.connected = {} THEN candidates
                  ELSE NotWorseThan(candidates, step.tip, nSequenceId)
        done == Finished(most, step)
    IN  /\ chainTip' = step.tip
        /\ validity' = [b \in Blocks |->
                          IF b \in ScriptsValid(step) /\ b \notin failedValid \cup failedChild'
                          THEN VALID_SCRIPTS ELSE validity[b]]
        /\ InvalidBlockFound(step.bad)
        /\ setBlockIndexCandidates' = pruned \ step.bad
        /\ pc' = [pc EXCEPT ![t] = IF done THEN "idle" ELSE "loop"]
        /\ pindexMostWork' = [pindexMostWork EXCEPT ![t] =
                                IF done \/ step.fInvalidFound THEN None ELSE most]
        /\ fate' = IF step.connected # {} /\ pruned = {} THEN NO_CANDIDATE
                   ELSE IF step.abort THEN "shutdown" ELSE fate

\* One round of the loop, under cs_main: find the best chain unless the local
\* variable still names one, and take a step towards it.
ActivateBestChain(t) ==
    /\ pc[t] \in {"activate", "loop"}
    /\ \E found \in {IF pindexMostWork[t] = None THEN FindMostWorkChain
                     ELSE CachedMostWork(pindexMostWork[t])} :
          LET candidates == setBlockIndexCandidates \ found.erased IN
          /\ failedChild' = failedChild \cup found.failed
          /\ mapBlocksUnlinked' = mapBlocksUnlinked \cup found.unlinked
          /\ \/ /\ found.most \in {None, chainTip}
                /\ setBlockIndexCandidates' = candidates
                /\ NothingToDo(t)
             \/ /\ found.most \notin {None, chainTip}
                /\ \E step \in {StepOutcome(found.most, c) : c \in SUBSET usage.damaged} :
                      TakeStep(t, found.most, step, candidates)
    /\ UNCHANGED <<mapBlockIndex, received, address, precious, fHavePruned, pardoned>>

-----------------------------------------------------------------------------
(* Manual operations, pruning and restart.                                 *)

\* Slip: nothing comes back, the disconnected tip's parent included.
NoneBack(tip, failed) == {}

\* InvalidateBlock's last loop: the blocks that are candidates for the new tip.
CandidatesAgain(tip, failed) ==
    {x \in nChainTx \ failed : /\ validity[x] >= VALID_TRANSACTIONS
                               /\ ~Worse(x, tip, nSequenceId)}

InvalidateBlock(t, b, corrupt) ==
    LET inChain == b \in ActiveChain
        disconnected == IF inChain THEN PathTo(chainTip, Parent[b]) ELSE {}
        unreadable == Unreadable(disconnected, corrupt)
        tip == IF inChain THEN Parent[b] ELSE chainTip
        children == disconnected \ {b}
        failed == FailedMask \cup disconnected \cup {b}
    IN  /\ pc[t] = "idle"
        /\ b \in mapBlockIndex \ {Genesis}
        /\ IF unreadable # {}
           THEN /\ chainTip' = Highest(unreadable)
                /\ fate' = IF chainTip' \in haveData THEN fate ELSE "shutdown"
                /\ UNCHANGED <<failedValid, failedChild, g_failed_blocks,
                               setBlockIndexCandidates, pc>>
           ELSE /\ chainTip' = tip
                /\ failedChild' = failedChild \cup children
                /\ failedValid' = failedValid \cup {b}
                /\ g_failed_blocks' = g_failed_blocks \cup {b}
                /\ setBlockIndexCandidates' =
                     (setBlockIndexCandidates \ (children \cup {b}))
                        \cup CandidatesAgain(tip, failed)
                /\ pc' = [pc EXCEPT ![t] = "activate"]
                /\ UNCHANGED fate
        /\ UNCHANGED <<mapBlockIndex, validity, received, address, mapBlocksUnlinked,
                       precious, fHavePruned, pindexMostWork, pardoned>>

\* The blocks whose mark ResetBlockFailureFlags takes back: b and those above it.
Cleared(b) == {x \in FailedMask : b \in Ancestors[x]}

StillFailed(b) == g_failed_blocks \ Cleared(b)

\* ResetBlockFailureFlags, which takes the mark off the ancestors as well and
\* does not make them candidates.
ReconsiderBlock(t, b) ==
    /\ pc[t] = "idle"
    /\ b \in mapBlockIndex
    /\ failedValid' = failedValid \ (Cleared(b) \cup Ancestors[b])
    /\ failedChild' = failedChild \ (Cleared(b) \cup Ancestors[b])
    /\ setBlockIndexCandidates' = setBlockIndexCandidates \cup
         {x \in Cleared(b) \cap nChainTx : /\ validity[x] >= VALID_TRANSACTIONS
                                           /\ Worse(chainTip, x, nSequenceId)}
    /\ g_failed_blocks' = StillFailed(b)
    /\ pardoned' = pardoned \cup ((Ancestors[b] \ {b}) \cap FailedMask)
    /\ pc' = [pc EXCEPT ![t] = "activate"]
    /\ UNCHANGED <<mapBlockIndex, validity, received, address, mapBlocksUnlinked,
                   chainTip, precious, fHavePruned, pindexMostWork, fate>>

\* Slip: the counter restarts with every call.
PreciousIdOne == -1

\* The counter restarts when the chain was extended since the last call.
PreciousId ==
    IF Work[chainTip] > nLastPreciousChainwork THEN -1 ELSE nBlockReverseSequenceId

PreciousBlock(t, b) ==
    LET seq == [nSequenceId EXCEPT ![b] = PreciousId]
        candidates == setBlockIndexCandidates \ {b}
        reinserted == NotWorseThan(candidates \cup {b}, chainTip, seq)
        eligible == IsValid(b, VALID_TRANSACTIONS) /\ b \in nChainTx
    IN  /\ pc[t] = "idle"
        /\ b \in mapBlockIndex
        /\ Work[b] >= Work[chainTip]
        /\ nSequenceId' = seq
        /\ nBlockReverseSequenceId' = IF PreciousId > MinSequenceId
                                      THEN PreciousId - 1 ELSE PreciousId
        /\ nLastPreciousChainwork' = Work[chainTip]
        /\ setBlockIndexCandidates' = IF eligible THEN reinserted ELSE candidates
        /\ fate' = IF eligible /\ reinserted = {} THEN NO_CANDIDATE ELSE fate
        /\ pc' = [pc EXCEPT ![t] = "activate"]
        /\ UNCHANGED <<mapBlockIndex, status, haveData, nTx, nChainTx, nBlockSequenceId,
                       address, mapBlocksUnlinked, g_failed_blocks, chainTip,
                       fHavePruned, pindexMostWork, forgotten, pardoned>>

WithoutPruned(b) == mapBlocksUnlinked \ {b}

\* PruneOneBlockFile for a file that holds the block b.  FlushStateToDisk prunes
\* at the end of many critical sections and from the scheduler.
PruneBlock(b) ==
    /\ "prune" \in usage.does
    /\ b \in haveData
    /\ Height[b] + MIN_BLOCKS_TO_KEEP <= Height[chainTip]
    /\ haveData' = haveData \ {b}
    /\ mapBlocksUnlinked' = WithoutPruned(b)
    /\ forgotten' = forgotten \cup ({b} \ nChainTx)
    /\ fHavePruned' = TRUE
    /\ UNCHANGED <<mapBlockIndex, status, nTx, nChainTx, nSequenceId, nBlockSequenceId,
                   address, setBlockIndexCandidates, g_failed_blocks, chainTip,
                   precious, threads, fate, pardoned>>

\* A shutdown, which makes every thread leave ActivateBestChain's loop and
\* flushes everything; then LoadBlockIndex in height order, LoadChainTip, and
\* ActivateBestChain in ThreadImport.
Restart(t) ==
    LET linked == {b \in mapBlockIndex : Ancestors[b] \subseteq nTx}
        children == {b \in mapBlockIndex \ FailedMask : Ancestors[b] \cap FailedMask # {}}
        zero == [b \in Blocks |-> 0]
    IN  /\ address' \in Addresses
        /\ nSequenceId' = zero
        /\ nBlockSequenceId' = 1
        /\ nBlockReverseSequenceId' = -1
        /\ nLastPreciousChainwork' = 0
        /\ nChainTx' = linked
        /\ mapBlocksUnlinked' = {b \in nTx \ {Genesis} : Parent[b] \notin linked}
        /\ failedChild' = failedChild \cup children
        /\ g_failed_blocks' = {}
        /\ setBlockIndexCandidates' =
             {b \in linked \ (FailedMask \cup children) :
                 /\ validity[b] >= VALID_TRANSACTIONS
                 /\ \/ Work[b] > Work[chainTip]
                    \/ Work[b] = Work[chainTip] /\ address'[b] <= address'[chainTip]}
        /\ fate' = IF setBlockIndexCandidates' = {} THEN NO_CANDIDATE ELSE "run"
        /\ pc' = [u \in Threads |-> IF u = t THEN "activate" ELSE "idle"]
        /\ pindexMostWork' = [u \in Threads |-> None]
        /\ forgotten' = {}
        /\ UNCHANGED <<mapBlockIndex, validity, failedValid, haveData, nTx, chainTip,
                       fHavePruned, pardoned>>

Rpc(t, b) ==
    \/ "invalidate" \in usage.does /\ \E c \in SUBSET usage.damaged : InvalidateBlock(t, b, c)
    \/ "reconsider" \in usage.does /\ ReconsiderBlock(t, b)
    \/ "precious" \in usage.does /\ PreciousBlock(t, b)

Receive(t, b) ==
    \/ ProcessNewBlockHeaders(t, b)
    \/ \E fRequested \in BOOLEAN : ProcessNewBlock(t, b, fRequested)

Next ==
    /\ UNCHANGED usage
    /\ \/ /\ fate = "run"
          /\ \/ \E t \in usage.threads, b \in usage.blocks : Receive(t, b) \/ Rpc(t, b)
             \/ \E t \in usage.threads : ActivateBestChain(t)
             \/ \E b \in Blocks : PruneBlock(b)
       \/ /\ fate \in {"run", "shutdown"} /\ "restart" \in usage.does
          /\ \E t \in usage.threads : Restart(t)

Spec == Init /\ [][Next]_vars

\* A thread in ActivateBestChain is never suspended for ever: it only waits
\* for cs_main, which every critical section gives back.
Fairness == \A t \in Threads : WF_vars(fate = "run" /\ ActivateBestChain(t) /\ UNCHANGED usage)

FairSpec == Spec /\ Fairness

-----------------------------------------------------------------------------
(* Properties.                                                             *)

\* Every variable keeps the type its declaration gives it.
TypeOK ==
    /\ mapBlockIndex \in SUBSET Blocks
    /\ validity \in [Blocks -> 0 .. VALID_SCRIPTS]
    /\ failedValid \in SUBSET mapBlockIndex /\ failedChild \in SUBSET mapBlockIndex
    /\ haveData \in SUBSET mapBlockIndex
    /\ nTx \in SUBSET mapBlockIndex /\ nChainTx \in SUBSET mapBlockIndex
    /\ nSequenceId \in [Blocks -> MinSequenceId .. MaxSequenceId]
    /\ address \in Addresses
    /\ setBlockIndexCandidates \in SUBSET mapBlockIndex
    /\ mapBlocksUnlinked \in SUBSET (mapBlockIndex \ {Genesis})
    /\ g_failed_blocks \in SUBSET mapBlockIndex
    /\ chainTip \in mapBlockIndex
    /\ nBlockSequenceId \in 1 .. MaxSequenceId + 1
    /\ nBlockReverseSequenceId \in MinSequenceId .. -1
    /\ nLastPreciousChainwork \in Nat
    /\ fHavePruned \in BOOLEAN
    /\ pc \in [Threads -> {"idle", "activate", "loop"}]
    /\ pindexMostWork \in [Threads -> mapBlockIndex \cup {None}]
    /\ usage \in Usages
    /\ forgotten \in SUBSET mapBlockIndex /\ pardoned \in SUBSET mapBlockIndex

\* AcceptBlockHeader asserts "failedit->nStatus & BLOCK_FAILED_VALID" for a
\* member of g_failed_blocks.
FailedBlocksMarked == fate # NOT_FAILED_VALID

\* None of the asserts on the way is ever reached in a failing state: a member of
\* g_failed_blocks is still BLOCK_FAILED_VALID, and there is always a candidate to
\* fall back to.  Pardons break both: they leave the block in g_failed_blocks, and
\* when it becomes the tip it is no candidate, so that none may be left once
\* invalidateblock has taken the tip back and preciousblock uses an id twice.
NoAssertFails ==
    /\ FailedBlocksMarked \/ pardoned \cap g_failed_blocks # {}
    /\ fate = NO_CANDIDATE => pardoned # {} /\ {"invalidate", "precious"} \subseteq usage.does

\* CheckBlockIndex: "All parents having had data (at some point) is equivalent
\* to all parents being VALID_TRANSACTIONS, which is equivalent to nChainTx
\* being set."
ReceivedMeansLinked == \A b \in mapBlockIndex : b \in nChainTx <=> Ancestors[b] \subseteq nTx

\* The same as far as the code keeps it: the queue of ReceivedBlockTransactions
\* reaches every block that waits, and ends only at one that is forgotten: it
\* came while its parent was marked as failed, or was pruned while it waited.
LinkedExact ==
    \A b \in mapBlockIndex : b \in nChainTx <=> Ancestors[b] \subseteq nTx \ forgotten

\* One thread at a time is in ActivateBestChain.
Alone == \A t, u \in usage.threads : t = u

\* invalidateblock does not come between two rounds of another thread.
Unraced == Alone \/ "invalidate" \notin usage.does

\* CheckBlockIndex, the other checks on a block and its ancestors: positive
\* sequence ids only when linked, data exactly for received blocks unless
\* pruned, scripts checked only on top of checked scripts, and checked on all of
\* the active chain.
AncestryConsistent ==
    /\ Unraced => \A b \in ActiveChain \ {Genesis} : validity[b] = VALID_SCRIPTS
    /\ \A b \in mapBlockIndex :
          /\ Ancestors[b] \subseteq mapBlockIndex
          /\ b \in nTx <=> validity[b] >= VALID_TRANSACTIONS
          /\ b \notin nChainTx => nSequenceId[b] <= 0
          /\ b \in haveData => b \in nTx
          /\ ~fHavePruned => (b \in nTx => b \in haveData)
          /\ Unraced /\ validity[b] = VALID_SCRIPTS =>
                \A a \in Ancestors[b] \ {Genesis} : validity[a] = VALID_SCRIPTS

\* CheckBlockIndex: "The failed mask cannot be set for blocks without invalid
\* parents."  There is always a cause, but reconsiderblock on one of its
\* descendants pardons it and leaves the others marked.
FailureHasCause ==
    \A b \in FailedMask : Ancestors[b] \cap (failedValid \cup pardoned) # {}

\* invalidateblock, which may give the tip less work, is not used together with
\* what then disturbs the order of the blocks: a precious block gets an id that is
\* in use, and a pruned block of the active chain is received again.
InvalidatesOnly == "invalidate" \in usage.does => usage.does \cap {"prune", "precious"} = {}

\* CheckBlockIndex: a linked block at least as good as the tip, with all data
\* and no invalid ancestor, is a candidate, and so is the tip; a block that is
\* worse or not linked is none; one that was taken out because data is missing is
\* in mapBlocksUnlinked.  Between two rounds of ActivateBestChain the tip may be
\* worse than the last one, so this is claimed outside the loop.  It fails in
\* general: for a pardoned block and what is marked above it, which are no
\* candidates; where a damaged block ends a disconnection half way; and for
\* invalidateblock on a node that is pruned or told preciousblock as well.
CandidatesExact ==
    (/\ Alone /\ usage.damaged = {} /\ InvalidatesOnly
     /\ fate = "run" /\ \A t \in Threads : pc[t] # "loop") =>
    \A b \in mapBlockIndex :
        IF ~Worse(b, chainTip, nSequenceId) /\ b \in nChainTx
        THEN Ancestors[b] \cap (failedValid \cup pardoned) = {} =>
                \/ b \in setBlockIndexCandidates
                \/ /\ ~(Ancestors[b] \subseteq haveData) /\ b # chainTip
                   /\ b \in haveData \ {Genesis} => b \in mapBlocksUnlinked
        ELSE b \notin setBlockIndexCandidates

\* CheckBlockIndex on mapBlocksUnlinked: "If this block has block data available,
\* some parent was never received, and has no invalid parents, it must be in
\* mapBlocksUnlinked", unless it is forgotten; "Can't be in mapBlocksUnlinked if
\* we don't HAVE_DATA", which a start-up breaks for blocks that were pruned and
\* never linked; "We aren't missing data for any parent -- cannot be in
\* mapBlocksUnlinked", unless one is forgotten.
UnlinkedExact ==
    /\ haveData \ (nChainTx \cup forgotten) \subseteq mapBlocksUnlinked
    /\ \A b \in mapBlocksUnlinked :
          /\ b \in haveData \/ (fHavePruned /\ b \notin nChainTx /\ "restart" \in usage.does)
          /\ ~(Ancestors[b] \subseteq haveData \ forgotten)

\* Blocks the node could make its tip: linked, all data there, nothing failed.
Usable ==
    {b \in mapBlockIndex :
        /\ b \in nChainTx /\ PathTo(b, chainTip) \subseteq haveData
        /\ Ancestors[b] \cap FailedMask = {}}

AtRest == fate = "run" /\ \A t \in Threads : pc[t] = "idle"

\* ActivateBestChain: "The result is either failure or an activated best
\* chain."  When no activation is under way, no usable block sorts better than
\* the tip (more work, or as much and seen first) and no block of the active
\* chain is marked as failed.  Failure is a block found damaged when it was to be
\* taken off; and a pardoned block is not looked at again.
BestChainActive ==
    AtRest => /\ usage.damaged = {} /\ InvalidatesOnly =>
                    \A b \in Usable \ pardoned : ~Worse(chainTip, b, nSequenceId)
              /\ ActiveChain \cap FailedMask = {}

\* The same where one thread at a time is in ActivateBestChain, which is what the
\* promise takes.
BestChainActiveAlone == Alone => BestChainActive

\* preciousblock "treats a block as if it were received before others with the
\* same work. A later preciousblock call can override the effect of an earlier
\* one."  Once the call has set its sequence id the block sorts better than every
\* other usable block of its work; when the counter has come to its end, other
\* precious blocks may share its last value.  (After invalidateblock has taken the
\* tip back the counter may start again with a value that is still in use.)
PreciousPreferred ==
    [][\A b \in nChainTx :
          /\ nSequenceId'[b] < 0 /\ nSequenceId'[b] # nSequenceId[b]
          /\ "invalidate" \notin usage.does
          => \A x \in Usable \ {b} : Work[x] = Work[b] =>
                \/ Worse(x, b, nSequenceId')
                \/ nSequenceId'[x] = MinSequenceId /\ nSequenceId'[b] = MinSequenceId]_vars

\* A candidate that cannot be reached past a damaged block.
DamagedAhead ==
    \E c \in setBlockIndexCandidates : PathTo(c, chainTip) \cap usage.damaged # {}

\* An activation that was begun comes to its end, unless a block on the way to a
\* candidate is damaged: ConnectBlock may refuse it for ever, and as it is not
\* marked the loop turns to it again and again.
ActivationEnds ==
    \A t \in Threads : (pc[t] # "idle") ~> (pc[t] = "idle" \/ fate # "run" \/ DamagedAhead)

=============================================================================
