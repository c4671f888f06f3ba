------------------------------- MODULE PoolFile -------------------------------
(***************************************************************************)
(* mempool.dat (validation.cpp, init.cpp): a shutdown dumps the pool, and  *)
(* the next start loads it, one transaction after the other, while the     *)
(* node is already at work.  A crash leaves the file as it was.            *)
(*                                                                         *)
(* The times of entries are abstracted as in PoolReorg.  Left out: errors  *)
(* in writing and reading the file (it is renamed when it is complete),    *)
(* and that a crash may also take the chain back to the last flush.        *)
(***************************************************************************)
EXTENDS BlockAssembler

CONSTANTS
    MaxStarts,          \* bound: restarts of the node
    Meanwhile           \* bound: what may come while the pool is loaded

VARIABLES
    mempoolDat,         \* vinfo, a sequence of pairs, and the other mapDeltas
    toLoad,             \* what LoadMempool has not read
    fDumpMempoolLater,
    starts,
    dumped,             \* history: the pool of the last shutdown, until it was changed otherwise
    savedEarly          \* history: savemempool has replaced its file by a part of it

fileVars == <<mempoolDat, toLoad, fDumpMempoolLater, starts, dumped, savedEarly>>

NoFile == [vinfo |-> <<>>, mapDeltas |-> [t \in Txs |-> 0]]

FileInit ==
    /\ Init
    /\ mempoolDat = NoFile /\ toLoad = NoFile /\ fDumpMempoolLater = TRUE
    /\ starts = 0 /\ dumped = EmptyPool /\ savedEarly = FALSE

\* Slip: the entries are written in the order of mapTx.
UnsortedInfo(p) == setEntries(p.mapTx)

\* infoAll: by the number of ancestors, then by score.
GetSortedDepthAndScore(p) ==
    LET Count(t) == p.withAncestors[t].count
        Rate(t, u) == GetModifiedFee(p, t) * Size[u]
        DepthAndScoreComparator(t, u) ==
            \/ Count(t) < Count(u)
            \/ Count(t) = Count(u) /\ Rate(t, u) > Rate(u, t)
            \/ Count(t) = Count(u) /\ Rate(t, u) = Rate(u, t) /\ Hash[t] > Hash[u]
    IN  Sorted(p.mapTx, {tu \in p.mapTx \X p.mapTx : DepthAndScoreComparator(tu[1], tu[2])})

DumpMempool(p) ==
    LET hashes == GetSortedDepthAndScore(p)
    IN  [vinfo |-> [i \in DOMAIN hashes |-> <<hashes[i], p.feeDelta[hashes[i]]>>],
         mapDeltas |-> [t \in Txs |-> IF t \in p.mapTx THEN 0 ELSE p.mapDeltas[t]]]

\* Shutdown or a crash, and the next start up to LoadMempool.  A pool that was being
\* loaded is not dumped.  The chain and the failed blocks are read back as they were.
\* By the bound no block was disconnected: then some of the pool may be over the limits;
\* and a crash comes before the pool has changed since it was loaded.
Restart(orderly) ==
    LET dumps == orderly /\ fDumpMempoolLater
    IN  /\ orderly \/ ~fDumpMempoolLater \/ dumped # EmptyPool
        /\ doing = "idle" /\ starts < MaxStarts /\ ~reorganized /\ starts' = starts + 1
        /\ mempoolDat' = IF dumps THEN DumpMempool(pool) ELSE mempoolDat
        /\ dumped' = IF dumps THEN pool ELSE dumped
        /\ savedEarly' = (savedEarly /\ ~dumps)
        /\ toLoad' = mempoolDat' /\ fDumpMempoolLater' = FALSE
        /\ pool' = EmptyPool /\ UNCHANGED chainVars

\* One round of LoadMempool's loop: an entry that is too old is not tried.
LoadEntry ==
    /\ doing = "idle" /\ ~fDumpMempoolLater /\ toLoad.vinfo # <<>>
    /\ LET tx == Head(toLoad.vinfo)[1]
           noted == PrioritiseTransaction(pool, tx, Head(toLoad.vinfo)[2])
       IN  \/ IF Acceptable(noted, tx) THEN LimitMempoolSize(Accepted(noted, tx)) ELSE pool' = noted
           \/ tx \in MayExpire /\ pool' = noted
    /\ toLoad' = [toLoad EXCEPT !.vinfo = Tail(@)]
    /\ UNCHANGED <<chainVars, mempoolDat, fDumpMempoolLater, starts, dumped, savedEarly>>

\* The rest of LoadMempool and of ThreadImport.
LoadDeltas ==
    /\ doing = "idle" /\ ~fDumpMempoolLater /\ toLoad.vinfo = <<>>
    /\ pool' = FoldSet(LAMBDA t, p : PrioritiseTransaction(p, t, toLoad.mapDeltas[t]), pool, Txs)
    /\ toLoad' = NoFile /\ fDumpMempoolLater' = TRUE
    /\ UNCHANGED <<chainVars, mempoolDat, starts, dumped, savedEarly>>

\* savemempool.  Nobody asks whether the pool was loaded.  LoadMempool goes on with the
\* file it has opened.  By the bound it is not called later, when the shutdown dumps
\* the whole pool again.
SaveMempool ==
    /\ doing = "idle" /\ ~fDumpMempoolLater
    /\ mempoolDat' = DumpMempool(pool) /\ savedEarly' = TRUE
    /\ UNCHANGED <<pool, chainVars, toLoad, fDumpMempoolLater, starts, dumped>>

\* What else is done to the pool, by the bound only some of it while it is loaded.  When
\* it has changed, the file is written anew before it is read again, and is forgotten.
Otherwise ==
    /\ IF fDumpMempoolLater THEN Next ELSE \E t \in Meanwhile : AcceptToMemoryPool(t)
    /\ dumped' = EmptyPool
    /\ mempoolDat' = IF fDumpMempoolLater THEN NoFile ELSE mempoolDat
    /\ savedEarly' = (savedEarly /\ ~fDumpMempoolLater)
    /\ UNCHANGED <<toLoad, fDumpMempoolLater, starts>>

FileNext == (\E orderly \in BOOLEAN : Restart(orderly)) \/ LoadEntry \/ LoadDeltas \/ SaveMempool \/ Otherwise

FileSpec == FileInit /\ [][FileNext]_<<vars, fileVars>>

-----------------------------------------------------------------------------
(* Properties.                                                             *)

\* What was dumped at a shutdown is in the pool again when LoadMempool is through and
\* counts with the same fees, except for what got too old with all that spends it; also
\* if a shutdown or a crash came while it was loaded before, for a shutdown does not
\* replace the file by a pool that is not complete (fDumpMempoolLater).  savemempool
\* does: after it nothing is claimed of the transactions that were not loaded yet.
PoolReloaded ==
    fDumpMempoolLater /\ ~savedEarly =>
        /\ \A t \in dumped.mapTx \ pool.mapTx :
              \E old \in MayExpire \ pool.mapTx : t \in CalculateDescendants(dumped, {old})
        /\ \A t \in Txs : dumped.mapDeltas[t] # 0 => pool.mapDeltas[t] = dumped.mapDeltas[t]

=============================================================================
