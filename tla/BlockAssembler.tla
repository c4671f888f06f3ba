--------------------------- MODULE BlockAssembler ----------------------------
(***************************************************************************)
(* CreateNewBlock (miner.cpp): the transactions of the pool that go into a *)
(* block template.  It holds cs_main and the pool's lock throughout and    *)
(* changes neither chain nor pool, so it is an operator on them.           *)
(*                                                                         *)
(* Weights are in the units of Size, and sigop costs are left out as in    *)
(* TxPool; so are witness transactions before their activation.            *)
(***************************************************************************)
EXTENDS PoolReorg

CONSTANTS
    Hash,               \* the order of the hashes
    BLOCK_MAX,          \* -blockmaxweight
    RESERVED,           \* room for the coinbase
    BLOCK_MIN_FEE,      \* -blockmintxfee, for a unit of size
    MAX_CONSECUTIVE_FAILURES

\* CompareModifiedEntry and CompareTxMemPoolEntryByAncestorFee: t with the totals a
\* comes before u with the totals b.
CompareModifiedEntry(a, t, b, u) ==
    \/ a.fees * b.size > b.fees * a.size
    \/ a.fees * b.size = b.fees * a.size /\ Hash[t] < Hash[u]

First(totals, S) ==
    CHOOSE t \in S : \A u \in S \ {t} : CompareModifiedEntry(totals[t], t, totals[u], u)

\* S in an order, a set of pairs, that tells any two apart.
Sorted(S, before) ==
    [i \in 1 .. Cardinality(S) |->
        CHOOSE t \in S : Cardinality({u \in S \ {t} : <<u, t>> \in before}) = i - 1]

CompareIteratorByHash(S) == {tu \in S \X S : Hash[tu[1]] < Hash[tu[2]]}

setEntries(S) == Sorted(S, CompareIteratorByHash(S))

\* Slip: the entries stay in the order of the set.
UnsortedForBlock(p, package) == setEntries(package)

\* A transaction has more ancestors than those it depends on.
SortForBlock(p, package) ==
    LET Count(t) == p.withAncestors[t].count
        CompareTxIterByAncestorCount ==
            {tu \in package \X package :
                \/ Count(tu[1]) < Count(tu[2])
                \/ Count(tu[1]) = Count(tu[2]) /\ Hash[tu[1]] < Hash[tu[2]]}
    IN  Sorted(package, CompareTxIterByAncestorCount)

resetBlock(p) ==
    [vtx |-> <<>>, nBlockSize |-> RESERVED, nConsecutiveFailed |-> 0,
     ahead |-> p.mapTx,     \* what mi has not passed in the order of ancestor_score
     mapModifiedTx |-> <<>>, failedTx |-> {}]

inBlock(s) == ToSet(s.vtx)

Without(modified, S) == [t \in DOMAIN modified \ S |-> modified[t]]

\* An entry is made from the totals of the pool, less the first transaction that is
\* included; the later ones are taken off by update_for_parent_inclusion, with the
\* fee they pay (GetFee) and not with the one they count for.
UpdatePackagesForAdded(p, alreadyAdded, modified) ==
    LET ForTx(m, it) ==
            LET descendants == CalculateDescendants(p, {it}) \ alreadyAdded
                parent == [Sum(p, {it}) EXCEPT !.fees = Fee[it]]
            IN  [t \in DOMAIN m \cup descendants |->
                    IF t \notin descendants THEN m[t]
                    ELSE IF t \in DOMAIN m THEN Minus(m[t], parent)
                    ELSE Minus(p.withAncestors[t], Sum(p, {it}))]
    IN  FoldLeft(ForTx, modified, setEntries(alreadyAdded))

AddToBlock(p, s, package) ==
    [s EXCEPT !.vtx = @ \o SortForBlock(p, package),
              !.nBlockSize = @ + Sum(p, package).size,
              !.nConsecutiveFailed = 0,
              !.mapModifiedTx = UpdatePackagesForAdded(p, package, Without(@, package))]

SkipMapTxEntry(s, t) == t \in DOMAIN s.mapModifiedTx \cup inBlock(s) \cup s.failedTx

TestPackage(s, package) == s.nBlockSize + package.size < BLOCK_MAX

TestPackageTransactions(package) == \A t \in package : IsFinal(t)

GiveUp(s) ==
    s.nConsecutiveFailed + 1 > MAX_CONSECUTIVE_FAILURES /\ s.nBlockSize > BLOCK_MAX - RESERVED

\* The better of the next entry of mapTx and the best of mapModifiedTx, until there is
\* neither or what is left pays too little.  An entry of mapTx that fails is passed,
\* one of mapModifiedTx is erased.
RECURSIVE addPackageTxs(_, _)
addPackageTxs(p, s) ==
    LET ahead == {t \in s.ahead : ~SkipMapTxEntry(s, t)}
        next == First(p.withAncestors, ahead)
        best == First(s.mapModifiedTx, DOMAIN s.mapModifiedTx)
        fUsingModified ==
            /\ DOMAIN s.mapModifiedTx # {}
            /\ ahead # {} =>
                  CompareModifiedEntry(s.mapModifiedTx[best], best, p.withAncestors[next], next)
        iter == IF fUsingModified THEN best ELSE next
        package == IF fUsingModified THEN s.mapModifiedTx[iter] ELSE p.withAncestors[iter]
        ancestors == (CalculateMemPoolAncestors(p, iter) \ inBlock(s)) \cup {iter}
        passed == [s EXCEPT !.ahead = ahead \ {iter}]
        failing == IF ~fUsingModified THEN passed
                   ELSE [s EXCEPT !.mapModifiedTx = Without(@, {iter}), !.failedTx = @ \cup {iter}]
    IN  IF ahead = {} /\ DOMAIN s.mapModifiedTx = {} THEN s
        ELSE IF package.fees < BLOCK_MIN_FEE * package.size THEN s
        ELSE IF ~TestPackage(s, package)
             THEN IF GiveUp(s) THEN s
                  ELSE addPackageTxs(p, [failing EXCEPT !.nConsecutiveFailed = @ + 1])
        ELSE IF ~TestPackageTransactions(ancestors) THEN addPackageTxs(p, failing)
        ELSE addPackageTxs(p, AddToBlock(p, IF fUsingModified THEN s ELSE passed, ancestors))

CreateNewBlock == addPackageTxs(pool, resetBlock(pool))

-----------------------------------------------------------------------------
(* Properties.                                                             *)

\* TestBlockValidity passes on every template, whatever the pool went through: no
\* transaction is in it twice, each spends coins of the active chain or outputs of
\* transactions before it that no other spends, all are final, and the block is
\* not too large.
TemplateValid ==
    doing = "idle" =>
        LET block == CreateNewBlock
            txs == block.vtx
        IN  /\ block.nBlockSize < BLOCK_MAX
            /\ \A i \in DOMAIN txs :
                  /\ IsFinal(txs[i])
                  /\ \A o \in Inputs[txs[i]] :
                        (HaveCoin(o) /\ Mature(o)) \/ \E j \in 1 .. i - 1 : txs[j] = o[1]
                  /\ \A j \in 1 .. i - 1 :
                        txs[j] # txs[i] /\ Inputs[txs[j]] \cap Inputs[txs[i]] = {}

=============================================================================
