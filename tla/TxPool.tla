-------------------------------- MODULE TxPool --------------------------------
(***************************************************************************)
(* CTxMemPool (txmempool.cpp): the transactions of the pool, the links     *)
(* between them, and the totals of every entry with its ancestors and with *)
(* its descendants, which are kept up to date and never computed anew.     *)
(* An operator takes the pool before an operation to the pool after it.    *)
(*                                                                         *)
(* Left out: sigop costs, which are summed as sizes are, the indexes by    *)
(* address, the rolling minimum fee and the times of entries.              *)
(***************************************************************************)
EXTENDS Integers, FiniteSets, SequencesExt, FiniteSetsExt

CONSTANTS
    None,
    Txs,
    Inputs,             \* the set of outpoints, pairs of a hash and a number, it spends
    Size, Fee

Outpoints == UNION {Inputs[t] : t \in Txs}

\* The hash of a transaction that is spent may be of none in Txs.
ParentHashes(t) == {o[1] : o \in Inputs[t]}

Zero == [count |-> 0, size |-> 0, fees |-> 0]

EmptyPool ==
    [mapTx |-> {},
     parents |-> [t \in Txs |-> {}],
     children |-> [t \in Txs |-> {}],
     withAncestors |-> [t \in Txs |-> Zero],
     withDescendants |-> [t \in Txs |-> Zero],
     feeDelta |-> [t \in Txs |-> 0],
     mapNextTx |-> [o \in Outpoints |-> None],
     mapDeltas |-> [t \in Txs |-> 0],
     cachedInnerUsage |-> 0]

GetModifiedFee(p, t) == Fee[t] + p.feeDelta[t]

\* What the transactions of S add to the totals of another.
Sum(p, S) ==
    [count |-> Cardinality(S),
     size |-> MapThenSumSet(LAMBDA t : Size[t], S),
     fees |-> MapThenSumSet(LAMBDA t : GetModifiedFee(p, t), S)]

Plus(a, b) == [count |-> a.count + b.count, size |-> a.size + b.size, fees |-> a.fees + b.fees]
Minus(a, b) == [count |-> a.count - b.count, size |-> a.size - b.size, fees |-> a.fees - b.fees]

\* The transactions that are reached from those of S, which are among them.
RECURSIVE Reach(_, _)
Reach(links, S) ==
    LET next == S \cup UNION {links[t] : t \in S}
    IN  IF next = S THEN S ELSE Reach(links, next)

CalculateDescendants(p, S) == Reach(p.children, S)

\* With fSearchForParents: the links of an entry may be those of before a reorg.
SearchAncestors(p, t) == Reach(p.parents, ParentHashes(t) \cap p.mapTx)

CalculateMemPoolAncestors(p, t) == Reach(p.parents, p.parents[t])

\* The children by mapNextTx.
Spenders(p, t) == {p.mapNextTx[o] : o \in {o \in Outpoints : o[1] = t}} \ {None}

-----------------------------------------------------------------------------
(* Links.                                                                  *)

UpdateChild(p, entry, child, add) ==
    IF add = (child \in p.children[entry]) THEN p
    ELSE [p EXCEPT !.children[entry] = IF add THEN @ \cup {child} ELSE @ \ {child},
                   !.cachedInnerUsage = IF add THEN @ + 1 ELSE @ - 1]

UpdateParent(p, entry, parent, add) ==
    IF add = (parent \in p.parents[entry]) THEN p
    ELSE [p EXCEPT !.parents[entry] = IF add THEN @ \cup {parent} ELSE @ \ {parent},
                   !.cachedInnerUsage = IF add THEN @ + 1 ELSE @ - 1]

\* The change v may be negative.
UpdateAncestorState(p, S, v) ==
    [p EXCEPT !.withAncestors = [t \in Txs |-> IF t \in S THEN Plus(@[t], v) ELSE @[t]]]

UpdateDescendantState(p, S, v) ==
    [p EXCEPT !.withDescendants = [t \in Txs |-> IF t \in S THEN Plus(@[t], v) ELSE @[t]]]

UpdateAncestorsOf(p, add, t, ancestors) ==
    LET linked == FoldSet(LAMBDA parent, q : UpdateChild(q, parent, t, add), p, p.parents[t])
        own == Sum(p, {t})
    IN  UpdateDescendantState(linked, ancestors, IF add THEN own ELSE Minus(Zero, own))

-----------------------------------------------------------------------------
(* Adding.                                                                 *)

\* A transaction is linked to its parents, and never to children.
addUnchecked(p, t, ancestors) ==
    LET inserted ==
            [p EXCEPT !.mapTx = @ \cup {t},
                      !.feeDelta[t] = p.mapDeltas[t],
                      !.mapNextTx = [o \in Outpoints |->
                          IF o \in Inputs[t] /\ @[o] = None THEN t ELSE @[o]],
                      !.cachedInnerUsage = @ + Size[t]]
        counted == [inserted EXCEPT !.withAncestors[t] = Sum(inserted, {t}),
                                    !.withDescendants[t] = Sum(inserted, {t})]
        linked == FoldSet(LAMBDA parent, q : UpdateParent(q, t, parent, TRUE), counted,
                          ParentHashes(t) \cap p.mapTx)
        above == UpdateAncestorsOf(linked, TRUE, t, ancestors)
    IN  UpdateAncestorState(above, {t}, Sum(above, ancestors))

PrioritiseTransaction(p, t, nFeeDelta) ==
    LET noted == [p EXCEPT !.mapDeltas[t] = @ + nFeeDelta]
        v == [count |-> 0, size |-> 0, fees |-> nFeeDelta]
        own == UpdateAncestorState(
                   UpdateDescendantState([noted EXCEPT !.feeDelta[t] = noted.mapDeltas[t]],
                                         {t}, v),
                   {t}, v)
    IN  IF t \notin p.mapTx THEN noted
        ELSE UpdateAncestorState(
                 UpdateDescendantState(own, CalculateMemPoolAncestors(p, t), v),
                 CalculateDescendants(p, {t}) \ {t}, v)

-----------------------------------------------------------------------------
(* Removing.                                                               *)

removeUnchecked(t, p) ==
    [p EXCEPT !.mapTx = @ \ {t},
              !.mapNextTx = [o \in Outpoints |-> IF o \in Inputs[t] THEN None ELSE @[o]],
              !.cachedInnerUsage = @ - Size[t] - Cardinality(p.parents[t]) - Cardinality(p.children[t]),
              !.parents[t] = {}, !.children[t] = {},
              !.withAncestors[t] = Zero, !.withDescendants[t] = Zero, !.feeDelta[t] = 0]

\* The totals first, with the links as they were; then the links.
UpdateForRemoveFromMempool(p, S, updateDescendants) ==
    LET ForDescendants(t, q) ==
            UpdateAncestorState(q, CalculateDescendants(p, {t}) \ {t}, Minus(Zero, Sum(p, {t})))
        ForAncestors(t, q) == UpdateAncestorsOf(q, FALSE, t, CalculateMemPoolAncestors(p, t))
        UpdateChildrenForRemoval(t, q) ==
            FoldSet(LAMBDA child, r : UpdateParent(r, child, t, FALSE), q, q.children[t])
        below == IF updateDescendants THEN FoldSet(ForDescendants, p, S) ELSE p
    IN  FoldSet(UpdateChildrenForRemoval, FoldSet(ForAncestors, below, S), S)

RemoveStaged(p, S, updateDescendants) ==
    FoldSet(removeUnchecked, UpdateForRemoveFromMempool(p, S, updateDescendants), S)

\* A transaction that is not there may have children that are.
removeRecursive(p, t) ==
    LET txToRemove == IF t \in p.mapTx THEN {t} ELSE Spenders(p, t)
    IN  RemoveStaged(p, CalculateDescendants(p, txToRemove), FALSE)

ClearPrioritisation(p, t) == [p EXCEPT !.mapDeltas[t] = 0]

removeConflicts(p, t) ==
    LET Conflict(o, q) ==
            LET c == q.mapNextTx[o]
            IN  IF c \in {None, t} THEN q ELSE removeRecursive(ClearPrioritisation(q, c), c)
    IN  FoldSet(Conflict, p, Inputs[t])

removeForBlock(p, vtx) ==
    LET Confirm(q, t) ==
            LET removed == IF t \in q.mapTx THEN RemoveStaged(q, {t}, TRUE) ELSE q
            IN  ClearPrioritisation(removeConflicts(removed, t), t)
    IN  FoldLeft(Confirm, p, vtx)

Expire(p, old) == RemoveStaged(p, CalculateDescendants(p, old), FALSE)

\* The order of CompareTxMemPoolEntryByDescendantScore: a transaction counts with its
\* descendants if they pay more for their size.
Score(p, t) ==
    LET own == Sum(p, {t})
        all == p.withDescendants[t]
    IN  IF all.fees * own.size > own.fees * all.size THEN all ELSE own

\* The entries that TrimToSize may remove first: which of equals is a matter of time.
Worst(p) ==
    {t \in p.mapTx : \A u \in p.mapTx :
        Score(p, u).fees * Score(p, t).size >= Score(p, u).size * Score(p, t).fees}

-----------------------------------------------------------------------------
(* After a reorganization.                                                 *)

\* The transactions of vHashesToUpdate were added as if they had no children.  From
\* the last to the first, those that were not in the blocks are linked to them.
UpdateTransactionsFromBlock(p, vHashesToUpdate) ==
    LET included == ToSet(vHashesToUpdate)
        Update(t, q) ==
            LET new == Spenders(q, t) \ included
                linked == FoldSet(LAMBDA c, r : UpdateParent(UpdateChild(r, t, c, TRUE), c, t, TRUE), q, new)
                descendants == CalculateDescendants(linked, linked.children[t]) \ included
            IN  IF t \notin q.mapTx THEN q
                ELSE UpdateDescendantState(
                         UpdateAncestorState(linked, descendants, Sum(q, {t})),
                         {t}, Sum(q, descendants))
    IN  FoldRight(Update, vHashesToUpdate, p)

=============================================================================
