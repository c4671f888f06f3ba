-------------------------- MODULE ChainStateProofs --------------------------
(***************************************************************************)
(* What the block index keeps, for every tree of blocks, every number of   *)
(* threads and every use of the node: which blocks are linked, which wait  *)
(* in mapBlocksUnlinked, which may be marked as failed, and whose scripts  *)
(* were checked.                                                           *)
(***************************************************************************)
EXTENDS ChainState, FiniteSetTheorems, WellFoundedInduction, TLAPS

-----------------------------------------------------------------------------
(* The tree of blocks.                                                     *)

\* A nonempty set of natural numbers has a least member.
LEMMA LeastNat ==
    ASSUME NEW T \in SUBSET Nat, T # {}
    PROVE  \E x \in T : \A y \in T : x <= y
<1>. DEFINE R == {ss \in Nat \X Nat : ss[1] < ss[2]}
<1>1. IsWellFoundedOn(R, Nat)
  BY NatLessThanWellFounded, Zenon DEF OpToRel
<1>2. \A x, y \in Nat : y < x => <<y, x>> \in R
  BY Zenon
<1>. HIDE DEF R
<1>3. PICK x \in T : \A y \in T : ~(<<y, x>> \in R)
  BY <1>1, WFMin, Zenon
<1>4. ASSUME NEW y \in T
      PROVE  x <= y
  <2>1. x \in Nat /\ y \in Nat /\ ~(y < x)
    BY <1>2, <1>3, Zenon
  <2>. QED  BY <2>1
<1>. QED  BY <1>4, Zenon

\* Induction along pprev: what holds for Genesis and goes from a parent to its
\* child holds for every block.
LEMMA FromParent ==
    ASSUME NEW S, Genesis \in S, \A b \in Blocks \ {Genesis} : Parent[b] \in S => b \in S
    PROVE  Blocks \subseteq S
<1>. DEFINE T == {Height[b] : b \in Blocks \ S}
<1>. SUFFICES ASSUME T # {} PROVE FALSE
  OBVIOUS
<1>1. T \in SUBSET Nat
  BY TreeAssumption
<1>2. PICK x \in T : \A y \in T : x <= y
  BY <1>1, LeastNat, Zenon
<1>3. PICK b \in Blocks \ S : x = Height[b]
  BY Zenon
<1>4. Parent[b] \in Blocks \ S /\ Height[b] = Height[Parent[b]] + 1
  BY TreeAssumption, Zenon
<1>5. Height[Parent[b]] \in T /\ Height[Parent[b]] \in Nat
  BY <1>4, TreeAssumption
<1>. HIDE DEF T
<1>6. Height[b] <= Height[Parent[b]]
  BY <1>2, <1>3, <1>5, Zenon
<1>. QED  BY <1>4, <1>5, <1>6

\* A block is its own ancestor, and Genesis is one of every block.
LEMMA AncestorEnds ==
    \A b \in Blocks : b \in Ancestors[b] /\ Genesis \in Ancestors[b] /\ Ancestors[b] \subseteq Blocks
<1>. DEFINE S == {b \in Blocks : Genesis \in Ancestors[b]}
<1>1. Blocks \subseteq S
  <2>1. Genesis \in S /\ \A b \in Blocks \ {Genesis} : Parent[b] \in S => b \in S
    BY TreeAssumption
  <2>. HIDE DEF S
  <2>. QED  BY <2>1, FromParent, Zenon
<1>. QED  BY <1>1, TreeAssumption

\* The chain below a block is its parent's.
LEMMA ParentOf ==
    \A b \in Blocks \ {Genesis} :
        /\ Parent[b] \in Blocks /\ Parent[b] \in Ancestors[b]
        /\ b \notin Ancestors[Parent[b]] /\ Ancestors[b] = {b} \cup Ancestors[Parent[b]]
  BY AncestorEnds, TreeAssumption

\* What is closed under pprev contains the ancestors of its members.
LEMMA ClosedUnderParent ==
    ASSUME NEW C \in SUBSET Blocks, \A b \in C \ {Genesis} : Parent[b] \in C
    PROVE  \A b \in C : Ancestors[b] \subseteq C
<1>. DEFINE S == {b \in Blocks : b \in C => Ancestors[b] \subseteq C}
<1>1. Genesis \in S /\ \A b \in Blocks \ {Genesis} : Parent[b] \in S => b \in S
  BY TreeAssumption
<1>. HIDE DEF S
<1>2. Blocks \subseteq S
  BY <1>1, FromParent, Zenon
<1>. QED  BY <1>2, Zenon DEF S

\* The ancestors of an ancestor are ancestors.
LEMMA AncestorsNest ==
    \A b \in Blocks : \A a \in Ancestors[b] : a \in Blocks /\ Ancestors[a] \subseteq Ancestors[b]
<1>. SUFFICES ASSUME NEW b \in Blocks
              PROVE  \A a \in Ancestors[b] : a \in Blocks /\ Ancestors[a] \subseteq Ancestors[b]
  BY Zenon
<1>. DEFINE S == {c \in Blocks : \A a \in Ancestors[c] : Ancestors[a] \subseteq Ancestors[c]}
<1>1. Genesis \in S /\ \A c \in Blocks \ {Genesis} : Parent[c] \in S => c \in S
  BY TreeAssumption
<1>. HIDE DEF S
<1>2. Blocks \subseteq S
  BY <1>1, FromParent, Zenon
<1>. QED  BY <1>2, AncestorEnds, Zenon DEF S

\* An ancestor is lower and has less work.
LEMMA AncestorLower ==
    \A b \in Blocks : \A a \in Ancestors[b] : a = b \/ (Height[a] < Height[b] /\ Work[a] < Work[b])
<1>. DEFINE S == {b \in Blocks : \A a \in Ancestors[b] :
                     a = b \/ (Height[a] < Height[b] /\ Work[a] < Work[b])}
<1>1. Genesis \in S
  BY TreeAssumption, Zenon
<1>2. ASSUME NEW b \in Blocks \ {Genesis}, Parent[b] \in S
      PROVE  b \in S
  <2>. DEFINE p == Parent[b]
  <2>1. /\ p \in Blocks /\ Height[p] \in Nat /\ Work[p] \in Nat /\ Work[b] \in Nat
        /\ Ancestors[b] = {b} \cup Ancestors[p]
        /\ Height[b] = Height[p] + 1 /\ Work[b] > Work[p]
    BY TreeAssumption, Zenon
  <2>2. ASSUME NEW a \in Ancestors[p]
        PROVE  Height[a] < Height[b] /\ Work[a] < Work[b]
    <3>1. a \in Blocks /\ Height[a] \in Nat /\ Work[a] \in Nat
      BY <2>1, TreeAssumption, Zenon
    <3>2. a = p \/ (Height[a] < Height[p] /\ Work[a] < Work[p])
      BY <1>2, Zenon
    <3>. QED  BY <2>1, <3>1, <3>2
  <2>. QED  BY <2>1, <2>2, Zenon
<1>. HIDE DEF S
<1>3. Blocks \subseteq S
  BY <1>1, <1>2, FromParent, Zenon
<1>. QED  BY <1>3, Zenon DEF S

\* The ancestors of a block are a chain.
LEMMA AncestorsLinear ==
    \A b \in Blocks : \A a, c \in Ancestors[b] : a \in Ancestors[c] \/ c \in Ancestors[a]
<1>. DEFINE S == {b \in Blocks : \A a, c \in Ancestors[b] : a \in Ancestors[c] \/ c \in Ancestors[a]}
<1>1. Genesis \in S
  BY TreeAssumption, Zenon
<1>2. ASSUME NEW b \in Blocks \ {Genesis}, Parent[b] \in S
      PROVE  b \in S
  BY <1>2, TreeAssumption
<1>. HIDE DEF S
<1>3. Blocks \subseteq S
  BY <1>1, <1>2, FromParent, Zenon
<1>. QED  BY <1>3, Zenon DEF S

\* The blocks from an ancestor h of c up to c descend from h and are higher.
LEMMA PathAbove ==
    ASSUME NEW c \in Blocks, NEW h \in Ancestors[c], NEW x \in PathTo(c, h)
    PROVE  x \in Blocks /\ h \in Ancestors[x] /\ Ancestors[h] \subseteq Ancestors[x]
             /\ Height[h] < Height[x] /\ x # Genesis
<1>1. x \in Blocks /\ h \in Blocks /\ x \in Ancestors[c] /\ x \notin Ancestors[h]
  BY AncestorsNest, Zenon DEF PathTo
<1>2. h \in Ancestors[x]
  BY <1>1, AncestorsLinear, Zenon
<1>3. h # x /\ x # Genesis
  BY <1>1, AncestorEnds, Zenon
<1>. QED  BY <1>1, <1>2, <1>3, AncestorsNest, AncestorLower, Zenon

\* No two blocks are each other's ancestors.
LEMMA AncestorsAcyclic ==
    ASSUME NEW a \in Blocks, NEW b \in Blocks, a \in Ancestors[b], b \in Ancestors[a]
    PROVE  a = b
<1>1. Height[a] \in Nat /\ Height[b] \in Nat
  BY TreeAssumption, Zenon
<1>. QED  BY <1>1, AncestorLower

-----------------------------------------------------------------------------
(* The choices the code makes are defined.                                 *)

\* A nonempty set of blocks has a lowest member.
LEMMA LowestIn ==
    ASSUME NEW S \in SUBSET Blocks, S # {}
    PROVE  Lowest(S) \in S /\ \A x \in S : Height[Lowest(S)] <= Height[x]
<1>. DEFINE T == {Height[x] : x \in S}
<1>1. T \in SUBSET Nat /\ T # {}
  BY TreeAssumption
<1>2. PICK h \in T : \A y \in T : h <= y
  BY <1>1, LeastNat, Zenon
<1>3. \E b \in S : \A x \in S : Height[b] <= Height[x]
  BY <1>2, Zenon
<1>. QED  BY <1>3, Zenon DEF Lowest

\* A nonempty set of ancestors of a block has a highest member.
LEMMA HighestIn ==
    ASSUME NEW c \in Blocks, NEW S \in SUBSET Ancestors[c], S # {}
    PROVE  Highest(S) \in S /\ \A x \in S : Height[Highest(S)] >= Height[x]
<1>. DEFINE T == {Height[c] - Height[x] : x \in S}
<1>1. \A x \in S : Height[x] \in Nat /\ Height[c] \in Nat /\ Height[x] <= Height[c]
  BY TreeAssumption, AncestorLower, AncestorsNest
<1>2. T \in SUBSET Nat /\ T # {}
  BY <1>1
<1>3. PICK h \in T : \A y \in T : h <= y
  BY <1>2, LeastNat, Zenon
<1>4. PICK b \in S : h = Height[c] - Height[b]
  BY Zenon
<1>5. ASSUME NEW x \in S
      PROVE  Height[b] >= Height[x]
  <2>1. Height[c] - Height[x] \in T
    BY Zenon
  <2>. HIDE DEF T
  <2>2. Height[c] - Height[b] <= Height[c] - Height[x]
    BY <1>3, <1>4, <2>1, Zenon
  <2>. QED  BY <1>1, <2>2
<1>. QED  BY <1>5, Zenon DEF Highest

\* CBlockIndexWorkComparator is a strict total order, so a nonempty set of
\* blocks has a member that sorts last.
LEMMA BestIn ==
    ASSUME NEW S \in SUBSET Blocks, S # {}, NEW seq \in [Blocks -> Int], address \in Addresses
    PROVE  Best(S, seq) \in S
<1>. DEFINE R == StrictSubsetOrdering(Blocks)
            Last(U, b) == \A x \in U \ {b} : Worse(x, b, seq)
            Bad == {U \in SUBSET Blocks : U # {} /\ \A b \in U : ~Last(U, b)}
<1>0. /\ \A x \in Blocks : Work[x] \in Nat /\ seq[x] \in Int /\ address[x] \in Nat
      /\ \A x, y \in Blocks : address[x] = address[y] => x = y
  BY TreeAssumption, ConstantAssumption
<1>1. \A x, y \in Blocks : x # y => Worse(x, y, seq) \/ Worse(y, x, seq)
  BY <1>0 DEF Worse
<1>2. \A x, y, z \in Blocks : Worse(x, y, seq) /\ Worse(y, z, seq) => Worse(x, z, seq)
  BY <1>0 DEF Worse
<1>3. IsWellFoundedOn(R, SUBSET Blocks)
  <2>1. FiniteSubsetsOf(Blocks) = SUBSET Blocks
    BY TreeAssumption, FS_FiniteSubsetsOfFinite, Zenon
  <2>2. IsWellFoundedOn(R, FiniteSubsetsOf(Blocks))
    BY FS_StrictSubsetOrderingWellFounded, Zenon
  <2>. QED  BY <2>1, <2>2, Zenon
<1>4. \A U, V \in SUBSET Blocks : V \subseteq U /\ V # U => <<V, U>> \in R
  BY Zenon DEF StrictSubsetOrdering
<1>. HIDE DEF R
<1>5. Bad = {}
  <2>. SUFFICES ASSUME Bad # {} PROVE FALSE
    BY Zenon
  <2>. HIDE DEF Bad
  <2>1. Bad \subseteq SUBSET Blocks
    BY Zenon DEF Bad
  <2>2. PICK U \in Bad : \A V \in Bad : ~(<<V, U>> \in R)
    BY <1>3, <2>1, WFMin, Zenon
  <2>3. PICK x \in U : TRUE
    BY <2>2, Zenon DEF Bad
  <2>4. U \ {x} \notin Bad /\ x \in Blocks /\ U \in SUBSET Blocks
    BY <1>4, <2>1, <2>2, <2>3, Zenon
  <2>. HIDE DEF Last
  <2>5. CASE U \ {x} = {}
    <3>1. Last(U, x)
      BY <2>5, Zenon DEF Last
    <3>. QED  BY <2>2, <3>1, Zenon DEF Bad
  <2>6. CASE U \ {x} # {}
    <3>1. PICK y \in U \ {x} : Last(U \ {x}, y)
      BY <2>4, <2>6, Zenon DEF Bad
    <3>2. Last(U, y) \/ Last(U, x)
      BY <1>1, <1>2, <2>4, <3>1 DEF Last
    <3>. QED  BY <2>2, <3>1, <3>2, Zenon DEF Bad
  <2>. QED  BY <2>5, <2>6, Zenon
<1>6. \E b \in S : \A x \in S \ {b} : Worse(x, b, seq)
  BY <1>5, Zenon
<1>. QED  BY <1>6, Zenon DEF Best

-----------------------------------------------------------------------------
(* The index: links and data.                                              *)

\* Received, but not linked and not waiting in mapBlocksUnlinked to be.
Lost == nTx \ (nChainTx \cup mapBlocksUnlinked)

\* Linked blocks form a chain down to Genesis, candidates, the tip and every
\* thread's target are linked, and a block waits in mapBlocksUnlinked only
\* while its parent is not linked, or when FindMostWorkChain put it back there.
\* No block is lost but in the two ways that `forgotten` records.
LinkInv ==
    /\ usage \in Usages
    /\ mapBlockIndex \in SUBSET Blocks
    /\ \A b \in mapBlockIndex \ {Genesis} : Parent[b] \in mapBlockIndex
    /\ nTx \in SUBSET mapBlockIndex
    /\ Genesis \in nChainTx /\ nChainTx \in SUBSET nTx
    /\ \A b \in nChainTx \ {Genesis} : Parent[b] \in nChainTx
    /\ mapBlocksUnlinked \in SUBSET (nTx \ {Genesis})
    /\ \A b \in mapBlocksUnlinked \ nChainTx : Parent[b] \notin nChainTx
    /\ setBlockIndexCandidates \in SUBSET nChainTx
    /\ chainTip \in nChainTx
    /\ pindexMostWork \in [Threads -> nChainTx \cup {None}]
    /\ forgotten = Lost

\* What was received, what of it is still there, and how blocks are ordered.
DataInv ==
    /\ haveData \in SUBSET nTx
    /\ fHavePruned \/ nTx \subseteq haveData
    /\ nTx \cap BadBody = {}
    /\ validity \in [Blocks -> Int]
    /\ \A b \in Blocks : b \in nTx <=> validity[b] >= VALID_TRANSACTIONS
    /\ \A b \in mapBlockIndex : validity[b] >= VALID_TREE
    /\ address \in Addresses
    /\ nSequenceId \in [Blocks -> Int]
    /\ \A b \in Blocks \ nChainTx : nSequenceId[b] <= 0
    /\ nBlockSequenceId \in Int
    /\ nBlockReverseSequenceId \in Int /\ nBlockReverseSequenceId < 0

IndexInv == LinkInv /\ DataInv

\* The index and the linked blocks contain their members' ancestors.
LEMMA Closed ==
    ASSUME LinkInv
    PROVE  /\ \A b \in nChainTx : b \in Blocks /\ Ancestors[b] \subseteq nChainTx
           /\ \A b \in mapBlockIndex : b \in Blocks /\ Ancestors[b] \subseteq mapBlockIndex
<1>1. /\ nChainTx \in SUBSET Blocks /\ \A b \in nChainTx \ {Genesis} : Parent[b] \in nChainTx
      /\ mapBlockIndex \in SUBSET Blocks
      /\ \A b \in mapBlockIndex \ {Genesis} : Parent[b] \in mapBlockIndex
  BY Zenon DEF LinkInv
<1>2. \A b \in nChainTx : Ancestors[b] \subseteq nChainTx
  BY <1>1, ClosedUnderParent, Zenon
<1>3. \A b \in mapBlockIndex : Ancestors[b] \subseteq mapBlockIndex
  BY <1>1, ClosedUnderParent, Zenon
<1>. QED  BY <1>1, <1>2, <1>3, Zenon

\* The first block of a chain that is not linked does not wait for its parent:
\* it was forgotten or never came.
LEMMA LinkInvImplies ==
    ASSUME LinkInv
    PROVE  LinkedExact
<1>0. nChainTx \subseteq nTx /\ mapBlockIndex \subseteq Blocks /\ Genesis \in nChainTx /\ forgotten = Lost
  BY Zenon DEF LinkInv
<1>1. \A b \in nChainTx : Ancestors[b] \subseteq nTx \ forgotten
  BY <1>0, Closed, Zenon DEF Lost
<1>. DEFINE S == {b \in Blocks : Ancestors[b] \subseteq nTx \ forgotten => b \in nChainTx}
<1>2. Genesis \in S
  BY <1>0, TreeAssumption, Zenon
<1>3. ASSUME NEW b \in Blocks \ {Genesis}, Parent[b] \in S
      PROVE  b \in S
  <2>. SUFFICES ASSUME Ancestors[b] \subseteq nTx \ forgotten PROVE b \in nChainTx
    BY Zenon
  <2>1. b \in Ancestors[b] /\ Ancestors[Parent[b]] \subseteq Ancestors[b]
    BY TreeAssumption
  <2>2. Parent[b] \in nChainTx /\ b \in nChainTx \cup mapBlocksUnlinked
    BY <1>0, <1>3, <2>1, Zenon DEF Lost
  <2>. QED  BY <2>2, Zenon DEF LinkInv
<1>. HIDE DEF S
<1>4. Blocks \subseteq S
  BY <1>2, <1>3, FromParent, Zenon
<1>. QED  BY <1>0, <1>1, <1>4, Zenon DEF LinkedExact, S

-----------------------------------------------------------------------------
(* What FindMostWorkChain and ActivateBestChainStep do.                    *)

\* A candidate that is dropped leaves behind the blocks above its highest
\* obstacle, all of which are linked, have data and are not on the active chain.
LEMMA DroppedOK ==
    ASSUME LinkInv, NEW c \in setBlockIndexCandidates, Obstacles(c) # {}
    PROVE  LET h == Highest(Obstacles(c)) IN
           /\ h \in Obstacles(c) /\ h \in Blocks /\ h \notin ActiveChain
           /\ \A x \in AboveObstacle(c) :
                 /\ x \in nChainTx \ {Genesis} /\ x \in haveData
                 /\ h \in Ancestors[x]
                 /\ PathTo(x, h) \subseteq AboveObstacle(c)
<1>. DEFINE h == Highest(Obstacles(c))
<1>1. c \in nChainTx /\ c \in Blocks /\ Ancestors[c] \subseteq nChainTx /\ chainTip \in Blocks
  BY Closed, Zenon DEF LinkInv
<1>2. Obstacles(c) \in SUBSET Ancestors[c]
  BY Zenon DEF Obstacles, PathTo
<1>3. h \in Obstacles(c) /\ \A x \in Obstacles(c) : Height[h] >= Height[x]
  BY <1>1, <1>2, HighestIn, Zenon
<1>. HIDE DEF h
<1>4. h \in Ancestors[c] /\ h \in Blocks /\ h \notin ActiveChain
  BY <1>1, <1>3, AncestorsNest, Zenon DEF Obstacles, PathTo, ActiveChain
<1>5. ASSUME NEW x \in PathTo(c, h)
      PROVE  /\ x \in nChainTx \ {Genesis} /\ x \in haveData
             /\ h \in Ancestors[x]
             /\ PathTo(x, h) \subseteq PathTo(c, h)
  <2>1. /\ x \in Blocks /\ h \in Ancestors[x] /\ Height[h] < Height[x] /\ x # Genesis
        /\ Height[h] \in Nat /\ Height[x] \in Nat
    BY <1>1, <1>4, PathAbove, TreeAssumption, Zenon
  <2>2. x \in Ancestors[c] /\ Ancestors[x] \subseteq Ancestors[c]
    BY <1>1, AncestorsNest, Zenon DEF PathTo
  <2>3. x \notin Ancestors[chainTip]
    BY <1>1, <1>4, <2>1, AncestorsNest, Zenon DEF ActiveChain
  <2>4. x \notin Obstacles(c)
    BY <1>3, <2>1
  <2>. QED  BY <1>1, <2>1, <2>2, <2>3, <2>4, Zenon DEF Obstacles, PathTo
<1>. QED  BY <1>3, <1>4, <1>5, Zenon DEF h, AboveObstacle

\* What FindMostWorkChain finds, marks and puts back.
LEMMA FoundOK ==
    ASSUME IndexInv, NEW found, found = FindMostWorkChain
    PROVE  /\ found.most # None => /\ found.most \in setBlockIndexCandidates
                                   /\ Obstacles(found.most) = {}
           /\ \A x \in found.unlinked :
                 /\ x \in nChainTx \ {Genesis} /\ x \in haveData
                 /\ \E h \in Ancestors[x] \ haveData : PathTo(x, h) \subseteq found.unlinked
           /\ \A x \in found.failed :
                 /\ x \in nChainTx
                 /\ \E h \in Ancestors[x] : h \in FailedMask /\ h \notin ActiveChain
<1>. DEFINE usable == {c \in setBlockIndexCandidates : Obstacles(c) = {}}
            isFailed(c) == Highest(Obstacles(c)) \in FailedMask
            most == IF usable = {} THEN None ELSE Best(usable, nSequenceId)
            dropped == {c \in setBlockIndexCandidates \ usable :
                          most = None \/ Worse(most, c, nSequenceId)}
            failed == UNION {MarkedFailed(c) : c \in {d \in dropped : isFailed(d)}}
            unlinked == UNION {Unlinked(c) : c \in {d \in dropped : ~isFailed(d)}}
<1>1. found.most = most /\ found.failed = failed /\ found.unlinked = unlinked
  BY Zenon DEF FindMostWorkChain
<1>2. usable # {} => Best(usable, nSequenceId) \in usable
  <2>1. usable \in SUBSET Blocks /\ nSequenceId \in [Blocks -> Int] /\ address \in Addresses
    BY Zenon DEF IndexInv, LinkInv, DataInv
  <2>. HIDE DEF usable
  <2>. QED  BY <2>1, BestIn, Zenon
<1>3. \A c \in dropped : c \in setBlockIndexCandidates /\ Obstacles(c) # {}
  BY Zenon
<1>4. most # None => most \in setBlockIndexCandidates /\ Obstacles(most) = {}
  BY <1>2, Zenon
<1>. HIDE DEF most, dropped, usable
<1>5. ASSUME NEW x \in unlinked
      PROVE  /\ x \in nChainTx \ {Genesis} /\ x \in haveData
             /\ \E h \in Ancestors[x] \ haveData : PathTo(x, h) \subseteq unlinked
  <2>1. PICK c \in dropped : ~isFailed(c) /\ x \in AboveObstacle(c)
    BY Zenon DEF Unlinked
  <2>2. AboveObstacle(c) \subseteq unlinked
    BY <2>1, Zenon DEF Unlinked
  <2>. DEFINE h == Highest(Obstacles(c))
  <2>3. /\ h \in Obstacles(c) /\ h \in Ancestors[x] /\ PathTo(x, h) \subseteq AboveObstacle(c)
        /\ x \in nChainTx \ {Genesis} /\ x \in haveData
    BY <1>3, <2>1, DroppedOK, Zenon DEF IndexInv
  <2>4. h \notin haveData
    BY <2>1, <2>3, Zenon DEF Obstacles
  <2>. HIDE DEF h, unlinked
  <2>. QED  BY <2>2, <2>3, <2>4, Zenon
<1>6. ASSUME NEW x \in failed
      PROVE  /\ x \in nChainTx
             /\ \E h \in Ancestors[x] : h \in FailedMask /\ h \notin ActiveChain
  <2>1. PICK c \in dropped : isFailed(c) /\ x \in AboveObstacle(c)
    BY Zenon DEF MarkedFailed
  <2>. DEFINE h == Highest(Obstacles(c))
  <2>2. h \in Ancestors[x] /\ h \notin ActiveChain /\ x \in nChainTx
    BY <1>3, <2>1, DroppedOK, Zenon DEF IndexInv
  <2>. QED  BY <2>1, <2>2, Zenon
<1>. HIDE DEF failed, unlinked
<1>. QED  BY <1>1, <1>4, <1>5, <1>6, Zenon

\* One step towards m: the new chain is made of the old one and of what was
\* connected, which is connected from the fork upwards and never includes a
\* block that ConnectBlock refuses.
LEMMA StepOK ==
    ASSUME NEW m \in Blocks, chainTip \in Blocks, NEW step, \E c : step = StepOutcome(m, c)
    PROVE  /\ step.tip \in Ancestors[m] \cup ActiveChain
           /\ step.connected \subseteq PathTo(m, chainTip)
           /\ Ancestors[step.tip] \subseteq ActiveChain \cup step.connected
           /\ \A x \in step.connected : Ancestors[x] \subseteq ActiveChain \cup step.connected
           /\ step.connected \cap BadConnect = {}
           /\ step.bad \subseteq BadConnect \cap haveData \cap Ancestors[m]
           /\ ~Finished(m, step) /\ ~step.fInvalidFound =>
                 step.tip \in PathTo(m, chainTip) /\ step.bad = {}
<1>0. PICK corrupt : step = StepOutcome(m, corrupt)
  BY Zenon
<1>. DEFINE unreadable == Unreadable(PathTo(chainTip, m), corrupt)
            path == PathTo(m, chainTip)
            fails == {b \in path : b \in BadConnect \/ b \in corrupt \/ b \notin haveData}
            stops == {b \in path : b \in fails \/ Work[b] > Work[chainTip]}
            stop == Lowest(stops)
            reaches(b) == [tip |-> b, connected |-> path \cap Ancestors[b], bad |-> {},
                           fInvalidFound |-> FALSE, error |-> FALSE, abort |-> FALSE]
<1>1. \A x \in path : x \in Ancestors[m] /\ x \in Blocks /\ Ancestors[x] \subseteq path \cup ActiveChain
  BY AncestorsNest, Zenon DEF PathTo, ActiveChain
<1>2. CASE unreadable # {}
  <2>1. unreadable \in SUBSET Ancestors[chainTip]
    BY Zenon DEF Unreadable, PathTo
  <2>2. Highest(unreadable) \in ActiveChain
    BY <1>2, <2>1, HighestIn, Zenon DEF ActiveChain
  <2>3. step = [reaches(Highest(unreadable)) EXCEPT
                  !.connected = {}, !.error = TRUE, !.abort = Highest(unreadable) \notin haveData]
    BY <1>0, <1>2, Zenon DEF StepOutcome
  <2>4. Ancestors[Highest(unreadable)] \subseteq ActiveChain
    BY <2>2, AncestorsNest, Zenon DEF ActiveChain
  <2>. HIDE DEF unreadable, path
  <2>5. step.tip = Highest(unreadable) /\ step.connected = {} /\ step.bad = {} /\ step.error
    BY <2>3, Zenon
  <2>. QED  BY <2>2, <2>4, <2>5, Zenon DEF Finished
<1>3. CASE unreadable = {} /\ stops = {}
  <2>1. step = reaches(m)
    BY <1>0, <1>3, Zenon DEF StepOutcome
  <2>2. /\ m \in Ancestors[m] /\ Ancestors[m] \subseteq ActiveChain \cup path
        /\ path \cap Ancestors[m] = path
    BY <1>1, AncestorEnds, Zenon DEF PathTo, ActiveChain
  <2>3. path \cap BadConnect = {}
    BY <1>3, Zenon
  <2>. HIDE DEF path
  <2>4. step.tip = m /\ step.connected = path /\ step.bad = {} /\ ~step.fInvalidFound
    BY <2>1, <2>2
  <2>. QED  BY <1>1, <2>2, <2>3, <2>4, Zenon DEF Finished, path
<1>4. CASE unreadable = {} /\ stops # {}
  <2>1. stop \in stops /\ \A x \in stops : Height[stop] <= Height[x]
    BY <1>1, <1>4, LowestIn, Zenon
  <2>2. /\ stop \in path /\ stop \in Blocks \ {Genesis} /\ Parent[stop] \in Blocks
        /\ stop \in Ancestors[stop] /\ Ancestors[stop] \subseteq Ancestors[m]
        /\ Ancestors[Parent[stop]] = Ancestors[stop] \ {stop}
        /\ Parent[stop] \in Ancestors[stop]
    <3>1. stop \in path /\ stop \in Blocks /\ stop \in Ancestors[m] /\ stop \notin Ancestors[chainTip]
      BY <1>1, <2>1, Zenon DEF PathTo
    <3>. HIDE DEF stop, path
    <3>2. stop # Genesis /\ stop \in Ancestors[stop] /\ Ancestors[stop] \subseteq Ancestors[m]
      BY <3>1, AncestorEnds, AncestorsNest, Zenon
    <3>3. /\ Parent[stop] \in Blocks /\ Ancestors[stop] = {stop} \cup Ancestors[Parent[stop]]
          /\ stop \notin Ancestors[Parent[stop]]
      BY <3>1, <3>2, TreeAssumption, Zenon
    <3>. QED  BY <3>1, <3>2, <3>3, AncestorEnds, Zenon
  <2>3. \A x \in Ancestors[stop] \ {stop} : x \notin stops
    <3>1. ASSUME NEW x \in Ancestors[stop] \ {stop}
          PROVE  Height[x] < Height[stop] /\ Height[x] \in Nat /\ Height[stop] \in Nat
      BY <2>2, AncestorLower, AncestorsNest, TreeAssumption, Zenon
    <3>. QED  BY <2>1, <3>1
  <2>4. Ancestors[stop] \subseteq path \cup ActiveChain
    BY <1>1, <2>2, Zenon
  <2>. HIDE DEF stop
  <2>5. CASE stop \in fails
    <3>. DEFINE connected == path \cap Ancestors[Parent[stop]]
    <3>1. \/ stop \notin haveData /\ step = [reaches(Parent[stop]) EXCEPT !.error = TRUE, !.abort = TRUE]
          \/ /\ stop \in haveData
             /\ step = [reaches(Parent[stop]) EXCEPT !.bad = {stop} \ corrupt, !.fInvalidFound = TRUE]
      BY <1>0, <1>4, <2>5, Zenon DEF StepOutcome, stop
    <3>2. \A x \in connected : Ancestors[x] \subseteq ActiveChain \cup connected
      BY <1>1, <2>2, AncestorsNest, Zenon
    <3>3. connected \cap BadConnect = {}
      BY <2>2, <2>3, Zenon
    <3>7. Parent[stop] \in Ancestors[m] /\ Ancestors[Parent[stop]] \subseteq ActiveChain \cup connected
      BY <2>2, <2>4, Zenon
    <3>9. connected \subseteq path /\ (stop \in haveData => {stop} \ corrupt \subseteq BadConnect)
      BY <2>5, Zenon
    <3>. HIDE DEF path, fails
    <3>4. step.tip = Parent[stop] /\ step.connected = connected
      BY <3>1, Zenon
    <3>5. \/ step.error /\ step.bad = {}
          \/ step.fInvalidFound /\ step.bad = {stop} \ corrupt /\ stop \in haveData
      BY <3>1, Zenon
    <3>6. Finished(m, step) \/ step.fInvalidFound
      BY <3>5, Zenon DEF Finished
    <3>8. step.bad \subseteq BadConnect \cap haveData \cap Ancestors[m]
      BY <2>2, <3>5, <3>9, Zenon
    <3>. HIDE DEF connected
    <3>. QED  BY <3>2, <3>3, <3>4, <3>6, <3>7, <3>8, <3>9, Zenon DEF path
  <2>6. CASE stop \notin fails
    <3>. DEFINE connected == path \cap Ancestors[stop]
    <3>1. step = reaches(stop)
      BY <1>0, <1>4, <2>6, Zenon DEF StepOutcome, stop
    <3>2. \A x \in connected : Ancestors[x] \subseteq ActiveChain \cup connected
      BY <1>1, <2>2, AncestorsNest, Zenon
    <3>3. connected \cap BadConnect = {}
      BY <2>3, <2>6, Zenon
    <3>5. /\ stop \in Ancestors[m] /\ Ancestors[stop] \subseteq ActiveChain \cup connected
          /\ connected \subseteq path
      BY <2>2, <2>4, Zenon
    <3>. HIDE DEF path
    <3>4. step.tip = stop /\ step.connected = connected /\ step.bad = {}
      BY <3>1
    <3>. HIDE DEF connected
    <3>. QED  BY <2>2, <3>2, <3>3, <3>4, <3>5, Zenon DEF path
  <2>. QED  BY <2>5, <2>6, Zenon
<1>. QED  BY <1>2, <1>3, <1>4, Zenon

-----------------------------------------------------------------------------
(* Every step keeps the index in order.                                    *)

\* A header is only accepted on top of an indexed block.
LEMMA AddedOK ==
    ASSUME IndexInv, NEW b \in Blocks \ {Genesis}, ~HeaderRefused(b)
    PROVE  /\ Parent[b] \in mapBlockIndex
           /\ AddedValidity(b) \in [Blocks -> Int]
           /\ \A x \in Blocks : x \in nTx <=> AddedValidity(b)[x] >= VALID_TRANSACTIONS
           /\ \A x \in mapBlockIndex \cup {b} : AddedValidity(b)[x] >= VALID_TREE
<1>1. Parent[b] \in mapBlockIndex
  BY Zenon DEF HeaderRefused, IndexInv, LinkInv
<1>2. /\ mapBlockIndex \subseteq Blocks /\ nTx \subseteq mapBlockIndex
      /\ validity \in [Blocks -> Int]
      /\ \A x \in Blocks : x \in nTx <=> validity[x] >= VALID_TRANSACTIONS
      /\ \A x \in mapBlockIndex : validity[x] >= VALID_TREE
  BY Zenon DEF IndexInv, LinkInv, DataInv
<1>. QED  BY <1>1, <1>2 DEF AddedValidity, VALID_TREE, VALID_TRANSACTIONS

\* Headers: the index grows, nothing is linked.
LEMMA HeadersIndex ==
    ASSUME IndexInv, NEW t, NEW b \in Blocks, ProcessNewBlockHeaders(t, b), UNCHANGED usage
    PROVE  IndexInv'
<1>1. b # Genesis /\ UNCHANGED <<received, address, setBlockIndexCandidates, mapBlocksUnlinked,
                                 chainTip, precious, fHavePruned, threads>>
  BY Zenon DEF ProcessNewBlockHeaders
<1>2. CASE UNCHANGED <<mapBlockIndex, validity>>
  BY <1>1, <1>2, Zenon DEF IndexInv, LinkInv, Lost, DataInv, received, precious, threads
<1>3. CASE ~HeaderRefused(b) /\ mapBlockIndex' = mapBlockIndex \cup {b} /\ validity' = AddedValidity(b)
  <2>1. LinkInv'
    BY <1>1, <1>3, AddedOK, Zenon DEF IndexInv, LinkInv, Lost, received, threads
  <2>2. DataInv'
    BY <1>1, <1>3, AddedOK, Zenon DEF IndexInv, DataInv, received, precious
  <2>. QED  BY <2>1, <2>2, Zenon DEF IndexInv
<1>. QED  BY <1>2, <1>3, Zenon DEF ProcessNewBlockHeaders

\* What the queue of ReceivedBlockTransactions reaches from a block whose parent
\* is linked: blocks that waited, each with its parent; and it stops only where
\* a block does not wait.
LEMMA NowLinkedOK ==
    ASSUME LinkInv, NEW b \in Blocks \ {Genesis}
    PROVE  /\ NowLinked(b) \subseteq mapBlocksUnlinked \cup {b}
           /\ \A x \in NowLinked(b) \ {b} : Parent[x] \in NowLinked(b) \cup {b}
           /\ \A x \in mapBlocksUnlinked : Parent[x] \in NowLinked(b) \cup {b} => x \in NowLinked(b)
<1>0. /\ mapBlockIndex \subseteq Blocks /\ mapBlocksUnlinked \subseteq mapBlockIndex \ {Genesis}
      /\ \A x \in mapBlockIndex \ {Genesis} : Parent[x] \in mapBlockIndex
  BY Zenon DEF LinkInv
<1>1. ASSUME NEW x \in NowLinked(b), x # b
      PROVE  x \in mapBlocksUnlinked /\ Parent[x] \in NowLinked(b)
  <2>1. /\ x \in mapBlockIndex /\ x \in Blocks /\ b \in Ancestors[x]
        /\ PathTo(x, b) \subseteq mapBlocksUnlinked
    BY <1>0, Zenon DEF NowLinked
  <2>2. x \in Ancestors[x] /\ x \notin Ancestors[b]
    BY <1>1, <2>1, AncestorEnds, AncestorsAcyclic, Zenon
  <2>3. x \in mapBlocksUnlinked
    BY <2>1, <2>2, Zenon DEF PathTo
  <2>4. Parent[x] \in mapBlockIndex /\ Ancestors[x] = {x} \cup Ancestors[Parent[x]]
    BY <1>0, <2>3, TreeAssumption, Zenon
  <2>5. b \in Ancestors[Parent[x]] /\ PathTo(Parent[x], b) \subseteq PathTo(x, b)
    BY <1>1, <2>1, <2>4, Zenon DEF PathTo
  <2>. QED  BY <2>1, <2>3, <2>4, <2>5, Zenon DEF NowLinked
<1>2. ASSUME NEW x \in mapBlocksUnlinked, Parent[x] \in NowLinked(b) \cup {b}
      PROVE  x \in NowLinked(b)
  <2>1. /\ x \in mapBlockIndex /\ x \in Blocks \ {Genesis}
        /\ Ancestors[x] = {x} \cup Ancestors[Parent[x]]
    BY <1>0, TreeAssumption, Zenon
  <2>2. b \in Ancestors[Parent[x]] /\ PathTo(Parent[x], b) \subseteq mapBlocksUnlinked
    BY <1>2, AncestorEnds, Zenon DEF NowLinked, PathTo
  <2>. QED  BY <2>1, <2>2, Zenon DEF NowLinked, PathTo
<1>. QED  BY <1>1, <1>2, Zenon

\* A block that arrives: it is linked with all that waited for it, or it waits
\* itself, or it is forgotten.
LEMMA ReceivedIndex ==
    ASSUME IndexInv, NEW b \in Blocks \ {Genesis}, ~HeaderRefused(b), b \notin BadBody,
           mapBlockIndex' = mapBlockIndex \cup {b}, ReceivedBlockTransactions(b),
           UNCHANGED <<usage, address, chainTip, precious, fHavePruned, pindexMostWork>>
    PROVE  IndexInv'
<1>0. LinkInv /\ DataInv /\ Parent[b] \in mapBlockIndex /\ Parent[b] \in Blocks
  BY AddedOK, TreeAssumption, Zenon DEF IndexInv
<1>. DEFINE R == NowLinked(b) \cup {b}
<1>1. /\ R \subseteq mapBlocksUnlinked \cup {b}
      /\ \A x \in R \ {b} : Parent[x] \in R
      /\ \A x \in mapBlocksUnlinked : Parent[x] \in R => x \in R
  BY <1>0, NowLinkedOK, Zenon
<1>. HIDE DEF R
<1>2. /\ nTx' = nTx \cup {b} /\ haveData' = haveData \cup {b}
      /\ validity' = [validity EXCEPT ![b] = IF @ < VALID_TRANSACTIONS THEN VALID_TRANSACTIONS ELSE @]
  BY Zenon DEF ReceivedBlockTransactions
<1>3. \/ /\ Parent[b] \in nChainTx /\ nChainTx' = nChainTx \cup R
         /\ mapBlocksUnlinked' = mapBlocksUnlinked \ (R \ {b})
         /\ setBlockIndexCandidates' \subseteq setBlockIndexCandidates \cup R
         /\ \E ids \in SequenceIds(R) :
               nSequenceId' = [x \in Blocks |-> IF x \in R THEN ids[x] ELSE nSequenceId[x]]
         /\ nBlockSequenceId' = nBlockSequenceId + Cardinality(R)
      \/ /\ Parent[b] \notin nChainTx /\ nChainTx' = nChainTx \ {b}
         /\ mapBlocksUnlinked' \subseteq mapBlocksUnlinked \cup {b}
         /\ UNCHANGED <<setBlockIndexCandidates, nSequenceId, nBlockSequenceId>>
  BY Zenon DEF ReceivedBlockTransactions, R
<1>4. nChainTx \subseteq nChainTx' /\ nChainTx' \subseteq nTx'
  BY <1>0, <1>1, <1>2, <1>3, Zenon DEF LinkInv
<1>8. forgotten' = Lost'
  <2>1. forgotten = Lost /\ (Parent[b] \notin nChainTx => b \notin nChainTx)
    BY <1>0, Zenon DEF LinkInv
  <2>2. CASE Parent[b] \in nChainTx
    <3>1. forgotten' = forgotten \ {b} /\ b \in R
      BY <2>2, Zenon DEF ReceivedBlockTransactions, Forgets, R
    <3>2. nChainTx' = nChainTx \cup R /\ mapBlocksUnlinked' = mapBlocksUnlinked \ (R \ {b})
      BY <1>3, <2>2, Zenon
    <3>. QED  BY <1>1, <1>2, <2>1, <3>1, <3>2, Zenon DEF Lost
  <2>3. CASE Parent[b] \notin nChainTx
    <3>1. WaitsForParent(b) <=> Parent[b] \notin FailedMask
      BY <1>0, Zenon DEF WaitsForParent, IsValid, DataInv
    <3>2. /\ nChainTx' = nChainTx \ {b}
          /\ mapBlocksUnlinked' = IF Parent[b] \notin FailedMask THEN mapBlocksUnlinked \cup {b}
                                  ELSE mapBlocksUnlinked
          /\ forgotten' = IF Parent[b] \in FailedMask THEN forgotten \cup ({b} \ mapBlocksUnlinked)
                          ELSE forgotten \ {b}
      BY <2>3, <3>1, Zenon DEF ReceivedBlockTransactions, Forgets
    <3>. QED  BY <1>2, <2>1, <2>3, <3>2, Zenon DEF Lost
  <2>. QED  BY <2>2, <2>3, Zenon
<1>5. LinkInv'
  <2>1. \A x \in nChainTx' \ {Genesis} : Parent[x] \in nChainTx'
    BY <1>0, <1>1, <1>3 DEF LinkInv
  <2>2. mapBlocksUnlinked' \in SUBSET (nTx' \ {Genesis})
    BY <1>0, <1>2, <1>3, Zenon DEF LinkInv
  <2>3. \A x \in mapBlocksUnlinked' \ nChainTx' : Parent[x] \notin nChainTx'
    BY <1>0, <1>1, <1>3 DEF LinkInv
  <2>4. setBlockIndexCandidates' \in SUBSET nChainTx'
    BY <1>0, <1>3, <1>4, Zenon DEF LinkInv
  <2>5. \A x \in mapBlockIndex' \ {Genesis} : Parent[x] \in mapBlockIndex'
    BY <1>0, Zenon DEF LinkInv
  <2>6. pindexMostWork' \in [Threads -> nChainTx' \cup {None}]
    BY <1>0, <1>4, Zenon DEF LinkInv
  <2>. QED  BY <1>0, <1>2, <1>4, <1>8, <2>1, <2>2, <2>3, <2>4, <2>5, <2>6 DEF LinkInv
<1>6. nSequenceId' \in [Blocks -> Int] /\ nBlockSequenceId' \in Int
      /\ \A x \in Blocks \ nChainTx' : nSequenceId'[x] <= 0
  <2>1. nSequenceId \in [Blocks -> Int] /\ nBlockSequenceId \in Int
        /\ \A x \in Blocks \ nChainTx : nSequenceId[x] <= 0
    BY <1>0, Zenon DEF DataInv
  <2>2. Cardinality(R) \in Nat
    <3>0. mapBlocksUnlinked \subseteq Blocks
      BY <1>0, Zenon DEF LinkInv
    <3>1. R \subseteq Blocks
      BY <1>1, <3>0, Zenon
    <3>. QED  BY <3>1, TreeAssumption, FS_Subset, FS_CardinalityType, Zenon
  <2>3. \A ids \in SequenceIds(R) : \A x \in R : ids[x] \in Int
    BY <2>1, <2>2 DEF SequenceIds
  <2>. QED  BY <1>3, <1>4, <2>1, <2>2, <2>3
<1>7. DataInv'
  <2>1. haveData' \in SUBSET nTx' /\ (fHavePruned' \/ nTx' \subseteq haveData') /\ nTx' \cap BadBody = {}
    BY <1>0, <1>2, Zenon DEF DataInv
  <2>2. /\ validity' \in [Blocks -> Int]
        /\ \A x \in Blocks : x \in nTx' <=> validity'[x] >= VALID_TRANSACTIONS
        /\ \A x \in mapBlockIndex' : validity'[x] >= VALID_TREE
    BY <1>0, <1>2 DEF DataInv, LinkInv, VALID_TREE, VALID_TRANSACTIONS
  <2>. QED  BY <1>0, <1>6, <2>1, <2>2, Zenon DEF DataInv, precious
<1>. QED  BY <1>5, <1>7, Zenon DEF IndexInv

\* ProcessNewBlock.
LEMMA BlockIndexed ==
    ASSUME IndexInv, NEW t, NEW b \in Blocks, NEW fRequested, ProcessNewBlock(t, b, fRequested),
           UNCHANGED usage
    PROVE  IndexInv'
<1>1. b # Genesis /\ UNCHANGED <<address, chainTip, precious, fHavePruned, pindexMostWork>>
  BY Zenon DEF ProcessNewBlock
<1>2. \/ UNCHANGED <<mapBlockIndex, validity, received, setBlockIndexCandidates, mapBlocksUnlinked>>
      \/ /\ ~HeaderRefused(b) /\ mapBlockIndex' = mapBlockIndex \cup {b}
         /\ \/ /\ validity' = AddedValidity(b)
               /\ UNCHANGED <<received, setBlockIndexCandidates, mapBlocksUnlinked>>
            \/ b \notin BadBody /\ ReceivedBlockTransactions(b)
  BY Zenon DEF ProcessNewBlock
<1>3. CASE UNCHANGED <<mapBlockIndex, validity, received, setBlockIndexCandidates, mapBlocksUnlinked>>
  BY <1>1, <1>3, Zenon DEF IndexInv, LinkInv, Lost, DataInv, received, precious
<1>4. CASE /\ ~HeaderRefused(b) /\ mapBlockIndex' = mapBlockIndex \cup {b} /\ validity' = AddedValidity(b)
           /\ UNCHANGED <<received, setBlockIndexCandidates, mapBlocksUnlinked>>
  <2>1. LinkInv'
    BY <1>1, <1>4, AddedOK, Zenon DEF IndexInv, LinkInv, Lost, received
  <2>2. DataInv'
    BY <1>1, <1>4, AddedOK, Zenon DEF IndexInv, DataInv, received, precious
  <2>. QED  BY <2>1, <2>2, Zenon DEF IndexInv
<1>. QED  BY <1>1, <1>2, <1>3, <1>4, ReceivedIndex, Zenon

\* A round of ActivateBestChain that takes a step towards found.most.
Stepped(t, found, step) ==
    /\ found.most # None /\ \E c : step = StepOutcome(found.most, c)
    /\ chainTip' = step.tip
    /\ validity' = [b \in Blocks |->
                      IF b \in step.connected /\ b \notin failedValid \cup failedChild'
                      THEN VALID_SCRIPTS ELSE validity[b]]
    /\ failedValid' = failedValid \cup step.bad
    /\ g_failed_blocks' = g_failed_blocks \cup step.bad
    /\ pc' = [pc EXCEPT ![t] = IF Finished(found.most, step) THEN "idle" ELSE "loop"]
    /\ pindexMostWork' = [pindexMostWork EXCEPT ![t] =
                            IF Finished(found.most, step) \/ step.fInvalidFound THEN None ELSE found.most]
    /\ fate' \in {NO_CANDIDATE, "shutdown", fate}

\* What a round of ActivateBestChain changes.
Activated(t, found) ==
    /\ found = IF pindexMostWork[t] = None THEN FindMostWorkChain
               ELSE CachedMostWork(pindexMostWork[t])
    /\ failedChild' = failedChild \cup found.failed
    /\ mapBlocksUnlinked' = mapBlocksUnlinked \cup found.unlinked
    /\ setBlockIndexCandidates' \subseteq setBlockIndexCandidates
    /\ NothingToDo(t) \/ \E step : Stepped(t, found, step)
    /\ UNCHANGED <<mapBlockIndex, received, address, precious, fHavePruned, pardoned>>

\* ActivateBestChain does one of the two.
LEMMA ActivateCases ==
    ASSUME NEW t, ActivateBestChain(t)
    PROVE  \E found : Activated(t, found)
<1>. DEFINE F == IF pindexMostWork[t] = None THEN FindMostWorkChain
                 ELSE CachedMostWork(pindexMostWork[t])
            candidates == setBlockIndexCandidates \ F.erased
<1>. HIDE DEF F
<1>1. /\ failedChild' = failedChild \cup F.failed
      /\ mapBlocksUnlinked' = mapBlocksUnlinked \cup F.unlinked
      /\ \/ F.most \in {None, chainTip} /\ setBlockIndexCandidates' = candidates /\ NothingToDo(t)
         \/ /\ F.most \notin {None, chainTip}
            /\ \E step \in {StepOutcome(F.most, c) : c \in SUBSET usage.damaged} :
                  TakeStep(t, F.most, step, candidates)
      /\ UNCHANGED <<mapBlockIndex, received, address, precious, fHavePruned, pardoned>>
  BY Zenon DEF ActivateBestChain, F
<1>2. ASSUME NEW c, NEW step, step = StepOutcome(F.most, c), F.most # None,
             TakeStep(t, F.most, step, candidates)
      PROVE  Stepped(t, F, step) /\ setBlockIndexCandidates' \subseteq setBlockIndexCandidates
  <2>. HIDE DEF candidates
  <2>1. setBlockIndexCandidates' \subseteq candidates
    BY <1>2, Zenon DEF TakeStep, NotWorseThan
  <2>2. Stepped(t, F, step)
    BY <1>2, Zenon DEF TakeStep, Stepped, ScriptsValid, InvalidBlockFound
  <2>. QED  BY <2>1, <2>2, Zenon DEF candidates
<1>3. setBlockIndexCandidates' \subseteq setBlockIndexCandidates
      /\ (NothingToDo(t) \/ \E step : Stepped(t, F, step))
  BY <1>1, <1>2, Zenon
<1>4. Activated(t, F)
  BY <1>1, <1>3, Zenon DEF Activated, F
<1>. QED  BY <1>4, Zenon

\* The target of a round is a linked block, and what it puts back is linked.
LEMMA TargetLinked ==
    ASSUME IndexInv, NEW t \in Threads, NEW found, Activated(t, found)
    PROVE  /\ found.most \in nChainTx \cup {None}
           /\ found.unlinked \subseteq nChainTx \ {Genesis}
<1>1. /\ setBlockIndexCandidates \subseteq nChainTx
      /\ pindexMostWork[t] \in nChainTx \cup {None}
  BY Zenon DEF IndexInv, LinkInv
<1>2. CASE pindexMostWork[t] = None
  <2>1. found = FindMostWorkChain
    BY <1>2, Zenon DEF Activated
  <2>. QED  BY <1>1, <2>1, FoundOK, Zenon
<1>3. CASE pindexMostWork[t] # None
  BY <1>1, <1>3, Zenon DEF Activated, CachedMostWork
<1>. QED  BY <1>2, <1>3, Zenon

\* A round of ActivateBestChain.
LEMMA ActivateIndex ==
    ASSUME IndexInv, NEW t \in Threads, ActivateBestChain(t), UNCHANGED usage
    PROVE  IndexInv'
<1>1. PICK found : Activated(t, found)
  BY ActivateCases, Zenon
<1>2. /\ mapBlocksUnlinked' = mapBlocksUnlinked \cup found.unlinked
      /\ setBlockIndexCandidates' \subseteq setBlockIndexCandidates
      /\ UNCHANGED <<mapBlockIndex, received, address, precious, fHavePruned>>
  BY <1>1, Zenon DEF Activated
<1>3. found.most \in nChainTx \cup {None} /\ found.unlinked \subseteq nChainTx \ {Genesis}
  BY <1>1, TargetLinked, Zenon
<1>. DEFINE Kept == /\ chainTip' \in nChainTx
                    /\ pindexMostWork' \in [Threads -> nChainTx \cup {None}]
                    /\ \/ UNCHANGED validity
                       \/ \E S \in SUBSET nTx :
                             validity' = [b \in Blocks |-> IF b \in S THEN VALID_SCRIPTS ELSE validity[b]]
<1>4. Kept
  <2>0. chainTip \in nChainTx /\ pindexMostWork \in [Threads -> nChainTx \cup {None}]
        /\ nChainTx \subseteq nTx
    BY Zenon DEF IndexInv, LinkInv
  <2>1. CASE NothingToDo(t)
    BY <2>0, <2>1, Zenon DEF NothingToDo
  <2>2. ASSUME NEW step, Stepped(t, found, step)
        PROVE  Kept
    <3>1. found.most \in nChainTx /\ found.most \in Blocks /\ chainTip \in Blocks
          /\ Ancestors[found.most] \subseteq nChainTx /\ ActiveChain \subseteq nChainTx
      BY <1>3, <2>0, <2>2, Closed, Zenon DEF Stepped, IndexInv, ActiveChain
    <3>2. step.tip \in nChainTx /\ step.connected \subseteq nTx
      BY <2>0, <2>2, <3>1, StepOK, Zenon DEF Stepped, PathTo
    <3>. DEFINE S == step.connected \ (failedValid \cup failedChild')
    <3>3. S \in SUBSET nTx
          /\ validity' = [b \in Blocks |-> IF b \in S THEN VALID_SCRIPTS ELSE validity[b]]
      BY <2>2, <3>2, Zenon DEF Stepped
    <3>4. pindexMostWork' \in [Threads -> nChainTx \cup {None}]
      BY <2>0, <2>2, <3>1, Zenon DEF Stepped
    <3>5. chainTip' = step.tip
      BY <2>2, Zenon DEF Stepped
    <3>. HIDE DEF S
    <3>. QED  BY <3>2, <3>3, <3>4, <3>5, Zenon
  <2>. QED  BY <1>1, <2>1, <2>2, Zenon DEF Activated
<1>8. Lost' = Lost
  BY <1>2, <1>3, Zenon DEF Lost, received
<1>5. LinkInv'
  BY <1>2, <1>3, <1>4, <1>8, Zenon DEF IndexInv, LinkInv, received
<1>6. /\ validity' \in [Blocks -> Int]
      /\ \A b \in Blocks : b \in nTx <=> validity'[b] >= VALID_TRANSACTIONS
      /\ \A b \in mapBlockIndex : validity'[b] >= VALID_TREE
  BY <1>4 DEF IndexInv, LinkInv, DataInv, VALID_TREE, VALID_TRANSACTIONS, VALID_SCRIPTS
<1>7. DataInv'
  BY <1>2, <1>6, Zenon DEF IndexInv, DataInv, received, precious
<1>. QED  BY <1>5, <1>7, Zenon DEF IndexInv

\* invalidateblock takes blocks off the active chain; its candidates are linked.
LEMMA InvalidateIndex ==
    ASSUME IndexInv, NEW t, NEW b \in Blocks, NEW c, InvalidateBlock(t, b, c), UNCHANGED usage
    PROVE  IndexInv'
<1>1. /\ UNCHANGED <<mapBlockIndex, validity, received, address, mapBlocksUnlinked, precious,
                     fHavePruned, pindexMostWork>>
      /\ b # Genesis
  BY Zenon DEF InvalidateBlock
<1>2. setBlockIndexCandidates' \subseteq setBlockIndexCandidates \cup nChainTx
  BY Zenon DEF InvalidateBlock, CandidatesAgain
<1>3. chainTip' \in nChainTx
  <2>. DEFINE U == Unreadable(IF b \in ActiveChain THEN PathTo(chainTip, Parent[b]) ELSE {}, c)
  <2>1. chainTip \in nChainTx /\ chainTip \in Blocks /\ ActiveChain \subseteq nChainTx
    BY Closed, Zenon DEF IndexInv, LinkInv, ActiveChain
  <2>2. b \in ActiveChain => Parent[b] \in nChainTx
    BY <1>1, <2>1, Zenon DEF IndexInv, LinkInv
  <2>3. U \in SUBSET ActiveChain
    BY Zenon DEF Unreadable, PathTo, ActiveChain
  <2>4. U # {} => Highest(U) \in nChainTx
    <3>. HIDE DEF U
    <3>. QED  BY <2>1, <2>3, HighestIn, Zenon DEF ActiveChain
  <2>5. \/ U # {} /\ chainTip' = Highest(U)
        \/ chainTip' = IF b \in ActiveChain THEN Parent[b] ELSE chainTip
    BY Zenon DEF InvalidateBlock
  <2>. QED  BY <2>1, <2>2, <2>4, <2>5, Zenon
<1>. QED  BY <1>1, <1>2, <1>3, Zenon DEF IndexInv, LinkInv, Lost, DataInv, received, precious

\* reconsiderblock makes linked blocks candidates again.
LEMMA ReconsiderIndex ==
    ASSUME IndexInv, NEW t, NEW b \in Blocks, ReconsiderBlock(t, b), UNCHANGED usage
    PROVE  IndexInv'
<1>1. /\ UNCHANGED <<mapBlockIndex, validity, received, address, mapBlocksUnlinked, chainTip,
                     precious, fHavePruned, pindexMostWork>>
      /\ setBlockIndexCandidates' \subseteq setBlockIndexCandidates \cup nChainTx
  BY Zenon DEF ReconsiderBlock
<1>. QED  BY <1>1, Zenon DEF IndexInv, LinkInv, Lost, DataInv, received, precious

\* preciousblock hands out negative sequence ids.
LEMMA PreciousIndex ==
    ASSUME IndexInv, NEW t, NEW b \in Blocks, PreciousBlock(t, b), UNCHANGED usage
    PROVE  IndexInv'
<1>1. /\ UNCHANGED <<mapBlockIndex, status, haveData, nTx, nChainTx, nBlockSequenceId, address,
                     mapBlocksUnlinked, chainTip, fHavePruned, pindexMostWork, forgotten>>
      /\ nSequenceId' = [nSequenceId EXCEPT ![b] = PreciousId]
      /\ nBlockReverseSequenceId' = IF PreciousId > MinSequenceId THEN PreciousId - 1 ELSE PreciousId
  BY Zenon DEF PreciousBlock
<1>2. setBlockIndexCandidates' \subseteq setBlockIndexCandidates \cup nChainTx
  BY Zenon DEF PreciousBlock, NotWorseThan
<1>3. PreciousId \in Int /\ PreciousId < 0
  BY DEF IndexInv, DataInv, PreciousId
<1>4. LinkInv'
  BY <1>1, <1>2, Zenon DEF IndexInv, LinkInv, Lost
<1>5. DataInv'
  BY <1>1, <1>3 DEF IndexInv, DataInv, status
<1>. QED  BY <1>4, <1>5, Zenon DEF IndexInv

\* Pruning removes data, and the entry of the pruned block.
LEMMA PruneIndex ==
    ASSUME IndexInv, NEW b \in Blocks, PruneBlock(b), UNCHANGED usage
    PROVE  IndexInv'
<1>1. /\ UNCHANGED <<mapBlockIndex, status, nTx, nChainTx, nSequenceId, nBlockSequenceId, address,
                     setBlockIndexCandidates, chainTip, precious, threads>>
      /\ mapBlocksUnlinked' = mapBlocksUnlinked \ {b} /\ haveData' = haveData \ {b} /\ fHavePruned'
      /\ b \in haveData /\ forgotten' = forgotten \cup ({b} \ nChainTx)
  BY Zenon DEF PruneBlock, WithoutPruned
<1>4. forgotten' = Lost'
  <2>1. forgotten = Lost /\ b \in nTx
    BY <1>1, Zenon DEF IndexInv, LinkInv, DataInv
  <2>. QED  BY <1>1, <2>1, Zenon DEF Lost
<1>2. LinkInv'
  BY <1>1, <1>4, Zenon DEF IndexInv, LinkInv, threads
<1>3. DataInv'
  BY <1>1, Zenon DEF IndexInv, DataInv, status, precious
<1>. QED  BY <1>2, <1>3, Zenon DEF IndexInv

\* A start-up rebuilds the links from nTx; what was linked still is.
LEMMA RestartIndex ==
    ASSUME IndexInv, NEW t, Restart(t), UNCHANGED usage
    PROVE  IndexInv'
<1>. DEFINE linked == {b \in mapBlockIndex : Ancestors[b] \subseteq nTx}
<1>1. /\ address' \in Addresses /\ nSequenceId' = [b \in Blocks |-> 0] /\ nBlockSequenceId' = 1
      /\ nBlockReverseSequenceId' = -1 /\ nChainTx' = linked
      /\ mapBlocksUnlinked' = {b \in nTx \ {Genesis} : Parent[b] \notin linked}
      /\ setBlockIndexCandidates' \subseteq linked
      /\ pindexMostWork' = [u \in Threads |-> None] /\ forgotten' = {}
      /\ UNCHANGED <<mapBlockIndex, validity, failedValid, haveData, nTx, chainTip, fHavePruned>>
  BY Zenon DEF Restart
<1>2. Genesis \in linked /\ nChainTx \subseteq linked /\ linked \subseteq nTx
      /\ \A b \in linked \ {Genesis} : Parent[b] \in linked
  <2>1. /\ \A b \in nChainTx : b \in mapBlockIndex /\ Ancestors[b] \subseteq nTx
        /\ \A b \in mapBlockIndex \ {Genesis} : Parent[b] \in mapBlockIndex
        /\ mapBlockIndex \subseteq Blocks /\ Genesis \in nChainTx
    BY Closed, Zenon DEF IndexInv, LinkInv
  <2>2. \A b \in mapBlockIndex : b \in Ancestors[b]
    BY <2>1, AncestorEnds, Zenon
  <2>3. \A b \in mapBlockIndex \ {Genesis} : Ancestors[Parent[b]] \subseteq Ancestors[b]
    BY <2>1, TreeAssumption
  <2>. QED  BY <2>1, <2>2, <2>3, Zenon
<1>5. \A b \in nTx \ {Genesis} : Parent[b] \in linked => b \in linked
  <2>. SUFFICES ASSUME NEW b \in nTx \ {Genesis}, Parent[b] \in linked
                PROVE  b \in mapBlockIndex /\ Ancestors[b] \subseteq nTx
    BY Zenon
  <2>1. b \in mapBlockIndex /\ b \in Blocks /\ Ancestors[Parent[b]] \subseteq nTx
    BY Zenon DEF IndexInv, LinkInv
  <2>2. Ancestors[b] = {b} \cup Ancestors[Parent[b]]
    BY <2>1, ParentOf, Zenon
  <2>. QED  BY <2>1, <2>2, Zenon
<1>. HIDE DEF linked
<1>6. Lost' = {}
  BY <1>1, <1>2, <1>5, Zenon DEF Lost
<1>3. LinkInv'
  BY <1>1, <1>2, <1>6, Zenon DEF IndexInv, LinkInv
<1>4. DataInv'
  BY <1>1 DEF IndexInv, DataInv
<1>. QED  BY <1>3, <1>4, Zenon DEF IndexInv

\* The block index of a new node.
LEMMA InitIndex ==
    ASSUME Init
    PROVE  IndexInv
<1>1. LinkInv
  BY TreeAssumption, Zenon DEF Init, LinkInv, Lost
<1>2. DataInv
  BY TreeAssumption, ConstantAssumption DEF Init, DataInv, VALID_TREE, VALID_TRANSACTIONS
<1>. QED  BY <1>1, <1>2, Zenon DEF IndexInv

\* The steps of a node, with the threads and the blocks it is used with.
LEMMA NextCases ==
    ASSUME IndexInv, Next
    PROVE  /\ UNCHANGED usage
           /\ fate \in {"run", "shutdown"}
           /\ \/ \E t \in Threads \cap usage.threads, b \in Blocks :
                    \/ ProcessNewBlockHeaders(t, b)
                    \/ \E fRequested \in BOOLEAN : ProcessNewBlock(t, b, fRequested)
                    \/ "invalidate" \in usage.does /\ \E c : InvalidateBlock(t, b, c)
                    \/ ReconsiderBlock(t, b)
                    \/ PreciousBlock(t, b)
              \/ \E t \in Threads \cap usage.threads : ActivateBestChain(t)
              \/ \E b \in Blocks : PruneBlock(b)
              \/ "restart" \in usage.does /\ \E t \in Threads : Restart(t)
<1>1. usage.threads \subseteq Threads /\ usage.blocks \subseteq Blocks
  BY ConstantAssumption, Zenon DEF IndexInv, LinkInv
<1>. QED  BY <1>1, Zenon DEF Next, Receive, Rpc

\* Every step.
LEMMA IndexStep ==
    ASSUME IndexInv, [Next]_vars
    PROVE  IndexInv'
<1>1. CASE UNCHANGED vars
  BY <1>1, Zenon DEF vars, status, received, precious, threads, IndexInv, LinkInv, Lost, DataInv
<1>2. CASE Next
  BY <1>2, NextCases, HeadersIndex, BlockIndexed, InvalidateIndex, ReconsiderIndex,
     PreciousIndex, ActivateIndex, PruneIndex, RestartIndex, Zenon
<1>. QED  BY <1>1, <1>2, Zenon

-----------------------------------------------------------------------------
(* mapBlocksUnlinked.                                                      *)

\* A linked block in mapBlocksUnlinked was put there by FindMostWorkChain: it
\* has data, a block below it has none, and those between are there as well.
\* Only a start-up puts blocks without data there.
UnlinkedInv ==
    /\ mapBlocksUnlinked \subseteq haveData \/ "restart" \in usage.does
    /\ \A b \in mapBlocksUnlinked \cap nChainTx :
          /\ b \in haveData
          /\ \E o \in Ancestors[b] \ haveData : PathTo(b, o) \subseteq mapBlocksUnlinked

\* A block in mapBlocksUnlinked lacks an ancestor, so it is not there in vain.
LEMMA UnlinkedInvImplies ==
    ASSUME IndexInv, UnlinkedInv, NEW b \in mapBlocksUnlinked
    PROVE  /\ b \in haveData \/ (fHavePruned /\ b \notin nChainTx /\ "restart" \in usage.does)
           /\ ~(Ancestors[b] \subseteq haveData \ forgotten)
<1>1. b \in nTx /\ b \in mapBlockIndex /\ haveData \subseteq nTx /\ (fHavePruned \/ nTx \subseteq haveData)
  BY Zenon DEF IndexInv, LinkInv, DataInv
<1>2. CASE b \in nChainTx
  BY <1>2, Zenon DEF UnlinkedInv
<1>3. CASE b \notin nChainTx
  <2>1. ~(Ancestors[b] \subseteq nTx \ forgotten)
    BY <1>1, <1>3, LinkInvImplies, Zenon DEF IndexInv, LinkedExact
  <2>. QED  BY <1>1, <1>3, <2>1, Zenon DEF UnlinkedInv
<1>. QED  BY <1>2, <1>3, Zenon

\* If b waits above o, and a block in between is reached by the queue from r,
\* then the queue reaches b.
LEMMA ReachesAbove ==
    ASSUME LinkInv, NEW r \in Blocks, NEW b \in mapBlockIndex, NEW o \in Ancestors[b],
           PathTo(b, o) \subseteq mapBlocksUnlinked, NEW d \in PathTo(b, o), d \in NowLinked(r)
    PROVE  b \in NowLinked(r)
<1>1. b \in Blocks /\ o \in Blocks /\ d \in Ancestors[b] /\ d \in Blocks /\ d \notin Ancestors[o]
  BY AncestorsNest, Zenon DEF LinkInv, PathTo
<1>2. r \in Ancestors[d] /\ PathTo(d, r) \subseteq mapBlocksUnlinked
  BY Zenon DEF NowLinked
<1>3. ASSUME NEW x \in PathTo(b, r)
      PROVE  x \in mapBlocksUnlinked
  <2>1. x \in Ancestors[b] /\ x \notin Ancestors[r] /\ x \in Blocks
    BY <1>1, AncestorsNest, Zenon DEF PathTo
  <2>2. CASE x \in Ancestors[d]
    BY <1>2, <2>1, <2>2, Zenon DEF PathTo
  <2>3. CASE d \in Ancestors[x]
    <3>1. x \notin Ancestors[o]
      BY <1>1, <2>3, AncestorsNest, Zenon
    <3>. QED  BY <2>1, <3>1, Zenon DEF PathTo
  <2>. QED  BY <1>1, <2>1, <2>2, <2>3, AncestorsLinear, Zenon
<1>4. r \in Ancestors[b]
  BY <1>1, <1>2, AncestorsNest, Zenon
<1>. QED  BY <1>3, <1>4, Zenon DEF NowLinked

\* A block arrives that was not there: what it links leaves mapBlocksUnlinked,
\* and what still waits there waits for another one.
LEMMA ReceivedUnlinked ==
    ASSUME IndexInv, UnlinkedInv, NEW r \in Blocks \ {Genesis}, r \notin haveData,
           ReceivedBlockTransactions(r), UNCHANGED usage
    PROVE  UnlinkedInv'
<1>0. LinkInv /\ haveData' = haveData \cup {r}
  BY Zenon DEF IndexInv, ReceivedBlockTransactions
<1>3. mapBlocksUnlinked' \subseteq mapBlocksUnlinked \cup {r}
  BY Zenon DEF ReceivedBlockTransactions
<1>. SUFFICES ASSUME NEW b \in mapBlocksUnlinked' \cap nChainTx'
              PROVE  /\ b \in haveData'
                     /\ \E o \in Ancestors[b] \ haveData' : PathTo(b, o) \subseteq mapBlocksUnlinked'
  BY <1>0, <1>3, Zenon DEF UnlinkedInv
<1>1. CASE Parent[r] \in nChainTx
  <2>. DEFINE R == NowLinked(r) \cup {r}
  <2>1. nChainTx' = nChainTx \cup R /\ mapBlocksUnlinked' = mapBlocksUnlinked \ (R \ {r})
    BY <1>1, Zenon DEF ReceivedBlockTransactions
  <2>2. b \in mapBlocksUnlinked /\ b \in nChainTx
    BY <1>0, <1>1, <2>1, Zenon DEF LinkInv
  <2>3. b \in haveData /\ b \notin R /\ b \in mapBlockIndex
    <3>1. b \in haveData /\ b \in mapBlockIndex
      BY <1>0, <2>2, Zenon DEF UnlinkedInv, LinkInv
    <3>. QED  BY <2>1, <3>1, Zenon
  <2>4. PICK o \in Ancestors[b] \ haveData : PathTo(b, o) \subseteq mapBlocksUnlinked
    BY <2>2, Zenon DEF UnlinkedInv
  <2>5. o # r
    BY <2>3, <2>4, Zenon DEF NowLinked
  <2>6. \A d \in PathTo(b, o) : d \notin NowLinked(r)
    BY <1>0, <2>3, <2>4, ReachesAbove, Zenon
  <2>. QED  BY <1>0, <2>1, <2>3, <2>4, <2>5, <2>6, Zenon
<1>2. CASE Parent[r] \notin nChainTx
  <2>1. r \notin nChainTx
    BY <1>0, <1>2, Zenon DEF LinkInv
  <2>2. /\ nChainTx' = nChainTx /\ mapBlocksUnlinked \subseteq mapBlocksUnlinked'
        /\ mapBlocksUnlinked' \subseteq mapBlocksUnlinked \cup {r}
    BY <1>2, <2>1, Zenon DEF ReceivedBlockTransactions
  <2>3. b \in mapBlocksUnlinked \cap nChainTx /\ Ancestors[b] \subseteq nChainTx
    BY <1>0, <2>1, <2>2, Closed, Zenon
  <2>. QED  BY <1>0, <2>1, <2>2, <2>3, Zenon DEF UnlinkedInv
<1>. QED  BY <1>1, <1>2, Zenon

\* Pruning: the pruned block is what those above it lack now.
LEMMA PruneUnlinked ==
    ASSUME IndexInv, UnlinkedInv, NEW p \in Blocks, PruneBlock(p), UNCHANGED usage
    PROVE  UnlinkedInv'
<1>1. haveData' = haveData \ {p} /\ mapBlocksUnlinked' = mapBlocksUnlinked \ {p} /\ nChainTx' = nChainTx
  BY Zenon DEF PruneBlock, WithoutPruned
<1>. SUFFICES ASSUME NEW b \in mapBlocksUnlinked' \cap nChainTx'
              PROVE  /\ b \in haveData'
                     /\ \E o \in Ancestors[b] \ haveData' : PathTo(b, o) \subseteq mapBlocksUnlinked'
  BY <1>1, Zenon DEF UnlinkedInv
<1>2. b \in haveData' /\ b \in Blocks
  BY <1>1, Zenon DEF UnlinkedInv, IndexInv, LinkInv
<1>3. PICK o \in Ancestors[b] \ haveData : PathTo(b, o) \subseteq mapBlocksUnlinked
  BY <1>1, Zenon DEF UnlinkedInv
<1>4. CASE p \notin PathTo(b, o)
  BY <1>1, <1>2, <1>3, <1>4, Zenon
<1>5. CASE p \in PathTo(b, o)
  <2>1. p \in Ancestors[b] /\ Ancestors[o] \subseteq Ancestors[p] /\ p \in Ancestors[p]
    BY <1>2, <1>3, <1>5, PathAbove, AncestorEnds, Zenon DEF PathTo
  <2>2. PathTo(b, p) \subseteq mapBlocksUnlinked \ {p}
    BY <1>3, <2>1, Zenon DEF PathTo
  <2>. QED  BY <1>1, <1>2, <2>1, <2>2, Zenon
<1>. QED  BY <1>4, <1>5, Zenon

\* FindMostWorkChain puts back whole stretches above a block without data.
LEMMA ActivateUnlinked ==
    ASSUME IndexInv, UnlinkedInv, NEW t \in Threads, ActivateBestChain(t), UNCHANGED usage
    PROVE  UnlinkedInv'
<1>1. PICK found : Activated(t, found)
  BY ActivateCases, Zenon
<1>2. mapBlocksUnlinked' = mapBlocksUnlinked \cup found.unlinked /\ UNCHANGED <<haveData, nChainTx>>
  BY <1>1, Zenon DEF Activated, received
<1>3. \A x \in found.unlinked :
         /\ x \in haveData
         /\ \E h \in Ancestors[x] \ haveData : PathTo(x, h) \subseteq found.unlinked
  <2>1. CASE pindexMostWork[t] = None
    BY <1>1, <2>1, FoundOK, Zenon DEF Activated
  <2>2. CASE pindexMostWork[t] # None
    BY <1>1, <2>2, Zenon DEF Activated, CachedMostWork
  <2>. QED  BY <2>1, <2>2, Zenon
<1>. QED  BY <1>2, <1>3, Zenon DEF UnlinkedInv

\* Every step.
LEMMA UnlinkedStep ==
    ASSUME IndexInv, UnlinkedInv, [Next]_vars
    PROVE  UnlinkedInv'
<1>1. CASE UNCHANGED <<haveData, nChainTx, mapBlocksUnlinked, usage>>
  BY <1>1, Zenon DEF UnlinkedInv
<1>2. ASSUME NEW t, Restart(t), "restart" \in usage.does, UNCHANGED usage
      PROVE  UnlinkedInv'
  <2>. DEFINE linked == {b \in mapBlockIndex : Ancestors[b] \subseteq nTx}
  <2>1. nChainTx' = linked /\ mapBlocksUnlinked' = {b \in nTx \ {Genesis} : Parent[b] \notin linked}
    BY <1>2, Zenon DEF Restart
  <2>2. \A b \in linked \ {Genesis} : Parent[b] \in linked
    BY TreeAssumption, Zenon DEF IndexInv, LinkInv
  <2>. QED  BY <1>2, <2>1, <2>2, Zenon DEF UnlinkedInv
<1>3. ASSUME NEW t, NEW b \in Blocks, NEW fRequested, ProcessNewBlock(t, b, fRequested), UNCHANGED usage
      PROVE  UnlinkedInv'
  <2>1. \/ UNCHANGED <<received, mapBlocksUnlinked>>
        \/ b # Genesis /\ b \notin haveData /\ ReceivedBlockTransactions(b)
    BY <1>3, Zenon DEF ProcessNewBlock, Unwanted
  <2>. QED  BY <1>1, <1>3, <2>1, ReceivedUnlinked, Zenon DEF received
<1>4. CASE UNCHANGED vars
  BY <1>1, <1>4, Zenon DEF vars, received
<1>5. ASSUME NEW t, NEW b, \/ ProcessNewBlockHeaders(t, b) \/ \E c : InvalidateBlock(t, b, c)
                           \/ ReconsiderBlock(t, b) \/ PreciousBlock(t, b)
      PROVE  UNCHANGED <<haveData, nChainTx, mapBlocksUnlinked>>
  BY <1>5, Zenon DEF ProcessNewBlockHeaders, InvalidateBlock, ReconsiderBlock, PreciousBlock, received
<1>. QED
  BY NextCases, <1>1, <1>2, <1>3, <1>4, <1>5, ActivateUnlinked, PruneUnlinked, Zenon

-----------------------------------------------------------------------------
(* Marks of failure.                                                       *)

\* What was found invalid, and what was and had its mark taken off for the sake
\* of a descendant.
Causes == failedValid \cup pardoned

\* A marked block has a cause among its ancestors, and so has every member of
\* g_failed_blocks: it has BLOCK_FAILED_VALID or was pardoned.
FailInv ==
    /\ FailedMask \cup pardoned \subseteq mapBlockIndex
    /\ FailureHasCause
    /\ g_failed_blocks \subseteq Causes
    /\ FailedBlocksMarked \/ pardoned \cap g_failed_blocks # {}

\* What is above a marked block has a cause to be marked as well.
LEMMA Caused ==
    ASSUME FailInv, NEW b \in Blocks, NEW h \in Ancestors[b], h \in FailedMask
    PROVE  Ancestors[b] \cap Causes # {}
<1>1. Ancestors[h] \cap Causes # {}
  BY Zenon DEF FailInv, FailureHasCause, Causes
<1>2. Ancestors[h] \subseteq Ancestors[b]
  BY AncestorsNest, Zenon
<1>. QED  BY <1>1, <1>2, Zenon

\* Steps that only add marks, each with its cause.
LEMMA FailGrows ==
    ASSUME IndexInv, FailInv, UNCHANGED pardoned, mapBlockIndex' \in SUBSET Blocks,
           mapBlockIndex \subseteq mapBlockIndex', failedValid \subseteq failedValid',
           failedValid' \subseteq mapBlockIndex',
           \A x \in failedChild' \ failedChild :
              x \in mapBlockIndex' /\ Ancestors[x] \cap Causes' # {},
           g_failed_blocks' \subseteq Causes', fate' # NOT_FAILED_VALID
    PROVE  FailInv'
<1>1. FailedMask' \cup pardoned' \subseteq mapBlockIndex'
  BY Zenon DEF FailInv, FailedMask
<1>2. ASSUME NEW x \in FailedMask'
      PROVE  Ancestors[x] \cap Causes' # {}
  <2>1. CASE x \in failedValid'
    BY <1>1, <2>1, AncestorEnds, Zenon DEF Causes
  <2>2. CASE x \in failedChild
    BY <2>2, Zenon DEF FailInv, FailureHasCause, FailedMask, Causes
  <2>. QED  BY <1>2, <2>1, <2>2, Zenon DEF FailedMask
<1>. QED  BY <1>1, <1>2, Zenon DEF FailInv, FailureHasCause, FailedBlocksMarked, Causes

\* The walk over g_failed_blocks finds an ancestor of the header, and marks what
\* lies between the two if that ancestor has BLOCK_FAILED_VALID.
LEMMA WalkOK ==
    ASSUME IndexInv, g_failed_blocks \subseteq Blocks, NEW b \in Blocks \ {Genesis},
           HeaderRefused(b), RefuseHeader(b)
    PROVE  \/ UNCHANGED <<fate, failedChild>>
           \/ \E f \in g_failed_blocks \ failedValid :
                 fate' = NOT_FAILED_VALID /\ UNCHANGED failedChild
           \/ \E f \in failedValid :
                 /\ UNCHANGED fate
                 /\ \A x \in failedChild' \ failedChild :
                       x \in mapBlockIndex /\ f \in Ancestors[x]
<1>. DEFINE p == Parent[b]
            f == FirstFailedBelow(p)
<1>1. CASE ~ReachesFailedWalk(b)
  BY <1>1, Zenon DEF RefuseHeader
<1>2. CASE ReachesFailedWalk(b)
  <2>1. p \in mapBlockIndex /\ FailedBelow(p) # {} /\ Ancestors[p] \subseteq mapBlockIndex /\ p \in Blocks
    BY <1>2, Closed, Zenon DEF HeaderRefused, ReachesFailedWalk, IndexInv
  <2>2. FailedBelow(p) \subseteq g_failed_blocks \cap Ancestors[p]
    BY Zenon DEF FailedBelow
  <2>3. f \in FailedBelow(p)
    <3>. DEFINE T == {address[x] : x \in FailedBelow(p)}
    <3>1. T \in SUBSET Nat /\ T # {}
      <4>1. address \in [Blocks -> Nat] /\ FailedBelow(p) \subseteq Blocks
        BY <2>2, ConstantAssumption, Zenon DEF IndexInv, DataInv
      <4>. QED  BY <2>1, <4>1, Zenon
    <3>2. PICK m \in T : \A y \in T : m <= y
      BY <3>1, LeastNat, Zenon
    <3>3. \E x \in FailedBelow(p) : \A y \in FailedBelow(p) : address[x] <= address[y]
      BY <3>2, Zenon
    <3>. QED  BY <3>3, Zenon DEF FirstFailedBelow
  <2>4. f \in g_failed_blocks /\ f \in Ancestors[p]
    BY <2>2, <2>3, Zenon
  <2>5. \/ f \in failedValid /\ UNCHANGED fate /\ failedChild' = failedChild \cup PathTo(p, f)
        \/ f \notin failedValid /\ fate' = NOT_FAILED_VALID /\ UNCHANGED failedChild
    BY <1>2, Zenon DEF RefuseHeader
  <2>. HIDE DEF p, f
  <2>6. \A x \in PathTo(p, f) : x \in mapBlockIndex /\ f \in Ancestors[x]
    BY <2>1, <2>4, PathAbove, Zenon DEF PathTo
  <2>. QED  BY <2>4, <2>5, <2>6, Zenon
<1>. QED  BY <1>1, <1>2, Zenon

\* A refused header.
LEMMA RefusedFail ==
    ASSUME IndexInv, FailInv, fate # NOT_FAILED_VALID, NEW b \in Blocks \ {Genesis}, HeaderRefused(b),
           RefuseHeader(b), UNCHANGED <<mapBlockIndex, failedValid, g_failed_blocks, pardoned>>
    PROVE  FailInv'
<1>1. mapBlockIndex \in SUBSET Blocks /\ failedValid \subseteq mapBlockIndex
      /\ g_failed_blocks \subseteq Causes /\ Causes' = Causes
  BY Zenon DEF IndexInv, LinkInv, FailInv, FailedMask, Causes
<1>2. g_failed_blocks \subseteq Blocks
  BY <1>1, Zenon DEF FailInv, Causes
<1>3. CASE UNCHANGED <<fate, failedChild>>
  BY <1>1, <1>3, FailGrows, Zenon
<1>4. CASE \E f \in failedValid : /\ UNCHANGED fate
                                  /\ \A x \in failedChild' \ failedChild :
                                        x \in mapBlockIndex /\ f \in Ancestors[x]
  <2>1. \A x \in failedChild' \ failedChild : x \in mapBlockIndex' /\ Ancestors[x] \cap Causes' # {}
    BY <1>1, <1>4, Zenon DEF Causes
  <2>. QED  BY <1>1, <1>4, <2>1, FailGrows, Zenon
<1>5. CASE \E f \in g_failed_blocks \ failedValid : fate' = NOT_FAILED_VALID /\ UNCHANGED failedChild
  <2>1. pardoned \cap g_failed_blocks # {}
    BY <1>1, <1>5, Zenon DEF Causes
  <2>. QED  BY <1>1, <1>5, <2>1, Zenon DEF FailInv, FailedMask, FailureHasCause, Causes
<1>. QED  BY <1>2, <1>3, <1>4, <1>5, WalkOK, Zenon

\* Headers and blocks.
LEMMA BlockFail ==
    ASSUME IndexInv, FailInv, fate # NOT_FAILED_VALID, NEW t, NEW b \in Blocks,
           \/ ProcessNewBlockHeaders(t, b)
           \/ \E fRequested \in BOOLEAN : ProcessNewBlock(t, b, fRequested)
    PROVE  FailInv'
<1>1. b # Genesis /\ UNCHANGED <<g_failed_blocks, pardoned>>
  BY Zenon DEF ProcessNewBlockHeaders, ProcessNewBlock
<1>2. \/ HeaderRefused(b) /\ RefuseHeader(b) /\ UNCHANGED <<mapBlockIndex, failedValid>>
      \/ /\ mapBlockIndex' = mapBlockIndex \cup {b} /\ UNCHANGED <<fate, failedChild>>
         /\ failedValid' = failedValid \/ failedValid' = failedValid \cup {b}
  BY Zenon DEF ProcessNewBlockHeaders, ProcessNewBlock
<1>3. CASE HeaderRefused(b) /\ RefuseHeader(b) /\ UNCHANGED <<mapBlockIndex, failedValid>>
  BY <1>1, <1>3, RefusedFail, Zenon
<1>4. CASE /\ mapBlockIndex' = mapBlockIndex \cup {b} /\ UNCHANGED <<fate, failedChild>>
           /\ failedValid' = failedValid \/ failedValid' = failedValid \cup {b}
  <2>1. /\ mapBlockIndex' \in SUBSET Blocks /\ failedValid' \subseteq mapBlockIndex'
        /\ g_failed_blocks' \subseteq Causes' /\ fate' # NOT_FAILED_VALID
    BY <1>1, <1>4, Zenon DEF IndexInv, LinkInv, FailInv, FailedMask, Causes
  <2>2. failedChild' \ failedChild = {} /\ mapBlockIndex \subseteq mapBlockIndex' /\ failedValid \subseteq failedValid'
    BY <1>4, Zenon
  <2>. QED  BY <1>1, <2>1, <2>2, FailGrows, Zenon
<1>. QED  BY <1>2, <1>3, <1>4, Zenon

\* What ActivateBestChain marks as children lies above a marked block that is
\* not on the active chain.
LEMMA ChildrenAbove ==
    ASSUME IndexInv, NEW t \in Threads, NEW found, Activated(t, found)
    PROVE  /\ failedChild' = failedChild \cup found.failed
           /\ \A x \in found.failed :
                 /\ x \in mapBlockIndex /\ x \in Blocks
                 /\ \E h \in Ancestors[x] : h \in FailedMask /\ h \notin ActiveChain
<1>1. failedChild' = failedChild \cup found.failed
  BY Zenon DEF Activated
<1>2. ASSUME NEW x \in found.failed
      PROVE  /\ x \in mapBlockIndex /\ x \in Blocks
             /\ \E h \in Ancestors[x] : h \in FailedMask /\ h \notin ActiveChain
  <2>1. found = FindMostWorkChain
    BY <1>2, Zenon DEF Activated, CachedMostWork
  <2>2. x \in nChainTx /\ \E h \in Ancestors[x] : h \in FailedMask /\ h \notin ActiveChain
    BY <1>2, <2>1, FoundOK, Zenon
  <2>. QED  BY <2>2, Zenon DEF IndexInv, LinkInv
<1>. QED  BY <1>1, <1>2, Zenon

\* A round of ActivateBestChain.
LEMMA ActivateFail ==
    ASSUME IndexInv, FailInv, fate # NOT_FAILED_VALID, NEW t \in Threads, ActivateBestChain(t)
    PROVE  FailInv'
<1>1. PICK found : Activated(t, found)
  BY ActivateCases, Zenon
<1>2. UNCHANGED <<mapBlockIndex, pardoned>>
  BY <1>1, Zenon DEF Activated
<1>3. \A x \in failedChild' \ failedChild : x \in mapBlockIndex /\ Ancestors[x] \cap Causes # {}
  BY <1>1, ChildrenAbove, Caused, Zenon
<1>4. mapBlockIndex \in SUBSET Blocks /\ failedValid \subseteq mapBlockIndex
      /\ g_failed_blocks \subseteq Causes
  BY Zenon DEF IndexInv, LinkInv, FailInv, FailedMask
<1>. DEFINE Grown == /\ failedValid \subseteq failedValid' /\ failedValid' \subseteq mapBlockIndex
                     /\ g_failed_blocks' \subseteq Causes' /\ fate' # NOT_FAILED_VALID
<1>5. Grown
  <2>1. CASE NothingToDo(t)
    BY <1>2, <1>4, <2>1, Zenon DEF NothingToDo, Causes
  <2>2. ASSUME NEW step, Stepped(t, found, step)
        PROVE  Grown
    <3>1. found.most \in nChainTx /\ found.most \in Blocks /\ chainTip \in Blocks
          /\ Ancestors[found.most] \subseteq mapBlockIndex
      BY <1>1, <2>2, TargetLinked, Closed, Zenon DEF Stepped, IndexInv, LinkInv
    <3>2. step.bad \subseteq mapBlockIndex
      BY <2>2, <3>1, StepOK, Zenon DEF Stepped
    <3>3. failedValid' = failedValid \cup step.bad /\ g_failed_blocks' = g_failed_blocks \cup step.bad
          /\ fate' \in {NO_CANDIDATE, "shutdown", fate}
      BY <2>2, Zenon DEF Stepped
    <3>. QED  BY <1>2, <1>4, <3>2, <3>3, Zenon DEF NO_CANDIDATE, NOT_FAILED_VALID, Causes
  <2>. QED  BY <1>1, <2>1, <2>2, Zenon DEF Activated
<1>6. \A x \in failedChild' \ failedChild : x \in mapBlockIndex' /\ Ancestors[x] \cap Causes' # {}
  BY <1>2, <1>3, <1>5, Zenon DEF Causes
<1>. QED  BY <1>2, <1>4, <1>5, <1>6, FailGrows, Zenon

\* What invalidateblock marks, if it gets that far, is b and what is on top of b
\* in the active chain, and the new tip is below b.
LEMMA InvalidateCases ==
    ASSUME IndexInv, NEW t, NEW b \in Blocks, NEW c, InvalidateBlock(t, b, c)
    PROVE  /\ b \in mapBlockIndex \ {Genesis} /\ UNCHANGED <<mapBlockIndex, pardoned>>
           /\ \/ fate' \in {fate, "shutdown"} /\ UNCHANGED <<failedValid, failedChild, g_failed_blocks>>
              \/ /\ failedValid' = failedValid \cup {b} /\ UNCHANGED fate
                 /\ g_failed_blocks' = g_failed_blocks \cup {b}
                 /\ chainTip' = IF b \in ActiveChain THEN Parent[b] ELSE chainTip
                 /\ \A x \in failedChild' \ failedChild : x \in mapBlockIndex /\ b \in Ancestors[x]
<1>. DEFINE children == (IF b \in ActiveChain THEN PathTo(chainTip, Parent[b]) ELSE {}) \ {b}
<1>1. b \in mapBlockIndex \ {Genesis} /\ UNCHANGED <<mapBlockIndex, pardoned>>
  BY Zenon DEF InvalidateBlock
<1>2. \/ fate' \in {fate, "shutdown"} /\ UNCHANGED <<failedValid, failedChild, g_failed_blocks>>
      \/ /\ failedChild' = failedChild \cup children /\ failedValid' = failedValid \cup {b}
         /\ g_failed_blocks' = g_failed_blocks \cup {b} /\ UNCHANGED fate
         /\ chainTip' = IF b \in ActiveChain THEN Parent[b] ELSE chainTip
  BY Zenon DEF InvalidateBlock
<1>4. ASSUME NEW x \in children
      PROVE  x \in mapBlockIndex /\ b \in Ancestors[x]
  <2>1. /\ chainTip \in Blocks /\ chainTip \in mapBlockIndex /\ b \in Ancestors[chainTip]
        /\ x \in Ancestors[chainTip] /\ x \notin Ancestors[Parent[b]] /\ x # b
    BY <1>4, Zenon DEF IndexInv, LinkInv, PathTo, ActiveChain
  <2>2. x \notin Ancestors[b]
    BY <1>1, <2>1, TreeAssumption
  <2>. QED  BY <2>1, <2>2, AncestorsLinear, Closed, Zenon DEF IndexInv
<1>. HIDE DEF children
<1>. QED  BY <1>1, <1>2, <1>4, Zenon

\* invalidateblock.
LEMMA InvalidateFail ==
    ASSUME IndexInv, FailInv, fate # NOT_FAILED_VALID, NEW t, NEW b \in Blocks, NEW c,
           InvalidateBlock(t, b, c)
    PROVE  FailInv'
<1>1. /\ mapBlockIndex \in SUBSET Blocks /\ failedValid \subseteq mapBlockIndex
      /\ g_failed_blocks \subseteq Causes
  BY Zenon DEF IndexInv, LinkInv, FailInv, FailedMask
<1>2. b \in mapBlockIndex /\ UNCHANGED <<mapBlockIndex, pardoned>>
  BY InvalidateCases, Zenon
<1>3. /\ failedValid \subseteq failedValid' /\ failedValid' \subseteq mapBlockIndex
      /\ fate' # NOT_FAILED_VALID /\ g_failed_blocks' \subseteq Causes'
  BY <1>1, <1>2, InvalidateCases, Zenon DEF NOT_FAILED_VALID, Causes
<1>4. \A x \in failedChild' \ failedChild : x \in mapBlockIndex /\ Ancestors[x] \cap Causes' # {}
  BY InvalidateCases, Zenon DEF Causes
<1>. QED  BY <1>1, <1>2, <1>3, <1>4, FailGrows, Zenon

\* reconsiderblock takes back every mark that has b as a cause, and pardons the
\* causes below b.
LEMMA ReconsiderFail ==
    ASSUME IndexInv, FailInv, fate # NOT_FAILED_VALID, NEW t, NEW b \in Blocks, ReconsiderBlock(t, b)
    PROVE  FailInv'
<1>1. /\ failedValid' = failedValid \ (Cleared(b) \cup Ancestors[b])
      /\ failedChild' = failedChild \ (Cleared(b) \cup Ancestors[b])
      /\ g_failed_blocks' = g_failed_blocks \ Cleared(b)
      /\ pardoned' = pardoned \cup ((Ancestors[b] \ {b}) \cap FailedMask)
      /\ UNCHANGED <<mapBlockIndex, fate>>
  BY Zenon DEF ReconsiderBlock, StillFailed
<1>2. ASSUME NEW x \in Causes
      PROVE  x \in Causes' \/ x \in Cleared(b)
  <2>1. CASE x \in pardoned
    BY <1>1, <2>1, Zenon DEF Causes
  <2>2. CASE x \in failedValid /\ x \notin Cleared(b) /\ x \in Ancestors[b]
    <3>1. x \in FailedMask /\ x # b
      BY <2>2, AncestorEnds, Zenon DEF FailedMask, Cleared
    <3>. QED  BY <1>1, <2>2, <3>1, Zenon DEF Causes
  <2>3. CASE x \in failedValid /\ x \notin Cleared(b) /\ x \notin Ancestors[b]
    BY <1>1, <2>3, Zenon DEF Causes
  <2>. QED  BY <1>2, <2>1, <2>2, <2>3, Zenon DEF Causes
<1>3. ASSUME NEW x \in FailedMask'
      PROVE  Ancestors[x] \cap Causes' # {}
  <2>1. x \in FailedMask /\ x \in Blocks /\ b \notin Ancestors[x]
    BY <1>1, <1>3, Zenon DEF FailedMask, Cleared, IndexInv, LinkInv, FailInv
  <2>2. PICK c \in Ancestors[x] : c \in Causes
    BY <2>1, Zenon DEF FailInv, FailureHasCause, Causes
  <2>3. c \notin Cleared(b)
    BY <2>1, <2>2, AncestorsNest, Zenon DEF Cleared
  <2>. QED  BY <1>2, <2>2, <2>3, Zenon
<1>4. g_failed_blocks' \subseteq Causes'
  BY <1>1, <1>2, Zenon DEF FailInv
<1>5. FailedMask' \cup pardoned' \subseteq mapBlockIndex' /\ fate' # NOT_FAILED_VALID
  BY <1>1, Zenon DEF FailInv, FailedMask
<1>. QED  BY <1>3, <1>4, <1>5, Zenon DEF FailInv, FailureHasCause, FailedBlocksMarked, Causes

\* A start-up marks what is above a marked block.
LEMMA RestartFail ==
    ASSUME IndexInv, FailInv, NEW t, Restart(t)
    PROVE  FailInv'
<1>. DEFINE children == {b \in mapBlockIndex \ FailedMask : Ancestors[b] \cap FailedMask # {}}
<1>1. /\ failedChild' = failedChild \cup children /\ g_failed_blocks' = {}
      /\ fate' = IF setBlockIndexCandidates' = {} THEN NO_CANDIDATE ELSE "run"
      /\ UNCHANGED <<mapBlockIndex, failedValid, pardoned>>
  BY Zenon DEF Restart
<1>2. fate' # NOT_FAILED_VALID
  BY <1>1, Zenon DEF NO_CANDIDATE, NOT_FAILED_VALID
<1>3. mapBlockIndex \in SUBSET Blocks /\ failedValid \subseteq mapBlockIndex
  BY Zenon DEF IndexInv, LinkInv, FailInv, FailedMask
<1>4. \A x \in children : x \in mapBlockIndex /\ Ancestors[x] \cap Causes # {}
  BY <1>3, Caused, Zenon
<1>5. Causes' = Causes
  BY <1>1, Zenon DEF Causes
<1>. HIDE DEF children
<1>. QED  BY <1>1, <1>2, <1>3, <1>4, <1>5, FailGrows, Zenon

\* Every step.
LEMMA FailStep ==
    ASSUME IndexInv, FailInv, [Next]_vars
    PROVE  FailInv'
<1>1. CASE UNCHANGED <<mapBlockIndex, status, g_failed_blocks, pardoned, fate>>
  BY <1>1, Zenon DEF status, FailInv, FailureHasCause, FailedMask, FailedBlocksMarked, Causes
<1>2. CASE UNCHANGED vars
  BY <1>1, <1>2, Zenon DEF vars
<1>3. ASSUME NEW t, NEW b, PreciousBlock(t, b), fate # NOT_FAILED_VALID
      PROVE  FailInv'
  <2>1. /\ UNCHANGED <<mapBlockIndex, status, g_failed_blocks, pardoned>>
        /\ fate' \in {NO_CANDIDATE, fate}
    BY <1>3, Zenon DEF PreciousBlock
  <2>2. fate' # NOT_FAILED_VALID
    BY <1>3, <2>1, Zenon DEF NO_CANDIDATE, NOT_FAILED_VALID
  <2>. QED  BY <2>1, <2>2, Zenon DEF status, FailInv, FailureHasCause, FailedMask, FailedBlocksMarked, Causes
<1>4. ASSUME NEW b, PruneBlock(b)
      PROVE  FailInv'
  BY <1>1, <1>4, Zenon DEF PruneBlock
<1>5. CASE Next
  <2>1. fate # NOT_FAILED_VALID
    BY <1>5, NextCases, Zenon DEF NOT_FAILED_VALID
  <2>. QED
    BY <1>3, <1>4, <1>5, <2>1, NextCases, BlockFail, ActivateFail, InvalidateFail, ReconsiderFail,
       RestartFail, Zenon
<1>. QED  BY <1>2, <1>5, Zenon

-----------------------------------------------------------------------------
(* The active chain.                                                       *)

\* What CheckBlock or ConnectBlock refuses.
Unsound == BadBody \cup BadConnect

\* No block of the active chain fails in ConnectBlock.  If nobody invalidates
\* blocks, only what is unsound and what descends from it is marked; if a thread
\* is alone, no mark is on the active chain nor, between two rounds, on the way to
\* its target.  Scripts are checked on all of the active chain and on top of
\* checked ones only.
ValidInv ==
    /\ pc \in [Threads -> {"idle", "activate", "loop"}]
    /\ \A t \in Threads : pindexMostWork[t] # None => pc[t] = "loop" /\ t \in usage.threads
    /\ ActiveChain \cap BadConnect = {}
    /\ "invalidate" \notin usage.does => \A b \in FailedMask : Ancestors[b] \cap Unsound # {}
    /\ Alone => ActiveChain \cap FailedMask = {}
    /\ Alone => \A t \in Threads : pindexMostWork[t] # None =>
                   PathTo(pindexMostWork[t], chainTip) \cap FailedMask = {}
    /\ Unraced => /\ \A b \in ActiveChain \ {Genesis} : validity[b] = VALID_SCRIPTS
                  /\ \A b \in Blocks : validity[b] = VALID_SCRIPTS =>
                        \A a \in Ancestors[b] \ {Genesis} : validity[a] = VALID_SCRIPTS

\* CheckBlockIndex's checks on a block and its ancestors.
LEMMA ValidInvImplies ==
    ASSUME IndexInv, ValidInv
    PROVE  AncestryConsistent
<1>1. Unraced => \A b \in ActiveChain \ {Genesis} : validity[b] = VALID_SCRIPTS
  BY Zenon DEF ValidInv
<1>2. \A b \in mapBlockIndex :
         /\ b \in Blocks
         /\ b \in nTx <=> validity[b] >= VALID_TRANSACTIONS
         /\ b \notin nChainTx => nSequenceId[b] <= 0
         /\ b \in haveData => b \in nTx
         /\ ~fHavePruned => (b \in nTx => b \in haveData)
  BY Zenon DEF IndexInv, LinkInv, DataInv
<1>3. \A b \in mapBlockIndex : Ancestors[b] \subseteq mapBlockIndex
  BY Closed, Zenon DEF IndexInv
<1>4. \A b \in mapBlockIndex : Unraced /\ validity[b] = VALID_SCRIPTS =>
         \A a \in Ancestors[b] \ {Genesis} : validity[a] = VALID_SCRIPTS
  BY <1>2, Zenon DEF ValidInv
<1>. QED  BY <1>1, <1>2, <1>3, <1>4, Zenon DEF AncestryConsistent

\* The steps of a thread that is not in ActivateBestChain: if it is the only
\* one, no target is kept.
LEMMA ValidIdle ==
    ASSUME ValidInv, NEW t \in Threads \cap usage.threads, pc[t] = "idle",
           UNCHANGED <<usage, pindexMostWork>>, pc' = pc \/ pc' = [pc EXCEPT ![t] = "activate"],
           ActiveChain' \subseteq ActiveChain,
           "invalidate" \notin usage.does => \A x \in FailedMask' : Ancestors[x] \cap Unsound # {},
           Alone => ActiveChain' \cap FailedMask' = {},
           \A x \in Blocks : validity'[x] = VALID_SCRIPTS <=> validity[x] = VALID_SCRIPTS,
           ActiveChain \subseteq Blocks
    PROVE  ValidInv'
<1>1. /\ pc' \in [Threads -> {"idle", "activate", "loop"}]
      /\ \A u \in Threads : pindexMostWork'[u] # None => pc'[u] = "loop" /\ u \in usage.threads
  BY Zenon DEF ValidInv
<1>2. Alone => \A u \in Threads : pindexMostWork'[u] = None
  BY Zenon DEF ValidInv, Alone
<1>3. Alone' = Alone /\ Unraced' = Unraced
  BY Zenon DEF Alone, Unraced
<1>4. Unraced => \A b \in ActiveChain' \ {Genesis} : validity'[b] = VALID_SCRIPTS
  BY Zenon DEF ValidInv
<1>5. Unraced => \A b \in Blocks : validity'[b] = VALID_SCRIPTS =>
                    \A a \in Ancestors[b] \ {Genesis} : validity'[a] = VALID_SCRIPTS
  BY AncestorsNest, Zenon DEF ValidInv
<1>6. ActiveChain' \cap BadConnect = {}
  BY Zenon DEF ValidInv
<1>. QED  BY <1>1, <1>2, <1>3, <1>4, <1>5, <1>6, Zenon DEF ValidInv, Unsound

\* What is marked outside ActivateBestChain: a body that CheckBlock refuses, what
\* is above a block found invalid, and with invalidateblock what is above b, which
\* is not on the active chain any more.
LEMMA IdleMarks ==
    ASSUME IndexInv, FailInv, NEW t, NEW b \in Blocks,
           \/ ProcessNewBlockHeaders(t, b)
           \/ \E fRequested \in BOOLEAN : ProcessNewBlock(t, b, fRequested)
           \/ "invalidate" \in usage.does /\ \E c : InvalidateBlock(t, b, c)
           \/ ReconsiderBlock(t, b)
           \/ PreciousBlock(t, b),
           NEW x \in FailedMask' \ FailedMask
    PROVE  \/ x \in Blocks \cap BadBody
           \/ x \in Blocks /\ \E f \in failedValid : f \in Ancestors[x]
           \/ /\ "invalidate" \in usage.does /\ b \in Ancestors[x] /\ b # Genesis
              /\ chainTip' = IF b \in ActiveChain THEN Parent[b] ELSE chainTip
<1>0. mapBlockIndex \in SUBSET Blocks /\ g_failed_blocks \subseteq Blocks
  BY Zenon DEF IndexInv, LinkInv, FailInv, FailedMask, Causes
<1>1. CASE \/ ProcessNewBlockHeaders(t, b)
           \/ \E fRequested \in BOOLEAN : ProcessNewBlock(t, b, fRequested)
  <2>1. \/ b # Genesis /\ HeaderRefused(b) /\ RefuseHeader(b) /\ UNCHANGED failedValid
        \/ UNCHANGED failedChild /\ failedValid' \subseteq failedValid \cup ({b} \cap BadBody)
    BY <1>1, Zenon DEF ProcessNewBlockHeaders, ProcessNewBlock
  <2>2. CASE b # Genesis /\ HeaderRefused(b) /\ RefuseHeader(b) /\ UNCHANGED failedValid
    <3>1. x \in failedChild' \ failedChild
      BY <2>2, Zenon DEF FailedMask
    <3>2. \E f \in failedValid : x \in mapBlockIndex /\ f \in Ancestors[x]
      BY <1>0, <2>2, <3>1, WalkOK, Zenon
    <3>. QED  BY <1>0, <3>2, Zenon
  <2>3. CASE UNCHANGED failedChild /\ failedValid' \subseteq failedValid \cup ({b} \cap BadBody)
    BY <2>3, Zenon DEF FailedMask
  <2>. QED  BY <2>1, <2>2, <2>3, Zenon
<1>2. ASSUME NEW c, InvalidateBlock(t, b, c), "invalidate" \in usage.does
      PROVE  /\ b \in Ancestors[x] /\ b # Genesis
             /\ chainTip' = IF b \in ActiveChain THEN Parent[b] ELSE chainTip
  <2>1. x \notin failedValid /\ x \notin failedChild /\ x \in failedValid' \cup failedChild'
    BY Zenon DEF FailedMask
  <2>2. /\ failedValid' = failedValid \cup {b} /\ b # Genesis
        /\ chainTip' = IF b \in ActiveChain THEN Parent[b] ELSE chainTip
        /\ \A y \in failedChild' \ failedChild : b \in Ancestors[y]
    BY <1>2, <2>1, InvalidateCases, Zenon
  <2>. QED  BY <2>1, <2>2, AncestorEnds, Zenon
<1>3. CASE ReconsiderBlock(t, b) \/ PreciousBlock(t, b)
  BY <1>3, Zenon DEF ReconsiderBlock, PreciousBlock, status, FailedMask
<1>. QED  BY <1>1, <1>2, <1>3, Zenon

\* Headers, blocks and what the RPCs do.
LEMMA IdleValid ==
    ASSUME IndexInv, FailInv, ValidInv, NEW t \in Threads \cap usage.threads, NEW b \in Blocks, UNCHANGED usage,
           \/ ProcessNewBlockHeaders(t, b)
           \/ \E fRequested \in BOOLEAN : ProcessNewBlock(t, b, fRequested)
           \/ "invalidate" \in usage.does /\ \E c : InvalidateBlock(t, b, c)
           \/ ReconsiderBlock(t, b)
           \/ PreciousBlock(t, b)
    PROVE  ValidInv'
<1>1. /\ pc[t] = "idle" /\ UNCHANGED pindexMostWork
      /\ pc' = pc \/ pc' = [pc EXCEPT ![t] = "activate"]
  BY Zenon DEF ProcessNewBlockHeaders, ProcessNewBlock, InvalidateBlock, ReconsiderBlock, PreciousBlock, threads
<1>3. \/ UNCHANGED validity
      \/ validity' = AddedValidity(b)
      \/ validity' = [validity EXCEPT ![b] = IF @ < VALID_TRANSACTIONS THEN VALID_TRANSACTIONS ELSE @]
  BY Zenon DEF ProcessNewBlockHeaders, ProcessNewBlock, ReceivedBlockTransactions, InvalidateBlock,
         ReconsiderBlock, PreciousBlock, status
<1>4. ASSUME NEW x \in Blocks
      PROVE  validity'[x] = VALID_SCRIPTS <=> validity[x] = VALID_SCRIPTS
  <2>1. /\ validity \in [Blocks -> Int]
        /\ b \notin mapBlockIndex => ~(validity[b] >= VALID_TRANSACTIONS)
    BY Zenon DEF IndexInv, LinkInv, DataInv
  <2>2. CASE validity' = AddedValidity(b)
    BY <2>1, <2>2 DEF AddedValidity, VALID_TREE, VALID_TRANSACTIONS, VALID_SCRIPTS
  <2>3. CASE validity' = [validity EXCEPT ![b] = IF @ < VALID_TRANSACTIONS THEN VALID_TRANSACTIONS ELSE @]
    BY <2>1, <2>3 DEF VALID_TRANSACTIONS, VALID_SCRIPTS
  <2>. QED  BY <1>3, <2>2, <2>3, Zenon
<1>5. chainTip \in Blocks /\ ActiveChain \subseteq Blocks /\ ActiveChain \cap BadBody = {}
  BY Closed, Zenon DEF IndexInv, LinkInv, DataInv, ActiveChain
<1>6. chainTip' \in Blocks /\ ActiveChain' \subseteq ActiveChain
  <2>1. CASE UNCHANGED chainTip
    BY <1>5, <2>1, Zenon DEF ActiveChain
  <2>2. ASSUME NEW c, InvalidateBlock(t, b, c)
        PROVE  chainTip' \in Blocks /\ ActiveChain' \subseteq ActiveChain
    <3>. DEFINE U == Unreadable(IF b \in ActiveChain THEN PathTo(chainTip, Parent[b]) ELSE {}, c)
    <3>1. \/ U # {} /\ chainTip' = Highest(U)
          \/ chainTip' = IF b \in ActiveChain THEN Parent[b] ELSE chainTip
      BY <2>2, Zenon DEF InvalidateBlock
    <3>2. U \in SUBSET Ancestors[chainTip]
      BY Zenon DEF Unreadable, PathTo
    <3>. HIDE DEF U
    <3>3. U # {} => Highest(U) \in Ancestors[chainTip]
      BY <1>5, <3>2, HighestIn, Zenon
    <3>4. b \in ActiveChain => Parent[b] \in ActiveChain
      <4>1. b # Genesis
        BY <2>2, Zenon DEF InvalidateBlock
      <4>2. Parent[b] \in Ancestors[b]
        BY <4>1, ParentOf, Zenon
      <4>. QED  BY <1>5, <4>2, AncestorsNest, Zenon DEF ActiveChain
    <3>5. chainTip' \in ActiveChain
      BY <1>5, <3>1, <3>3, <3>4, AncestorEnds, Zenon DEF ActiveChain
    <3>. QED  BY <1>5, <3>5, AncestorsNest, Zenon DEF ActiveChain
  <2>. QED  BY <2>1, <2>2, Zenon DEF ProcessNewBlockHeaders, ProcessNewBlock, ReconsiderBlock, PreciousBlock
<1>7. ASSUME Alone, NEW x \in ActiveChain', x \in FailedMask'
      PROVE  FALSE
  <2>1. x \in ActiveChain /\ x \in Blocks /\ x \notin FailedMask /\ x \notin BadBody
    BY <1>5, <1>6, <1>7, Zenon DEF ValidInv
  <2>2. Ancestors[x] \subseteq ActiveChain /\ Ancestors[x] \subseteq ActiveChain'
    BY <1>5, <1>6, <1>7, <2>1, AncestorsNest, Zenon DEF ActiveChain
  <2>3. ~\E f \in failedValid : f \in Ancestors[x]
    BY <1>7, <2>2, Zenon DEF ValidInv, FailedMask
  <2>4. b \in Ancestors[x] /\ b # Genesis /\ chainTip' = IF b \in ActiveChain THEN Parent[b] ELSE chainTip
    BY <1>7, <2>1, <2>3, IdleMarks, Zenon
  <2>. QED  BY <2>2, <2>4, ParentOf, Zenon DEF ActiveChain
<1>8. ASSUME "invalidate" \notin usage.does, NEW x \in FailedMask'
      PROVE  Ancestors[x] \cap Unsound # {}
  <2>1. CASE x \in FailedMask
    BY <1>8, <2>1, Zenon DEF ValidInv
  <2>2. CASE x \in Blocks \cap BadBody
    BY <2>2, AncestorEnds, Zenon DEF Unsound
  <2>3. ASSUME x \in Blocks, NEW f \in failedValid, f \in Ancestors[x]
        PROVE  Ancestors[x] \cap Unsound # {}
    <3>1. Ancestors[f] \cap Unsound # {}
      BY <1>8, Zenon DEF ValidInv, FailedMask
    <3>. QED  BY <2>3, <3>1, AncestorsNest, Zenon
  <2>. QED  BY <1>8, <2>1, <2>2, <2>3, IdleMarks, Zenon
<1>. QED  BY <1>1, <1>4, <1>5, <1>6, <1>7, <1>8, ValidIdle, Zenon

\* A thread that is alone finds no mark on the way to its target.
LEMMA WayUnmarked ==
    ASSUME IndexInv, ValidInv, Alone, NEW t \in Threads, NEW found, Activated(t, found),
           found.most # None
    PROVE  PathTo(found.most, chainTip) \cap (failedValid \cup failedChild') = {}
<1>1. failedChild' = failedChild \cup found.failed
  BY Zenon DEF Activated
<1>2. CASE pindexMostWork[t] = None
  <2>1. found = FindMostWorkChain
    BY <1>2, Zenon DEF Activated
  <2>2. found.most \in Blocks
    BY TargetLinked, Zenon DEF IndexInv, LinkInv
  <2>3. PathTo(found.most, chainTip) \cap FailedMask = {}
    BY <2>1, FoundOK, Zenon DEF Obstacles
  <2>4. ASSUME NEW x \in found.failed, x \in PathTo(found.most, chainTip)
        PROVE  FALSE
    <3>1. PICK h \in Ancestors[x] : h \in FailedMask /\ h \notin ActiveChain
      BY <2>1, <2>4, FoundOK, Zenon
    <3>2. h \in Ancestors[found.most]
      BY <2>2, <2>4, AncestorsNest, Zenon DEF PathTo
    <3>. QED  BY <2>3, <3>1, <3>2, Zenon DEF PathTo, ActiveChain
  <2>. QED  BY <1>1, <2>3, <2>4, Zenon DEF FailedMask
<1>3. CASE pindexMostWork[t] # None
  <2>1. found.most = pindexMostWork[t] /\ found.failed = {}
    BY <1>3, Zenon DEF Activated, CachedMostWork
  <2>2. PathTo(found.most, chainTip) \cap FailedMask = {}
    BY <1>3, <2>1, Zenon DEF ValidInv
  <2>. QED  BY <1>1, <2>1, <2>2, Zenon DEF FailedMask
<1>. QED  BY <1>2, <1>3, Zenon

\* What FindMostWorkChain marks lies above a marked block, and not on the active
\* chain.
LEMMA RoundMarks ==
    ASSUME IndexInv, ValidInv, NEW t \in Threads, NEW found, Activated(t, found)
    PROVE  /\ Alone => ActiveChain \cap (failedValid \cup failedChild') = {}
           /\ "invalidate" \notin usage.does =>
                 \A x \in failedValid \cup failedChild' : Ancestors[x] \cap Unsound # {}
<1>1. chainTip \in Blocks
  BY Closed, Zenon DEF IndexInv, LinkInv
<1>2. ASSUME NEW x \in found.failed
      PROVE  /\ x \notin ActiveChain
             /\ "invalidate" \notin usage.does => Ancestors[x] \cap Unsound # {}
  <2>1. PICK h \in Ancestors[x] : h \in FailedMask /\ h \notin ActiveChain
    BY ChildrenAbove, Zenon
  <2>2. x \notin ActiveChain
    BY <1>1, <2>1, AncestorsNest, Zenon DEF ActiveChain
  <2>3. x \in Blocks
    BY ChildrenAbove, Zenon
  <2>4. Ancestors[h] \subseteq Ancestors[x]
    BY <2>1, <2>3, AncestorsNest, Zenon
  <2>. QED  BY <2>1, <2>2, <2>4, Zenon DEF ValidInv
<1>3. failedChild' = failedChild \cup found.failed
  BY ChildrenAbove, Zenon
<1>. QED  BY <1>2, <1>3, Zenon DEF ValidInv, FailedMask

\* What a step connects is not marked: nobody can have marked it, or no block on
\* the way is unsound.
LEMMA ConnectedUnmarked ==
    ASSUME IndexInv, ValidInv, Unraced, NEW t \in Threads, NEW found, Activated(t, found),
           NEW step, Stepped(t, found, step)
    PROVE  step.connected \cap (failedValid \cup failedChild') = {}
<1>1. /\ found.most # None /\ found.most \in Blocks /\ chainTip \in Blocks
      /\ Ancestors[found.most] \subseteq nChainTx /\ ActiveChain \subseteq nChainTx
  BY TargetLinked, Closed, Zenon DEF Stepped, IndexInv, LinkInv, ActiveChain
<1>2. /\ step.connected \subseteq PathTo(found.most, chainTip)
      /\ \A x \in step.connected : Ancestors[x] \subseteq ActiveChain \cup step.connected
      /\ step.connected \cap BadConnect = {}
  BY <1>1, StepOK, Zenon DEF Stepped
<1>3. CASE Alone
  BY <1>1, <1>2, <1>3, WayUnmarked, Zenon
<1>4. CASE "invalidate" \notin usage.does
  <2>1. ASSUME NEW x \in step.connected, x \in failedValid \cup failedChild'
        PROVE  FALSE
    <3>1. PICK c \in Ancestors[x] : c \in Unsound
      BY <1>4, <2>1, RoundMarks, Zenon
    <3>2. c \in ActiveChain \cup step.connected /\ c \in nChainTx
      BY <1>1, <1>2, <2>1, <3>1, Zenon DEF PathTo
    <3>3. c \notin BadBody
      BY <3>2, Zenon DEF IndexInv, LinkInv, DataInv
    <3>. QED  BY <1>2, <3>1, <3>2, <3>3, Zenon DEF ValidInv, Unsound
  <2>. QED  BY <2>1, Zenon
<1>. QED  BY <1>3, <1>4, Zenon DEF Unraced

\* The way from the new tip to the target is part of the old one.
LEMMA WayShorter ==
    ASSUME NEW m \in Blocks, chainTip \in Blocks, NEW s \in PathTo(m, chainTip)
    PROVE  PathTo(m, s) \subseteq PathTo(m, chainTip)
<1>. SUFFICES ASSUME NEW x \in PathTo(m, s), x \in Ancestors[chainTip]
              PROVE  FALSE
  BY Zenon DEF PathTo
<1>1. x \in Ancestors[m] /\ x \notin Ancestors[s] /\ s \in Ancestors[m] /\ s \notin Ancestors[chainTip]
  BY Zenon DEF PathTo
<1>2. s \in Ancestors[x]
  BY <1>1, AncestorsLinear, Zenon
<1>. QED  BY <1>1, <1>2, AncestorsNest, Zenon

\* A round of ActivateBestChain.
LEMMA ActivateValid ==
    ASSUME IndexInv, ValidInv, NEW t \in Threads \cap usage.threads, ActivateBestChain(t),
           UNCHANGED usage
    PROVE  ValidInv'
<1>1. PICK found : Activated(t, found)
  BY ActivateCases, Zenon
<1>2. Alone' = Alone /\ Unraced' = Unraced
  BY Zenon DEF Alone, Unraced
<1>3. /\ pc \in [Threads -> {"idle", "activate", "loop"}]
      /\ pindexMostWork \in [Threads -> nChainTx \cup {None}]
      /\ \A u \in Threads : pindexMostWork[u] # None => pc[u] = "loop" /\ u \in usage.threads
  BY Zenon DEF ValidInv, IndexInv, LinkInv
<1>6. /\ Alone => ActiveChain \cap (failedValid \cup failedChild') = {}
      /\ "invalidate" \notin usage.does =>
            \A x \in failedValid \cup failedChild' : Ancestors[x] \cap Unsound # {}
  BY <1>1, RoundMarks, Zenon
<1>4. CASE NothingToDo(t)
  <2>1. /\ pc' \in [Threads -> {"idle", "activate", "loop"}]
        /\ \A u \in Threads : pindexMostWork'[u] # None => pc'[u] = "loop" /\ u \in usage.threads
    BY <1>3, <1>4, Zenon DEF NothingToDo
  <2>2. Alone => \A u \in Threads : pindexMostWork'[u] = None
    BY <1>3, <1>4, Zenon DEF NothingToDo, Alone
  <2>3. UNCHANGED <<validity, failedValid, chainTip>>
    BY <1>4, Zenon DEF NothingToDo
  <2>. QED  BY <1>2, <1>6, <2>1, <2>2, <2>3, Zenon DEF ValidInv, ActiveChain, FailedMask, Unsound
<1>5. ASSUME NEW step, Stepped(t, found, step)
      PROVE  ValidInv'
  <2>. DEFINE m == found.most
  <2>1. m # None /\ m \in nChainTx /\ m \in Blocks /\ chainTip \in Blocks
    BY <1>1, <1>5, TargetLinked, Closed, Zenon DEF Stepped, IndexInv, LinkInv
  <2>2. /\ chainTip' = step.tip /\ failedValid' = failedValid \cup step.bad
        /\ pc' = [pc EXCEPT ![t] = IF Finished(m, step) THEN "idle" ELSE "loop"]
        /\ pindexMostWork' = [pindexMostWork EXCEPT ![t] =
                                IF Finished(m, step) \/ step.fInvalidFound THEN None ELSE m]
        /\ validity' = [b \in Blocks |-> IF b \in step.connected /\ b \notin failedValid \cup failedChild'
                                         THEN VALID_SCRIPTS ELSE validity[b]]
    BY <1>5, Zenon DEF Stepped
  <2>. HIDE DEF m
  <2>3. /\ step.connected \subseteq PathTo(m, chainTip)
        /\ Ancestors[step.tip] \subseteq ActiveChain \cup step.connected
        /\ \A x \in step.connected : Ancestors[x] \subseteq ActiveChain \cup step.connected
        /\ step.connected \cap BadConnect = {} /\ step.bad \subseteq BadConnect \cap Ancestors[m]
        /\ ~Finished(m, step) /\ ~step.fInvalidFound =>
              step.tip \in PathTo(m, chainTip) /\ step.bad = {}
    BY <1>5, <2>1, StepOK, Zenon DEF Stepped, m
  <2>4. /\ pc' \in [Threads -> {"idle", "activate", "loop"}]
        /\ \A u \in Threads : pindexMostWork'[u] # None => pc'[u] = "loop" /\ u \in usage.threads
    BY <1>3, <2>2, Zenon
  <2>5. ActiveChain' \cap BadConnect = {}
    BY <2>2, <2>3, Zenon DEF ValidInv, ActiveChain
  <2>6. "invalidate" \notin usage.does => \A x \in FailedMask' : Ancestors[x] \cap Unsound # {}
    <3>1. \A x \in step.bad : Ancestors[x] \cap Unsound # {}
      BY <2>1, <2>3, AncestorsNest, AncestorEnds, Zenon DEF Unsound
    <3>. QED  BY <1>6, <2>2, <3>1, Zenon DEF FailedMask
  <2>7. ASSUME Alone, NEW u \in Threads, pindexMostWork'[u] # None
        PROVE  PathTo(pindexMostWork'[u], chainTip') \cap FailedMask' = {}
    <3>1. u = t
      BY <2>4, <2>7, Zenon DEF Alone
    <3>2. /\ pindexMostWork'[u] = m /\ step.tip \in PathTo(m, chainTip)
          /\ failedValid' = failedValid
      BY <1>3, <2>2, <2>3, <2>7, <3>1, Zenon
    <3>3. PathTo(m, chainTip) \cap (failedValid \cup failedChild') = {}
      BY <1>1, <2>1, <2>7, WayUnmarked, Zenon DEF m
    <3>4. PathTo(m, step.tip) \subseteq PathTo(m, chainTip)
      BY <2>1, <3>2, WayShorter, Zenon
    <3>5. PathTo(m, step.tip) \cap (failedValid' \cup failedChild') = {}
      BY <3>2, <3>3, <3>4, Zenon
    <3>. QED  BY <2>2, <3>2, <3>5, Zenon DEF FailedMask, PathTo
  <2>8. ASSUME Unraced
        PROVE  /\ \A b \in ActiveChain' \ {Genesis} : validity'[b] = VALID_SCRIPTS
               /\ \A b \in Blocks : validity'[b] = VALID_SCRIPTS =>
                     \A a \in Ancestors[b] \ {Genesis} : validity'[a] = VALID_SCRIPTS
    <3>1. step.connected \cap (failedValid \cup failedChild') = {}
      BY <1>1, <1>5, <2>8, ConnectedUnmarked, Zenon
    <3>2. \A b \in Blocks : validity'[b] = IF b \in step.connected THEN VALID_SCRIPTS ELSE validity[b]
      BY <2>2, <3>1, Zenon
    <3>3. ActiveChain \subseteq Blocks /\ step.connected \subseteq Blocks
      BY <2>1, <2>3, AncestorEnds, Zenon DEF ActiveChain, PathTo
    <3>4. /\ \A b \in ActiveChain \ {Genesis} : validity[b] = VALID_SCRIPTS
          /\ \A b \in Blocks : validity[b] = VALID_SCRIPTS =>
                \A a \in Ancestors[b] \ {Genesis} : validity[a] = VALID_SCRIPTS
      BY <2>8, Zenon DEF ValidInv
    <3>5. \A b \in (ActiveChain \cup step.connected) \ {Genesis} : validity'[b] = VALID_SCRIPTS
      BY <3>2, <3>3, <3>4, Zenon
    <3>6. ActiveChain' \subseteq ActiveChain \cup step.connected
      BY <2>2, <2>3, Zenon DEF ActiveChain
    <3>7. ASSUME NEW b \in Blocks, validity'[b] = VALID_SCRIPTS, NEW a \in Ancestors[b] \ {Genesis}
          PROVE  validity'[a] = VALID_SCRIPTS
      <4>1. a \in Blocks
        BY AncestorsNest, Zenon
      <4>2. CASE b \in step.connected
        BY <2>3, <3>5, <4>2, Zenon
      <4>3. CASE b \notin step.connected
        BY <3>2, <3>4, <3>7, <4>1, <4>3, Zenon
      <4>. QED  BY <4>2, <4>3, Zenon
    <3>. QED  BY <3>5, <3>6, <3>7, Zenon
  <2>9. Alone => ActiveChain' \cap FailedMask' = {}
    <3>1. Alone => step.connected \cap (failedValid \cup failedChild') = {}
      BY <1>1, <2>1, <2>3, WayUnmarked, Zenon DEF m
    <3>2. ActiveChain' \subseteq ActiveChain \cup step.connected
      BY <2>2, <2>3, Zenon DEF ActiveChain
    <3>3. ActiveChain' \cap step.bad = {}
      BY <2>3, <2>5, Zenon
    <3>. QED  BY <1>6, <2>2, <3>1, <3>2, <3>3, Zenon DEF FailedMask
  <2>. QED  BY <1>2, <2>4, <2>5, <2>6, <2>7, <2>8, <2>9, Zenon DEF ValidInv, Unsound
<1>. QED  BY <1>1, <1>4, <1>5, Zenon DEF Activated

\* Every step.
LEMMA ValidStep ==
    ASSUME IndexInv, FailInv, ValidInv, [Next]_vars
    PROVE  ValidInv'
<1>1. CASE UNCHANGED vars
  BY <1>1, Zenon DEF vars, status, threads, ValidInv, Unsound, ActiveChain, FailedMask, Alone, Unraced
<1>2. ASSUME NEW b, PruneBlock(b), UNCHANGED usage
      PROVE  ValidInv'
  <2>1. UNCHANGED <<status, chainTip, threads, usage>>
    BY <1>2, Zenon DEF PruneBlock
  <2>. QED  BY <2>1, Zenon DEF status, threads, ValidInv, Unsound, ActiveChain, FailedMask, Alone, Unraced
<1>3. ASSUME NEW t \in Threads, Restart(t), UNCHANGED usage
      PROVE  ValidInv'
  <2>1. /\ UNCHANGED <<validity, failedValid, chainTip, usage>>
        /\ pc' = [u \in Threads |-> IF u = t THEN "activate" ELSE "idle"]
        /\ pindexMostWork' = [u \in Threads |-> None]
    BY <1>3, Zenon DEF Restart
  <2>2. chainTip \in Blocks
    BY Closed, Zenon DEF IndexInv, LinkInv
  <2>3. ASSUME NEW x \in failedChild' \ failedChild
        PROVE  x \in Blocks /\ \E h \in Ancestors[x] : h \in FailedMask
    BY <1>3, Zenon DEF Restart, IndexInv, LinkInv
  <2>4. Alone => ActiveChain' \cap FailedMask' = {}
    <3>1. ASSUME Alone, NEW x \in ActiveChain', x \in failedChild' \ failedChild
          PROVE  FALSE
      <4>1. Ancestors[x] \subseteq ActiveChain
        BY <2>1, <2>2, <3>1, AncestorsNest, Zenon DEF ActiveChain
      <4>. QED  BY <2>3, <3>1, <4>1, Zenon DEF ValidInv
    <3>. QED  BY <2>1, <3>1, Zenon DEF ValidInv, ActiveChain, FailedMask
  <2>5. "invalidate" \notin usage.does => \A x \in FailedMask' : Ancestors[x] \cap Unsound # {}
    <3>1. ASSUME "invalidate" \notin usage.does, NEW x \in failedChild' \ failedChild
          PROVE  Ancestors[x] \cap Unsound # {}
      <4>1. PICK h \in Ancestors[x] : h \in FailedMask
        BY <2>3, <3>1, Zenon
      <4>2. Ancestors[h] \cap Unsound # {}
        BY <3>1, <4>1, Zenon DEF ValidInv
      <4>. QED  BY <2>3, <3>1, <4>2, AncestorsNest, Zenon
    <3>. QED  BY <2>1, <3>1, Zenon DEF ValidInv, FailedMask
  <2>. QED  BY <2>1, <2>4, <2>5, Zenon DEF ValidInv, Unsound, ActiveChain, Alone, Unraced
<1>4. CASE Next
  BY <1>2, <1>3, <1>4, NextCases, IdleValid, ActivateValid, Zenon
<1>. QED  BY <1>1, <1>4, Zenon

-----------------------------------------------------------------------------
(* Theorems.                                                               *)

\* The inductive invariant of the block index and the active chain.
ChainInv ==
    /\ IndexInv
    /\ UnlinkedInv
    /\ FailInv
    /\ ValidInv

\* A new node has it.
LEMMA InitChain ==
    ASSUME Init
    PROVE  ChainInv
<1>1. UnlinkedInv
  BY Zenon DEF Init, UnlinkedInv
<1>2. FailInv
  BY TreeAssumption, Zenon DEF Init, FailInv, FailureHasCause, FailedMask, FailedBlocksMarked, NOT_FAILED_VALID
<1>3. ActiveChain = {Genesis} /\ Genesis \in Blocks /\ Genesis \notin BadConnect
  BY TreeAssumption, ConstantAssumption, Zenon DEF Init, ActiveChain
<1>4. \A b \in Blocks : validity[b] # VALID_SCRIPTS
  BY DEF Init, VALID_TRANSACTIONS, VALID_SCRIPTS
<1>5. ValidInv
  BY <1>3, <1>4, Zenon DEF Init, ValidInv, FailedMask
<1>. QED  BY <1>1, <1>2, <1>5, InitIndex, Zenon DEF ChainInv

\* The invariant, whatever is done with the node.
THEOREM ChainInvariant == Spec => []ChainInv
<1>1. ChainInv /\ [Next]_vars => ChainInv'
  BY IndexStep, UnlinkedStep, FailStep, ValidStep, Zenon DEF ChainInv
<1>. QED  BY <1>1, InitChain, PTL DEF Spec

\* CheckBlockIndex's "nChainTx being set": a block is linked exactly when it and
\* all its ancestors were received and none of them was forgotten.
THEOREM LinksAreExact == Spec => []LinkedExact
<1>1. ChainInv => LinkedExact
  BY LinkInvImplies, Zenon DEF ChainInv, IndexInv
<1>. QED  BY <1>1, ChainInvariant, PTL

\* CheckBlockIndex on mapBlocksUnlinked: what has data and waits for a parent is
\* there unless it was forgotten, and what is there waits for one.
THEOREM UnlinkedIsExact == Spec => []UnlinkedExact
<1>1. ASSUME ChainInv
      PROVE  haveData \ (nChainTx \cup forgotten) \subseteq mapBlocksUnlinked
  BY <1>1, Zenon DEF ChainInv, IndexInv, LinkInv, DataInv, Lost
<1>2. ChainInv => UnlinkedExact
  BY <1>1, UnlinkedInvImplies, Zenon DEF ChainInv, UnlinkedExact
<1>. QED  BY <1>2, ChainInvariant, PTL

\* CheckBlockIndex: "The failed mask cannot be set for blocks without invalid
\* parents": every mark has its cause below, which is still marked unless
\* reconsiderblock has pardoned it.
THEOREM FailuresHaveCauses == Spec => []FailureHasCause
<1>1. ChainInv => FailureHasCause
  BY Zenon DEF ChainInv, FailInv
<1>. QED  BY <1>1, ChainInvariant, PTL

\* The other checks of CheckBlockIndex on a block and its ancestors, the checked
\* scripts of the active chain among them.
THEOREM AncestryIsConsistent == Spec => []AncestryConsistent
<1>1. ChainInv => AncestryConsistent
  BY ValidInvImplies, Zenon DEF ChainInv
<1>. QED  BY <1>1, ChainInvariant, PTL

\* AcceptBlockHeader's assert on g_failed_blocks fails only where reconsiderblock
\* has pardoned a member of the set.
THEOREM FailedBlocksStayInvalid ==
    Spec => [](FailedBlocksMarked \/ pardoned \cap g_failed_blocks # {})
<1>1. ChainInv => (FailedBlocksMarked \/ pardoned \cap g_failed_blocks # {})
  BY Zenon DEF ChainInv, FailInv
<1>. QED  BY <1>1, ChainInvariant, PTL

\* At every moment, between two rounds of ActivateBestChain too, no block of the
\* active chain is marked as failed, unless invalidateblock races with another
\* thread's activation.
THEOREM ActiveChainUnmarked == Spec => [](Unraced => ActiveChain \cap FailedMask = {})
<1>1. ASSUME ChainInv, "invalidate" \notin usage.does, NEW x \in ActiveChain, x \in FailedMask
      PROVE  FALSE
  <2>1. IndexInv /\ ValidInv
    BY <1>1, Zenon DEF ChainInv
  <2>2. chainTip \in Blocks /\ ActiveChain \subseteq nChainTx
    BY <2>1, Closed, Zenon DEF IndexInv, LinkInv, ActiveChain
  <2>3. PICK c \in Ancestors[x] : c \in Unsound
    BY <1>1, <2>1, Zenon DEF ValidInv
  <2>4. c \in ActiveChain
    BY <2>2, <2>3, AncestorsNest, Zenon DEF ActiveChain
  <2>. QED  BY <2>1, <2>2, <2>3, <2>4, Zenon DEF IndexInv, LinkInv, DataInv, ValidInv, Unsound
<1>2. ChainInv => (Unraced => ActiveChain \cap FailedMask = {})
  BY <1>1, Zenon DEF ChainInv, ValidInv, Unraced
<1>. QED  BY <1>2, ChainInvariant, PTL
=============================================================================
