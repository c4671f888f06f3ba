---------------------------- MODULE MCChainState ----------------------------
(***************************************************************************)
(* A genesis block with two branches, A1-A2-A3 and B1-B2-B3, and a sibling *)
(* D2 of B2, or the part of that tree which a configuration names in       *)
(* Blocks.                                                                 *)
(***************************************************************************)
EXTENDS ChainState, TLC

CONSTANTS G, A1, A2, A3, B1, B2, B3, D2, t1, t2

Branches == A1 :> G @@ A2 :> A1 @@ A3 :> A2 @@ B1 :> G @@ B2 :> B1 @@ B3 :> B2 @@ D2 :> B1
Chains == G :> {G} @@ A1 :> {G, A1} @@ A2 :> {G, A1, A2}
            @@ A3 :> {G, A1, A2, A3} @@ B1 :> {G, B1} @@ B2 :> {G, B1, B2}
            @@ B3 :> {G, B1, B2, B3} @@ D2 :> {G, B1, D2}

MCParent == [b \in Blocks \ {G} |-> Branches[b]]
MCAncestors == [b \in Blocks |-> Chains[b]]
MCHeight == [b \in Blocks |-> Cardinality(Chains[b]) - 1]
MCWork == [b \in Blocks |-> Cardinality(Chains[b])]

MCMinSequenceId == -2

\* Pointers in the order of the names, and in the opposite order.
AddressOrder == G :> 1 @@ A1 :> 2 @@ A2 :> 3 @@ B1 :> 4 @@ B2 :> 5 @@ B3 :> 6 @@ A3 :> 7
                  @@ D2 :> 8
MCAddresses == {[b \in Blocks |-> AddressOrder[b]], [b \in Blocks |-> 9 - AddressOrder[b]]}

Used(what, who, which) == [does |-> what, threads |-> who, blocks |-> which, damaged |-> {}]
TwoBranches == {G, A1, A2, B1, B2}
ShortAndLong == {G, A1, B1, B2, B3}
LongBranch == {G, A1, A2, A3}
LongAndShort == {G, A1, A2, A3, B1, B2}
ThreeTips == {G, A1, B1, B2, D2}

ShortAndInvalid == {G, A1, B1, B2}

\* LongBranch and LongAndShort are long enough for blocks to be forgotten, and
\* ThreeTips has siblings of which one can be reconsidered.
SyncUsages ==
    {Used({"invalidate", "reconsider"}, {t1}, ThreeTips),
     Used({"invalidate", "reconsider"}, {t1}, LongBranch),
     Used({"invalidate", "reconsider", "restart"}, {t1}, ShortAndInvalid),
     Used({"reconsider", "precious"}, {t1}, TwoBranches),
     Used({"reconsider", "prune", "restart"}, {t1}, ShortAndInvalid),
     Used({"prune", "restart"}, {t1, t2}, ShortAndLong),
     Used({"prune"}, {t1}, LongAndShort),
     [Used({"invalidate"}, {t1}, TwoBranches) EXCEPT !.damaged = {A1}]}
RaceUsages == {Used({}, Threads, Blocks)}
ReconsiderUsages == {Used({"invalidate", "reconsider"}, Threads, Blocks)}

=============================================================================
