----------------------------- MODULE MCPoolReorg -----------------------------
(***************************************************************************)
(* T1, T2, T3, E and D depend on each other, T3 on T1 in two ways; R       *)
(* and X may replace T1 and T2 and all that spends them.  The blocks A1    *)
(* and A2 hold some of them, B1 and B2 others, C2 one that conflicts with  *)
(* A1, and B3 is invalid.  K spends the coinbase of A1 and is immature     *)
(* without A2, N is not standard, D is not final before height 2, and F    *)
(* takes much of the room.  X comes before its parent T1 in the order of   *)
(* the hashes.                                                             *)
(***************************************************************************)
EXTENDS PoolFile

CONSTANTS cA, N, T1, T2, T3, E, R, X, D, K, F, A1, A2, B1, B2, B3, C2

k(i) == <<"k", i>>

MCCoins == {k(1), k(2), k(3)}
MCInputs ==
    cA :> {} @@ N :> {k(2)} @@ T1 :> {k(1)} @@ T2 :> {<<T1, 1>>} @@
    T3 :> {<<T1, 2>>, <<T2, 1>>} @@ E :> {<<T1, 3>>} @@ R :> {k(1)} @@ X :> {<<T1, 1>>} @@
    D :> {<<N, 1>>, <<T2, 2>>} @@ K :> {<<cA, 1>>} @@ F :> {k(3)}
MCSize == [t \in Txs |-> IF t \in {T2, R} THEN 2 ELSE IF t = F THEN 4 ELSE 1]
MCFee ==
    cA :> 0 @@ N :> 1 @@ T1 :> 1 @@ T2 :> 4 @@ T3 :> 3 @@ E :> 2 @@ R :> 20 @@ X :> 14 @@
    D :> 2 @@ K :> 3 @@ F :> 7
MCHash ==
    cA :> 1 @@ N :> 8 @@ T1 :> 3 @@ T2 :> 4 @@ T3 :> 5 @@ E :> 6 @@ R :> 7 @@ X :> 2 @@ D :> 9 @@
    K :> 10 @@ F :> 11
MCLockHeight == [t \in Txs |-> IF t = D THEN 1 ELSE 0]
MCPrev == A1 :> Genesis @@ A2 :> A1 @@ B1 :> Genesis @@ B2 :> B1 @@ B3 :> B2 @@ C2 :> B1
MCvtx ==
    A1 :> <<cA, T1, T2, N>> @@ A2 :> <<T3>> @@ B1 :> <<T1>> @@ B2 :> <<N>> @@ B3 :> <<>> @@
    C2 :> <<X>>

=============================================================================
