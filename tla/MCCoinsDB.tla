----------------------------- MODULE MCCoinsDB ------------------------------
(***************************************************************************)
(* G - P1 - A2        A2: T and U, where U spends T's output               *)
(*        \ B2 - B3   B2: another coinbase; B3: T again, at another height *)
(*                                                                         *)
(* Reorganizations between A2 and B3 undo and redo T, so a partly written  *)
(* flush can hold coins of both versions of it.                            *)
(***************************************************************************)
EXTENDS CoinsDB, TLC

CONSTANTS G, P1, A2, B2, B3, p, t, u, x

MCBlocks == {G, P1, A2, B2, B3}
MCParent == P1 :> G @@ A2 :> P1 @@ B2 :> P1 @@ B3 :> B2
MCHeight == G :> 0 @@ P1 :> 1 @@ A2 :> 2 @@ B2 :> 2 @@ B3 :> 3
MCOutPoints == {p, t, u, x}
Tx(ins, outs) == [ins |-> ins, outs |-> outs]
MCTxs == G :> <<>> @@ P1 :> <<Tx({}, {p})>>
         @@ A2 :> <<Tx({p}, {t}), Tx({t}, {u})>>
         @@ B2 :> <<Tx({}, {x})>> @@ B3 :> <<Tx({p}, {t})>>

=============================================================================
