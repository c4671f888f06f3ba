----------------------------- MODULE UtxoLayers -----------------------------
(***************************************************************************)
(* What the stack of coins views promises to its callers: three plain      *)
(* maps from outpoints to coins, one inside the other.                      *)
(*                                                                         *)
(*   db    what the chainstate database holds (CCoinsViewDB);              *)
(*   tip   what pcoinsTip shows;                                           *)
(*   view  what the temporary CCoinsViewCache shows that ConnectTip,       *)
(*         DisconnectTip or TestBlockValidity puts on top of pcoinsTip.    *)
(*                                                                         *)
(* There are no cache entries and no flags here.  A write changes the view *)
(* alone, a flush copies a whole map one layer down, a read changes        *)
(* nothing.  Each layer carries the hash of the block it is the result of. *)
(***************************************************************************)
CONSTANTS OutPoints, Coins, Blocks, Spent, Null

VARIABLES db, tip, view, open, dbBest, tipBest, viewBest

vars == <<db, tip, view, open, dbBest, tipBest, viewBest>>

Maps == [OutPoints -> Coins \cup {Spent}]

Init ==
    /\ db = [o \in OutPoints |-> Spent]
    /\ tip = db
    /\ view = db
    /\ open = FALSE
    /\ dbBest = Null
    /\ tipBest = Null
    /\ viewBest = Null

\* A view starts as a copy of the tip.
Open ==
    /\ ~open
    /\ open' = TRUE
    /\ view' = tip
    /\ viewBest' = tipBest
    /\ UNCHANGED <<db, tip, dbBest, tipBest>>

\* Creating or restoring a coin, or spending one, changes one point of the view.
Write ==
    /\ open
    /\ \E o \in OutPoints, c \in Coins \cup {Spent} : view' = [view EXCEPT ![o] = c]
    /\ UNCHANGED <<db, tip, open, dbBest, tipBest, viewBest>>

SetBest ==
    /\ open
    /\ viewBest' \in Blocks
    /\ UNCHANGED <<db, tip, view, open, dbBest, tipBest>>

\* The tip becomes the view, all of it at once.
Flush ==
    /\ open
    /\ tip' = view
    /\ tipBest' = viewBest
    /\ open' = FALSE
    /\ UNCHANGED <<db, view, dbBest, viewBest>>

\* A dropped view leaves no trace below it.
Drop ==
    /\ open
    /\ open' = FALSE
    /\ view' = tip
    /\ viewBest' = tipBest
    /\ UNCHANGED <<db, tip, dbBest, tipBest>>

FlushTip ==
    /\ ~open
    /\ db' = tip
    /\ dbBest' = tipBest
    /\ UNCHANGED <<tip, view, open, tipBest, viewBest>>

Next == Open \/ Write \/ SetBest \/ Flush \/ Drop \/ FlushTip

Spec == Init /\ [][Next]_vars
=============================================================================
