---------------------------- MODULE MCCheckQueue ----------------------------
(***************************************************************************)
(* Two workers, two masters that take turns, three checks, one of which    *)
(* fails, and batches of at most two: batches of both sizes, a master that *)
(* finds the queue empty while workers are busy, and a failing check that  *)
(* is in the same batch as good ones all occur.                            *)
(***************************************************************************)
EXTENDS CheckQueue

CONSTANTS c1, c2, c3

MCChecks == {c1, c2, c3}
MCBad == {c1}

=============================================================================
