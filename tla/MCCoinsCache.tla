---------------------------- MODULE MCCoinsCache ----------------------------
(* Model-checking instance of CoinsCache.                                  *)
EXTENDS CoinsCache, TLC

\* The sets are unordered and no definition names a member of one.
Symmetry == Permutations(OutPoints) \cup Permutations(Coins) \cup Permutations(Blocks)
=============================================================================
