--------------------------- MODULE MCBattleCache ---------------------------
(***************************************************************************)
(* A small instance of BattleCache.                                        *)
(***************************************************************************)
EXTENDS BattleCache, TLC

Symmetric ==
  Permutations(Keys) \cup Permutations(Shown) \cup Permutations(Meta)
=============================================================================
