------------------------- MODULE MCBattleDelivery -------------------------
(* A small instance of BattleDelivery; liveness forbids symmetry.          *)
EXTENDS BattleDelivery
=============================================================================
