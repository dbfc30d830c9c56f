---------------------------- MODULE MCDelivery ----------------------------
(* A small instance of Delivery.                                           *)
EXTENDS Delivery, TLC

Player == [is_player |-> TRUE, unreliable_positions |-> FALSE]
PlayerOnDatagrams == [is_player |-> TRUE, unreliable_positions |-> TRUE]
WebMap == [is_player |-> FALSE, unreliable_positions |-> FALSE]
WebMapOnDatagrams == [is_player |-> FALSE, unreliable_positions |-> TRUE]

PlayersAndMaps == {Player, WebMapOnDatagrams}
LossyPlayers == {PlayerOnDatagrams}
WebMaps == {WebMap}
LossyWebMaps == {WebMapOnDatagrams}

Symmetric ==
  Permutations(Ids) \cup Permutations(Positions) \cup Permutations(Infos)
=============================================================================
