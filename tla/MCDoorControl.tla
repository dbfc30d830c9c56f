---------------------------- MODULE MCDoorControl ----------------------------
(* A small instance of DoorControl.                                         *)
EXTENDS DoorControl, TLC

Symmetric == Permutations(Dicts)
=============================================================================
