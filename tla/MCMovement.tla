----------------------------- MODULE MCMovement -----------------------------
(* Entries of half a chunk, and one chunk per turn.                        *)
EXTENDS Movement
MCEntryBytes == [p \in MovingPlayers |-> 2]
=============================================================================
