------------------------------ MODULE Movement ------------------------------
(***************************************************************************)
(* The batches of positions that go out as datagrams: movement_batch and   *)
(* flush_movement_chunk of src/src/relay.rs.  Connections whose positions  *)
(* go this way have them taken out of their reliable patches.              *)
(***************************************************************************)
EXTENDS Integers, Sequences, FiniteSets, SequencesExt

CONSTANTS
  MovingPlayers,  \* numbers, in the order of the ids
  EntryBytes,     \* per player: the length of its encoded entry
  ChunkMaxBytes,  \* MOVEMENT_CHUNK_MAX_BYTES
  MaxChunks       \* MOVEMENT_MAX_CHUNKS_PER_TICK

VARIABLES
  target_players,  \* the players of the snapshot
  last_batches,    \* the chunks of the last two turns (a history variable)
  steady           \* turns since the players changed, at most 2 (history)

movement_vars == <<target_players, last_batches, steady>>

(* A chunk is the set of players in it; an empty one is not sent.          *)
FlushMovementChunk(batch) ==
  IF batch.current = {} THEN batch
  ELSE [batch EXCEPT !.chunks = Append(@, batch.current), !.current = {}, !.bytes = 0]

(* One player more, unless there are chunks enough.                        *)
AddPlayer(batch, p) ==
  LET full == batch.current # {} /\ batch.bytes + EntryBytes[p] > ChunkMaxBytes
      room == IF full THEN FlushMovementChunk(batch) ELSE batch
  IN IF Len(batch.chunks) >= MaxChunks THEN batch
     ELSE [room EXCEPT !.current = @ \cup {p}, !.bytes = @ + EntryBytes[p]]

MovementBatch(players) ==
  FlushMovementChunk(
    FoldLeft(AddPlayer, [chunks |-> <<>>, current |-> {}, bytes |-> 0],
             SetToSortSeq(players, <))).chunks

MovementInit ==
  /\ target_players = {} /\ last_batches = << <<>>, <<>> >> /\ steady = 0

Appear(p) ==
  /\ target_players' = target_players \cup {p} /\ p \notin target_players
  /\ steady' = 0
  /\ UNCHANGED last_batches

Vanish(p) ==
  /\ target_players' = target_players \ {p} /\ p \in target_players
  /\ steady' = 0
  /\ UNCHANGED last_batches

PublishMovement ==
  /\ last_batches' = <<last_batches[2], MovementBatch(target_players)>>
  /\ steady' = IF steady = 2 THEN 2 ELSE steady + 1
  /\ UNCHANGED target_players

MovementNext ==
  \/ \E p \in MovingPlayers : Appear(p) \/ Vanish(p)
  \/ PublishMovement

MovementSpec == MovementInit /\ [][MovementNext]_movement_vars

(* src/src/relay.rs:57 says that what exceeds the datagrams of one turn is *)
(* left for the next one: of two turns in a row the second carries who     *)
(* found no place in the first.                                            *)
OverflowComesNextTurn ==
  steady = 2 => \A p \in target_players :
    \E turn \in {1, 2} : \E i \in DOMAIN last_batches[turn] : p \in last_batches[turn][i]
=============================================================================
