------------------------- MODULE BattleObservation -------------------------
(***************************************************************************)
(* How an observation of the battle map becomes chunks of its source:      *)
(* apply_battle_observation and choose_battle_candidate_by_overlap in      *)
(* src/src/relay.rs.  A client sees colored cells at relative positions    *)
(* and proposes bases at which they may lie; the relay picks one, or none. *)
(*                                                                         *)
(* One source, and one coordinate; bases saturate at the ends of its range.*)
(***************************************************************************)
EXTENDS Integers, Sequences, FiniteSets

CONSTANTS
  Dimensions,
  MaxCoordinate,
  Colors,
  Window,            \* 10 000 ms in the code
  Observations       \* [dimension, candidates, cells, at]: bases, cells (an
                     \* offset and a color each), both in order, and a time

ASSUME ObservationAssumption ==
  /\ MaxCoordinate \in Nat /\ Window \in Nat
  /\ \A seen \in Observations :
       /\ seen.dimension \in Dimensions /\ seen.at \in Nat
       /\ seen.candidates \in Seq(0 .. MaxCoordinate)
       /\ seen.cells \in Seq(Nat \X Colors)

NoColor == "none"
NoProjection == <<>>
ObservedChunks == Dimensions \X (0 .. MaxCoordinate)

VARIABLES
  battle_chunks,     \* SourceState.battle_chunks: the color of each chunk
  battle_projection, \* the last accepted: <<[dimension, base, at, chunk_ids]>>
  last_cells         \* what it saw at each chunk (a history variable)

observation_vars == <<battle_chunks, battle_projection, last_cells>>

SaturatingAdd(base, offset) ==
  IF base + offset > MaxCoordinate THEN MaxCoordinate ELSE base + offset

KeyOf(dimension, base, offset) == <<dimension, SaturatingAdd(base, offset)>>

Distance(a, b) == IF a < b THEN b - a ELSE a - b

(* The chunks that look at this base as they did before.                   *)
Score(seen, base) ==
  Cardinality({i \in DOMAIN seen.cells :
    battle_chunks[KeyOf(seen.dimension, base, seen.cells[i][1])] = seen.cells[i][2]})

(* The candidate of best overlap, by its place, if there is only one, or   *)
(* if nothing is known to overlap with.                                    *)
ChooseByOverlap(seen) ==
  LET places == DOMAIN seen.candidates
      best == {i \in places : \A j \in places :
                 Score(seen, seen.candidates[j]) <= Score(seen, seen.candidates[i])}
      first == CHOOSE i \in best : \A j \in best : i <= j
      unknown == \A key \in ObservedChunks : battle_chunks[key] = NoColor
  IN {i \in {first} : Cardinality(best) = 1 \/ unknown}

(* The candidates next to the last accepted base, if that is recent.       *)
Matched(seen) ==
  {i \in DOMAIN seen.candidates : \E previous \in {battle_projection[j] : j \in DOMAIN battle_projection} :
     /\ previous.dimension = seen.dimension
     /\ seen.at - previous.at \in 0 .. Window
     /\ Distance(seen.candidates[i], previous.base) <= 1}

Chosen(seen) ==
  IF Len(seen.candidates) = 1 THEN {1}
  ELSE IF Cardinality(Matched(seen)) = 1 THEN Matched(seen)
  ELSE ChooseByOverlap(seen)

ObservationInit ==
  /\ battle_chunks = [key \in ObservedChunks |-> NoColor]
  /\ battle_projection = NoProjection
  /\ last_cells = [key \in ObservedChunks |-> {}]

(* Mutant: the chunks of the previous projection stay.                     *)
AcceptOver(seen, base) ==
  LET at(key) == {i \in DOMAIN seen.cells :
                    KeyOf(seen.dimension, base, seen.cells[i][1]) = key}
      color(key) == seen.cells[CHOOSE i \in at(key) : \A j \in at(key) : j <= i][2]
  IN /\ battle_chunks' = [key \in ObservedChunks |->
          IF at(key) = {} THEN battle_chunks[key] ELSE color(key)]
     /\ battle_projection' = <<[dimension |-> seen.dimension, base |-> base, at |-> seen.at,
                               chunk_ids |-> {key \in ObservedChunks : at(key) # {}}]>>
     /\ last_cells' = [key \in ObservedChunks |-> {seen.cells[i][2] : i \in at(key)}]

(* The chunks of the previous projection go, those seen now come; of cells *)
(* that saturate at one position the last remains.                         *)
Accept(seen, base) ==
  LET at(key) == {i \in DOMAIN seen.cells :
                    KeyOf(seen.dimension, base, seen.cells[i][1]) = key}
      color(key) == seen.cells[CHOOSE i \in at(key) : \A j \in at(key) : j <= i][2]
      previous == UNION {battle_projection[j].chunk_ids : j \in DOMAIN battle_projection}
  IN /\ battle_chunks' = [key \in ObservedChunks |->
          IF at(key) # {} THEN color(key)
          ELSE IF key \in previous THEN NoColor ELSE battle_chunks[key]]
     /\ battle_projection' = <<[dimension |-> seen.dimension, base |-> base, at |-> seen.at,
                               chunk_ids |-> {key \in ObservedChunks : at(key) # {}}]>>
     /\ last_cells' = [key \in ObservedChunks |-> {seen.cells[i][2] : i \in at(key)}]

(* An observation without cells or candidates, or of which none is chosen, *)
(* changes nothing.                                                        *)
ApplyBattleObservation(seen) ==
  /\ seen.candidates # <<>> /\ seen.cells # <<>>
  /\ \E i \in Chosen(seen) : Accept(seen, seen.candidates[i])

(* cleanup_timeouts takes a chunk and leaves the projection.               *)
ExpireChunk(key) ==
  /\ battle_chunks[key] # NoColor
  /\ battle_chunks' = [battle_chunks EXCEPT ![key] = NoColor]
  /\ UNCHANGED <<battle_projection, last_cells>>

(* source_state_clear and Disconnect.                                      *)
ClearChunks ==
  /\ battle_chunks' = [key \in ObservedChunks |-> NoColor]
  /\ battle_projection' = NoProjection
  /\ UNCHANGED last_cells

ObservationNext ==
  \/ \E seen \in Observations : ApplyBattleObservation(seen)
  \/ \E key \in ObservedChunks : ExpireChunk(key)
  \/ ClearChunks

ObservationSpec == ObservationInit /\ [][ObservationNext]_observation_vars

(* The chunks of a source are never a mixture of two observations, not     *)
(* even when chunks have expired one by one, bases overlap or the source   *)
(* went to another dimension: each chunk is of the last accepted one.      *)
ChunksOfOneObservation ==
  \A key \in ObservedChunks : battle_chunks[key] # NoColor =>
    /\ battle_projection # NoProjection
    /\ key \in battle_projection[1].chunk_ids
    /\ battle_chunks[key] \in last_cells[key]
=============================================================================
