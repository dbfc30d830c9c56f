SPECIFICATION MovementSpec
CONSTANTS
  MovingPlayers = {1, 2, 3, 4}
  EntryBytes <- MCEntryBytes
  ChunkMaxBytes = 4
  MaxChunks = 1
INVARIANTS
  OverflowComesNextTurn
