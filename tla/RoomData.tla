------------------------------ MODULE RoomData ------------------------------
(***************************************************************************)
(* What the page of room data announces and what the removal of a room     *)
(* then takes (src/src/admin.rs, room_data_maintenance, room_data_summary  *)
(* and the transaction of delete_room_data_gated).  The page is put        *)
(* together from the relay's memory and from many statements, and page and *)
(* removal count identities by queries of their own.  Gate, connections    *)
(* and failures of the removal are the subject of Session.                 *)
(*                                                                         *)
(* A row is a table, a room and a player; of equal rows one stands for     *)
(* all.  Identity mappings are only ever removed by this program.          *)
(***************************************************************************)
EXTENDS Integers, FiniteSets

CONSTANTS
  DataRooms,
  People,
  DataTables,   \* tables with a column room_code, of those below
  MaxRows       \* bound of the model

(* A column that is NULL.                                                  *)
Null == "null"

(* The tables whose rows name a player, and those whose rows do not.       *)
PersonTables ==
  {"audit_events", "daily_player_activity", "hourly_player_activity", "tab_history_entries"}
RoomTables == {"tab_history_deltas", "tab_history_revisions", "tab_history_heads"}

ASSUME RoomDataAssumption ==
  /\ DataTables \subseteq PersonTables \cup RoomTables
  /\ Null \notin DataRooms \cup People /\ MaxRows \in Nat

VARIABLES
  table_rows,
  relationship_players,          \* per row: realm and player
  player_identity_mappings,      \* the players that have a mapping
  last_seen_history,             \* the relay's memory: room and player
  page                           \* the page that is put together, or was last

room_data_vars ==
  <<table_rows, relationship_players, player_identity_mappings, last_seen_history, page>>

(* Audit rows may name no room or no player, and only they.                *)
RowsFor(table) ==
  LET rooms == DataRooms \cup (IF table = "audit_events" THEN {Null} ELSE {})
      people == IF table \in RoomTables THEN {Null}
                ELSE People \cup (IF table = "audit_events" THEN {Null} ELSE {})
  IN [table : {table}, room : rooms, player : people]

NoPage ==
  [step |-> "none", room |-> Null, rooms |-> {}, last_seen |-> 0, counts |-> <<>>,
   unasked |-> {}, identities |-> {}]

RoomDataInit ==
  /\ table_rows = {} /\ relationship_players = {} /\ last_seen_history = {}
  /\ player_identity_mappings \in SUBSET People
  /\ page = NoPage

-----------------------------------------------------------------------------
(* Whatever is written makes the page stale, and a stale page promises     *)
(* nothing: it is not followed further.                                    *)
Written == page' = NoPage

InsertRow(row) ==
  /\ row \notin table_rows /\ Cardinality(table_rows) < MaxRows
  /\ table_rows' = table_rows \cup {row}
  /\ Written
  /\ UNCHANGED <<relationship_players, player_identity_mappings, last_seen_history>>

(* A tab history record that an administrator removes; the mapping stays.  *)
DeleteTabEntry(row) ==
  /\ row.table = "tab_history_entries"
  /\ table_rows' = table_rows \ {row}
  /\ Written
  /\ UNCHANGED <<relationship_players, player_identity_mappings, last_seen_history>>

ImportRelationships(realm, players) ==
  /\ relationship_players' =
       {row \in relationship_players : row.realm # realm} \cup [realm : {realm}, player : players]
  /\ Written
  /\ UNCHANGED <<table_rows, player_identity_mappings, last_seen_history>>

SeePlayer(room, player) ==
  /\ last_seen_history' = last_seen_history \cup {<<room, player>>}
  /\ Written
  /\ UNCHANGED <<table_rows, relationship_players, player_identity_mappings>>

-----------------------------------------------------------------------------
(* The page, of which the entry of one room is modelled.                   *)
PeopleOf(room) ==
  {row.player : row \in {row \in table_rows : row.room = room /\ row.player # Null}}

(* The relay's snapshot: rooms that it knows, and records per room.        *)
OpenPage(room) ==
  LET records == {record \in last_seen_history : record[1] = room}
  IN /\ page' = [NoPage EXCEPT !.step = "rooms", !.room = room,
                               !.rooms = {record[1] : record \in last_seen_history},
                               !.last_seen = Cardinality(records)]
     /\ UNCHANGED <<table_rows, relationship_players, player_identity_mappings,
                    last_seen_history>>

ListRooms ==
  /\ page.step = "rooms"
  /\ page' = [page EXCEPT !.step = "counts",
                !.rooms = @ \cup ({row.room : row \in table_rows} \ {Null})]
  /\ UNCHANGED <<table_rows, relationship_players, player_identity_mappings,
                 last_seen_history>>

(* room_data_summary: a count of each table, ...                           *)
CountTable(table) ==
  /\ page.step = "counts" /\ table \in DataTables \ DOMAIN page.counts
  /\ LET count == Cardinality({row \in table_rows : row.table = table /\ row.room = page.room})
     IN page' = [page EXCEPT !.counts = [t \in DOMAIN @ \cup {table} |->
                                           IF t = table THEN count ELSE @[t]]]
  /\ UNCHANGED <<table_rows, relationship_players, player_identity_mappings,
                 last_seen_history>>

(* ... and the identities that would go: candidates ...                    *)
SelectCandidates ==
  /\ page.step = "counts" /\ DOMAIN page.counts = DataTables
  /\ LET related == {row \in relationship_players : row.realm = page.room}
     IN page' = [page EXCEPT !.step = "identities",
                   !.unasked = PeopleOf(page.room) \cup {row.player : row \in related}]
  /\ UNCHANGED <<table_rows, relationship_players, player_identity_mappings,
                 last_seen_history>>

(* Mutant: room_code <> ?, which is not true of a row without a room.      *)
NamedInOtherRooms(player, room) ==
  \E row \in table_rows : row.player = player /\ row.room # room /\ row.room # Null

(* A row of another room names the player, or an audit row of no room.     *)
NamedElsewhere(player, room) ==
  \E row \in table_rows : row.player = player /\ row.room # room

(* ... one by one.                                                         *)
CountIdentity(player) ==
  /\ page.step = "identities" /\ player \in page.unasked
  /\ page' = [page EXCEPT !.unasked = @ \ {player},
       !.identities = @ \cup {p \in {player} : p \in player_identity_mappings
                                              /\ ~NamedElsewhere(p, page.room)}]
  /\ UNCHANGED <<table_rows, relationship_players, player_identity_mappings,
                 last_seen_history>>

ShowPage ==
  /\ page.step = "identities" /\ page.unasked = {}
  /\ page' = [page EXCEPT !.step = "shown"]
  /\ UNCHANGED <<table_rows, relationship_players, player_identity_mappings,
                 last_seen_history>>

-----------------------------------------------------------------------------
(* The transaction: the rows of the room go, then the mappings of the      *)
(* players they named and no remaining row names.                          *)
RemovedRows(room) == {row \in table_rows : row.room = room}

RemovedIdentities(room) ==
  {player \in PeopleOf(room) \cap player_identity_mappings :
     ~\E row \in table_rows \ RemovedRows(room) : row.player = player}

DeleteRoomData(room) ==
  /\ table_rows' = table_rows \ RemovedRows(room)
  /\ relationship_players' = {row \in relationship_players : row.realm # room}
  /\ player_identity_mappings' = player_identity_mappings \ RemovedIdentities(room)
  /\ Written
  /\ UNCHANGED last_seen_history

(* PurgeRoom, in the relay.                                                *)
PurgeLastSeen(room) ==
  /\ last_seen_history' = {record \in last_seen_history : record[1] # room}
  /\ Written
  /\ UNCHANGED <<table_rows, relationship_players, player_identity_mappings>>

-----------------------------------------------------------------------------
RoomDataNext ==
  \/ \E table \in DataTables : \E row \in RowsFor(table) : InsertRow(row)
  \/ \E row \in table_rows : DeleteTabEntry(row)
  \/ \E room \in DataRooms :
       \/ \E players \in SUBSET People : ImportRelationships(room, players)
       \/ \E player \in People : SeePlayer(room, player)
       \/ OpenPage(room) \/ DeleteRoomData(room) \/ PurgeLastSeen(room)
  \/ ListRooms \/ SelectCandidates \/ ShowPage
  \/ \E table \in DataTables : CountTable(table)
  \/ \E player \in People : CountIdentity(player)

RoomDataSpec == RoomDataInit /\ [][RoomDataNext]_room_data_vars

(* What the page announces is what the removal takes, if nothing is        *)
(* written meanwhile: the rows of each table, the records in memory and    *)
(* the identities, which are counted before the rows are gone there and    *)
(* after it here.  Only players whom relationships alone connect with the  *)
(* room are announced and stay.  A room with rows to remove is listed.     *)
RemovalIsAnnounced ==
  page.step = "shown" =>
    LET room == page.room
    IN /\ \A table \in DataTables :
            page.counts[table] = Cardinality({row \in RemovedRows(room) : row.table = table})
       /\ page.last_seen = Cardinality({record \in last_seen_history : record[1] = room})
       /\ RemovedIdentities(room) = page.identities \cap PeopleOf(room)
       /\ \A player \in page.identities \ PeopleOf(room) :
            [realm |-> room, player |-> player] \in relationship_players
       /\ RemovedRows(room) # {} => room \in page.rooms
=============================================================================
