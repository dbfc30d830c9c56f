------------------------------ MODULE Sources ------------------------------
(***************************************************************************)
(* What the relay holds of each source, and the handlers that change it:   *)
(* apply_report, apply_web_map_command, cleanup_timeouts,                  *)
(* send_preexpiry_refresh_requests and the small events of handle_event    *)
(* in src/src/relay.rs.                                                    *)
(*                                                                         *)
(* An object is known by its id; of its report the age is kept, in turns   *)
(* of the relay's timer.  A room is also the id of the source that holds   *)
(* the room's tactical waypoints.                                          *)
(***************************************************************************)
EXTENDS Integers, Sequences, FiniteSets

CONSTANTS
  Clients, ExternalClients, WebMaps,  \* ids of connections, by kind
  Rooms, DefaultRoom, NoRoom,
  ObjectIds,
  MarkedPlayers,        \* ids that a web map marks
  PermanentIds,         \* waypoints that do not expire
  GuardedIds,           \* waypoints whose deletable_by is not "everyone"
  EntityTargets,        \* waypoints whose target is an entity
  Timeout,              \* per scope, in turns
  RefreshLead, RefreshCooldown,
  CongestionThreshold,  \* clients from which the relay is slower
  ControlCapacity,      \* 32 in the code
  DisconnectedLimit,    \* 128 in the code
  MaxAge                \* bound: ages are not told apart beyond

ClientIds == Clients \cup ExternalClients \cup WebMaps
SourceIds == ClientIds \cup Rooms
Scopes == {"players", "entities", "waypoints", "battle_chunks",
           "last_seen_players", "tab_players"}
NoAge == -1

ASSUME SourcesAssumption ==
  /\ IsFiniteSet(ClientIds) /\ ClientIds \cap Rooms = {}
  /\ Clients \cap (ExternalClients \cup WebMaps) = {}
  /\ ExternalClients \cap WebMaps = {}
  /\ DefaultRoom \in Rooms /\ NoRoom \notin Rooms
  /\ Timeout \in [Scopes -> Nat] /\ \A scope \in Scopes : Timeout[scope] < MaxAge
  /\ {RefreshLead, RefreshCooldown} \subseteq 1 .. MaxAge
  /\ {CongestionThreshold, ControlCapacity, DisconnectedLimit} \subseteq Nat

VARIABLES
  connected_to,      \* per connection: its room
  source_room,       \* per source: the room it is filed under
  held,              \* per source, scope and object: the age of the report
  player_marks,
  control,           \* per connection: messages waiting in its channel
  subscribed,        \* connections with tab_history_subscribed
  last_refresh_sent, \* per source: turns since the last request
  disconnected_external_sources,
  congested,         \* broadcast_hz is the slower one
  sources_dirty,
  shown              \* per room: what the last broadcast was made from

sources_vars == <<connected_to, source_room, held, player_marks, control, subscribed,
                  last_refresh_sent, disconnected_external_sources, congested,
                  sources_dirty, shown>>

-----------------------------------------------------------------------------
HoldsNothing == [scope \in Scopes |-> [o \in ObjectIds |-> NoAge]]
Connected == {c \in ClientIds : connected_to[c] # NoRoom}
InRoom(room) == {c \in Connected : connected_to[c] = room}

(* try_send: a full channel drops the message.                             *)
TrySend(C) ==
  [c \in ClientIds |-> IF c \in C /\ control[c] < ControlCapacity
                 THEN control[c] + 1 ELSE control[c]]

(* Everything that a snapshot of the room is made from, but for the list   *)
(* of the connected clients.                                               *)
Content(room) ==
  [objects |-> {at \in SourceIds \X (Scopes \ {"battle_chunks"}) \X ObjectIds :
                  /\ source_room[at[1]] = room /\ held[at[1]][at[2]][at[3]] # NoAge
                  /\ at[2] = "tab_players" => at[1] \in Connected},
   marks |-> player_marks]

SourcesInit ==
  /\ connected_to = [c \in ClientIds |-> NoRoom]
  /\ source_room = [s \in SourceIds |-> NoRoom]
  /\ held = [s \in SourceIds |-> HoldsNothing]
  /\ player_marks = {}
  /\ control = [c \in ClientIds |-> 0]
  /\ subscribed = {}
  /\ last_refresh_sent = [c \in ClientIds |-> NoAge]
  /\ disconnected_external_sources = <<>>
  /\ congested = FALSE
  /\ sources_dirty = FALSE
  /\ shown = [room \in Rooms |-> Content(room)]

-----------------------------------------------------------------------------
Join(c, room) ==
  /\ connected_to' = [connected_to EXCEPT ![c] = room]
  /\ control' = [control EXCEPT ![c] = 0]
  /\ subscribed' = subscribed \ {c}
  /\ sources_dirty' = TRUE
  /\ UNCHANGED <<source_room, held, player_marks, last_refresh_sent,
                 disconnected_external_sources, congested, shown>>

(* What lasts of a source that goes are the players last seen.             *)
LastSeenOnly(h) == [HoldsNothing EXCEPT !["last_seen_players"] = h["last_seen_players"]]

LeaveConnection(c) ==
  LET live == held[c] # LastSeenOnly(held[c])
  IN /\ connected_to' = [connected_to EXCEPT ![c] = NoRoom]
     /\ control' = [control EXCEPT ![c] = 0]
     /\ subscribed' = subscribed \ {c}
     /\ disconnected_external_sources' =
          IF c \notin ExternalClients \cap Connected THEN disconnected_external_sources
          ELSE LET log == Append(disconnected_external_sources, <<c, connected_to[c]>>)
               IN IF Len(log) > DisconnectedLimit THEN Tail(log) ELSE log
     /\ held' = [held EXCEPT ![c] = LastSeenOnly(@)]
     /\ source_room' = IF held'[c] = HoldsNothing
                       THEN [source_room EXCEPT ![c] = NoRoom] ELSE source_room
     /\ sources_dirty' = (sources_dirty \/ live)
     /\ last_refresh_sent' = [last_refresh_sent EXCEPT ![c] = NoAge]
     /\ UNCHANGED <<player_marks, congested, shown>>

(* A report is a record: per scope, upsert, delete and keepalive are sets  *)
(* of ids, empty where there is no patch; replace holds the set of a whole *)
(* report and clear a set of scopes, or nothing; deaths are the waypoints  *)
(* whose target is said to be dead.  The parts are applied in this order,  *)
(* whatever the order in which the client made them.  All names of a tab   *)
(* list share the time of its last report; battle chunks are replaced by   *)
(* an observation (see BattleObservation).                                 *)
EmptyReport ==
  [replace |-> [scope \in Scopes |-> {}], upsert |-> [scope \in Scopes |-> {}],
   delete |-> [scope \in Scopes |-> {}], keepalive |-> [scope \in Scopes |-> {}],
   waypoints_delete |-> {}, clear |-> {}, deaths |-> {}]

Cleared(report) ==
  IF report.clear = {{}} THEN Scopes \ {"last_seen_players"} ELSE UNION report.clear

ApplyReport(h, report) ==
  [scope \in Scopes |-> [o \in ObjectIds |->
     LET touched == /\ scope = "tab_players" /\ h[scope][o] # NoAge
                    /\ report.upsert[scope] \cup report.delete[scope] # {}
         before == IF report.replace[scope] # {}
                   THEN IF o \in UNION report.replace[scope] THEN 0 ELSE NoAge
                   ELSE IF touched THEN 0 ELSE h[scope][o]
         patched == IF o \in report.delete[scope] THEN NoAge
                    ELSE IF o \in report.upsert[scope] THEN 0 ELSE before
     IN IF \/ scope \in Cleared(report)
           \/ scope = "waypoints" /\ o \in report.waypoints_delete
        THEN NoAge
        ELSE IF /\ patched # NoAge /\ scope \in {"players", "entities", "battle_chunks"}
                /\ o \in report.keepalive[scope]
        THEN 0 ELSE patched]]

(* Dead targets are cancelled in every source of every room.               *)
CancelDeaths(all, deaths) ==
  [s \in SourceIds |-> [all[s] EXCEPT !["waypoints"] =
     [o \in ObjectIds |->
        IF s \notin Rooms /\ o \in EntityTargets \cap deaths THEN NoAge ELSE @[o]]]]

(* A report of a connection that is gone is filed under the default room.  *)
HandlePlayerReport(c, report) ==
  /\ source_room' = [source_room EXCEPT
       ![c] = IF c \in Connected THEN connected_to[c] ELSE DefaultRoom]
  /\ held' = CancelDeaths([held EXCEPT ![c] = ApplyReport(@, report)], report.deaths)
  /\ sources_dirty' = TRUE
  /\ UNCHANGED <<connected_to, player_marks, control, subscribed, last_refresh_sent,
                 disconnected_external_sources, congested, shown>>

-----------------------------------------------------------------------------
(* Commands of a web map.  Each but ResyncRequest is answered.             *)
Answer(w) ==
  /\ w \in WebMaps \cap Connected
  /\ control' = TrySend({w})
  /\ UNCHANGED <<connected_to, subscribed, last_refresh_sent,
                 disconnected_external_sources, congested, shown>>

SetPlayerMark(w, p) ==
  /\ Answer(w)
  /\ player_marks' = player_marks \cup {p}
  /\ sources_dirty' = TRUE
  /\ UNCHANGED <<source_room, held>>

ClearPlayerMark(w, p) ==
  /\ Answer(w)
  /\ player_marks' = player_marks \ {p}
  /\ sources_dirty' = (sources_dirty \/ p \in player_marks)
  /\ UNCHANGED <<source_room, held>>

(* Mutant: the table is compared after it has been cleared.                *)
ClearAllPlayerMarksLate(w) ==
  /\ Answer(w)
  /\ player_marks' = {}
  /\ sources_dirty' = (sources_dirty \/ player_marks' # {})
  /\ UNCHANGED <<source_room, held>>

ClearAllPlayerMarks(w) ==
  /\ Answer(w)
  /\ player_marks' = {}
  /\ sources_dirty' = (sources_dirty \/ player_marks # {})
  /\ UNCHANGED <<source_room, held>>

(* A position that is not finite is refused; else the waypoint is held by  *)
(* the tactical source of the room.                                        *)
SetTacticalWaypoint(w, o, finite) ==
  LET room == connected_to[w]
  IN /\ Answer(w)
     /\ source_room' = IF finite THEN [source_room EXCEPT ![room] = room] ELSE source_room
     /\ held' = IF finite THEN [held EXCEPT ![room]["waypoints"][o] = 0] ELSE held
     /\ sources_dirty' = (sources_dirty \/ finite)
     /\ UNCHANGED player_marks

(* Every source of the room gives up the waypoint, unless it is guarded;   *)
(* tactical ones belong to the web maps of the room.                       *)
DeleteWaypoints(w, o) ==
  LET room == connected_to[w]
      from == {s \in SourceIds : /\ source_room[s] = room
                                 /\ held[s]["waypoints"][o] # NoAge
                                 /\ s = room \/ o \notin GuardedIds}
  IN /\ Answer(w)
     /\ held' = [s \in SourceIds |->
          IF s \in from THEN [held[s] EXCEPT !["waypoints"][o] = NoAge] ELSE held[s]]
     /\ sources_dirty' = (sources_dirty \/ from # {})
     /\ UNCHANGED <<source_room, player_marks>>

ResyncRequest(w) ==
  /\ w \in WebMaps \cap Connected
  /\ sources_dirty' = TRUE
  /\ UNCHANGED <<connected_to, source_room, held, player_marks, control, subscribed,
                 last_refresh_sent, disconnected_external_sources, congested, shown>>

-----------------------------------------------------------------------------
(* Messages that concern no source: the head of the tab history for those  *)
(* who subscribed, a report policy for the clients of a room, the meta     *)
(* data of battle chunks for who asked, and the writer that takes one.     *)
TabHistorySubscription(c, enabled) ==
  /\ c \in Connected
  /\ subscribed' = IF enabled THEN subscribed \cup {c} ELSE subscribed \ {c}
  /\ UNCHANGED <<connected_to, source_room, held, player_marks, control, last_refresh_sent,
                 disconnected_external_sources, congested, sources_dirty, shown>>

SendControl(C) ==
  /\ control' = TrySend(C)
  /\ UNCHANGED <<connected_to, source_room, held, player_marks, subscribed,
                 last_refresh_sent, disconnected_external_sources, congested,
                 sources_dirty, shown>>

TabHistoryChanged(room) == SendControl(InRoom(room) \cap subscribed)
ReportPolicyUpdate(room) == SendControl(InRoom(room) \cap Clients)
SendBattleChunkMeta(c) == SendControl({c} \cap Connected)

TakeControl(c) ==
  /\ control[c] > 0
  /\ control' = [control EXCEPT ![c] = @ - 1]
  /\ UNCHANGED <<connected_to, source_room, held, player_marks, subscribed,
                 last_refresh_sent, disconnected_external_sources, congested,
                 sources_dirty, shown>>

(* The admin page forgets a player that was last seen in the room.         *)
DeleteLastSeen(room, s, o) ==
  LET found == source_room[s] = room /\ held[s]["last_seen_players"][o] # NoAge
  IN /\ held' = IF found THEN [held EXCEPT ![s]["last_seen_players"][o] = NoAge] ELSE held
     /\ sources_dirty' = (sources_dirty \/ found)
     /\ UNCHANGED <<connected_to, source_room, player_marks, control, subscribed,
                    last_refresh_sent, disconnected_external_sources, congested, shown>>

(* A room without connections is forgotten.                                *)
PurgeRoom(room) ==
  LET gone == {s \in SourceIds : source_room[s] = room}
  IN /\ InRoom(room) = {}
     /\ source_room' = [s \in SourceIds |-> IF s \in gone THEN NoRoom ELSE source_room[s]]
     /\ held' = [s \in SourceIds |-> IF s \in gone THEN HoldsNothing ELSE held[s]]
     /\ last_refresh_sent' = [c \in ClientIds |->
          IF c \in gone THEN NoAge ELSE last_refresh_sent[c]]
     /\ disconnected_external_sources' =
          SelectSeq(disconnected_external_sources, LAMBDA entry : entry[2] # room)
     /\ sources_dirty' = TRUE
     /\ UNCHANGED <<connected_to, player_marks, control, subscribed, congested, shown>>

-----------------------------------------------------------------------------
(* One turn of the timer.                                                  *)

Older(age, scope, o) ==
  IF age = NoAge \/ scope = "last_seen_players" THEN age
  ELSE IF age < MaxAge THEN age + 1 ELSE age

Aged == [s \in SourceIds |-> [scope \in Scopes |-> [o \in ObjectIds |->
           Older(held[s][scope][o], scope, o)]]]

(* cleanup_timeouts.  A tab list is kept while its source is connected.    *)
Outlived(s, scope, o) ==
  /\ Aged[s][scope][o] > Timeout[scope]
  /\ scope # "last_seen_players"
  /\ scope = "waypoints" => o \notin PermanentIds
  /\ scope = "tab_players" => s \notin Connected

CleanupTimeouts ==
  [s \in SourceIds |-> [scope \in Scopes |-> [o \in ObjectIds |->
     IF Outlived(s, scope, o) THEN NoAge ELSE Aged[s][scope][o]]]]

(* An object in its window: it expires soon, and can still be refreshed.   *)
ExpiresSoon(all, s, scope, o) ==
  /\ scope \in {"players", "entities", "battle_chunks"}
  /\ all[s][scope][o] # NoAge
  /\ all[s][scope][o] < Timeout[scope]
  /\ Timeout[scope] - all[s][scope][o] <= RefreshLead

SinceRefresh(c) ==
  IF last_refresh_sent[c] \in {NoAge, MaxAge} THEN last_refresh_sent[c]
  ELSE last_refresh_sent[c] + 1

(* The sources that are asked to report again.                             *)
SendPreexpiryRefreshRequests(all) ==
  {c \in Connected : /\ SinceRefresh(c) = NoAge \/ SinceRefresh(c) >= RefreshCooldown
                     /\ \E scope \in Scopes, o \in ObjectIds : ExpiresSoon(all, c, scope, o)}

Turn ==
  LET asked == SendPreexpiryRefreshRequests(CleanupTimeouts)
      slow == Cardinality(Clients \cap Connected) >= CongestionThreshold
      hinted == IF slow # congested THEN Clients \cap Connected ELSE {}
      room_left(c) == control[c] + Cardinality({c} \cap hinted) < ControlCapacity
      dirty == sources_dirty \/ \E s \in SourceIds, scope \in Scopes, o \in ObjectIds :
                 Outlived(s, scope, o)
  IN /\ congested' = slow
     /\ held' = CleanupTimeouts
     /\ last_refresh_sent' = [c \in ClientIds |->
          IF c \in asked /\ room_left(c) THEN 0 ELSE SinceRefresh(c)]
     /\ control' = [c \in ClientIds |->
          LET sent == Cardinality({c} \cap hinted) + Cardinality({c} \cap asked)
          IN IF control[c] + sent <= ControlCapacity THEN control[c] + sent ELSE ControlCapacity]
     /\ sources_dirty' = FALSE
     /\ UNCHANGED <<connected_to, source_room, player_marks, subscribed,
                    disconnected_external_sources>>
     /\ shown' = [room \in Rooms |->
          IF dirty /\ InRoom(room) # {} THEN Content(room)' ELSE shown[room]]

-----------------------------------------------------------------------------
(* What reports name is a parameter, so that an instance can look at some  *)
(* scopes at a time.                                                       *)
SourceReports(scopes) ==
  LET one(scope, S) == [[other \in Scopes |-> {}] EXCEPT ![scope] = S]
  IN UNION {{[EmptyReport EXCEPT !.replace[scope] = {{o}}],
             [EmptyReport EXCEPT !.upsert = one(scope, {o})],
             [EmptyReport EXCEPT !.delete = one(scope, {o})],
             [EmptyReport EXCEPT !.upsert = one(scope, {o}), !.clear = {{}}],
             [EmptyReport EXCEPT !.keepalive = one(scope, {o}), !.deaths = {o}],
             [EmptyReport EXCEPT !.waypoints_delete = {o}, !.clear = {{scope}}]} :
            scope \in scopes, o \in ObjectIds}

HandlersNext(scopes, rooms) ==
  \/ \E c \in ClientIds, room \in rooms : c \notin Connected /\ Join(c, room)
  \/ \E c \in ClientIds : LeaveConnection(c) \/ TakeControl(c)
  \/ \E c \in Clients \cup ExternalClients, report \in SourceReports(scopes) :
       HandlePlayerReport(c, report)
  \/ /\ "waypoints" \in scopes
     /\ \E w \in WebMaps, o \in ObjectIds :
          \/ \E finite \in BOOLEAN : SetTacticalWaypoint(w, o, finite)
          \/ DeleteWaypoints(w, o)
  \/ /\ "last_seen_players" \in scopes
     /\ \E room \in rooms, s \in SourceIds, o \in ObjectIds : DeleteLastSeen(room, s, o)
  \/ \E room \in rooms : PurgeRoom(room)
  \/ Turn

MessagesNext(rooms) ==
  \/ \E w \in WebMaps, p \in MarkedPlayers : SetPlayerMark(w, p) \/ ClearPlayerMark(w, p)
  \/ \E w \in WebMaps : ClearAllPlayerMarks(w) \/ ResyncRequest(w)
  \/ \E c \in ClientIds, enabled \in BOOLEAN : TabHistorySubscription(c, enabled)
  \/ \E room \in rooms : TabHistoryChanged(room) \/ ReportPolicyUpdate(room)
  \/ \E c \in ClientIds : SendBattleChunkMeta(c)

SourcesNext == HandlersNext(Scopes, Rooms) \/ MessagesNext(Rooms)
SourcesSpec == SourcesInit /\ [][SourcesNext]_sources_vars

-----------------------------------------------------------------------------
(* Each handler that changes what clients are to see marks the state       *)
(* dirty, so that the next turn broadcasts it: reports, commands, expiry,  *)
(* departures and deletions, whatever their order.  (The list of connected *)
(* clients is left out: Disconnect does not mark the departure of a source *)
(* that held nothing.)                                                     *)
ChangesAreBroadcast ==
  \A room \in Rooms :
    InRoom(room) # {} /\ Content(room) # shown[room] => sources_dirty

(* src/config/server_state_config.toml:21 says that a request for refresh  *)
(* is triggered when an object's remaining time is at most the lead: no    *)
(* object of a connected source expires unless the source was asked while  *)
(* the object was in its window.                                           *)
ExpiryIsAnnounced ==
  [][Turn => \A c \in Connected, scope \in {"players", "entities"}, o \in ObjectIds :
       Outlived(c, scope, o) =>
         /\ last_refresh_sent[c] # NoAge
         /\ held[c][scope][o] - last_refresh_sent[c] >= Timeout[scope] - RefreshLead]_sources_vars
=============================================================================
