-------------------------- MODULE BroadcastProofs --------------------------
(***************************************************************************)
(* Proofs about Sources and Delivery, the two ends of a broadcast: what    *)
(* handlers change of what clients are to see is broadcast, and full       *)
(* snapshots, patches, stripped patches and bare digests lead a client     *)
(* whose frames were made one after the other to what was meant.           *)
(***************************************************************************)
EXTENDS Sources, Delivery, TLAPS, FiniteSetTheorems

-----------------------------------------------------------------------------
(* The sources of a room.                                                  *)

Ages == Nat \cup {NoAge}

SourcesTypes ==
  /\ held \in [SourceIds -> [Scopes -> [ObjectIds -> Ages]]]
  /\ source_room \in [SourceIds -> Rooms \cup {NoRoom}]
  /\ connected_to \in [ClientIds -> Rooms \cup {NoRoom}]
  /\ control \in [ClientIds -> 0 .. ControlCapacity]
  /\ last_refresh_sent \in [ClientIds -> Ages]
  /\ sources_dirty \in BOOLEAN

SourcesInv == SourcesTypes /\ ChangesAreBroadcast

(* Whether the object is in a snapshot of the room.                        *)
InSnapshot(s, scope, o, room) ==
  /\ source_room[s] = room /\ held[s][scope][o] # NoAge
  /\ scope = "tab_players" => s \in Connected

(* A snapshot of a room is made from its objects and the marks.            *)
LEMMA ContentOfObjects ==
  ASSUME NEW room, player_marks' = player_marks,
         \A s \in SourceIds, scope \in Scopes, o \in ObjectIds :
           InSnapshot(s, scope, o, room)' <=> InSnapshot(s, scope, o, room)
  PROVE  Content(room)' = Content(room)
BY Zenon DEF Content, InSnapshot

(* A step after which the state is dirty, or by which no room's contents   *)
(* change, and none gets its first connection, owes no broadcast.          *)
LEMMA NothingOwed ==
  ASSUME ChangesAreBroadcast, shown' = shown,
         \/ sources_dirty'
         \/ /\ sources_dirty' = sources_dirty
            /\ \A c \in ClientIds : connected_to'[c] \in {connected_to[c], NoRoom}
            /\ \A room \in Rooms : Content(room)' = Content(room)
  PROVE  ChangesAreBroadcast'
<1>1. CASE sources_dirty'
  BY <1>1 DEF ChangesAreBroadcast
<1>2. CASE /\ sources_dirty' = sources_dirty
           /\ \A c \in ClientIds : connected_to'[c] \in {connected_to[c], NoRoom}
           /\ \A room \in Rooms : Content(room)' = Content(room)
  <2>1. \A room \in Rooms : InRoom(room)' # {} => InRoom(room) # {}
    BY <1>2 DEF InRoom, Connected
  <2> QED
    BY <1>2, <2>1 DEF ChangesAreBroadcast
<1> QED
  BY <1>1, <1>2

(* A source that holds nothing holds it in every scope.                    *)
LEMMA HoldsNothingType ==
  /\ HoldsNothing \in [Scopes -> [ObjectIds -> Ages]]
  /\ \A scope \in Scopes, o \in ObjectIds : HoldsNothing[scope][o] = NoAge
BY DEF HoldsNothing, Ages

(* What is queued for a client stays within the capacity.                  *)
LEMMA TrySendType ==
  ASSUME SourcesTypes, NEW C
  PROVE  TrySend(C) \in [ClientIds -> 0 .. ControlCapacity]
<1>1. ControlCapacity \in Nat
  BY SourcesAssumption
<1>2. ASSUME NEW c \in ClientIds
      PROVE  (IF c \in C /\ control[c] < ControlCapacity
              THEN control[c] + 1 ELSE control[c]) \in 0 .. ControlCapacity
  BY <1>1 DEF SourcesTypes
<1> QED
  BY <1>2 DEF TrySend

(* There are no clients at first.                                          *)
LEMMA SourcesInvInit == SourcesInit => SourcesInv
<1> SUFFICES ASSUME SourcesInit PROVE SourcesInv
  OBVIOUS
<1>1. SourcesTypes
  <2>1. 0 \in 0 .. ControlCapacity /\ NoAge \in Ages
    BY SourcesAssumption DEF Ages
  <2> QED
    BY <2>1, HoldsNothingType DEF SourcesInit, SourcesTypes
<1>2. ChangesAreBroadcast
  BY DEF SourcesInit, ChangesAreBroadcast
<1> QED
  BY <1>1, <1>2 DEF SourcesInv

(* A client joins a room.                                                  *)
LEMMA JoinKeeps ==
  ASSUME SourcesInv, NEW c \in ClientIds, NEW room \in Rooms, Join(c, room)
  PROVE  SourcesInv'
<1>1. SourcesTypes'
  BY SourcesAssumption DEF SourcesInv, SourcesTypes, Join
<1> QED
  BY <1>1, NothingOwed DEF SourcesInv, Join

(* A source that leaves and held nothing but players last seen changes no  *)
(* snapshot; any other makes the state dirty (leave_connection).           *)
LEMMA LeaveConnectionKeeps ==
  ASSUME SourcesInv, NEW c \in ClientIds, LeaveConnection(c)
  PROVE  SourcesInv'
<1>1. /\ SourcesTypes /\ ChangesAreBroadcast
      /\ c \in SourceIds /\ held[c] \in [Scopes -> [ObjectIds -> Ages]]
  BY DEF SourcesInv, SourcesTypes, SourceIds
<1>2. /\ LastSeenOnly(held[c]) \in [Scopes -> [ObjectIds -> Ages]]
      /\ \A scope \in Scopes \ {"last_seen_players"}, o \in ObjectIds :
           LastSeenOnly(held[c])[scope][o] = NoAge
  BY <1>1, HoldsNothingType DEF LastSeenOnly, Scopes
<1>3. /\ held' = [held EXCEPT ![c] = LastSeenOnly(@)]
      /\ source_room' \in {source_room, [source_room EXCEPT ![c] = NoRoom]}
      /\ source_room' # source_room => held'[c] = HoldsNothing
      /\ connected_to' = [connected_to EXCEPT ![c] = NoRoom]
      /\ control' = [control EXCEPT ![c] = 0]
      /\ last_refresh_sent' = [last_refresh_sent EXCEPT ![c] = NoAge]
      /\ player_marks' = player_marks /\ shown' = shown
      /\ sources_dirty' = (sources_dirty \/ held[c] # LastSeenOnly(held[c]))
  BY DEF LeaveConnection
<1>4. SourcesTypes'
  <2>1. 0 \in 0 .. ControlCapacity /\ NoAge \in Ages
    BY SourcesAssumption DEF Ages
  <2>2. held' \in [SourceIds -> [Scopes -> [ObjectIds -> Ages]]]
    BY <1>1, <1>2, <1>3 DEF SourcesTypes
  <2>3. source_room' \in [SourceIds -> Rooms \cup {NoRoom}]
    BY <1>1, <1>3 DEF SourcesTypes
  <2> QED
    BY <1>1, <1>3, <2>1, <2>2, <2>3 DEF SourcesTypes
<1>5. ASSUME ~sources_dirty', NEW room \in Rooms
      PROVE  Content(room)' = Content(room)
  <2>1. held[c] = LastSeenOnly(held[c]) /\ held' = held
    BY <1>1, <1>3, <1>5 DEF SourcesTypes
  <2>2. ASSUME NEW s \in SourceIds, NEW scope \in Scopes, NEW o \in ObjectIds
        PROVE  InSnapshot(s, scope, o, room)' <=> InSnapshot(s, scope, o, room)
    <3>1. CASE s # c
      <4>1. s \in Connected' <=> s \in Connected
        BY <1>1, <1>3, <3>1 DEF Connected, SourcesTypes
      <4>2. source_room'[s] = source_room[s]
        BY <1>1, <1>3, <3>1 DEF SourcesTypes
      <4> QED
        BY <2>1, <4>1, <4>2 DEF InSnapshot
    <3>2. CASE s = c /\ source_room' = source_room
      <4>1. scope = "tab_players" => held[c][scope][o] = NoAge
        BY <1>2, <2>1
      <4> QED
        BY <2>1, <3>2, <4>1 DEF InSnapshot
    <3>3. CASE s = c /\ source_room' # source_room
      <4>1. held[c][scope][o] = NoAge
        BY <1>3, <2>1, <3>3, HoldsNothingType
      <4> QED
        BY <2>1, <3>3, <4>1 DEF InSnapshot
    <3> QED
      BY <3>1, <3>2, <3>3
  <2> QED
    BY <1>3, <2>2, ContentOfObjects
<1>6. \A d \in ClientIds : connected_to'[d] \in {connected_to[d], NoRoom}
  BY <1>1, <1>3 DEF SourcesTypes
<1>7. sources_dirty' \/ sources_dirty' = sources_dirty
  BY <1>1, <1>3 DEF SourcesTypes
<1>8. ChangesAreBroadcast'
  BY <1>1, <1>3, <1>5, <1>6, <1>7, NothingOwed
<1> QED
  BY <1>4, <1>8 DEF SourcesInv

(* A report replaces, patches or deletes what its source holds.            *)
LEMMA HandlePlayerReportKeeps ==
  ASSUME SourcesInv, NEW c \in ClientIds, NEW report, HandlePlayerReport(c, report)
  PROVE  SourcesInv'
<1> DEFINE reported == [held EXCEPT ![c] = ApplyReport(@, report)]
<1>1. /\ SourcesTypes /\ ChangesAreBroadcast /\ c \in SourceIds
  BY DEF SourcesInv, SourceIds
<1>2. ApplyReport(held[c], report) \in [Scopes -> [ObjectIds -> Ages]]
  <2>1. held[c] \in [Scopes -> [ObjectIds -> Ages]] /\ 0 \in Ages /\ NoAge \in Ages
    BY <1>1 DEF SourcesTypes, Ages
  <2> HIDE DEF Ages
  <2> QED
    BY <2>1 DEF ApplyReport
<1>3. reported \in [SourceIds -> [Scopes -> [ObjectIds -> Ages]]]
  BY <1>1, <1>2 DEF SourcesTypes
<1>4. held' \in [SourceIds -> [Scopes -> [ObjectIds -> Ages]]]
  <2>1. held' = CancelDeaths(reported, report.deaths)
    BY DEF HandlePlayerReport
  <2>2. NoAge \in Ages /\ "waypoints" \in Scopes
    BY DEF Ages, Scopes
  <2> HIDE DEF reported
  <2>3. ASSUME NEW s \in SourceIds
        PROVE  [reported[s] EXCEPT !["waypoints"] =
                  [o \in ObjectIds |->
                     IF s \notin Rooms /\ o \in EntityTargets \cap report.deaths
                     THEN NoAge ELSE @[o]]] \in [Scopes -> [ObjectIds -> Ages]]
    BY <1>3, <2>2
  <2> QED
    BY <2>1, <2>3 DEF CancelDeaths
<1>5. source_room' \in [SourceIds -> Rooms \cup {NoRoom}]
  BY <1>1, SourcesAssumption DEF HandlePlayerReport, SourcesTypes
<1>6. SourcesTypes'
  BY <1>1, <1>4, <1>5 DEF HandlePlayerReport, SourcesTypes
<1> QED
  BY <1>1, <1>6, NothingOwed DEF HandlePlayerReport, SourcesInv

(* Commands of a web map are answered; what they change makes the state    *)
(* dirty (apply_web_map_command).                                          *)
LEMMA AnswerTypes ==
  ASSUME SourcesTypes, NEW w, Answer(w)
  PROVE  /\ control' \in [ClientIds -> 0 .. ControlCapacity]
         /\ connected_to' = connected_to /\ shown' = shown
         /\ last_refresh_sent' = last_refresh_sent
         /\ w \in ClientIds /\ connected_to[w] \in Rooms
BY TrySendType DEF Answer, Connected, SourcesTypes

(* The content of a room depends on its sources, marks and connections     *)
(* only.                                                                   *)
LEMMA SameSources ==
  ASSUME UNCHANGED <<source_room, held, player_marks, connected_to>>, NEW room
  PROVE  Content(room)' = Content(room)
BY ContentOfObjects DEF InSnapshot, Connected

(* Marks are set and cleared.                                              *)
LEMMA MarksKeep ==
  ASSUME SourcesInv, NEW w, NEW p,
         \/ SetPlayerMark(w, p) \/ ClearPlayerMark(w, p) \/ ClearAllPlayerMarks(w)
  PROVE  SourcesInv'
<1>1. /\ SourcesTypes /\ ChangesAreBroadcast /\ Answer(w)
      /\ UNCHANGED <<source_room, held>>
      /\ sources_dirty' \in BOOLEAN
      /\ sources_dirty' \/ UNCHANGED <<sources_dirty, player_marks>>
  BY DEF SourcesInv, SourcesTypes, SetPlayerMark, ClearPlayerMark, ClearAllPlayerMarks
<1>2. SourcesTypes'
  BY <1>1, AnswerTypes DEF SourcesTypes
<1>3. ChangesAreBroadcast'
  BY <1>1, AnswerTypes, SameSources, NothingOwed
<1> QED
  BY <1>2, <1>3 DEF SourcesInv

(* A tactical waypoint is set.                                             *)
LEMMA SetTacticalWaypointKeeps ==
  ASSUME SourcesInv, NEW w, NEW o \in ObjectIds, NEW finite \in BOOLEAN,
         SetTacticalWaypoint(w, o, finite)
  PROVE  SourcesInv'
<1> DEFINE room == connected_to[w]
<1>1. /\ SourcesTypes /\ ChangesAreBroadcast /\ Answer(w)
      /\ source_room' = IF finite THEN [source_room EXCEPT ![room] = room] ELSE source_room
      /\ held' = IF finite THEN [held EXCEPT ![room]["waypoints"][o] = 0] ELSE held
      /\ sources_dirty' = (sources_dirty \/ finite)
      /\ UNCHANGED player_marks
  BY DEF SourcesInv, SetTacticalWaypoint
<1>2. room \in Rooms /\ room \in SourceIds /\ "waypoints" \in Scopes /\ 0 \in Ages
  BY <1>1, AnswerTypes DEF SourceIds, Scopes, Ages
<1>3. SourcesTypes'
  BY <1>1, <1>2, AnswerTypes DEF SourcesTypes
<1>4. ChangesAreBroadcast'
  BY <1>1, AnswerTypes, SameSources, NothingOwed DEF SourcesTypes
<1> QED
  BY <1>3, <1>4 DEF SourcesInv

(* Waypoints are deleted.                                                  *)
LEMMA DeleteWaypointsKeeps ==
  ASSUME SourcesInv, NEW w, NEW o \in ObjectIds, DeleteWaypoints(w, o)
  PROVE  SourcesInv'
<1> DEFINE room == connected_to[w]
           from == {s \in SourceIds : /\ source_room[s] = room
                                      /\ held[s]["waypoints"][o] # NoAge
                                      /\ s = room \/ o \notin GuardedIds}
<1>1. /\ SourcesTypes /\ ChangesAreBroadcast /\ Answer(w)
      /\ held' = [s \in SourceIds |->
           IF s \in from THEN [held[s] EXCEPT !["waypoints"][o] = NoAge] ELSE held[s]]
      /\ sources_dirty' = (sources_dirty \/ from # {})
      /\ UNCHANGED <<source_room, player_marks>>
  BY DEF SourcesInv, DeleteWaypoints
<1> HIDE DEF from
<1>2. "waypoints" \in Scopes /\ NoAge \in Ages
  BY DEF Scopes, Ages
<1>3. SourcesTypes'
  BY <1>1, <1>2, AnswerTypes DEF SourcesTypes
<1>4. from = {} => held' = held
  BY <1>1 DEF SourcesTypes
<1>5. ChangesAreBroadcast'
  BY <1>1, <1>4, AnswerTypes, SameSources, NothingOwed DEF SourcesTypes
<1> QED
  BY <1>3, <1>5 DEF SourcesInv

(* Messages concern no snapshot.                                           *)
LEMMA MessagesKeep ==
  ASSUME SourcesInv, NEW c,
         \/ ResyncRequest(c)
         \/ \E enabled \in BOOLEAN : TabHistorySubscription(c, enabled)
         \/ \E C : SendControl(C)
         \/ c \in ClientIds /\ TakeControl(c)
  PROVE  SourcesInv'
<1>1. /\ SourcesTypes /\ ChangesAreBroadcast
      /\ UNCHANGED <<source_room, held, player_marks, connected_to, last_refresh_sent, shown>>
      /\ sources_dirty' \in BOOLEAN
      /\ sources_dirty' \/ sources_dirty' = sources_dirty
  BY DEF SourcesInv, SourcesTypes, ResyncRequest, TabHistorySubscription, SendControl, TakeControl
<1>2. control' \in [ClientIds -> 0 .. ControlCapacity]
  <2>1. CASE c \in ClientIds /\ TakeControl(c)
    <3>1. control[c] \in 0 .. ControlCapacity /\ control[c] > 0 /\ ControlCapacity \in Nat
      BY <1>1, <2>1, SourcesAssumption DEF SourcesTypes, TakeControl
    <3>2. control[c] - 1 \in 0 .. ControlCapacity
      BY <3>1
    <3> QED
      BY <1>1, <2>1, <3>2 DEF SourcesTypes, TakeControl
  <2>2. CASE \E C : SendControl(C)
    BY <1>1, <2>2, TrySendType DEF SendControl
  <2>3. CASE control' = control
    BY <1>1, <2>3 DEF SourcesTypes
  <2> QED
    BY <2>1, <2>2, <2>3 DEF ResyncRequest, TabHistorySubscription
<1>3. SourcesTypes'
  BY <1>1, <1>2 DEF SourcesTypes
<1>4. ChangesAreBroadcast'
  BY <1>1, SameSources, NothingOwed DEF SourcesTypes
<1> QED
  BY <1>3, <1>4 DEF SourcesInv

(* A last-seen object is deleted.                                          *)
LEMMA DeleteLastSeenKeeps ==
  ASSUME SourcesInv, NEW room \in Rooms, NEW s \in SourceIds, NEW o \in ObjectIds,
         DeleteLastSeen(room, s, o)
  PROVE  SourcesInv'
<1> DEFINE found == source_room[s] = room /\ held[s]["last_seen_players"][o] # NoAge
<1>1. /\ SourcesTypes /\ ChangesAreBroadcast
      /\ held' = IF found THEN [held EXCEPT ![s]["last_seen_players"][o] = NoAge] ELSE held
      /\ sources_dirty' = (sources_dirty \/ found)
      /\ UNCHANGED <<connected_to, source_room, player_marks, control, last_refresh_sent, shown>>
  BY DEF SourcesInv, DeleteLastSeen
<1> HIDE DEF found
<1>2. "last_seen_players" \in Scopes /\ NoAge \in Ages
  BY DEF Scopes, Ages
<1>3. SourcesTypes'
  BY <1>1, <1>2 DEF SourcesTypes
<1>4. ChangesAreBroadcast'
  BY <1>1, SameSources, NothingOwed DEF SourcesTypes
<1> QED
  BY <1>3, <1>4 DEF SourcesInv

(* A room is purged.                                                       *)
LEMMA PurgeRoomKeeps ==
  ASSUME SourcesInv, NEW room \in Rooms, PurgeRoom(room)
  PROVE  SourcesInv'
<1> DEFINE gone == {s \in SourceIds : source_room[s] = room}
<1>1. /\ SourcesTypes /\ ChangesAreBroadcast
      /\ source_room' = [s \in SourceIds |-> IF s \in gone THEN NoRoom ELSE source_room[s]]
      /\ held' = [s \in SourceIds |-> IF s \in gone THEN HoldsNothing ELSE held[s]]
      /\ last_refresh_sent' = [c \in ClientIds |->
           IF c \in gone THEN NoAge ELSE last_refresh_sent[c]]
      /\ sources_dirty' = TRUE
      /\ UNCHANGED <<connected_to, control, shown>>
  BY DEF SourcesInv, PurgeRoom
<1> HIDE DEF gone
<1>2. SourcesTypes'
  BY <1>1, HoldsNothingType DEF SourcesTypes, Ages
<1>3. ChangesAreBroadcast'
  BY <1>1, NothingOwed
<1> QED
  BY <1>2, <1>3 DEF SourcesInv

-----------------------------------------------------------------------------
(* One turn of the timer.                                                  *)

(* What ages is there as long as it has an age.                            *)
LEMMA OlderAge ==
  ASSUME NEW age \in Ages, NEW scope, NEW o
  PROVE  /\ Older(age, scope, o) \in Ages
         /\ Older(age, scope, o) = NoAge <=> age = NoAge
BY DEF Older, Ages, NoAge

(* An object is gone after the turn if it was gone before or has outlived  *)
(* its timeout (cleanup_timeouts).                                         *)
LEMMA CleanupKeeps ==
  ASSUME SourcesTypes
  PROVE  /\ CleanupTimeouts \in [SourceIds -> [Scopes -> [ObjectIds -> Ages]]]
         /\ \A s \in SourceIds, scope \in Scopes, o \in ObjectIds :
              ~Outlived(s, scope, o) =>
                (CleanupTimeouts[s][scope][o] = NoAge <=> held[s][scope][o] = NoAge)
<1>1. ASSUME NEW s \in SourceIds, NEW scope \in Scopes, NEW o \in ObjectIds
      PROVE  /\ Aged[s][scope][o] \in Ages
             /\ Aged[s][scope][o] = NoAge <=> held[s][scope][o] = NoAge
  <2>1. held[s][scope][o] \in Ages
    BY DEF SourcesTypes
  <2> QED
    BY <2>1, OlderAge DEF Aged
<1>2. NoAge \in Ages
  BY DEF Ages
<1> QED
  BY <1>1, <1>2 DEF CleanupTimeouts

(* A turn of the relay expires objects and sends what has changed.         *)
LEMMA TurnKeeps ==
  ASSUME SourcesInv, Turn
  PROVE  SourcesInv'
<1> DEFINE outlived == sources_dirty \/ \E s \in SourceIds, scope \in Scopes, o \in ObjectIds :
                      Outlived(s, scope, o)
           asked == SendPreexpiryRefreshRequests(CleanupTimeouts)
           hinted == IF (Cardinality(Clients \cap Connected) >= CongestionThreshold) # congested
                     THEN Clients \cap Connected ELSE {}
<1>1. /\ SourcesTypes /\ ChangesAreBroadcast
      /\ held' = CleanupTimeouts
      /\ sources_dirty' = FALSE
      /\ UNCHANGED <<connected_to, source_room, player_marks>>
      /\ shown' = [room \in Rooms |->
           IF outlived /\ InRoom(room) # {} THEN Content(room)' ELSE shown[room]]
  BY DEF SourcesInv, Turn
<1>2. control' \in [ClientIds -> 0 .. ControlCapacity]
  <2>1. control' = [c \in ClientIds |->
          LET sent == Cardinality({c} \cap hinted) + Cardinality({c} \cap asked)
          IN IF control[c] + sent <= ControlCapacity THEN control[c] + sent ELSE ControlCapacity]
    BY DEF Turn
  <2>2. ASSUME NEW c, NEW S
        PROVE  Cardinality({c} \cap S) \in Nat
    <3>1. {c} \cap S \subseteq {c} /\ IsFiniteSet({c})
      BY FS_Singleton
    <3> QED
      BY <3>1, FS_Subset, FS_CardinalityType
  <2> HIDE DEF hinted, asked
  <2>3. ASSUME NEW c \in ClientIds,
               NEW sent \in Nat
        PROVE  (IF control[c] + sent <= ControlCapacity THEN control[c] + sent
                ELSE ControlCapacity) \in 0 .. ControlCapacity
    <3>1. control[c] \in 0 .. ControlCapacity /\ ControlCapacity \in Nat
      BY <1>1, SourcesAssumption DEF SourcesTypes
    <3> QED
      BY <3>1
  <2>4. ASSUME NEW c \in ClientIds
        PROVE  Cardinality({c} \cap hinted) + Cardinality({c} \cap asked) \in Nat
    <3>1. Cardinality({c} \cap hinted) \in Nat
      BY <2>2
    <3>2. Cardinality({c} \cap asked) \in Nat
      BY <2>2
    <3> QED
      BY <3>1, <3>2
  <2> QED
    BY <2>1, <2>3, <2>4
<1>3. last_refresh_sent' \in [ClientIds -> Ages]
  <2>1. ASSUME NEW c \in ClientIds PROVE SinceRefresh(c) \in Ages
    BY <1>1 DEF SinceRefresh, SourcesTypes, Ages
  <2>2. \A c \in ClientIds : \E p \in BOOLEAN :
          last_refresh_sent'[c] = IF p THEN 0 ELSE SinceRefresh(c)
    BY DEF Turn
  <2>3. last_refresh_sent' = [c \in ClientIds |-> last_refresh_sent'[c]]
    BY DEF Turn
  <2> QED
    BY <2>1, <2>2, <2>3 DEF Ages
<1>4. SourcesTypes'
  BY <1>1, <1>2, <1>3, CleanupKeeps DEF SourcesTypes
<1>5. ASSUME NEW room \in Rooms, InRoom(room)' # {}
      PROVE  Content(room)' = shown'[room]
  <2>1. InRoom(room) # {}
    BY <1>1, <1>5 DEF InRoom, Connected
  <2>2. CASE outlived
    BY <1>1, <2>1, <2>2
  <2>3. CASE ~outlived
    <3>1. \A s \in SourceIds, scope \in Scopes, o \in ObjectIds :
            InSnapshot(s, scope, o, room)' <=> InSnapshot(s, scope, o, room)
      BY <1>1, <2>3, CleanupKeeps DEF InSnapshot, Connected
    <3>2. Content(room)' = Content(room)
      BY <1>1, <3>1, ContentOfObjects
    <3>3. shown'[room] = shown[room] /\ Content(room) = shown[room]
      BY <1>1, <2>1, <2>3 DEF ChangesAreBroadcast
    <3> QED
      BY <3>2, <3>3
  <2> QED
    BY <2>2, <2>3
<1>6. ChangesAreBroadcast'
  BY <1>5 DEF ChangesAreBroadcast
<1> QED
  BY <1>4, <1>6 DEF SourcesInv

-----------------------------------------------------------------------------
(* Every step keeps the invariant.                                         *)
LEMMA SourcesInvNext ==
  ASSUME SourcesInv, [SourcesNext]_sources_vars
  PROVE  SourcesInv'
<1>1. CASE HandlersNext(Scopes, Rooms)
  <2>1. Clients \cup ExternalClients \subseteq ClientIds
    BY DEF ClientIds
  <2>2. ASSUME NEW c \in ClientIds, TakeControl(c)
        PROVE  SourcesInv'
    BY <2>2, MessagesKeep
  <2> QED
    BY <1>1, <2>1, <2>2, JoinKeeps, LeaveConnectionKeeps, HandlePlayerReportKeeps,
       SetTacticalWaypointKeeps, DeleteWaypointsKeeps, DeleteLastSeenKeeps, PurgeRoomKeeps,
       TurnKeeps DEF HandlersNext
<1>2. CASE MessagesNext(Rooms)
  <2>1. WebMaps \subseteq ClientIds
    BY DEF ClientIds
  <2>2. ASSUME NEW c \in ClientIds, NEW enabled \in BOOLEAN, TabHistorySubscription(c, enabled)
        PROVE  SourcesInv'
    BY <2>2, MessagesKeep
  <2>3. ASSUME NEW C, SendControl(C)
        PROVE  SourcesInv'
    BY <2>3, MessagesKeep
  <2> QED
    BY <1>2, <2>1, <2>2, <2>3, MarksKeep, MessagesKeep
       DEF MessagesNext, TabHistoryChanged, ReportPolicyUpdate, SendBattleChunkMeta
<1>3. CASE UNCHANGED sources_vars
  <2>1. SourcesTypes'
    BY <1>3 DEF SourcesInv, SourcesTypes, sources_vars
  <2>2. ChangesAreBroadcast'
    BY <1>3, SameSources, NothingOwed DEF SourcesInv, sources_vars
  <2> QED
    BY <2>1, <2>2 DEF SourcesInv
<1> QED
  BY <1>1, <1>2, <1>3 DEF SourcesNext

(* What the relay holds has its types, no control channel more messages    *)
(* than it has room for, and whatever clients are to see differently has   *)
(* made the state dirty.                                                   *)
THEOREM SourcesInvariant == SourcesSpec => []SourcesInv
BY SourcesInvInit, SourcesInvNext, PTL DEF SourcesSpec

(* Each handler that changes what the clients of a room are to see makes   *)
(* the state dirty until the next turn has broadcast it (handle_event,     *)
(* apply_report, apply_web_map_command, cleanup_timeouts).                 *)
THEOREM NoChangeIsForgotten == SourcesSpec => []ChangesAreBroadcast
<1>1. SourcesInv => ChangesAreBroadcast
  BY DEF SourcesInv
<1> QED
  BY <1>1, SourcesInvariant, PTL

-----------------------------------------------------------------------------
(* The stream to one client.                                               *)

(* A client shows what was meant for it.                                   *)
Agrees(displayed, meant) ==
  /\ DOMAIN displayed = DOMAIN meant
  /\ \A id \in DOMAIN meant : displayed[id].info = meant[id].info
  /\ ~kind.unreliable_positions => displayed = meant

(* A frame that will lead the client to its snapshot.                      *)
Leads(displayed, frame) == Agrees(Received(displayed, frame.bytes), frame.snapshot)

(* While no patch was made too early, there is one frame at one place, or  *)
(* the relay's baseline is what the client shows.                          *)
OneAtATime ==
  /\ state_watch # None => writing = None /\ events = None
  /\ writing # None => events = None
  /\ Len(events) <= 1
  /\ ~InTransit /\ delivered # None => Agrees(view, Head(delivered))
  /\ state_watch # None => Leads(view, Head(state_watch))
  /\ writing # None /\ ~written => Leads(view, Head(writing))
  /\ writing # None /\ written => Agrees(view, Head(writing).snapshot)
  /\ events # None => Agrees(view, Head(events))

DeliveryTypes ==
  /\ target \in Snapshots
  /\ delivered # None => Head(delivered) \in Snapshots
  /\ state_watch # None => Head(state_watch).snapshot \in Snapshots
  /\ writing # None => Head(writing).snapshot \in Snapshots
  /\ events \in Seq(Snapshots)
  /\ written \in BOOLEAN /\ (written => writing # None)

DeliveryInv == DeliveryTypes /\ (~overtaken => OneAtATime)

-----------------------------------------------------------------------------
(* Patches.                                                                *)

(* The fields of a snapshot.                                               *)
LEMMA SnapshotFacts ==
  ASSUME NEW s \in Snapshots
  PROVE  /\ DOMAIN s \subseteq Ids
         /\ s = [id \in DOMAIN s |-> s[id]]
         /\ \A id \in DOMAIN s :
              /\ s[id] = [position |-> s[id].position, info |-> s[id].info]
              /\ s[id].position # Unsent /\ s[id].info # Unsent
<1>1. PICK D \in SUBSET Ids : s \in [D -> Objects]
  BY DEF Snapshots
<1>2. \A id \in D : s[id] \in Objects
  BY <1>1
<1> QED
  BY <1>1, <1>2, DeliveryAssumption DEF Objects

(* A patch leads a client that shows the old snapshot, up to positions     *)
(* that are left to datagrams, to the new one; and one that is empty was   *)
(* not needed (build_patch, strip_player_positions).                       *)
LEMMA PatchLeads ==
  ASSUME NEW old \in Snapshots, NEW new \in Snapshots, NEW before,
         NEW patch, Agrees(before, old),
         \/ patch = BuildPatch(old, new)
         \/ /\ kind.unreliable_positions
            /\ patch = StripPlayerPositions(BuildPatch(old, new), old)
  PROVE  /\ Agrees(Received(before, <<[patch |-> patch]>>), new)
         /\ PatchIsEmpty(patch) => Agrees(before, new)
<1> DEFINE whole == BuildPatch(old, new)
           changed == {id \in DOMAIN new : id \notin DOMAIN old \/ old[id] # new[id]}
           after == Received(before, <<[patch |-> patch]>>)
<1>1. /\ whole.delete = DOMAIN old \ DOMAIN new
      /\ whole.upsert = [id \in changed |-> new[id]]
  BY DEF BuildPatch
<1>2. /\ patch.delete = DOMAIN old \ DOMAIN new
      /\ DOMAIN patch.upsert \subseteq DOMAIN new
      /\ \A id \in DOMAIN patch.upsert :
           /\ patch.upsert[id].info = new[id].info
           /\ patch.upsert[id].position \in {new[id].position, Unsent}
           /\ patch.upsert[id].position = Unsent => id \in DOMAIN old
      /\ \A id \in DOMAIN new \ DOMAIN patch.upsert :
           id \in DOMAIN old /\ old[id].info = new[id].info
  <2>1. CASE patch = whole
    BY <1>1, <2>1, SnapshotFacts
  <2>2. CASE patch = StripPlayerPositions(whole, old)
    <3> DEFINE kept == {id \in changed : id \notin DOMAIN old \/ new[id].info # old[id].info}
    <3>1. /\ patch.delete = whole.delete
          /\ patch.upsert = [id \in kept |->
               IF id \in DOMAIN old THEN [position |-> Unsent, info |-> new[id].info]
               ELSE new[id]]
      BY <1>1, <2>2 DEF StripPlayerPositions, BuildPatch
    <3> QED
      BY <1>1, <3>1, SnapshotFacts
  <2> QED
    BY <2>1, <2>2
<1>3. ~kind.unreliable_positions => patch = whole
  OBVIOUS
<1>4. after = [id \in (DOMAIN before \ patch.delete) \cup
                      {id \in DOMAIN patch.upsert :
                         id \in DOMAIN before \/ patch.upsert[id].position # Unsent} |->
                 IF id \in {i \in DOMAIN patch.upsert :
                              i \in DOMAIN before \/ patch.upsert[i].position # Unsent}
                 THEN Merged(before, id, patch.upsert[id]) ELSE before[id]]
  BY DEF Received, None
<1>5. DOMAIN before = DOMAIN old /\ \A id \in DOMAIN old : before[id].info = old[id].info
  BY DEF Agrees
<1>6. /\ DOMAIN after = DOMAIN new
      /\ \A id \in DOMAIN patch.upsert : after[id] = Merged(before, id, patch.upsert[id])
      /\ \A id \in DOMAIN new \ DOMAIN patch.upsert : after[id] = before[id]
  BY <1>2, <1>4, <1>5
<1>7. \A id \in DOMAIN new : after[id].info = new[id].info
  <2>1. ASSUME NEW id \in DOMAIN patch.upsert
        PROVE  after[id].info = new[id].info
    <3>1. patch.upsert[id].info = new[id].info /\ new[id].info # Unsent
      BY <1>2, SnapshotFacts
    <3>2. Merged(before, id, patch.upsert[id]).info = new[id].info
      BY <3>1 DEF Merged
    <3> QED
      BY <1>6, <3>2
  <2>2. ASSUME NEW id \in DOMAIN new \ DOMAIN patch.upsert
        PROVE  after[id].info = new[id].info
    BY <1>2, <1>5, <1>6
  <2> QED
    BY <2>1, <2>2
<1>8. ASSUME ~kind.unreliable_positions
      PROVE  after = new
  <2>1. before = old /\ patch = whole
    BY <1>3, <1>8 DEF Agrees
  <2>2. ASSUME NEW id \in DOMAIN patch.upsert
        PROVE  after[id] = new[id]
    <3>1. patch.upsert[id] = new[id] /\ id \in DOMAIN new
      BY <1>1, <2>1
    <3>2. /\ new[id] = [position |-> new[id].position, info |-> new[id].info]
          /\ new[id].position # Unsent /\ new[id].info # Unsent
      BY <3>1, SnapshotFacts
    <3>3. Merged(before, id, new[id]) = new[id]
      BY <3>2 DEF Merged
    <3> QED
      BY <1>6, <3>1, <3>3
  <2>3. \A id \in DOMAIN new \ DOMAIN patch.upsert : after[id] = new[id]
    BY <1>1, <1>6, <2>1
  <2>4. after = [id \in DOMAIN new |-> after[id]]
    BY <1>4, <1>6
  <2> QED
    BY <1>6, <2>2, <2>3, <2>4, SnapshotFacts
<1>9. PatchIsEmpty(patch) => Agrees(before, new)
  <2> SUFFICES ASSUME PatchIsEmpty(patch) PROVE Agrees(before, new)
    OBVIOUS
  <2>1. DOMAIN patch.upsert = {} /\ patch.delete = {}
    BY DEF PatchIsEmpty
  <2>2. DOMAIN old = DOMAIN new /\ \A id \in DOMAIN new : old[id].info = new[id].info
    BY <1>2, <2>1
  <2>3. ~kind.unreliable_positions => before = new
    <3> SUFFICES ASSUME ~kind.unreliable_positions PROVE before = new
      OBVIOUS
    <3>1. before = old /\ changed = {}
      BY <1>1, <1>3, <2>1 DEF Agrees
    <3> QED
      BY <2>2, <3>1, SnapshotFacts
  <2> QED
    BY <1>5, <2>2, <2>3 DEF Agrees
<1> QED
  BY <1>6, <1>7, <1>8, <1>9 DEF Agrees

-----------------------------------------------------------------------------
(* The invariant.                                                          *)

(* A broadcast for a client that shows its baseline, or that is sent all,  *)
(* leads it to the room (state_payload_for_profile_with_battle).           *)
LEMMA PayloadLeads ==
  ASSUME DeliveryTypes, NEW strip \in BOOLEAN,
         strip => kind.unreliable_positions,
         delivered # None => Agrees(view, Head(delivered))
  PROVE  /\ Agrees(Received(view, StatePayload(strip)), target)
         /\ StatePayload(strip) = None => delivered # None /\ Agrees(view, target)
<1>1. CASE force_full \/ delivered = None
  <2>1. StatePayload(strip) = <<[full |-> target]>>
    BY <1>1 DEF StatePayload
  <2>2. Received(view, <<[full |-> target]>>) = target
    BY DEF Received, None
  <2>3. Agrees(target, target)
    BY DEF Agrees
  <2> QED
    BY <2>1, <2>2, <2>3 DEF None
<1>2. CASE ~(force_full \/ delivered = None)
  <2> DEFINE old == Head(delivered)
             whole == BuildPatch(old, target)
             patch == IF strip THEN StripPlayerPositions(whole, old) ELSE whole
  <2>1. StatePayload(strip) = IF PatchIsEmpty(patch) THEN None ELSE <<[patch |-> patch]>>
    BY <1>2 DEF StatePayload
  <2>2. /\ old \in Snapshots /\ target \in Snapshots /\ Agrees(view, old)
        /\ \/ patch = whole
           \/ kind.unreliable_positions /\ patch = StripPlayerPositions(whole, old)
    BY <1>2 DEF DeliveryTypes
  <2>3. /\ Agrees(Received(view, <<[patch |-> patch]>>), target)
        /\ PatchIsEmpty(patch) => Agrees(view, target)
    <3> HIDE DEF patch, old
    <3> QED
      BY <2>2, PatchLeads DEF old, whole
  <2>4. Received(view, None) = view
    BY DEF Received
  <2> QED
    BY <1>2, <2>1, <2>3, <2>4 DEF None
<1> QED
  BY <1>1, <1>2

(* Nothing is under way at first.                                          *)
LEMMA DeliveryInvInit == Init => DeliveryInv
<1>1. <<>> \in Seq(Snapshots) /\ Len(<<>>) = 0
  OBVIOUS
<1>2. ASSUME Init
      PROVE  /\ state_watch = None /\ writing = None /\ events = None /\ delivered = None
             /\ written = FALSE /\ target \in Snapshots
             /\ events \in Seq(Snapshots) /\ Len(events) <= 1
  BY <1>1, <1>2 DEF Init, None
<1> QED
  BY <1>2 DEF DeliveryInv, DeliveryTypes, OneAtATime, InTransit

(* The state changes.                                                      *)
LEMMA ChangeKeeps ==
  ASSUME DeliveryInv, Change
  PROVE  DeliveryInv'
BY DEF Change, DeliveryInv, DeliveryTypes, OneAtATime, InTransit, Leads, Agrees

(* The relay sends a full state or a patch.                                *)
LEMMA RelayTickKeeps ==
  ASSUME DeliveryInv, RelayTick
  PROVE  DeliveryInv'
<1>1. PICK digest_due \in BOOLEAN, refresh_due \in BOOLEAN : TickWith(digest_due, refresh_due)
  BY DEF RelayTick
<1> DEFINE strip == kind.unreliable_positions /\ ~refresh_due
           bytes == StatePayload(strip)
           frame == [bytes |-> bytes, digest |-> digest_due, stripped |-> strip,
                     snapshot |-> target]
           sends == bytes # None \/ digest_due
<1>2. /\ state_watch' = IF sends THEN <<frame>> ELSE state_watch
      /\ overtaken' = (overtaken \/ (sends /\ InTransit))
      /\ UNCHANGED <<kind, target, delivered, writing, written, events, view>>
  BY <1>1 DEF TickWith, Broadcast
<1>3. DeliveryTypes'
  BY <1>2 DEF DeliveryInv, DeliveryTypes, None
<1>4. ASSUME ~overtaken' PROVE OneAtATime'
  <2>1. OneAtATime /\ ~overtaken /\ (sends => ~InTransit)
    BY <1>2, <1>4 DEF DeliveryInv
  <2>2. CASE ~sends
    BY <1>2, <2>1, <2>2 DEF OneAtATime, InTransit, Leads, Agrees
  <2>3. CASE sends
    <3>1. Agrees(Received(view, bytes), target)
      <4> HIDE DEF bytes
      <4> QED
        BY <2>1, <2>3, PayloadLeads DEF OneAtATime, DeliveryInv, bytes
    <3>2. PICK sent : sent = frame
      OBVIOUS
    <3>3. state_watch' = <<sent>> /\ writing' = None /\ events' = None
      BY <1>2, <2>1, <2>3, <3>2 DEF InTransit
    <3>4. sent.bytes = bytes /\ sent.snapshot = target
      BY <3>2
    <3>5. Leads(view, sent)'
      BY <1>2, <3>1, <3>4 DEF Leads, Agrees
    <3>6. state_watch' # None /\ Head(state_watch') = sent /\ Len(events') = 0
      BY <3>3 DEF None
    <3> QED
      BY <3>3, <3>5, <3>6 DEF OneAtATime, InTransit
  <2> QED
    BY <2>2, <2>3
<1> QED
  BY <1>3, <1>4 DEF DeliveryInv

(* A confirmation is handled, or comes late.                               *)
LEMMA HandleDeliveredKeeps ==
  ASSUME DeliveryInv, HandleDelivered
  PROVE  DeliveryInv'
<1>1. /\ Head(events) \in Snapshots /\ Tail(events) \in Seq(Snapshots)
      /\ Len(Tail(events)) = Len(events) - 1 /\ Len(events) \in Nat
      /\ delivered' = <<Head(events)>> /\ Head(delivered') = Head(events)
      /\ UNCHANGED <<kind, target, state_watch, writing, written, view, overtaken>>
  BY DEF HandleDelivered, DeliveryInv, DeliveryTypes
<1>2. DeliveryTypes'
  BY <1>1 DEF HandleDelivered, DeliveryInv, DeliveryTypes
<1>3. ASSUME ~overtaken' PROVE OneAtATime'
  <2>1. OneAtATime
    BY <1>1, <1>3 DEF DeliveryInv
  <2>2. events' = None /\ Agrees(view, Head(events)) /\ state_watch = None /\ writing = None
    BY <1>1, <2>1 DEF OneAtATime, HandleDelivered, None, DeliveryInv, DeliveryTypes
  <2> QED
    BY <1>1, <2>2 DEF OneAtATime, InTransit, Agrees, None
<1> QED
  BY <1>2, <1>3 DEF DeliveryInv

(* A resync begins anew.                                                   *)
LEMMA HandleResyncKeeps ==
  ASSUME DeliveryInv, HandleResync
  PROVE  DeliveryInv'
BY DEF HandleResync, DeliveryInv, DeliveryTypes, OneAtATime, InTransit, Leads, Agrees

(* The writer takes a frame.                                               *)
LEMMA TakeFrameKeeps ==
  ASSUME DeliveryInv, TakeFrame
  PROVE  DeliveryInv'
BY DEF TakeFrame, DeliveryInv, DeliveryTypes, OneAtATime, InTransit, Leads, Agrees

(* The client gets it, or does not.                                        *)
LEMMA WriteFrameKeeps ==
  ASSUME DeliveryInv, WriteFrame
  PROVE  DeliveryInv'
BY DEF WriteFrame, DeliveryInv, DeliveryTypes, OneAtATime, InTransit, Leads, Agrees

(* The writer confirms it.                                                 *)
LEMMA SendDeliveredKeeps ==
  ASSUME DeliveryInv, SendDelivered
  PROVE  DeliveryInv'
<1>1. /\ events' \in Seq(Snapshots) /\ events' # <<>>
      /\ events = <<>> => Len(events') = 1 /\ Head(events') = Head(writing).snapshot
      /\ UNCHANGED <<kind, target, delivered, state_watch, view, overtaken>>
  BY DEF SendDelivered, DeliveryInv, DeliveryTypes
<1>2. DeliveryTypes'
  BY <1>1 DEF SendDelivered, DeliveryInv, DeliveryTypes
<1>3. ASSUME ~overtaken' PROVE OneAtATime'
  <2>1. OneAtATime
    BY <1>1, <1>3 DEF DeliveryInv
  <2>2. events = <<>> /\ state_watch = None /\ Agrees(view, Head(writing).snapshot)
    BY <2>1 DEF OneAtATime, SendDelivered, None
  <2> QED
    BY <1>1, <2>2 DEF OneAtATime, InTransit, Agrees, None, SendDelivered
<1> QED
  BY <1>2, <1>3 DEF DeliveryInv

(* One frame is at one place at a time, and leads the client to what it    *)
(* was made from (Relay::broadcast, door_writer_loop, Delivered).          *)
THEOREM DeliveryInvariant == Spec => []DeliveryInv
<1>1. DeliveryInv /\ [Next]_vars => DeliveryInv'
  <2> SUFFICES ASSUME DeliveryInv, [Next]_vars PROVE DeliveryInv'
    OBVIOUS
  <2>1. CASE UNCHANGED vars
    BY <2>1 DEF vars, DeliveryInv, DeliveryTypes, OneAtATime, InTransit, Leads, Agrees
  <2> QED
    BY <2>1, ChangeKeeps, RelayTickKeeps, HandleDeliveredKeeps, HandleResyncKeeps,
       TakeFrameKeeps, WriteFrameKeeps, SendDeliveredKeeps DEF Next
<1> QED
  BY <1>1, DeliveryInvInit, PTL DEF Spec

(* A client whose frames were each made after the one before was reported  *)
(* shows what the relay meant it to show, up to positions that are left to *)
(* datagrams: for any objects, kinds and interleavings of the writer.      *)
THEOREM InOrderDeliveryIsExact == Spec => []InOrderIsExact
<1>1. DeliveryInv => InOrderIsExact
  BY DEF DeliveryInv, DeliveryTypes, OneAtATime, InOrderIsExact, Agrees
<1> QED
  BY <1>1, DeliveryInvariant, PTL
=============================================================================
