------------------------------ MODULE Session ------------------------------
(***************************************************************************)
(* The life of the sessions of a server: handshake under the maintenance   *)
(* gate, Register, reports, Disconnect (src/src/web.rs,                    *)
(* serve_web_map_session and the tasks it spawns), the relay that handles  *)
(* their events one at a time (src/src/relay.rs, Relay::handle_event), and *)
(* the removal of a room's data by an administrator (src/src/admin.rs,     *)
(* delete_room_data).                                                      *)
(*                                                                         *)
(* A session is known to the relay by the id its client chose, so two      *)
(* sessions may share one.  Its reader task is not stopped when the        *)
(* session ends and works through what it has received already.            *)
(*                                                                         *)
(* What sources and caches hold is reduced to where it came from; the rows *)
(* of the database are the subject of RoomData and TabHistory.             *)
(***************************************************************************)
EXTENDS Integers, Sequences, FiniteSets, Functions

CONSTANTS
  Sessions,        \* each used for one connection
  Ids,             \* submit_player_id
  Rooms,
  Default,         \* the room "default"
  Nobody,          \* no session, and the id before a handshake
  NoRoom,          \* no room
  EventCapacity,   \* capacity of the relay's event queue
  MaxReports       \* bound: reports in a behaviour

ASSUME SessionAssumption ==
  /\ Default \in Rooms
  /\ Nobody \notin Sessions \cup Ids
  /\ NoRoom \notin Rooms
  /\ EventCapacity \in Nat \ {0}
  /\ MaxReports \in Nat

VARIABLES
  phase,           \* session -> how far serve_web_map_session has come:
                   \* away, gated, registered, open, closing, closed, gone
  id, room,        \* session -> what its handshake said
  reader,          \* session -> state of its reader task
  queue,           \* RelayEvents on their way to the relay, with their type
  connections,     \* Relay.connections: id -> session, or Nobody
  sources,         \* Relay.sources: id -> its room and what it holds
  battle_caches,   \* Relay.battle_caches: room -> rooms it was reported in
  maintenance,     \* AppState.maintenance_rooms
  task,            \* the administrator's request
  reports,         \* bound: reports so far
  purged           \* ghost: rooms removed and not joined since

session_vars == <<phase, id, room, reader>>
relay_vars == <<connections, sources, battle_caches>>
admin_vars == <<maintenance, task, purged>>
vars == <<session_vars, queue, relay_vars, admin_vars, reports>>

Contents == {"live", "last_seen", "battle", "clear"}

NoTask == [step |-> "idle", room |-> NoRoom, active |-> FALSE, ok |-> FALSE]

Enqueue(event) ==
  /\ Len(queue) < EventCapacity
  /\ queue' = Append(queue, event)

RoomActive(r) == \E i \in Ids : connections[i] # Nobody /\ room[connections[i]] = r

-----------------------------------------------------------------------------
(* A session, from its handshake to its end.                               *)

(* The guard of the maintenance rooms is taken for reading and kept.       *)
PassGate(s) ==
  /\ phase[s] = "away"
  /\ \E i \in Ids, r \in Rooms :
       /\ r \notin maintenance
       /\ id' = [id EXCEPT ![s] = i]
       /\ room' = [room EXCEPT ![s] = r]
  /\ phase' = [phase EXCEPT ![s] = "gated"]
  /\ UNCHANGED <<reader, queue, relay_vars, admin_vars, reports>>

(* The acknowledgement cannot be sent.                                     *)
FailHandshake(s) ==
  /\ phase[s] = "gated"
  /\ phase' = [phase EXCEPT ![s] = "gone"]
  /\ UNCHANGED <<id, room, reader, queue, relay_vars, admin_vars, reports>>

(* Register is in the relay's queue before the guard is dropped.           *)
SendRegister(s) ==
  /\ phase[s] = "gated"
  /\ Enqueue([type |-> "register", session |-> s])
  /\ phase' = [phase EXCEPT ![s] = "registered"]
  /\ purged' = purged \ {room[s]}
  /\ UNCHANGED <<id, room, reader, relay_vars, maintenance, task, reports>>

(* record_connection_started, and the reader and writer tasks start.       *)
Start(s) ==
  /\ phase[s] = "registered"
  /\ phase' = [phase EXCEPT ![s] = "open"]
  /\ reader' = [reader EXCEPT ![s] = "idle"]
  /\ UNCHANGED <<id, room, queue, relay_vars, admin_vars, reports>>

(* The reader passes a report on; the players of its tab list have been    *)
(* recorded before.  What arrives by datagram takes the same way.          *)
SendReport(s) ==
  /\ reader[s] = "idle"
  /\ reports < MaxReports
  /\ reports' = reports + 1
  /\ \E content \in Contents :
       Enqueue([type |-> "report", session |-> s, content |-> content])
  /\ UNCHANGED <<session_vars, relay_vars, admin_vars>>

(* Mutant: the session waits for its reader as well.                       *)
EndSessionAfterReader(s) ==
  /\ phase[s] = "open"
  /\ reader[s] = "stopped"
  /\ phase' = [phase EXCEPT ![s] = "closing"]
  /\ UNCHANGED <<id, room, reader, queue, relay_vars, admin_vars, reports>>

(* The reader or the writer has ended: the client left, a write failed, or *)
(* the relay has dropped the connection.  A reader that has not ended goes *)
(* on with the frames it has.                                              *)
EndSession(s) ==
  /\ phase[s] = "open"
  /\ phase' = [phase EXCEPT ![s] = "closing"]
  /\ UNCHANGED <<id, room, reader, queue, relay_vars, admin_vars, reports>>

(* No frame is left, none can be received any more, or the reader is       *)
(* aborted.                                                                *)
StopReader(s) ==
  /\ reader[s] # "stopped"
  /\ reader' = [reader EXCEPT ![s] = "stopped"]
  /\ UNCHANGED <<phase, id, room, queue, relay_vars, admin_vars, reports>>

(* Mutant: a session that ends leaves its connection to the relay.         *)
SendDisconnectNever(s) ==
  /\ phase[s] = "closing"
  /\ phase' = [phase EXCEPT ![s] = "closed"]
  /\ UNCHANGED <<id, room, reader, queue, relay_vars, admin_vars, reports>>

SendDisconnect(s) ==
  /\ phase[s] = "closing"
  /\ Enqueue([type |-> "disconnect", session |-> s])
  /\ phase' = [phase EXCEPT ![s] = "closed"]
  /\ UNCHANGED <<id, room, reader, relay_vars, admin_vars, reports>>

(* record_connection_ended.                                                *)
RecordEnded(s) ==
  /\ phase[s] = "closed"
  /\ phase' = [phase EXCEPT ![s] = "gone"]
  /\ UNCHANGED <<id, room, reader, queue, relay_vars, admin_vars, reports>>

-----------------------------------------------------------------------------
(* The relay: handle_event, one event at a time.                           *)

Handle(type) ==
  /\ queue # <<>>
  /\ Head(queue).type = type
  /\ queue' = Tail(queue)

(* A connection of the same id is replaced, and its writer will notice.    *)
HandleRegister ==
  /\ Handle("register")
  /\ LET s == Head(queue).session
     IN  connections' = [connections EXCEPT ![id[s]] = s]
  /\ UNCHANGED <<session_vars, sources, battle_caches, admin_vars, reports>>

(* Whatever session the id's connection belongs to, it is removed; of its  *)
(* source only the last seen players are kept.                             *)
HandleDisconnect ==
  /\ Handle("disconnect")
  /\ LET i == id[Head(queue).session]
     IN  /\ connections' = [connections EXCEPT ![i] = Nobody]
         /\ sources' =
              IF i \notin DOMAIN sources THEN sources
              ELSE IF sources[i].last_seen
                   THEN [sources EXCEPT ![i].live = FALSE]
                   ELSE Restrict(sources, DOMAIN sources \ {i})
  /\ UNCHANGED <<session_vars, battle_caches, admin_vars, reports>>

(* Mutant: a report belongs to the room of the session that sent it.       *)
FiledUnderSender(s) == room[s]

(* The room of the id's connection, if there is one.                       *)
FiledUnder(s) ==
  IF connections[id[s]] = Nobody THEN Default ELSE room[connections[id[s]]]

(* apply_report.  Even one that clears every scope leaves a source, and it *)
(* leaves the battle cache alone.                                          *)
HandleReport ==
  /\ Handle("report")
  /\ LET s == Head(queue).session
         i == id[s]
         r == FiledUnder(s)
         content == Head(queue).content
         old == IF i \in DOMAIN sources THEN sources[i]
                ELSE [room |-> r, live |-> FALSE, last_seen |-> FALSE]
         kept == [f \in {"live", "last_seen"} |-> content # "clear" /\ old[f]]
         new == [room |-> r,
                 live |-> kept["live"] \/ content \in {"live", "battle"},
                 last_seen |-> kept["last_seen"] \/ content = "last_seen"]
     IN  /\ sources' = [j \in DOMAIN sources \cup {i} |->
                          IF j = i THEN new ELSE sources[j]]
         /\ battle_caches' =
              IF content = "battle"
              THEN [battle_caches EXCEPT ![r] = @ \cup {room[s]}]
              ELSE battle_caches
  /\ UNCHANGED <<session_vars, connections, admin_vars, reports>>

(* RoomActiveConnections.                                                  *)
HandleCount ==
  /\ Handle("count")
  /\ task' = [task EXCEPT !.step = "counted",
                          !.active = RoomActive(Head(queue).room)]
  /\ UNCHANGED <<session_vars, relay_vars, maintenance, purged, reports>>

(* PurgeRoom.                                                              *)
HandlePurge ==
  /\ Handle("purge")
  /\ LET r == Head(queue).room
     IN  IF RoomActive(r)
         THEN /\ task' = [task EXCEPT !.step = "finish", !.active = TRUE]
              /\ UNCHANGED relay_vars
         ELSE /\ sources' =
                   Restrict(sources, {i \in DOMAIN sources : sources[i].room # r})
              /\ battle_caches' = [battle_caches EXCEPT ![r] = {}]
              /\ task' = [task EXCEPT !.step = "finish", !.ok = TRUE]
              /\ UNCHANGED connections
  /\ UNCHANGED <<session_vars, maintenance, purged, reports>>

(* cleanup_timeouts.                                                       *)
Expire(i) ==
  /\ i \in DOMAIN sources
  /\ sources[i].live
  /\ sources' = [sources EXCEPT ![i].live = FALSE]
  /\ UNCHANGED <<session_vars, queue, connections, battle_caches, admin_vars, reports>>

(* DeleteLastSeen, which an administrator asks for.                        *)
DeleteLastSeen(i) ==
  /\ i \in DOMAIN sources
  /\ sources[i].last_seen
  /\ sources' = [sources EXCEPT ![i].last_seen = FALSE]
  /\ UNCHANGED <<session_vars, queue, connections, battle_caches, admin_vars, reports>>

-----------------------------------------------------------------------------
(* The administrator: delete_room_data.                                    *)

(* Mutant: the gate is closed without waiting for handshakes under way.    *)
StartPurgeAtOnce(r) ==
  /\ task = NoTask
  /\ r \notin maintenance
  /\ maintenance' = maintenance \cup {r}
  /\ task' = [NoTask EXCEPT !.step = "gate", !.room = r]
  /\ UNCHANGED <<session_vars, queue, relay_vars, purged, reports>>

(* The gate is locked for writing: no handshake holds it for reading.      *)
StartPurge(r) ==
  /\ task = NoTask
  /\ r \notin maintenance
  /\ \A s \in Sessions : phase[s] # "gated"
  /\ maintenance' = maintenance \cup {r}
  /\ task' = [NoTask EXCEPT !.step = "gate", !.room = r]
  /\ UNCHANGED <<session_vars, queue, relay_vars, purged, reports>>

SendCount ==
  /\ task.step = "gate"
  /\ Enqueue([type |-> "count", room |-> task.room])
  /\ task' = [task EXCEPT !.step = "count"]
  /\ UNCHANGED <<session_vars, relay_vars, maintenance, purged, reports>>

(* Mutant: the refusal forgets to open the gate again.                     *)
AnswerActiveAtOnce ==
  /\ task.step = "counted"
  /\ task.active
  /\ task' = NoTask
  /\ UNCHANGED <<session_vars, queue, relay_vars, maintenance, purged, reports>>

(* The room has connections: room_has_active_connections.                  *)
AnswerActive ==
  /\ task.step = "counted"
  /\ task.active
  /\ task' = [task EXCEPT !.step = "finish"]
  /\ UNCHANGED <<session_vars, queue, relay_vars, maintenance, purged, reports>>

(* The transaction commits.                                                *)
DeleteRows ==
  /\ task.step = "counted"
  /\ ~task.active
  /\ task' = [task EXCEPT !.step = "deleted"]
  /\ UNCHANGED <<session_vars, queue, relay_vars, maintenance, purged, reports>>

(* The transaction fails and is rolled back.                               *)
FailDelete ==
  /\ task.step = "counted"
  /\ ~task.active
  /\ task' = [task EXCEPT !.step = "finish"]
  /\ UNCHANGED <<session_vars, queue, relay_vars, maintenance, purged, reports>>

SendPurge ==
  /\ task.step = "deleted"
  /\ Enqueue([type |-> "purge", room |-> task.room])
  /\ task' = [task EXCEPT !.step = "purge"]
  /\ UNCHANGED <<session_vars, relay_vars, maintenance, purged, reports>>

(* The gate is opened again, which takes the lock for writing once more.   *)
FinishPurge ==
  /\ task.step = "finish"
  /\ \A s \in Sessions : phase[s] # "gated"
  /\ maintenance' = maintenance \ {task.room}
  /\ purged' = IF task.ok THEN purged \cup {task.room} ELSE purged
  /\ task' = NoTask
  /\ UNCHANGED <<session_vars, queue, relay_vars, reports>>

-----------------------------------------------------------------------------
Init ==
  /\ phase = [s \in Sessions |-> "away"]
  /\ id = [s \in Sessions |-> Nobody]
  /\ room = [s \in Sessions |-> Default]
  /\ reader = [s \in Sessions |-> "stopped"]
  /\ queue = <<>>
  /\ connections = [i \in Ids |-> Nobody]
  /\ sources = [i \in {} |-> i]
  /\ battle_caches = [r \in Rooms |-> {}]
  /\ maintenance = {}
  /\ task = NoTask
  /\ reports = 0
  /\ purged = {}

SessionStep(s) ==
  \/ PassGate(s)
  \/ FailHandshake(s)
  \/ SendRegister(s)
  \/ Start(s)
  \/ SendReport(s)
  \/ StopReader(s)
  \/ EndSession(s)
  \/ SendDisconnect(s)
  \/ RecordEnded(s)

RelayStep ==
  \/ HandleRegister
  \/ HandleDisconnect
  \/ HandleReport
  \/ HandleCount
  \/ HandlePurge

PurgeStep ==
  \/ SendCount
  \/ AnswerActive
  \/ DeleteRows
  \/ FailDelete
  \/ SendPurge
  \/ FinishPurge

AdminStep == PurgeStep \/ \E r \in Rooms : StartPurge(r)

Next ==
  \/ \E s \in Sessions : SessionStep(s)
  \/ RelayStep
  \/ AdminStep
  \/ \E i \in Ids : Expire(i) \/ DeleteLastSeen(i)

Spec == Init /\ [][Next]_vars

(* The relay has replaced or removed the session's connection, and with it *)
(* dropped the channel its writer waits on.                                *)
Dropped(s) ==
  /\ phase[s] = "open"
  /\ connections[id[s]] # s
  /\ [type |-> "register", session |-> s] \notin Range(queue)

(* Tasks with work to do run.  Clients need not leave: a session ends for  *)
(* certain only when its connection is dropped.                            *)
Fairness ==
  /\ WF_vars(RelayStep)
  /\ WF_vars(PurgeStep)
  /\ \A s \in Sessions :
       /\ WF_vars(SendRegister(s) \/ FailHandshake(s))
       /\ WF_vars(Start(s))
       /\ WF_vars(Dropped(s) /\ EndSession(s))
       /\ WF_vars(SendDisconnect(s))
       /\ WF_vars(RecordEnded(s))

FairSpec == Spec /\ Fairness

-----------------------------------------------------------------------------
(* Properties.                                                             *)

(* When a room's rows have been deleted, the relay does not refuse to      *)
(* remove the rest: no session can have joined since it was counted, for   *)
(* the gate is closed and all that passed it were counted.                 *)
PurgeIsWhole ==
  task.step \in {"deleted", "purge"} =>
    /\ ~RoomActive(task.room)
    /\ \A event \in Range(queue) :
         event.type = "register" => room[event.session] # task.room

(* A room that was removed, and that no session has joined since, stays    *)
(* empty in the relay, whatever the readers of ended sessions still send   *)
(* (for the room "default", see RoomsStayApart).                           *)
PurgedRoomsHoldNothing ==
  \A r \in purged \ {Default} :
    /\ battle_caches[r] = {}
    /\ \A i \in DOMAIN sources : sources[i].room # r

(* No connection outlives its session: as long as the relay has one, the   *)
(* session is running or its Disconnect is on the way.                     *)
NoLeakedConnection ==
  \A i \in Ids : connections[i] # Nobody =>
    LET s == connections[i]
    IN  \/ phase[s] \in {"registered", "open", "closing"}
        \/ [type |-> "disconnect", session |-> s] \in Range(queue)

(* A session whose connection was replaced by one with the same id, or     *)
(* removed by the other's Disconnect, does not linger: it ends.            *)
DroppedSessionsEnd ==
  \A s \in Sessions : Dropped(s) ~> phase[s] = "gone"

(* The gate does not stay closed.                                          *)
GateOpensAgain ==
  \A r \in Rooms : r \in maintenance ~> r \notin maintenance

(* CHANGELOG 1.1.2: the caches of several rooms no longer influence each   *)
(* other.                                                                  *)
RoomsStayApart == \A r \in Rooms : battle_caches[r] \subseteq {r}
=============================================================================
