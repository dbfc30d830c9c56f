--------------------------- MODULE SessionProofs ---------------------------
(***************************************************************************)
(* Proofs about Session: for any sessions, ids, rooms and queue capacity,  *)
(* the removal of a room meets nobody who was not counted, what was        *)
(* removed stays removed, and no connection outlives its session.          *)
(***************************************************************************)
EXTENDS Session, TLAPS

(* The types of the session's variables.                                   *)
Events ==
  [type : {"register", "disconnect"}, session : Sessions]
    \cup [type : {"report"}, session : Sessions, content : Contents]
    \cup [type : {"count", "purge"}, room : Rooms]

SourceStates == [room : Rooms, live : BOOLEAN, last_seen : BOOLEAN]

Phases == {"away", "gated", "registered", "open", "closing", "closed", "gone"}

SessionTypes ==
  /\ phase \in [Sessions -> Phases]
  /\ id \in [Sessions -> Ids \cup {Nobody}]
  /\ room \in [Sessions -> Rooms]
  /\ reader \in [Sessions -> {"idle", "stopped"}]
  /\ queue \in Seq(Events)
  /\ connections \in [Ids -> Sessions \cup {Nobody}]

StateTypes ==
  /\ DOMAIN sources \subseteq Ids
  /\ sources \in [DOMAIN sources -> SourceStates]
  /\ battle_caches \in [Rooms -> SUBSET Rooms]
  /\ maintenance \subseteq Rooms
  /\ task \in [step : {"idle", "gate", "count", "counted", "deleted", "purge", "finish"},
               room : Rooms \cup {NoRoom}, active : BOOLEAN, ok : BOOLEAN]
  /\ purged \subseteq Rooms

(* The session has passed the gate.                                        *)
Joined(s) == phase[s] \notin {"away", "gated"}

(* Only what has joined has an id, runs a reader, is in the queue or is    *)
(* connected, and connections are under their session's id.                *)
Lifecycle ==
  /\ \A s \in Sessions : Joined(s) => id[s] \in Ids
  /\ \A s \in Sessions : phase[s] = "gated" => id[s] \in Ids /\ room[s] \notin maintenance
  /\ \A s \in Sessions : reader[s] # "stopped" => Joined(s)
  /\ \A k \in DOMAIN queue :
       queue[k].type \in {"register", "disconnect", "report"} => Joined(queue[k].session)
  /\ \A i \in Ids : connections[i] # Nobody =>
       Joined(connections[i]) /\ id[connections[i]] = i

(* The session will say that it ends, or has, behind place k of the queue. *)
WillLeave(s, k) ==
  \/ phase[s] \in {"registered", "open", "closing"}
  \/ \E j \in DOMAIN queue : j > k /\ queue[j] = [type |-> "disconnect", session |-> s]

(* Whoever is connected, or about to be, will leave after that.            *)
ComesAndGoes ==
  \A s \in Sessions :
    /\ \A k \in DOMAIN queue :
         queue[k] = [type |-> "register", session |-> s] => WillLeave(s, k)
    /\ \A i \in Ids : connections[i] = s => WillLeave(s, 0)

(* A Register for the room is at place k of the queue.                     *)
Registers(k, r) == queue[k].type = "register" /\ room[queue[k].session] = r

(* Nobody is in the room or about to be.                                   *)
Vacant(r) ==
  /\ \A i \in Ids : connections[i] # Nobody => room[connections[i]] # r
  /\ \A k \in DOMAIN queue : ~Registers(k, r)

(* The relay holds nothing of the room.                                    *)
Empty(r) ==
  /\ battle_caches[r] = {}
  /\ \A i \in DOMAIN sources : sources[i].room # r

(* The administrator's question is in the queue exactly while it is asked, *)
(* and every Register for the room is before it.                           *)
Asked ==
  /\ \A k \in DOMAIN queue : queue[k].type \in {"count", "purge"} =>
       queue[k].type = task.step /\ queue[k].room = task.room
  /\ \A j, k \in DOMAIN queue :
       queue[j].type \in {"count", "purge"} /\ queue[k].type \in {"count", "purge"} => j = k
  /\ \A j, k \in DOMAIN queue : queue[k].type = "count" /\ Registers(j, task.room) => j < k

(* The gate is closed as long as the request takes; from the count on the  *)
(* room is vacant.                                                         *)
GateHolds ==
  /\ task.step = "idle" => ~task.ok
  /\ task.step # "idle" => task.room \in maintenance
  /\ task.ok => task.step = "finish"
  /\ \/ task.step = "counted" /\ ~task.active
     \/ task.step \in {"deleted", "purge"}
     \/ task.ok
     => Vacant(task.room)
  /\ task.ok /\ task.room # Default => Empty(task.room)

PurgedStay ==
  \A r \in purged : Vacant(r) /\ (r # Default => Empty(r))

SessionInv ==
  SessionTypes /\ StateTypes /\ Lifecycle /\ ComesAndGoes /\ Asked /\ GateHolds /\ PurgedStay

-----------------------------------------------------------------------------
(* The relay's queue.                                                      *)

(* An event is added at the end of the queue.                              *)
LEMMA EnqueuedEvent ==
  ASSUME queue \in Seq(Events), NEW event \in Events, Enqueue(event)
  PROVE  /\ queue' \in Seq(Events)
         /\ DOMAIN queue = 1..Len(queue) /\ Len(queue) \in Nat
         /\ DOMAIN queue' = 1..(Len(queue) + 1)
         /\ \A k \in DOMAIN queue : k \in DOMAIN queue' /\ queue'[k] = queue[k]
         /\ queue'[Len(queue) + 1] = event
         /\ \A k \in DOMAIN queue' : k = Len(queue) + 1 \/ k \in DOMAIN queue
BY DEF Enqueue

(* The first event is taken from it.                                       *)
LEMMA HandledEvent ==
  ASSUME queue \in Seq(Events), NEW type, Handle(type)
  PROVE  /\ queue' \in Seq(Events)
         /\ Head(queue) = queue[1] /\ 1 \in DOMAIN queue /\ queue[1] \in Events
         /\ queue[1].type = type
         /\ DOMAIN queue \subseteq Nat \ {0} /\ DOMAIN queue' \subseteq Nat \ {0}
         /\ \A k \in DOMAIN queue' : k + 1 \in DOMAIN queue /\ queue'[k] = queue[k + 1]
         /\ \A k \in DOMAIN queue : k # 1 => k - 1 \in DOMAIN queue' /\ queue'[k - 1] = queue[k]
<1>1. /\ queue # <<>> /\ queue' = Tail(queue) /\ Head(queue).type = type
  BY DEF Handle
<1>2. /\ Len(queue) \in Nat /\ Len(queue) >= 1
      /\ DOMAIN queue = 1..Len(queue)
      /\ DOMAIN Tail(queue) = 1..(Len(queue) - 1)
      /\ \A i \in 1..(Len(queue) - 1) : Tail(queue)[i] = queue[i + 1]
      /\ Head(queue) = queue[1]
      /\ Tail(queue) \in Seq(Events)
  BY <1>1
<1>3. queue[1] \in Events
  BY <1>2
<1> QED
  BY <1>1, <1>2, <1>3

(* Who will leave after an event of the queue still will when the queue    *)
(* has moved, unless it was said by the event that was handled.            *)
LEMMA LeavesWhenHandled ==
  ASSUME queue \in Seq(Events), NEW type, Handle(type), phase' = phase,
         NEW s, NEW k \in Nat, WillLeave(s, k)
  PROVE  /\ k # 0 => WillLeave(s, k - 1)'
         /\ k = 0 /\ queue[1] # [type |-> "disconnect", session |-> s] => WillLeave(s, 0)'
<1>1. /\ DOMAIN queue \subseteq Nat \ {0}
      /\ \A j \in DOMAIN queue : j # 1 => j - 1 \in DOMAIN queue' /\ queue'[j - 1] = queue[j]
  BY HandledEvent
<1>2. CASE phase[s] \in {"registered", "open", "closing"}
  BY <1>2 DEF WillLeave
<1>3. CASE \E j \in DOMAIN queue : j > k /\ queue[j] = [type |-> "disconnect", session |-> s]
  <2>1. PICK j \in DOMAIN queue : j > k /\ queue[j] = [type |-> "disconnect", session |-> s]
    BY <1>3
  <2>2. CASE j # 1
    <3>1. j - 1 \in DOMAIN queue' /\ queue'[j - 1] = [type |-> "disconnect", session |-> s]
      BY <1>1, <2>1, <2>2
    <3>2. j - 1 > k - 1 /\ (k = 0 => j - 1 > 0)
      BY <1>1, <2>1, <2>2
    <3> QED
      BY <3>1, <3>2 DEF WillLeave
  <2>3. CASE j = 1
    BY <2>1, <2>3
  <2> QED
    BY <2>2, <2>3
<1> QED
  BY <1>2, <1>3 DEF WillLeave

(* Nothing that is added to the queue changes who will leave.              *)
LEMMA LeavesWhenEnqueued ==
  ASSUME queue \in Seq(Events), NEW event \in Events, Enqueue(event),
         NEW s, NEW k, WillLeave(s, k),
         phase[s] \in {"registered", "open", "closing"}
           => phase'[s] \in {"registered", "open", "closing"}
  PROVE  WillLeave(s, k)'
BY EnqueuedEvent DEF WillLeave

(* The end of a session, and a report, are no question of the              *)
(* administrator's, and no Register either.                                *)
LEMMA AskedWhenEnqueued ==
  ASSUME SessionTypes, Asked, NEW event \in Events, Enqueue(event),
         room' = room, task' = task,
         event.type \in {"register", "disconnect", "report"},
         event.type = "register" => task.step # "count" \/ room[event.session] # task.room
  PROVE  Asked'
<1>1. /\ DOMAIN queue = 1..Len(queue) /\ Len(queue) \in Nat
      /\ DOMAIN queue' = 1..(Len(queue) + 1)
      /\ \A k \in DOMAIN queue : k \in DOMAIN queue' /\ queue'[k] = queue[k]
      /\ queue'[Len(queue) + 1] = event
      /\ \A k \in DOMAIN queue' : k = Len(queue) + 1 \/ k \in DOMAIN queue
  BY EnqueuedEvent DEF SessionTypes
<1>2. \A k \in DOMAIN queue' : queue'[k].type \in {"count", "purge"} =>
        k \in DOMAIN queue /\ queue'[k] = queue[k]
  BY <1>1
<1>3. \A k \in DOMAIN queue' : queue'[k].type \in {"count", "purge"} =>
        queue'[k].type = task'.step /\ queue'[k].room = task'.room
  BY <1>2 DEF Asked
<1>4. \A j, k \in DOMAIN queue' :
        queue'[j].type \in {"count", "purge"} /\ queue'[k].type \in {"count", "purge"} => j = k
  BY <1>2 DEF Asked
<1>5. \A j, k \in DOMAIN queue' : queue'[k].type = "count" /\ Registers(j, task.room)' => j < k
  <2>1. SUFFICES ASSUME NEW j \in DOMAIN queue', NEW k \in DOMAIN queue',
                        queue'[k].type = "count", Registers(j, task.room)'
                 PROVE  j < k
    OBVIOUS
  <2>2. k \in DOMAIN queue /\ queue[k].type = "count" /\ task.step = "count"
    BY <1>2, <2>1 DEF Asked
  <2>3. CASE j \in DOMAIN queue
    <3>1. Registers(j, task.room)
      BY <1>1, <2>1, <2>3 DEF Registers
    <3> QED
      BY <2>2, <2>3, <3>1 DEF Asked
  <2>4. CASE j = Len(queue) + 1
    BY <1>1, <2>1, <2>2, <2>4 DEF Registers
  <2> QED
    BY <1>1, <2>3, <2>4
<1> QED
  BY <1>3, <1>4, <1>5 DEF Asked

(* What the relay holds of one source becomes another state of it.         *)
LEMMA SourceChanged ==
  ASSUME NEW old, DOMAIN old \subseteq Ids, old \in [DOMAIN old -> SourceStates],
         NEW i \in DOMAIN old
  PROVE  /\ [old EXCEPT ![i].live = FALSE] \in [DOMAIN old -> SourceStates]
         /\ \A j \in DOMAIN old : [old EXCEPT ![i].live = FALSE][j].room = old[j].room
         /\ [old EXCEPT ![i].last_seen = FALSE] \in [DOMAIN old -> SourceStates]
         /\ \A j \in DOMAIN old : [old EXCEPT ![i].last_seen = FALSE][j].room = old[j].room
BY DEF SourceStates

(* A report fills no room that is vacant, but for the default one.         *)
LEMMA ReportsFillNoVacantRoom ==
  ASSUME SessionInv, HandleReport, NEW r \in Rooms \ {Default}, Vacant(r), Empty(r)
  PROVE  Empty(r)'
<1> DEFINE s == Head(queue).session
<1>1. queue \in Seq(Events) /\ Handle("report")
  BY DEF SessionInv, SessionTypes, HandleReport
<1>2. s \in Sessions /\ id[s] \in Ids
  <2>1. s = queue[1].session /\ 1 \in DOMAIN queue /\ queue[1] \in Events
        /\ queue[1].type = "report"
    BY <1>1, HandledEvent
  <2> QED
    BY <2>1 DEF SessionInv, Lifecycle, Events
<1>3. FiledUnder(s) # r
  BY <1>2 DEF FiledUnder, Vacant
<1>4. battle_caches'[r] = {}
  BY <1>3 DEF HandleReport, SessionInv, StateTypes, Empty
<1>5. \A i \in DOMAIN sources' : sources'[i].room # r
  <2>1. SUFFICES ASSUME NEW i \in DOMAIN sources'
                 PROVE  sources'[i].room # r
    OBVIOUS
  <2>2. CASE i = id[s]
    BY <1>3, <2>2 DEF HandleReport
  <2>3. CASE i # id[s]
    BY <2>3 DEF HandleReport, Empty
  <2> QED
    BY <2>2, <2>3
<1> QED
  BY <1>4, <1>5 DEF Empty

(* Handling an event leaves a vacant room vacant if it connects nobody.    *)
LEMMA VacantStays ==
  ASSUME queue \in Seq(Events), NEW type, Handle(type), room' = room,
         \A i \in Ids : connections'[i] \in {connections[i], Nobody}, NEW r, Vacant(r)
  PROVE  Vacant(r)'
<1>1. \A k \in DOMAIN queue' : k + 1 \in DOMAIN queue /\ queue'[k] = queue[k + 1]
  BY HandledEvent
<1>2. \A k \in DOMAIN queue' : ~Registers(k, r)'
  BY <1>1 DEF Vacant, Registers
<1>3. \A i \in Ids : connections'[i] # Nobody => room'[connections'[i]] # r
  BY DEF Vacant
<1> QED
  BY <1>2, <1>3 DEF Vacant

(* What is added to the queue fills no vacant room, but for a Register.    *)
LEMMA VacantUnlessRegistered ==
  ASSUME queue \in Seq(Events), NEW event \in Events, Enqueue(event), room' = room,
         connections' = connections, NEW r, Vacant(r),
         event.type = "register" => room[event.session] # r
  PROVE  Vacant(r)'
<1>1. /\ \A k \in DOMAIN queue : k \in DOMAIN queue' /\ queue'[k] = queue[k]
      /\ \A k \in DOMAIN queue' : queue'[k] = event \/ k \in DOMAIN queue
  BY EnqueuedEvent
<1>2. \A k \in DOMAIN queue' : ~Registers(k, r)'
  BY <1>1 DEF Vacant, Registers
<1> QED
  BY <1>2 DEF Vacant

(* A purge empties a room and fills none.                                  *)
LEMMA PurgeEmpties ==
  ASSUME SessionInv, HandlePurge
  PROVE  \A r \in Rooms : Empty(r) \/ (r = task.room /\ ~RoomActive(r)) => Empty(r)'
<1>1. queue \in Seq(Events) /\ Handle("purge")
  BY DEF SessionInv, SessionTypes, HandlePurge
<1>2. Head(queue).room = task.room /\ task.room \in Rooms
  <2>1. Head(queue) = queue[1] /\ 1 \in DOMAIN queue /\ queue[1] \in Events
        /\ queue[1].type = "purge"
    BY <1>1, HandledEvent
  <2> QED
    BY <2>1 DEF SessionInv, Asked, Events
<1>3. CASE RoomActive(task.room)
  BY <1>2, <1>3 DEF HandlePurge, relay_vars, Empty
<1>4. CASE ~RoomActive(task.room)
  <2>1. sources' = Restrict(sources, {i \in DOMAIN sources : sources[i].room # task.room})
    BY <1>2, <1>4 DEF HandlePurge
  <2>2. battle_caches' = [battle_caches EXCEPT ![task.room] = {}]
    BY <1>2, <1>4 DEF HandlePurge
  <2>3. \A i \in DOMAIN sources' :
          i \in DOMAIN sources /\ sources'[i] = sources[i] /\ sources[i].room # task.room
    BY <2>1 DEF Restrict
  <2>4. \A r \in Rooms : battle_caches'[r] = IF r = task.room THEN {} ELSE battle_caches[r]
    BY <1>2, <2>2 DEF SessionInv, StateTypes
  <2> QED
    BY <2>3, <2>4 DEF Empty
<1> QED
  BY <1>3, <1>4

(* What is handled in front of the administrator's question leaves it      *)
(* asked.                                                                  *)
LEMMA AskedWhenHandled ==
  ASSUME queue \in Seq(Events), NEW type, Handle(type), Asked, room' = room, task' = task
  PROVE  Asked'
<1>1. /\ DOMAIN queue' \subseteq Nat \ {0}
      /\ \A k \in DOMAIN queue' : k + 1 \in DOMAIN queue /\ queue'[k] = queue[k + 1]
  BY HandledEvent
<1>2. \A k \in DOMAIN queue' : queue'[k].type \in {"count", "purge"} =>
        queue'[k].type = task'.step /\ queue'[k].room = task'.room
  BY <1>1 DEF Asked
<1>3. \A j, k \in DOMAIN queue' :
        queue'[j].type \in {"count", "purge"} /\ queue'[k].type \in {"count", "purge"} => j = k
  <2>1. \A j, k \in DOMAIN queue' : j + 1 = k + 1 => j = k
    BY <1>1
  <2> QED
    BY <1>1, <2>1 DEF Asked
<1>4. \A j, k \in DOMAIN queue' : queue'[k].type = "count" /\ Registers(j, task.room)' => j < k
  <2>1. \A j, k \in DOMAIN queue' : j + 1 < k + 1 => j < k
    BY <1>1
  <2>2. \A j \in DOMAIN queue' : Registers(j, task.room)' => Registers(j + 1, task.room)
    BY <1>1 DEF Registers
  <2> QED
    BY <1>1, <2>1, <2>2 DEF Asked
<1> QED
  BY <1>2, <1>3, <1>4 DEF Asked

-----------------------------------------------------------------------------
(* One lemma for each step of a session.                                   *)

(* A session passes the gate of its room.                                  *)
LEMMA PassGateKeeps ==
  ASSUME SessionInv, NEW s \in Sessions, PassGate(s)
  PROVE  SessionInv'
<1> USE DEF SessionInv
<1>1. SessionTypes'
  BY DEF PassGate, relay_vars, SessionTypes, Phases
<1>2. Lifecycle'
  BY DEF PassGate, relay_vars, admin_vars, Lifecycle, Joined, SessionTypes
<1>3. ComesAndGoes'
  BY DEF PassGate, relay_vars, ComesAndGoes, WillLeave
<1>4. Asked'
  BY DEF PassGate, admin_vars, Asked, Registers, Lifecycle, Joined
<1>5. GateHolds'
  BY DEF PassGate, relay_vars, admin_vars, GateHolds, Vacant, Empty, Registers
<1>6. PurgedStay'
  BY DEF PassGate, relay_vars, admin_vars, PurgedStay, Vacant, Empty,
     Registers, Lifecycle, Joined
<1>7. StateTypes'
  BY DEF PassGate, relay_vars, admin_vars, StateTypes
<1> QED
  BY <1>1, <1>2, <1>3, <1>4, <1>5, <1>6, <1>7

(* A handshake fails.                                                      *)
LEMMA FailHandshakeKeeps ==
  ASSUME SessionInv, NEW s \in Sessions, FailHandshake(s)
  PROVE  SessionInv'
<1> USE DEF SessionInv
<1>1. SessionTypes'
  BY DEF FailHandshake, relay_vars, SessionTypes, Phases
<1>2. Lifecycle'
  BY DEF FailHandshake, relay_vars, admin_vars, Lifecycle, Joined
<1>3. ComesAndGoes'
  BY DEF FailHandshake, relay_vars, ComesAndGoes, WillLeave
<1>4. StateTypes' /\ Asked' /\ GateHolds' /\ PurgedStay'
  BY DEF FailHandshake, relay_vars, admin_vars, StateTypes, Asked, Registers,
     GateHolds, Vacant, Empty, PurgedStay
<1> QED
  BY <1>1, <1>2, <1>3, <1>4

(* A session sends its registration to the relay.                          *)
LEMMA SendRegisterKeeps ==
  ASSUME SessionInv, NEW s \in Sessions, SendRegister(s)
  PROVE  SessionInv'
<1> USE DEF SessionInv
<1>1. Enqueue([type |-> "register", session |-> s])
  BY DEF SendRegister
<1> DEFINE event == [type |-> "register", session |-> s]
<1>2. event \in Events /\ queue \in Seq(Events)
  BY DEF Events, SessionTypes
<1>3. /\ queue' \in Seq(Events)
      /\ DOMAIN queue = 1..Len(queue) /\ Len(queue) \in Nat
      /\ DOMAIN queue' = 1..(Len(queue) + 1)
      /\ \A k \in DOMAIN queue : k \in DOMAIN queue' /\ queue'[k] = queue[k]
      /\ queue'[Len(queue) + 1] = event
      /\ \A k \in DOMAIN queue' : k = Len(queue) + 1 \/ k \in DOMAIN queue
  BY <1>1, <1>2, EnqueuedEvent
<1>4. SessionTypes'
  BY <1>3 DEF SendRegister, relay_vars, SessionTypes, Phases
<1>5. StateTypes'
  BY <1>3 DEF SendRegister, relay_vars, StateTypes
<1>6. Lifecycle'
  <2>1. Joined(s)' /\ id[s] \in Ids
    BY DEF SendRegister, Joined, Lifecycle, SessionTypes
  <2>2. \A t \in Sessions : t # s => phase'[t] = phase[t]
    BY DEF SendRegister, SessionTypes
  <2>3. \A t \in Sessions : Joined(t) => Joined(t)'
    BY <2>1, <2>2 DEF Joined
  <2>4. \A k \in DOMAIN queue' : queue'[k].type \in {"register", "disconnect", "report"} =>
          \E t \in Sessions : t = queue'[k].session /\ Joined(t)'
    BY <1>2, <1>3, <2>1, <2>3 DEF Lifecycle, SessionTypes, Events
  <2>5. \A i \in Ids : connections[i] # Nobody =>
          \E t \in Sessions : t = connections[i] /\ Joined(t)'
    BY <2>3 DEF Lifecycle, SessionTypes
  <2> QED
    BY <2>1, <2>2, <2>4, <2>5 DEF Lifecycle, Joined, SendRegister, relay_vars
<1>7. ComesAndGoes'
  <2>1. SUFFICES ASSUME NEW t \in Sessions
                 PROVE  /\ \A k \in DOMAIN queue' :
                             queue'[k] = [type |-> "register", session |-> t] => WillLeave(t, k)'
                        /\ \A i \in Ids : connections'[i] = t => WillLeave(t, 0)'
    BY DEF ComesAndGoes
  <2>2. \A k : WillLeave(t, k) => WillLeave(t, k)'
    BY <1>1, <1>2, LeavesWhenEnqueued DEF SendRegister, SessionTypes
  <2>3. t = s => \A k : WillLeave(t, k)'
    BY DEF SendRegister, WillLeave, SessionTypes
  <2>4. ASSUME NEW k \in DOMAIN queue', queue'[k] = [type |-> "register", session |-> t]
        PROVE  WillLeave(t, k)'
    <3>1. CASE k \in DOMAIN queue
      BY <1>3, <2>2, <2>4, <3>1 DEF ComesAndGoes
    <3>2. CASE k = Len(queue) + 1
      BY <1>3, <2>3, <2>4, <3>2
    <3> QED
      BY <1>3, <3>1, <3>2
  <2> QED
    BY <2>2, <2>4 DEF ComesAndGoes, SendRegister, relay_vars
<1>8. Asked'
  <2>1. task.step = "count" => room[s] # task.room
    BY DEF SendRegister, Lifecycle, GateHolds
  <2> QED
    BY <1>1, <1>2, <2>1, AskedWhenEnqueued DEF SendRegister
<1>9. GateHolds'
  <2>1. task.room \in maintenance => room[s] # task.room
    BY DEF SendRegister, Lifecycle
  <2>2. \A r : Vacant(r) /\ room[s] # r => Vacant(r)'
    BY <1>1, <1>2, VacantUnlessRegistered DEF SendRegister, relay_vars
  <2> QED
    BY <2>1, <2>2 DEF GateHolds, Empty, SendRegister, relay_vars
<1>10. PurgedStay'
  <2>1. \A r : Vacant(r) /\ room[s] # r => Vacant(r)'
    BY <1>1, <1>2, VacantUnlessRegistered DEF SendRegister, relay_vars
  <2> QED
    BY <2>1 DEF PurgedStay, Empty, SendRegister, relay_vars
<1> QED
  BY <1>4, <1>5, <1>6, <1>7, <1>8, <1>9, <1>10

(* It is accepted and starts.                                              *)
LEMMA StartKeeps ==
  ASSUME SessionInv, NEW s \in Sessions, Start(s)
  PROVE  SessionInv'
<1> USE DEF SessionInv
<1>1. SessionTypes'
  BY DEF Start, relay_vars, SessionTypes, Phases
<1>2. Lifecycle'
  BY DEF Start, relay_vars, admin_vars, Lifecycle, Joined
<1>3. ComesAndGoes'
  BY DEF Start, relay_vars, ComesAndGoes, WillLeave
<1>4. StateTypes' /\ Asked' /\ GateHolds' /\ PurgedStay'
  BY DEF Start, relay_vars, admin_vars, StateTypes, Asked, Registers,
     GateHolds, Vacant, Empty, PurgedStay
<1> QED
  BY <1>1, <1>2, <1>3, <1>4

(* Its reader sends a report.                                              *)
LEMMA SendReportKeeps ==
  ASSUME SessionInv, NEW s \in Sessions, SendReport(s)
  PROVE  SessionInv'
<1> USE DEF SessionInv
<1>1. PICK content \in Contents :
        Enqueue([type |-> "report", session |-> s, content |-> content])
  BY DEF SendReport
<1> DEFINE event == [type |-> "report", session |-> s, content |-> content]
<1>2. event \in Events /\ queue \in Seq(Events)
  BY DEF Events, SessionTypes
<1>3. /\ queue' \in Seq(Events)
      /\ DOMAIN queue = 1..Len(queue) /\ Len(queue) \in Nat
      /\ DOMAIN queue' = 1..(Len(queue) + 1)
      /\ \A k \in DOMAIN queue : k \in DOMAIN queue' /\ queue'[k] = queue[k]
      /\ queue'[Len(queue) + 1] = event
      /\ \A k \in DOMAIN queue' : k = Len(queue) + 1 \/ k \in DOMAIN queue
  BY <1>1, <1>2, EnqueuedEvent
<1>4. SessionTypes'
  BY <1>3 DEF SendReport, session_vars, relay_vars, SessionTypes
<1>5. Lifecycle'
  <2>1. Joined(s)
    BY DEF SendReport, Lifecycle
  <2>2. \A k \in DOMAIN queue' :
          queue'[k].type \in {"register", "disconnect", "report"} => Joined(queue'[k].session)
    BY <1>3, <2>1 DEF Lifecycle
  <2> QED
    BY <2>2 DEF Lifecycle, Joined, SendReport, session_vars, relay_vars, admin_vars
<1>6. ComesAndGoes'
  <2>1. SUFFICES ASSUME NEW t \in Sessions
                 PROVE  /\ \A k \in DOMAIN queue' :
                             queue'[k] = [type |-> "register", session |-> t] => WillLeave(t, k)'
                        /\ \A i \in Ids : connections'[i] = t => WillLeave(t, 0)'
    BY DEF ComesAndGoes
  <2>2. \A k : WillLeave(t, k) => WillLeave(t, k)'
    BY <1>1, <1>2, LeavesWhenEnqueued DEF SendReport, session_vars
  <2> QED
    BY <1>3, <2>2 DEF ComesAndGoes, SendReport, relay_vars
<1>7. Asked'
  BY <1>1, <1>2, AskedWhenEnqueued DEF SendReport, session_vars, admin_vars
<1>8. GateHolds'
  <2>1. \A r : Vacant(r) => Vacant(r)'
    BY <1>1, <1>2, VacantUnlessRegistered DEF SendReport, session_vars, relay_vars, admin_vars
  <2> QED
    BY <2>1 DEF GateHolds, Empty, SendReport, session_vars, relay_vars, admin_vars, StateTypes
<1>9. PurgedStay'
  <2>1. \A r : Vacant(r) => Vacant(r)'
    BY <1>1, <1>2, VacantUnlessRegistered DEF SendReport, session_vars, relay_vars, admin_vars
  <2> QED
    BY <2>1 DEF PurgedStay, Empty, SendReport, session_vars, relay_vars, admin_vars
<1>10. StateTypes'
  BY DEF SendReport, relay_vars, admin_vars, StateTypes
<1> QED
  BY <1>4, <1>5, <1>6, <1>7, <1>8, <1>9, <1>10

(* Its reader stops.                                                       *)
LEMMA StopReaderKeeps ==
  ASSUME SessionInv, NEW s \in Sessions, StopReader(s)
  PROVE  SessionInv'
<1> USE DEF SessionInv
<1>1. SessionTypes'
  BY DEF StopReader, relay_vars, SessionTypes
<1>2. Lifecycle'
  BY DEF StopReader, relay_vars, admin_vars, Lifecycle, Joined
<1>3. StateTypes' /\ ComesAndGoes' /\ Asked' /\ GateHolds' /\ PurgedStay'
  BY DEF StopReader, relay_vars, admin_vars, StateTypes, ComesAndGoes,
     WillLeave, Asked, Registers, GateHolds, Vacant, Empty, PurgedStay
<1> QED
  BY <1>1, <1>2, <1>3

(* It ends.                                                                *)
LEMMA EndSessionKeeps ==
  ASSUME SessionInv, NEW s \in Sessions, EndSession(s)
  PROVE  SessionInv'
<1> USE DEF SessionInv
<1>1. SessionTypes'
  BY DEF EndSession, relay_vars, SessionTypes, Phases
<1>2. Lifecycle'
  BY DEF EndSession, relay_vars, admin_vars, Lifecycle, Joined
<1>3. ComesAndGoes'
  BY DEF EndSession, relay_vars, ComesAndGoes, WillLeave
<1>4. StateTypes' /\ Asked' /\ GateHolds' /\ PurgedStay'
  BY DEF EndSession, relay_vars, admin_vars, StateTypes, Asked, Registers,
     GateHolds, Vacant, Empty, PurgedStay
<1> QED
  BY <1>1, <1>2, <1>3, <1>4

(* It tells the relay that it has gone.                                    *)
LEMMA SendDisconnectKeeps ==
  ASSUME SessionInv, NEW s \in Sessions, SendDisconnect(s)
  PROVE  SessionInv'
<1> USE DEF SessionInv
<1>1. Enqueue([type |-> "disconnect", session |-> s])
  BY DEF SendDisconnect
<1> DEFINE event == [type |-> "disconnect", session |-> s]
<1>2. event \in Events /\ queue \in Seq(Events)
  BY DEF Events, SessionTypes
<1>3. /\ queue' \in Seq(Events)
      /\ DOMAIN queue = 1..Len(queue) /\ Len(queue) \in Nat
      /\ DOMAIN queue' = 1..(Len(queue) + 1)
      /\ \A k \in DOMAIN queue : k \in DOMAIN queue' /\ queue'[k] = queue[k]
      /\ queue'[Len(queue) + 1] = event
      /\ \A k \in DOMAIN queue' : k = Len(queue) + 1 \/ k \in DOMAIN queue
  BY <1>1, <1>2, EnqueuedEvent
<1>4. SessionTypes'
  BY <1>3 DEF SendDisconnect, relay_vars, SessionTypes, Phases
<1>5. Lifecycle'
  <2>1. Joined(s) /\ phase'[s] # "gated"
    BY DEF SendDisconnect, Joined, SessionTypes
  <2>2. \A t \in Sessions : Joined(t)' <=> Joined(t)
    BY <2>1 DEF SendDisconnect, Joined, SessionTypes
  <2>3. \A k \in DOMAIN queue' : queue'[k].type \in {"register", "disconnect", "report"} =>
          \E t \in Sessions : t = queue'[k].session /\ Joined(t)'
    BY <1>2, <1>3, <2>1, <2>2 DEF Lifecycle, SessionTypes, Events
  <2>4. \A i \in Ids : connections[i] # Nobody =>
          \E t \in Sessions : t = connections[i] /\ Joined(t)'
    BY <2>2 DEF Lifecycle, SessionTypes
  <2>5. \A t \in Sessions : phase'[t] = "gated" => phase[t] = "gated"
    BY <2>1 DEF SendDisconnect, SessionTypes
  <2> QED
    BY <2>2, <2>3, <2>4, <2>5 DEF Lifecycle, Joined, SendDisconnect, relay_vars, admin_vars
<1>6. ComesAndGoes'
  <2>1. SUFFICES ASSUME NEW t \in Sessions
                 PROVE  /\ \A k \in DOMAIN queue' :
                             queue'[k] = [type |-> "register", session |-> t] => WillLeave(t, k)'
                        /\ \A i \in Ids : connections'[i] = t => WillLeave(t, 0)'
    BY DEF ComesAndGoes
  <2>2. \A k \in 0..Len(queue) : WillLeave(t, k) => WillLeave(t, k)'
    BY <1>3 DEF WillLeave, SendDisconnect, SessionTypes
  <2> QED
    BY <1>3, <2>2 DEF ComesAndGoes, SendDisconnect, relay_vars
<1>7. Asked'
  BY <1>1, <1>2, AskedWhenEnqueued DEF SendDisconnect, admin_vars
<1>8. GateHolds'
  <2>1. \A r : Vacant(r) => Vacant(r)'
    BY <1>1, <1>2, VacantUnlessRegistered DEF SendDisconnect, relay_vars, admin_vars
  <2> QED
    BY <2>1 DEF GateHolds, Empty, SendDisconnect, relay_vars, admin_vars, StateTypes
<1>9. PurgedStay'
  <2>1. \A r : Vacant(r) => Vacant(r)'
    BY <1>1, <1>2, VacantUnlessRegistered DEF SendDisconnect, relay_vars, admin_vars
  <2> QED
    BY <2>1 DEF PurgedStay, Empty, SendDisconnect, relay_vars, admin_vars
<1>10. StateTypes'
  BY DEF SendDisconnect, relay_vars, admin_vars, StateTypes
<1> QED
  BY <1>4, <1>5, <1>6, <1>7, <1>8, <1>9, <1>10

(* Its end is recorded.                                                    *)
LEMMA RecordEndedKeeps ==
  ASSUME SessionInv, NEW s \in Sessions, RecordEnded(s)
  PROVE  SessionInv'
<1> USE DEF SessionInv
<1>1. SessionTypes'
  BY DEF RecordEnded, relay_vars, SessionTypes, Phases
<1>2. Lifecycle'
  BY DEF RecordEnded, relay_vars, admin_vars, Lifecycle, Joined
<1>3. ComesAndGoes'
  BY DEF RecordEnded, relay_vars, ComesAndGoes, WillLeave
<1>4. StateTypes' /\ Asked' /\ GateHolds' /\ PurgedStay'
  BY DEF RecordEnded, relay_vars, admin_vars, StateTypes, Asked, Registers,
     GateHolds, Vacant, Empty, PurgedStay
<1> QED
  BY <1>1, <1>2, <1>3, <1>4

-----------------------------------------------------------------------------
(* One for each event that the relay handles.                              *)

(* The relay handles a registration.                                       *)
LEMMA HandleRegisterKeeps ==
  ASSUME SessionInv, HandleRegister
  PROVE  SessionInv'
<1> USE DEF SessionInv
<1>1. Handle("register") /\ queue \in Seq(Events)
  BY DEF HandleRegister, SessionTypes
<1>2. /\ queue' \in Seq(Events)
      /\ Head(queue) = queue[1] /\ 1 \in DOMAIN queue /\ queue[1] \in Events
      /\ queue[1].type = "register"
      /\ DOMAIN queue \subseteq Nat \ {0} /\ DOMAIN queue' \subseteq Nat \ {0}
      /\ \A k \in DOMAIN queue' : k + 1 \in DOMAIN queue /\ queue'[k] = queue[k + 1]
      /\ \A k \in DOMAIN queue : k # 1 => k - 1 \in DOMAIN queue' /\ queue'[k - 1] = queue[k]
  BY <1>1, HandledEvent
<1>3. SessionTypes'
  BY <1>2 DEF HandleRegister, session_vars, SessionTypes, Events
<1>4. Lifecycle'
  BY <1>2 DEF HandleRegister, session_vars, admin_vars, Lifecycle, Joined
<1>5. ComesAndGoes'
  <2>1. SUFFICES ASSUME NEW s \in Sessions
                 PROVE  /\ \A k \in DOMAIN queue' :
                             queue'[k] = [type |-> "register", session |-> s] => WillLeave(s, k)'
                        /\ \A i \in Ids : connections'[i] = s => WillLeave(s, 0)'
    BY DEF ComesAndGoes
  <2>2. \A k \in Nat : WillLeave(s, k) =>
          /\ k # 0 => WillLeave(s, k - 1)'
          /\ k = 0 /\ queue[1] # [type |-> "disconnect", session |-> s] => WillLeave(s, 0)'
    BY <1>1, LeavesWhenHandled DEF HandleRegister, session_vars
  <2>3. ASSUME NEW k \in DOMAIN queue', queue'[k] = [type |-> "register", session |-> s]
        PROVE  WillLeave(s, k)'
    <3>1. WillLeave(s, k + 1)
      BY <1>2, <2>3 DEF ComesAndGoes
    <3>2. k + 1 \in Nat /\ k + 1 # 0 /\ (k + 1) - 1 = k
      BY <1>2, <2>3
    <3> QED
      BY <2>2, <3>1, <3>2
  <2>4. ASSUME NEW i \in Ids, connections'[i] = s
        PROVE  WillLeave(s, 0)'
    <3>1. queue[1] # [type |-> "disconnect", session |-> s]
      BY <1>2
    <3>2. CASE connections[i] = s
      BY <2>2, <3>1, <3>2 DEF ComesAndGoes
    <3>3. CASE queue[1].session = s
      <4>1. WillLeave(s, 1)
        BY <1>2, <3>3 DEF ComesAndGoes, Events
      <4> QED
        BY <2>2, <4>1
    <3> QED
      BY <1>2, <2>4, <3>2, <3>3 DEF HandleRegister, SessionTypes
  <2> QED
    BY <2>3, <2>4
<1>6. Asked'
  BY <1>1, AskedWhenHandled DEF HandleRegister, session_vars, admin_vars
<1>7. GateHolds'
  BY <1>2 DEF HandleRegister, session_vars, admin_vars, GateHolds, Vacant,
     Empty, Registers
<1>8. PurgedStay'
  BY <1>2 DEF HandleRegister, session_vars, admin_vars, PurgedStay, Vacant,
     Empty, Registers
<1>9. StateTypes'
  BY DEF HandleRegister, admin_vars, StateTypes
<1> QED
  BY <1>3, <1>4, <1>5, <1>6, <1>7, <1>8, <1>9

(* The relay handles a disconnection.                                      *)
LEMMA HandleDisconnectKeeps ==
  ASSUME SessionInv, HandleDisconnect
  PROVE  SessionInv'
<1> USE DEF SessionInv
<1>1. Handle("disconnect") /\ queue \in Seq(Events)
  BY DEF HandleDisconnect, SessionTypes
<1>2. /\ queue' \in Seq(Events)
      /\ Head(queue) = queue[1] /\ 1 \in DOMAIN queue /\ queue[1] \in Events
      /\ queue[1].type = "disconnect"
      /\ DOMAIN queue \subseteq Nat \ {0} /\ DOMAIN queue' \subseteq Nat \ {0}
      /\ \A k \in DOMAIN queue' : k + 1 \in DOMAIN queue /\ queue'[k] = queue[k + 1]
      /\ \A k \in DOMAIN queue : k # 1 => k - 1 \in DOMAIN queue' /\ queue'[k - 1] = queue[k]
  BY <1>1, HandledEvent
<1>3. SessionTypes'
  BY <1>2 DEF HandleDisconnect, session_vars, SessionTypes
<1>4. StateTypes'
  <2>1. DOMAIN sources' \subseteq Ids /\ sources' \in [DOMAIN sources' -> SourceStates]
    BY SourceChanged DEF StateTypes, HandleDisconnect, Restrict
  <2> QED
    BY <2>1 DEF StateTypes, HandleDisconnect, admin_vars
<1>5. Lifecycle'
  BY <1>2 DEF HandleDisconnect, session_vars, admin_vars, Lifecycle, Joined
<1>6. ComesAndGoes'
  <2>1. SUFFICES ASSUME NEW s \in Sessions
                 PROVE  /\ \A k \in DOMAIN queue' :
                             queue'[k] = [type |-> "register", session |-> s] => WillLeave(s, k)'
                        /\ \A i \in Ids : connections'[i] = s => WillLeave(s, 0)'
    BY DEF ComesAndGoes
  <2>2. \A k \in Nat : WillLeave(s, k) =>
          /\ k # 0 => WillLeave(s, k - 1)'
          /\ k = 0 /\ queue[1] # [type |-> "disconnect", session |-> s] => WillLeave(s, 0)'
    BY <1>1, LeavesWhenHandled DEF HandleDisconnect, session_vars
  <2>3. ASSUME NEW k \in DOMAIN queue', queue'[k] = [type |-> "register", session |-> s]
        PROVE  WillLeave(s, k)'
    <3>1. WillLeave(s, k + 1)
      BY <1>2, <2>3 DEF ComesAndGoes
    <3>2. k + 1 \in Nat /\ k + 1 # 0 /\ (k + 1) - 1 = k
      BY <1>2, <2>3
    <3> QED
      BY <2>2, <3>1, <3>2
  <2>4. ASSUME NEW i \in Ids, connections'[i] = s
        PROVE  WillLeave(s, 0)'
    <3>1. connections[i] = s /\ i # id[queue[1].session]
      BY <1>2, <2>4, SessionAssumption DEF HandleDisconnect, SessionTypes
    <3>2. queue[1] # [type |-> "disconnect", session |-> s]
      BY <3>1, SessionAssumption DEF Lifecycle
    <3> QED
      BY <2>2, <3>1, <3>2 DEF ComesAndGoes
  <2> QED
    BY <2>3, <2>4
<1>7. Asked'
  BY <1>1, AskedWhenHandled DEF HandleDisconnect, session_vars, admin_vars
<1>8. GateHolds'
  BY <1>2 DEF HandleDisconnect, session_vars, admin_vars, GateHolds, Vacant,
     Empty, Registers, Restrict
<1>9. PurgedStay'
  BY <1>2 DEF HandleDisconnect, session_vars, admin_vars, PurgedStay, Vacant,
     Empty, Registers, Restrict
<1> QED
  BY <1>3, <1>4, <1>5, <1>6, <1>7, <1>8, <1>9

(* The relay handles a report.                                             *)
LEMMA HandleReportKeeps ==
  ASSUME SessionInv, HandleReport
  PROVE  SessionInv'
<1> USE DEF SessionInv
<1>1. Handle("report") /\ queue \in Seq(Events)
  BY DEF HandleReport, SessionTypes
<1>2. /\ queue' \in Seq(Events)
      /\ Head(queue) = queue[1] /\ 1 \in DOMAIN queue /\ queue[1] \in Events
      /\ queue[1].type = "report"
      /\ DOMAIN queue \subseteq Nat \ {0} /\ DOMAIN queue' \subseteq Nat \ {0}
      /\ \A k \in DOMAIN queue' : k + 1 \in DOMAIN queue /\ queue'[k] = queue[k + 1]
      /\ \A k \in DOMAIN queue : k # 1 => k - 1 \in DOMAIN queue' /\ queue'[k - 1] = queue[k]
  BY <1>1, HandledEvent
<1>3. SessionTypes'
  BY <1>2 DEF HandleReport, session_vars, SessionTypes
<1>4. StateTypes'
  <2> DEFINE s == queue[1].session
             r == FiledUnder(s)
  <2>1. s \in Sessions /\ id[s] \in Ids
    BY <1>2 DEF Events, Lifecycle
  <2>2. r \in Rooms /\ room[s] \in Rooms
    BY <2>1, SessionAssumption DEF FiledUnder, SessionTypes
  <2>3. DOMAIN sources' \subseteq Ids /\ sources' \in [DOMAIN sources' -> SourceStates]
    <3>1. DOMAIN sources' = DOMAIN sources \cup {id[s]}
      BY <1>2 DEF HandleReport
    <3>2. \A j \in DOMAIN sources' : j # id[s] => sources'[j] = sources[j]
      BY <1>2 DEF HandleReport
    <3>3. sources'[id[s]] \in SourceStates
      BY <1>2, <2>2 DEF HandleReport, SourceStates, StateTypes
    <3>4. sources' = [j \in DOMAIN sources' |-> sources'[j]]
      BY DEF HandleReport
    <3> QED
      BY <2>1, <3>1, <3>2, <3>3, <3>4 DEF StateTypes
  <2>4. battle_caches' \in [Rooms -> SUBSET Rooms]
    BY <1>2, <2>2 DEF StateTypes, HandleReport
  <2> QED
    BY <2>3, <2>4 DEF StateTypes, HandleReport, admin_vars
<1>5. Lifecycle'
  BY <1>2 DEF HandleReport, session_vars, admin_vars, Lifecycle, Joined
<1>6. ComesAndGoes'
  <2>1. SUFFICES ASSUME NEW s \in Sessions
                 PROVE  /\ \A k \in DOMAIN queue' :
                             queue'[k] = [type |-> "register", session |-> s] => WillLeave(s, k)'
                        /\ \A i \in Ids : connections'[i] = s => WillLeave(s, 0)'
    BY DEF ComesAndGoes
  <2>2. \A k \in Nat : WillLeave(s, k) =>
          /\ k # 0 => WillLeave(s, k - 1)'
          /\ k = 0 /\ queue[1] # [type |-> "disconnect", session |-> s] => WillLeave(s, 0)'
    BY <1>1, LeavesWhenHandled DEF HandleReport, session_vars
  <2>3. ASSUME NEW k \in DOMAIN queue', queue'[k] = [type |-> "register", session |-> s]
        PROVE  WillLeave(s, k)'
    <3>1. WillLeave(s, k + 1)
      BY <1>2, <2>3 DEF ComesAndGoes
    <3>2. k + 1 \in Nat /\ k + 1 # 0 /\ (k + 1) - 1 = k
      BY <1>2, <2>3
    <3> QED
      BY <2>2, <3>1, <3>2
  <2>4. ASSUME NEW i \in Ids, connections'[i] = s
        PROVE  WillLeave(s, 0)'
    <3>1. WillLeave(s, 0)
      BY <2>4, SessionAssumption DEF ComesAndGoes, HandleReport, relay_vars
    <3>2. queue[1] # [type |-> "disconnect", session |-> s]
      BY <1>2
    <3> QED
      BY <2>2, <3>1, <3>2
  <2> QED
    BY <2>3, <2>4
<1>7. Asked'
  BY <1>1, AskedWhenHandled DEF HandleReport, session_vars, admin_vars
<1>8. GateHolds'
  <2>1. \A r : Vacant(r) => Vacant(r)'
    BY <1>1, VacantStays DEF HandleReport, session_vars
  <2>2. \A r \in Rooms \ {Default} : r = task.room /\ task.ok => Empty(r)'
    BY ReportsFillNoVacantRoom DEF GateHolds
  <2>3. task.ok => task.room \in Rooms
    BY DEF GateHolds, StateTypes
  <2> QED
    BY <2>1, <2>2, <2>3 DEF GateHolds, HandleReport, admin_vars
<1>9. PurgedStay'
  <2>1. \A r : Vacant(r) => Vacant(r)'
    BY <1>1, VacantStays DEF HandleReport, session_vars
  <2>2. \A r \in purged \ {Default} : Empty(r)'
    BY ReportsFillNoVacantRoom DEF PurgedStay, StateTypes
  <2> QED
    BY <2>1, <2>2 DEF PurgedStay, HandleReport, admin_vars
<1> QED
  BY <1>3, <1>4, <1>5, <1>6, <1>7, <1>8, <1>9

(* The relay counts the sessions of a room.                                *)
LEMMA HandleCountKeeps ==
  ASSUME SessionInv, HandleCount
  PROVE  SessionInv'
<1> USE DEF SessionInv
<1>1. Handle("count") /\ queue \in Seq(Events)
  BY DEF HandleCount, SessionTypes
<1>2. /\ queue' \in Seq(Events)
      /\ Head(queue) = queue[1] /\ 1 \in DOMAIN queue /\ queue[1] \in Events
      /\ queue[1].type = "count"
      /\ DOMAIN queue \subseteq Nat \ {0} /\ DOMAIN queue' \subseteq Nat \ {0}
      /\ \A k \in DOMAIN queue' : k + 1 \in DOMAIN queue /\ queue'[k] = queue[k + 1]
      /\ \A k \in DOMAIN queue : k # 1 => k - 1 \in DOMAIN queue' /\ queue'[k - 1] = queue[k]
  BY <1>1, HandledEvent
<1>3. SessionTypes'
  BY <1>2 DEF HandleCount, session_vars, relay_vars, SessionTypes
<1>4. StateTypes'
  BY <1>2 DEF HandleCount, relay_vars, StateTypes, RoomActive
<1>5. Lifecycle'
  BY <1>2 DEF HandleCount, session_vars, relay_vars, Lifecycle, Joined
<1>6. ComesAndGoes'
  <2>1. SUFFICES ASSUME NEW s \in Sessions
                 PROVE  /\ \A k \in DOMAIN queue' :
                             queue'[k] = [type |-> "register", session |-> s] => WillLeave(s, k)'
                        /\ \A i \in Ids : connections'[i] = s => WillLeave(s, 0)'
    BY DEF ComesAndGoes
  <2>2. \A k \in Nat : WillLeave(s, k) =>
          /\ k # 0 => WillLeave(s, k - 1)'
          /\ k = 0 /\ queue[1] # [type |-> "disconnect", session |-> s] => WillLeave(s, 0)'
    BY <1>1, LeavesWhenHandled DEF HandleCount, session_vars
  <2>3. ASSUME NEW k \in DOMAIN queue', queue'[k] = [type |-> "register", session |-> s]
        PROVE  WillLeave(s, k)'
    <3>1. WillLeave(s, k + 1)
      BY <1>2, <2>3 DEF ComesAndGoes
    <3>2. k + 1 \in Nat /\ k + 1 # 0 /\ (k + 1) - 1 = k
      BY <1>2, <2>3
    <3> QED
      BY <2>2, <3>1, <3>2
  <2>4. ASSUME NEW i \in Ids, connections'[i] = s
        PROVE  WillLeave(s, 0)'
    <3>1. WillLeave(s, 0)
      BY <2>4, SessionAssumption DEF ComesAndGoes, HandleCount, relay_vars
    <3>2. queue[1] # [type |-> "disconnect", session |-> s]
      BY <1>2
    <3> QED
      BY <2>2, <3>1, <3>2
  <2> QED
    BY <2>3, <2>4
<1>7. Asked'
  BY <1>2 DEF HandleCount, Asked
<1>8. GateHolds'
  BY <1>2 DEF HandleCount, session_vars, relay_vars, GateHolds, Vacant,
     Registers, StateTypes, Asked, RoomActive
<1>9. PurgedStay'
  BY <1>2 DEF HandleCount, session_vars, relay_vars, PurgedStay, Vacant, Empty,
     Registers
<1> QED
  BY <1>3, <1>4, <1>5, <1>6, <1>7, <1>8, <1>9

(* The relay purges a room.                                                *)
LEMMA HandlePurgeKeeps ==
  ASSUME SessionInv, HandlePurge
  PROVE  SessionInv'
<1> USE DEF SessionInv
<1>1. Handle("purge") /\ queue \in Seq(Events)
  BY DEF HandlePurge, SessionTypes
<1>2. /\ queue' \in Seq(Events)
      /\ Head(queue) = queue[1] /\ 1 \in DOMAIN queue /\ queue[1] \in Events
      /\ queue[1].type = "purge"
      /\ DOMAIN queue \subseteq Nat \ {0} /\ DOMAIN queue' \subseteq Nat \ {0}
      /\ \A k \in DOMAIN queue' : k + 1 \in DOMAIN queue /\ queue'[k] = queue[k + 1]
      /\ \A k \in DOMAIN queue : k # 1 => k - 1 \in DOMAIN queue' /\ queue'[k - 1] = queue[k]
  BY <1>1, HandledEvent
<1>3. SessionTypes'
  BY <1>2 DEF HandlePurge, session_vars, relay_vars, SessionTypes
<1>4. StateTypes'
  <2>1. queue[1].room \in Rooms
    BY <1>2 DEF Events
  <2>2. DOMAIN sources' \subseteq Ids /\ sources' \in [DOMAIN sources' -> SourceStates]
    BY DEF StateTypes, HandlePurge, relay_vars, Restrict
  <2>3. battle_caches' \in [Rooms -> SUBSET Rooms]
    BY <1>2, <2>1 DEF StateTypes, HandlePurge, relay_vars
  <2>4. task' \in [step : {"idle", "gate", "count", "counted", "deleted", "purge", "finish"},
                   room : Rooms \cup {NoRoom}, active : BOOLEAN, ok : BOOLEAN]
    BY DEF StateTypes, HandlePurge
  <2> QED
    BY <2>2, <2>3, <2>4 DEF StateTypes, HandlePurge
<1>5. Lifecycle'
  BY <1>2 DEF HandlePurge, session_vars, relay_vars, Lifecycle, Joined
<1>6. ComesAndGoes'
  <2>1. SUFFICES ASSUME NEW s \in Sessions
                 PROVE  /\ \A k \in DOMAIN queue' :
                             queue'[k] = [type |-> "register", session |-> s] => WillLeave(s, k)'
                        /\ \A i \in Ids : connections'[i] = s => WillLeave(s, 0)'
    BY DEF ComesAndGoes
  <2>2. \A k \in Nat : WillLeave(s, k) =>
          /\ k # 0 => WillLeave(s, k - 1)'
          /\ k = 0 /\ queue[1] # [type |-> "disconnect", session |-> s] => WillLeave(s, 0)'
    BY <1>1, LeavesWhenHandled DEF HandlePurge, session_vars
  <2>3. ASSUME NEW k \in DOMAIN queue', queue'[k] = [type |-> "register", session |-> s]
        PROVE  WillLeave(s, k)'
    <3>1. WillLeave(s, k + 1)
      BY <1>2, <2>3 DEF ComesAndGoes
    <3>2. k + 1 \in Nat /\ k + 1 # 0 /\ (k + 1) - 1 = k
      BY <1>2, <2>3
    <3> QED
      BY <2>2, <3>1, <3>2
  <2>4. ASSUME NEW i \in Ids, connections'[i] = s
        PROVE  WillLeave(s, 0)'
    <3>1. WillLeave(s, 0)
      BY <2>4, SessionAssumption DEF ComesAndGoes, HandlePurge, relay_vars
    <3>2. queue[1] # [type |-> "disconnect", session |-> s]
      BY <1>2
    <3> QED
      BY <2>2, <3>1, <3>2
  <2> QED
    BY <2>3, <2>4
<1>7. Asked'
  BY <1>2 DEF HandlePurge, Asked
<1>8. GateHolds'
  <2>1. Head(queue).room = task.room /\ task.step = "purge"
    BY <1>2 DEF Asked
  <2>2. task'.room = task.room /\ task'.step = "finish" /\ (task'.ok => ~RoomActive(task.room))
    BY <2>1 DEF HandlePurge, StateTypes, GateHolds
  <2>3. task.room \in maintenance' /\ task.room \in Rooms
    BY <2>1 DEF GateHolds, HandlePurge, StateTypes
  <2>4. \A r : Vacant(r) => Vacant(r)'
    BY <1>1, VacantStays DEF HandlePurge, session_vars, relay_vars
  <2>5. \A r \in Rooms : r = task.room /\ task'.ok => Vacant(r)' /\ Empty(r)'
    BY <2>1, <2>2, <2>4, PurgeEmpties DEF GateHolds
  <2> QED
    BY <2>2, <2>3, <2>5 DEF GateHolds
<1>9. PurgedStay'
  <2>1. \A r : Vacant(r) => Vacant(r)'
    BY <1>1, VacantStays DEF HandlePurge, session_vars, relay_vars
  <2>2. \A r \in purged : Empty(r) => Empty(r)'
    BY PurgeEmpties DEF StateTypes
  <2> QED
    BY <2>1, <2>2 DEF PurgedStay, HandlePurge
<1> QED
  BY <1>3, <1>4, <1>5, <1>6, <1>7, <1>8, <1>9

-----------------------------------------------------------------------------
(* One for each change of what sources hold that is not a report.          *)

(* The reports of a source expire.                                         *)
LEMMA ExpireKeeps ==
  ASSUME SessionInv, NEW i \in Ids, Expire(i)
  PROVE  SessionInv'
<1> USE DEF SessionInv
<1>1. StateTypes'
  BY SourceChanged DEF StateTypes, Expire, admin_vars
<1>2. GateHolds'
  BY DEF Expire, session_vars, admin_vars, GateHolds, Vacant, Empty, Registers
<1>3. PurgedStay'
  BY DEF Expire, session_vars, admin_vars, PurgedStay, Vacant, Empty, Registers
<1>4. SessionTypes' /\ Lifecycle' /\ ComesAndGoes' /\ Asked'
  BY DEF Expire, session_vars, admin_vars, SessionTypes, Lifecycle, Joined,
     ComesAndGoes, WillLeave, Asked, Registers
<1> QED
  BY <1>1, <1>2, <1>3, <1>4

(* A source that was last seen is deleted.                                 *)
LEMMA DeleteLastSeenKeeps ==
  ASSUME SessionInv, NEW i \in Ids, DeleteLastSeen(i)
  PROVE  SessionInv'
<1> USE DEF SessionInv
<1>1. StateTypes'
  BY SourceChanged DEF StateTypes, DeleteLastSeen, admin_vars
<1>2. GateHolds'
  BY DEF DeleteLastSeen, session_vars, admin_vars, GateHolds, Vacant, Empty,
     Registers
<1>3. PurgedStay'
  BY DEF DeleteLastSeen, session_vars, admin_vars, PurgedStay, Vacant, Empty,
     Registers
<1>4. SessionTypes' /\ Lifecycle' /\ ComesAndGoes' /\ Asked'
  BY DEF DeleteLastSeen, session_vars, admin_vars, SessionTypes, Lifecycle,
     Joined, ComesAndGoes, WillLeave, Asked, Registers
<1> QED
  BY <1>1, <1>2, <1>3, <1>4

-----------------------------------------------------------------------------
(* One for each step of the administrator's request.                       *)

(* A purge closes the gate.                                                *)
LEMMA StartPurgeKeeps ==
  ASSUME SessionInv, NEW r \in Rooms, StartPurge(r)
  PROVE  SessionInv'
<1> USE DEF SessionInv
<1>1. StateTypes'
  BY DEF StartPurge, relay_vars, StateTypes
<1>2. Lifecycle'
  BY DEF StartPurge, session_vars, relay_vars, Lifecycle, Joined
<1>3. Asked'
  BY DEF StartPurge, Asked, NoTask
<1>4. GateHolds'
  BY DEF StartPurge, GateHolds, NoTask
<1>5. SessionTypes' /\ ComesAndGoes' /\ PurgedStay'
  BY DEF StartPurge, session_vars, relay_vars, SessionTypes, ComesAndGoes,
     WillLeave, PurgedStay, Vacant, Empty, Registers
<1> QED
  BY <1>1, <1>2, <1>3, <1>4, <1>5

(* It asks the relay for the sessions.                                     *)
LEMMA SendCountKeeps ==
  ASSUME SessionInv, SendCount
  PROVE  SessionInv'
<1> USE DEF SessionInv
<1>1. Enqueue([type |-> "count", room |-> task.room])
  BY DEF SendCount
<1> DEFINE event == [type |-> "count", room |-> task.room]
<1>2. event \in Events /\ queue \in Seq(Events)
  BY <1>1, SessionAssumption DEF Events, SessionTypes, StateTypes, GateHolds, SendCount
<1>3. /\ queue' \in Seq(Events)
      /\ DOMAIN queue = 1..Len(queue) /\ Len(queue) \in Nat
      /\ DOMAIN queue' = 1..(Len(queue) + 1)
      /\ \A k \in DOMAIN queue : k \in DOMAIN queue' /\ queue'[k] = queue[k]
      /\ queue'[Len(queue) + 1] = event
      /\ \A k \in DOMAIN queue' : k = Len(queue) + 1 \/ k \in DOMAIN queue
  BY <1>1, <1>2, EnqueuedEvent
<1>4. SessionTypes'
  BY <1>3 DEF SendCount, session_vars, relay_vars, SessionTypes
<1>5. StateTypes'
  BY <1>3 DEF SendCount, relay_vars, StateTypes
<1>6. Lifecycle'
  BY <1>3 DEF SendCount, session_vars, relay_vars, Lifecycle, Joined
<1>7. ComesAndGoes'
  BY <1>3 DEF SendCount, session_vars, relay_vars, ComesAndGoes, WillLeave,
     Lifecycle, Joined
<1>8. Asked'
  <2>1. \A k \in DOMAIN queue : queue[k].type \notin {"count", "purge"}
    BY DEF Asked, SendCount
  <2>2. \A k \in DOMAIN queue' : queue'[k].type \in {"count", "purge"} => k = Len(queue) + 1
    BY <1>3, <2>1
  <2>3. task'.step = event.type /\ task'.room = event.room
    BY DEF SendCount, StateTypes
  <2>4. \A j \in DOMAIN queue' : Registers(j, task.room)' => j # Len(queue) + 1
    BY <1>3 DEF Registers
  <2>5. \A j \in DOMAIN queue' : j <= Len(queue) + 1
    BY <1>3
  <2>6. \A j \in DOMAIN queue' : Registers(j, task.room)' => j < Len(queue) + 1
    BY <1>3, <2>4, <2>5
  <2>7. \A j, k \in DOMAIN queue' :
          queue'[k].type = "count" /\ Registers(j, task.room)' => j < k
    BY <2>2, <2>6
  <2> QED
    BY <1>3, <2>2, <2>3, <2>7 DEF Asked
<1>9. GateHolds'
  <2>1. \A r : Vacant(r) => Vacant(r)'
    BY <1>1, <1>2, VacantUnlessRegistered DEF SendCount, session_vars, relay_vars
  <2> QED
    BY <2>1 DEF GateHolds, Empty, SendCount, session_vars, relay_vars, StateTypes
<1>10. PurgedStay'
  <2>1. \A r : Vacant(r) => Vacant(r)'
    BY <1>1, <1>2, VacantUnlessRegistered DEF SendCount, session_vars, relay_vars
  <2> QED
    BY <2>1 DEF PurgedStay, Empty, SendCount, session_vars, relay_vars
<1> QED
  BY <1>4, <1>5, <1>6, <1>7, <1>8, <1>9, <1>10

(* There are some: the purge is refused.                                   *)
LEMMA AnswerActiveKeeps ==
  ASSUME SessionInv, AnswerActive
  PROVE  SessionInv'
<1> USE DEF SessionInv
<1>1. StateTypes'
  BY DEF AnswerActive, relay_vars, StateTypes
<1>2. Asked'
  BY DEF AnswerActive, Asked
<1>3. GateHolds'
  BY DEF AnswerActive, GateHolds
<1>4. SessionTypes' /\ Lifecycle' /\ ComesAndGoes' /\ PurgedStay'
  BY DEF AnswerActive, session_vars, relay_vars, SessionTypes, Lifecycle,
     Joined, ComesAndGoes, WillLeave, PurgedStay, Vacant, Empty, Registers
<1> QED
  BY <1>1, <1>2, <1>3, <1>4

(* The rows of the room are deleted.                                       *)
LEMMA DeleteRowsKeeps ==
  ASSUME SessionInv, DeleteRows
  PROVE  SessionInv'
<1> USE DEF SessionInv
<1>1. StateTypes'
  BY DEF DeleteRows, relay_vars, StateTypes
<1>2. Asked'
  BY DEF DeleteRows, Asked
<1>3. GateHolds'
  BY DEF DeleteRows, session_vars, relay_vars, GateHolds, Vacant, Registers
<1>4. SessionTypes' /\ Lifecycle' /\ ComesAndGoes' /\ PurgedStay'
  BY DEF DeleteRows, session_vars, relay_vars, SessionTypes, Lifecycle, Joined,
     ComesAndGoes, WillLeave, PurgedStay, Vacant, Empty, Registers
<1> QED
  BY <1>1, <1>2, <1>3, <1>4

(* They are not: the purge fails.                                          *)
LEMMA FailDeleteKeeps ==
  ASSUME SessionInv, FailDelete
  PROVE  SessionInv'
<1> USE DEF SessionInv
<1>1. StateTypes'
  BY DEF FailDelete, relay_vars, StateTypes
<1>2. Asked'
  BY DEF FailDelete, Asked
<1>3. GateHolds'
  BY DEF FailDelete, GateHolds
<1>4. SessionTypes' /\ Lifecycle' /\ ComesAndGoes' /\ PurgedStay'
  BY DEF FailDelete, session_vars, relay_vars, SessionTypes, Lifecycle, Joined,
     ComesAndGoes, WillLeave, PurgedStay, Vacant, Empty, Registers
<1> QED
  BY <1>1, <1>2, <1>3, <1>4

(* The relay is asked to purge the room.                                   *)
LEMMA SendPurgeKeeps ==
  ASSUME SessionInv, SendPurge
  PROVE  SessionInv'
<1> USE DEF SessionInv
<1>1. Enqueue([type |-> "purge", room |-> task.room])
  BY DEF SendPurge
<1> DEFINE event == [type |-> "purge", room |-> task.room]
<1>2. event \in Events /\ queue \in Seq(Events)
  BY <1>1, SessionAssumption DEF Events, SessionTypes, StateTypes, GateHolds, SendPurge
<1>3. /\ queue' \in Seq(Events)
      /\ DOMAIN queue = 1..Len(queue) /\ Len(queue) \in Nat
      /\ DOMAIN queue' = 1..(Len(queue) + 1)
      /\ \A k \in DOMAIN queue : k \in DOMAIN queue' /\ queue'[k] = queue[k]
      /\ queue'[Len(queue) + 1] = event
      /\ \A k \in DOMAIN queue' : k = Len(queue) + 1 \/ k \in DOMAIN queue
  BY <1>1, <1>2, EnqueuedEvent
<1>4. SessionTypes'
  BY <1>3 DEF SendPurge, session_vars, relay_vars, SessionTypes
<1>5. StateTypes'
  BY <1>3 DEF SendPurge, relay_vars, StateTypes
<1>6. Lifecycle'
  BY <1>3 DEF SendPurge, session_vars, relay_vars, Lifecycle, Joined
<1>7. ComesAndGoes'
  <2>1. SUFFICES ASSUME NEW t \in Sessions
                 PROVE  /\ \A k \in DOMAIN queue' :
                             queue'[k] = [type |-> "register", session |-> t] => WillLeave(t, k)'
                        /\ \A i \in Ids : connections'[i] = t => WillLeave(t, 0)'
    BY DEF ComesAndGoes
  <2>2. \A k : WillLeave(t, k) => WillLeave(t, k)'
    BY <1>1, <1>2, LeavesWhenEnqueued DEF SendPurge, session_vars
  <2> QED
    BY <1>3, <2>2 DEF ComesAndGoes, SendPurge, relay_vars
<1>8. Asked'
  <2>1. \A k \in DOMAIN queue : queue[k].type \notin {"count", "purge"}
    BY DEF Asked, SendPurge
  <2>2. \A k \in DOMAIN queue' : queue'[k].type \in {"count", "purge"} => k = Len(queue) + 1
    BY <1>3, <2>1
  <2>3. task'.step = event.type /\ task'.room = event.room
    BY DEF SendPurge, StateTypes
  <2>4. \A j \in DOMAIN queue' : Registers(j, task.room)' => j # Len(queue) + 1
    BY <1>3 DEF Registers
  <2>5. \A j \in DOMAIN queue' : j <= Len(queue) + 1
    BY <1>3
  <2>6. \A j \in DOMAIN queue' : Registers(j, task.room)' => j < Len(queue) + 1
    BY <1>3, <2>4, <2>5
  <2>7. \A j, k \in DOMAIN queue' :
          queue'[k].type = "count" /\ Registers(j, task.room)' => j < k
    BY <2>2, <2>6
  <2> QED
    BY <1>3, <2>2, <2>3, <2>7 DEF Asked
<1>9. GateHolds'
  <2>1. \A r : Vacant(r) => Vacant(r)'
    BY <1>1, <1>2, VacantUnlessRegistered DEF SendPurge, session_vars, relay_vars
  <2> QED
    BY <2>1 DEF GateHolds, Empty, SendPurge, session_vars, relay_vars, StateTypes
<1>10. PurgedStay'
  <2>1. \A r : Vacant(r) => Vacant(r)'
    BY <1>1, <1>2, VacantUnlessRegistered DEF SendPurge, session_vars, relay_vars
  <2> QED
    BY <2>1 DEF PurgedStay, Empty, SendPurge, session_vars, relay_vars
<1> QED
  BY <1>4, <1>5, <1>6, <1>7, <1>8, <1>9, <1>10

(* The purge ends and opens the gate.                                      *)
LEMMA FinishPurgeKeeps ==
  ASSUME SessionInv, FinishPurge
  PROVE  SessionInv'
<1> USE DEF SessionInv
<1>1. StateTypes'
  BY DEF FinishPurge, relay_vars, StateTypes, GateHolds, NoTask
<1>2. Lifecycle'
  BY DEF FinishPurge, session_vars, relay_vars, Lifecycle, Joined
<1>3. Asked'
  BY DEF FinishPurge, Asked
<1>4. GateHolds'
  BY DEF FinishPurge, GateHolds, NoTask
<1>5. PurgedStay'
  BY DEF FinishPurge, session_vars, relay_vars, PurgedStay, Vacant, Empty,
     Registers, GateHolds
<1>6. SessionTypes' /\ ComesAndGoes'
  BY DEF FinishPurge, session_vars, relay_vars, SessionTypes, ComesAndGoes,
     WillLeave
<1> QED
  BY <1>1, <1>2, <1>3, <1>4, <1>5, <1>6

-----------------------------------------------------------------------------
(* The inductive invariant.                                                *)

(* There are no sessions at first.                                         *)
LEMMA SessionInvInit == Init => SessionInv
<1> SUFFICES ASSUME Init PROVE SessionInv
  OBVIOUS
<1> USE SessionAssumption DEF Init
<1>1. queue \in Seq(Events) /\ DOMAIN queue = {}
  OBVIOUS
<1>2. SessionTypes
  BY <1>1 DEF SessionTypes, Phases
<1>3. StateTypes
  BY DEF StateTypes, NoTask
<1>4. Lifecycle /\ ComesAndGoes /\ Asked
  BY <1>1 DEF Lifecycle, ComesAndGoes, Asked, Joined
<1>5. GateHolds /\ PurgedStay
  BY DEF GateHolds, PurgedStay, NoTask
<1> QED
  BY <1>2, <1>3, <1>4, <1>5 DEF SessionInv

(* Every step keeps the invariant.                                         *)
LEMMA SessionInvNext == SessionInv /\ [Next]_vars => SessionInv'
<1> SUFFICES ASSUME SessionInv, [Next]_vars PROVE SessionInv'
  OBVIOUS
<1>1. ASSUME NEW s \in Sessions, SessionStep(s) PROVE SessionInv'
  BY <1>1, PassGateKeeps, FailHandshakeKeeps, SendRegisterKeeps, StartKeeps, SendReportKeeps,
     StopReaderKeeps, EndSessionKeeps, SendDisconnectKeeps, RecordEndedKeeps DEF SessionStep
<1>2. CASE RelayStep
  BY <1>2, HandleRegisterKeeps, HandleDisconnectKeeps, HandleReportKeeps, HandleCountKeeps,
     HandlePurgeKeeps DEF RelayStep
<1>3. CASE AdminStep
  BY <1>3, StartPurgeKeeps, SendCountKeeps, AnswerActiveKeeps, DeleteRowsKeeps, FailDeleteKeeps,
     SendPurgeKeeps, FinishPurgeKeeps DEF AdminStep, PurgeStep
<1>4. ASSUME NEW i \in Ids, Expire(i) \/ DeleteLastSeen(i) PROVE SessionInv'
  BY <1>4, ExpireKeeps, DeleteLastSeenKeeps
<1>5. CASE UNCHANGED vars
  <2> USE <1>5 DEF vars, session_vars, relay_vars, admin_vars, SessionInv
  <2>1. SessionTypes' /\ StateTypes'
    BY DEF SessionTypes, StateTypes
  <2>2. Lifecycle' /\ ComesAndGoes' /\ Asked'
    BY DEF Lifecycle, Joined, ComesAndGoes, WillLeave, Asked, Registers
  <2>3. GateHolds' /\ PurgedStay'
    BY DEF GateHolds, PurgedStay, Vacant, Registers, Empty
  <2> QED
    BY <2>1, <2>2, <2>3
<1> QED
  BY <1>1, <1>2, <1>3, <1>4, <1>5 DEF Next

(* What the relay, the queue, the sessions and the administrator's request *)
(* agree on at any time (Relay::handle_event, serve_web_map_session,       *)
(* delete_room_data).                                                      *)
THEOREM SessionInvariant == Spec => []SessionInv
<1>1. Init => SessionInv
  BY SessionInvInit
<1>2. SessionInv /\ [Next]_vars => SessionInv'
  BY SessionInvNext
<1> QED
  BY <1>1, <1>2, PTL DEF Spec

-----------------------------------------------------------------------------
(* What follows.                                                           *)

(* Once the rows of a room have been deleted, nobody is in the room, and   *)
(* nobody is about to be, so PurgeRoom removes the rest (delete_room_data, *)
(* Relay::handle_event).                                                   *)
THEOREM RemovalIsWhole == Spec => []PurgeIsWhole
<1>1. SessionInv => PurgeIsWhole
  <2> SUFFICES ASSUME SessionInv, task.step \in {"deleted", "purge"}
               PROVE  /\ ~RoomActive(task.room)
                      /\ \A event \in Range(queue) :
                           event.type = "register" => room[event.session] # task.room
    BY DEF PurgeIsWhole
  <2>1. Vacant(task.room)
    BY DEF SessionInv, GateHolds
  <2> QED
    BY <2>1 DEF Vacant, Registers, RoomActive, Range
<1> QED
  BY <1>1, SessionInvariant, PTL

(* What a removed room held in the relay does not come back before a       *)
(* session joins it, whatever reports are still under way (apply_report).  *)
THEOREM RemovedStaysRemoved == Spec => []PurgedRoomsHoldNothing
<1>1. SessionInv => PurgedRoomsHoldNothing
  BY DEF SessionInv, PurgedStay, Empty, PurgedRoomsHoldNothing
<1> QED
  BY <1>1, SessionInvariant, PTL

(* The relay keeps no connection of a session that has ended and told so,  *)
(* whoever shares its id (Register and Disconnect in Relay::handle_event). *)
THEOREM ConnectionsEnd == Spec => []NoLeakedConnection
<1>1. SessionInv => NoLeakedConnection
  <2> SUFFICES ASSUME SessionInv, NEW i \in Ids, connections[i] # Nobody
               PROVE  \/ phase[connections[i]] \in {"registered", "open", "closing"}
                      \/ [type |-> "disconnect", session |-> connections[i]] \in Range(queue)
    BY DEF NoLeakedConnection
  <2>1. WillLeave(connections[i], 0)
    BY DEF SessionInv, SessionTypes, ComesAndGoes
  <2> QED
    BY <2>1 DEF WillLeave, Range
<1> QED
  BY <1>1, SessionInvariant, PTL
=============================================================================
