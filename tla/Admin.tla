------------------------------- MODULE Admin -------------------------------
(***************************************************************************)
(* The management API's own state (src/src/admin.rs): login sessions, the  *)
(* audit log that is read page by page, and the deletion of tab history    *)
(* records, room after room.                                               *)
(*                                                                         *)
(* Every statement is a step.  Tokens are who they were given to; the TTL  *)
(* is that of the environment, which does not change while it runs.        *)
(***************************************************************************)
EXTENDS Integers, Sequences, FiniteSets, FiniteSetsExt

CONSTANTS
  Tokens,
  Workers,         \* requests under way
  SessionTtl,      \* session_ttl_sec
  EventTypes,      \* of audit rows
  PageLimits,      \* limit, from 1 to 500
  Records,         \* what may be deleted: a room and a player
  RoomOfRecord,
  MaxClock, MaxEvents, MaxDeletions  \* bounds of the model

ASSUME AdminAssumption ==
  /\ SessionTtl \in Nat \ {0} /\ PageLimits \subseteq Nat \ {0}
  /\ MaxClock \in Nat /\ MaxEvents \in Nat /\ MaxDeletions \in Nat

VARIABLES
  time,
  admin_sessions,  \* per token: [expires, ended], if there is a row
  request,         \* per worker: the authentication under way
  audit_events,    \* rows [id, type]
  last_id,
  walk,            \* a client's walk over the pages
  walked,          \* the rows it was shown (history)
  tab_entries,     \* tab_history_entries
  deletion,        \* per worker: the deletion under way
  tally            \* per record: times removed, audited, left unaudited (history)

login_vars == <<admin_sessions, request>>
audit_vars == <<audit_events, last_id, walk, walked>>
deletion_vars == <<tab_entries, deletion, tally>>
administration_vars == <<time, login_vars, audit_vars, deletion_vars>>

NoRequest == [step |-> "idle", token |-> CHOOSE t \in Tokens : TRUE, now |-> 0, rows |-> {}, late |-> FALSE]
NoWalk == [open |-> FALSE, before |-> 0, type |-> CHOOSE t \in EventTypes : TRUE, due |-> {}]
NoDeletion == [step |-> "idle", asked |-> {}, rooms |-> {}, deleted |-> {}]
RecordsOf(room) == {record \in Records : RoomOfRecord[record] = room}
RoomsOf(records) == {RoomOfRecord[record] : record \in records}

AdminInit ==
  /\ time = 0
  /\ admin_sessions = [t \in Tokens |-> {}]
  /\ request = [w \in Workers |-> NoRequest]
  /\ audit_events = {} /\ last_id = 0 /\ walk = NoWalk /\ walked = <<>>
  /\ tab_entries = Records /\ deletion = [w \in Workers |-> NoDeletion]
  /\ tally = [record \in Records |-> [removed |-> 0, audited |-> 0, unaudited |-> 0]]

PassAdminTime ==
  /\ time < MaxClock /\ time' = time + 1
  /\ UNCHANGED <<login_vars, audit_vars, deletion_vars>>

-----------------------------------------------------------------------------
(* Login sessions.                                                         *)

(* A login makes a token of its own.  If the INSERT fails it is refused.   *)
Login(t) ==
  /\ admin_sessions[t] = {}
  /\ admin_sessions' = [admin_sessions EXCEPT ![t] = {[expires |-> time + SessionTtl, ended |-> "no"]}]
  /\ UNCHANGED <<time, request, audit_vars, deletion_vars>>

(* Whatever the row says, it has ended now by logging out, unless the      *)
(* UPDATE fails, which nobody is told.                                     *)
Logout(t) ==
  /\ admin_sessions' = [admin_sessions EXCEPT ![t] = {[row EXCEPT !.ended = "logout"] : row \in @}]
  /\ UNCHANGED <<time, request, audit_vars, deletion_vars>>

Over(rows) == \E row \in rows : row.ended # "no"

(* authenticate: the clock, then the row, ...                              *)
ReadClock(w, t) ==
  /\ request[w].step = "idle" /\ admin_sessions[t] # {}
  /\ request' = [request EXCEPT ![w] =
       [step |-> "clock", token |-> t, now |-> time, rows |-> {}, late |-> Over(admin_sessions[t])]]
  /\ UNCHANGED <<time, admin_sessions, audit_vars, deletion_vars>>

(* ... which may fail, and the request is refused, ...                     *)
Select(w) ==
  /\ request[w].step = "clock"
  /\ \/ request' = [request EXCEPT ![w].step = "row", ![w].rows = admin_sessions[request[w].token]]
     \/ request' = [request EXCEPT ![w].step = "refused"]
  /\ UNCHANGED <<time, admin_sessions, audit_vars, deletion_vars>>

(* Mutant: the refresh does not look whether the session has ended.        *)
RefreshedAlways(row, now) == [row EXCEPT !.expires = now + SessionTtl]

(* UPDATE ... WHERE ended_at IS NULL                                       *)
Refreshed(row, now) == IF row.ended = "no" THEN [row EXCEPT !.expires = now + SessionTtl] ELSE row
Expired(row) == IF row.ended = "no" THEN [row EXCEPT !.ended = "expired"] ELSE row

(* ... then refused, or ended as expired, or let in and its expiry moved:  *)
(* by statements that look at the row as it now is, and whose failure      *)
(* changes nothing of the answer.                                          *)
Decide(w) ==
  /\ request[w].step = "row"
  /\ \E row \in request[w].rows :
       LET t == request[w].token
           now == request[w].now
       IN \/ /\ row.ended # "no"
             /\ request' = [request EXCEPT ![w].step = "refused"] /\ UNCHANGED admin_sessions
          \/ /\ row.ended = "no" /\ row.expires <= now
             /\ request' = [request EXCEPT ![w].step = "refused"]
             /\ \/ admin_sessions' = [admin_sessions EXCEPT ![t] = {Expired(it) : it \in @}]
                \/ UNCHANGED admin_sessions
          \/ /\ row.ended = "no" /\ row.expires > now
             /\ request' = [request EXCEPT ![w].step = "let in"]
             /\ \/ admin_sessions' = [admin_sessions EXCEPT ![t] = {Refreshed(it, now) : it \in @}]
                \/ UNCHANGED admin_sessions
  /\ UNCHANGED <<time, audit_vars, deletion_vars>>

Respond(w) ==
  /\ request[w].step \in {"refused", "let in"}
  /\ request' = [request EXCEPT ![w] = NoRequest]
  /\ UNCHANGED <<time, admin_sessions, audit_vars, deletion_vars>>

-----------------------------------------------------------------------------
(* The audit log.                                                          *)

(* record_audit; an INSERT that fails leaves no row and no number, and     *)
(* nobody is told.                                                         *)
RecordAudit(type) ==
  /\ last_id < MaxEvents /\ last_id' = last_id + 1
  /\ audit_events' = audit_events \cup {[id |-> last_id + 1, type |-> type]}
  /\ UNCHANGED <<time, login_vars, walk, walked, deletion_vars>>

(* The purge of a room takes its rows.                                     *)
PurgeAudit(row) ==
  /\ audit_events' = audit_events \ {row}
  /\ UNCHANGED <<time, login_vars, last_id, walk, walked, deletion_vars>>

(* Mutant: the next page begins with the last row of this one.             *)
MatchesFrom(type, before) == {row \in audit_events : row.type = type /\ (before = 0 \/ row.id <= before)}

(* type = filter AND id < beforeId                                         *)
Matches(type, before) == {row \in audit_events : row.type = type /\ (before = 0 \/ row.id < before)}

(* The newest of them, at most a page.                                     *)
Page(type, before, limit) ==
  {row \in Matches(type, before) :
     Cardinality({other \in Matches(type, before) : other.id > row.id}) < limit}

StartWalk(type) ==
  /\ ~walk.open /\ walked = <<>>
  /\ walk' = [open |-> TRUE, before |-> 0, type |-> type, due |-> Matches(type, 0)]
  /\ UNCHANGED <<time, login_vars, audit_events, last_id, walked, deletion_vars>>

(* A full page names the row that the next one begins after.               *)
ReadPage(limit) ==
  /\ walk.open
  /\ LET page == Page(walk.type, walk.before, limit) IN
     /\ walked' = Append(walked, page)
     /\ walk' = IF Cardinality(page) = limit
                THEN [walk EXCEPT !.before = Min({row.id : row \in page})]
                ELSE [walk EXCEPT !.open = FALSE]
  /\ UNCHANGED <<time, login_vars, audit_events, last_id, deletion_vars>>

-----------------------------------------------------------------------------
(* Deletion of tab history records.                                        *)
DeleteTabHistory(w, asked) ==
  /\ deletion[w].step = "idle" /\ asked # {}
  /\ deletion' = [deletion EXCEPT ![w] =
       [step |-> "running", asked |-> asked, rooms |-> RoomsOf(asked), deleted |-> {}]]
  /\ UNCHANGED <<time, login_vars, audit_vars, tab_entries, tally>>

(* Mutant: what was asked for is listed, whoever has deleted it.           *)
ListAsAsked(w, room) ==
  /\ deletion[w].step = "running" /\ room \in deletion[w].rooms
  /\ LET asked == deletion[w].asked \cap RecordsOf(room) IN
     /\ tab_entries' = tab_entries \ asked
     /\ deletion' = [deletion EXCEPT ![w].rooms = @ \ {room}, ![w].deleted = @ \cup asked]
     /\ tally' = [r \in Records |-> IF r \in asked \cap tab_entries
                                    THEN [tally[r] EXCEPT !.removed = @ + 1] ELSE tally[r]]
  /\ UNCHANGED <<time, login_vars, audit_vars>>

(* One transaction per room, which tells what it has deleted.              *)
DeleteInRoom(w, room) ==
  /\ deletion[w].step = "running" /\ room \in deletion[w].rooms
  /\ LET gone == deletion[w].asked \cap RecordsOf(room) \cap tab_entries IN
     /\ tab_entries' = tab_entries \ gone
     /\ deletion' = [deletion EXCEPT ![w].rooms = @ \ {room}, ![w].deleted = @ \cup gone]
     /\ tally' = [r \in Records |-> IF r \in gone THEN [tally[r] EXCEPT !.removed = @ + 1] ELSE tally[r]]
  /\ UNCHANGED <<time, login_vars, audit_vars>>

(* A room fails: the request ends there, and leaves no audit row of the    *)
(* rooms before it.                                                        *)
DeletionFails(w) ==
  /\ deletion[w].step = "running" /\ deletion[w].rooms # {}
  /\ deletion' = [deletion EXCEPT ![w] = NoDeletion]
  /\ tally' = [r \in Records |-> IF r \in deletion[w].deleted
                                 THEN [tally[r] EXCEPT !.unaudited = @ + 1] ELSE tally[r]]
  /\ UNCHANGED <<time, login_vars, audit_vars, tab_entries>>

(* The audit row lists what was deleted, not what was asked for.  The      *)
(* answer is the same if its INSERT fails.                                 *)
AuditDeletion(w) ==
  /\ deletion[w].step = "running" /\ deletion[w].rooms = {}
  /\ deletion' = [deletion EXCEPT ![w] = NoDeletion]
  /\ \E field \in {"audited", "unaudited"} :
       tally' = [r \in Records |-> IF r \in deletion[w].deleted
                                   THEN [tally[r] EXCEPT ![field] = @ + 1] ELSE tally[r]]
  /\ UNCHANGED <<time, login_vars, audit_vars, tab_entries>>

(* A player is seen again.                                                 *)
AddEntry(record) ==
  /\ record \notin tab_entries /\ tally[record].removed < MaxDeletions
  /\ tab_entries' = tab_entries \cup {record}
  /\ UNCHANGED <<time, login_vars, audit_vars, deletion, tally>>

-----------------------------------------------------------------------------
LoginNext ==
  \/ PassAdminTime
  \/ \E t \in Tokens : Login(t) \/ Logout(t)
  \/ \E w \in Workers, t \in Tokens : ReadClock(w, t)
  \/ \E w \in Workers : Select(w) \/ Decide(w) \/ Respond(w)

AuditNext ==
  \/ \E type \in EventTypes : RecordAudit(type) \/ StartWalk(type)
  \/ \E row \in audit_events : PurgeAudit(row)
  \/ \E limit \in PageLimits : ReadPage(limit)

DeletionNext ==
  \/ \E w \in Workers, asked \in SUBSET Records : DeleteTabHistory(w, asked)
  \/ \E w \in Workers, room \in RoomsOf(Records) : DeleteInRoom(w, room)
  \/ \E w \in Workers : DeletionFails(w) \/ AuditDeletion(w)
  \/ \E record \in Records : AddEntry(record)

AdminNext == LoginNext \/ AuditNext \/ DeletionNext

AdminSpec == AdminInit /\ [][AdminNext]_administration_vars

-----------------------------------------------------------------------------
(* A session that has ended stays ended, with the expiry it had: no slow   *)
(* request of before moves it or brings the session back (authenticate);   *)
(* and no request that begins afterwards is let in.                        *)
EndedRowsStay(rows, later) ==
  \A row \in rows : row.ended # "no" =>
    \E it \in later : it.ended # "no" /\ it.expires = row.expires

EndedSessionsAreRefused ==
  [][/\ \A w \in Workers : request'[w].late => request'[w].step # "let in"
     /\ \A t \in Tokens : EndedRowsStay(admin_sessions[t], admin_sessions'[t])]_login_vars

(* A walk over the pages of the audit log shows every row that matched     *)
(* when it began and is still there, and none twice, whatever is recorded  *)
(* or purged meanwhile.                                                    *)
AuditWalkIsComplete ==
  /\ walked # <<>> /\ ~walk.open =>
       walk.due \cap audit_events \subseteq UNION {walked[i] : i \in DOMAIN walked}
  /\ \A i, j \in DOMAIN walked : i # j => walked[i] \cap walked[j] = {}

(* Each removal of a record is listed by the audit row of one request      *)
(* only, whoever else asked for it at the same time, and what a row lists  *)
(* was removed by its own request.  A removal is missing only if that      *)
(* request failed at a later room or could not write its row.              *)
DeletionsAreListedOnce ==
  \A record \in Records :
    tally[record].removed = tally[record].audited + tally[record].unaudited
      + Cardinality({w \in Workers : record \in deletion[w].deleted})

(* A reader of the log misses no row, and no row tells of a removal that   *)
(* was another request's.                                                  *)
AuditIsSound == AuditWalkIsComplete /\ DeletionsAreListedOnce
=============================================================================
