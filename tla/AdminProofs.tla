---------------------------- MODULE AdminProofs ----------------------------
(***************************************************************************)
(* Proofs about the management API: login sessions, the audit log and the  *)
(* deletion of tab history (Admin), the page of room data (RoomData), and  *)
(* the accounting of traffic up to what is shown of it (Metrics).          *)
(***************************************************************************)
EXTENDS Admin, RoomData, Metrics, DataInduction, FiniteSetTheorems, TLAPS

-----------------------------------------------------------------------------
(* Login sessions.                                                         *)

SessionRows == [expires : Nat, ended : {"no", "logout", "expired"}]

RequestRecords ==
  [step : {"idle", "clock", "row", "refused", "let in"},
   token : Tokens \cup {NoRequest.token}, now : Nat, rows : SUBSET SessionRows, late : BOOLEAN]

LoginTypes ==
  /\ time \in Nat
  /\ admin_sessions \in [Tokens -> SUBSET SessionRows]
  /\ request \in [Workers -> RequestRecords]

(* A token has one row; whose row had ended before the clock was read, its *)
(* row has ended still, and so had the row that is read.                   *)
LateRowsAreOver ==
  \A w \in Workers : request[w].step # "idle" =>
    /\ request[w].token \in Tokens
    /\ \A a, b \in request[w].rows : a = b
    /\ request[w].late => Over(admin_sessions[request[w].token])
    /\ request[w].late /\ request[w].step = "row" => Over(request[w].rows)

(* And it is not let in.                                                   *)
LateAreRefused == \A w \in Workers : request[w].late => request[w].step # "let in"

LoginInv ==
  /\ LoginTypes
  /\ \A t \in Tokens : \A a, b \in admin_sessions[t] : a = b
  /\ LateRowsAreOver
  /\ LateAreRefused

(* What may become of the rows of tokens: rows that were over stay so with *)
(* their expiry, and one row stays one row.                                *)
RowsGoOn ==
  /\ time' \in Nat
  /\ admin_sessions' \in [Tokens -> SUBSET SessionRows]
  /\ \A t \in Tokens :
       /\ \A a, b \in admin_sessions'[t] : a = b
       /\ EndedRowsStay(admin_sessions[t], admin_sessions'[t])

(* Rows that stay over are over.                                           *)
LEMMA OverStays ==
  ASSUME NEW rows, NEW later, EndedRowsStay(rows, later), Over(rows)
  PROVE  Over(later)
BY DEF EndedRowsStay, Over

(* What a request may become.                                              *)
SoundRequest(w) ==
  request[w].step # "idle" =>
    /\ request[w].token \in Tokens
    /\ \A a, b \in request[w].rows : a = b
    /\ request[w].late => /\ Over(admin_sessions[request[w].token])
                          /\ request[w].step = "row" => Over(request[w].rows)
                          /\ request[w].step # "let in"

(* Every request is sound.                                                 *)
LEMMA SoundRequests ==
  ASSUME LoginInv, NEW w \in Workers
  PROVE  SoundRequest(w)
BY Zenon DEF LoginInv, LateRowsAreOver, LateAreRefused, SoundRequest

(* A step that keeps the rows going and its request sound keeps the        *)
(* invariant.                                                              *)
LEMMA SessionsGoOn ==
  ASSUME LoginInv, RowsGoOn, request' \in [Workers -> RequestRecords],
         \A w \in Workers : request'[w] = request[w] \/ SoundRequest(w)'
  PROVE  LoginInv'
<1>1. LoginTypes'
  BY DEF LoginTypes, RowsGoOn
<1>2. (\A u \in Tokens : \A a, b \in admin_sessions[u] : a = b)'
  BY DEF RowsGoOn
<1>3. ASSUME NEW w \in Workers, request'[w] = request[w]
      PROVE  SoundRequest(w)'
  <2>1. SoundRequest(w)
    BY SoundRequests
  <2>2. \A t \in Tokens : Over(admin_sessions[t]) => Over(admin_sessions'[t])
    BY OverStays DEF RowsGoOn
  <2> QED
    BY <1>3, <2>1, <2>2, Zenon DEF SoundRequest
<1>4. \A w \in Workers : SoundRequest(w)'
  BY <1>3
<1>5. request' \in [Workers -> RequestRecords]
  OBVIOUS
<1>8. ASSUME NEW w \in Workers, request'[w].late PROVE request'[w].step # "let in"
  BY <1>4, <1>8 DEF SoundRequest
<1>6. LateRowsAreOver'
  BY <1>4, Zenon DEF SoundRequest, LateRowsAreOver
<1>7. LateAreRefused'
  BY <1>8 DEF LateAreRefused
<1> QED
  BY <1>1, <1>2, <1>6, <1>7 DEF LoginInv

(* Steps that change the row of one token, or none.                        *)
LEMMA OneTokensRows ==
  ASSUME LoginInv, NEW t \in Tokens, NEW rows \in SUBSET SessionRows,
         admin_sessions' = [admin_sessions EXCEPT ![t] = rows], time' = time,
         \A a, b \in rows : a = b,
         EndedRowsStay(admin_sessions[t], rows)
  PROVE  RowsGoOn
<1>1. \A u \in Tokens : admin_sessions'[u] = IF u = t THEN rows ELSE admin_sessions[u]
  BY DEF LoginInv, LoginTypes
<1>2. time' \in Nat /\ admin_sessions' \in [Tokens -> SUBSET SessionRows]
  BY DEF LoginInv, LoginTypes
<1>3. \A u \in Tokens : \A a, b \in admin_sessions'[u] : a = b
  BY <1>1 DEF LoginInv
<1>4. ASSUME NEW u \in Tokens PROVE EndedRowsStay(admin_sessions[u], admin_sessions'[u])
  <2>1. CASE u = t
    <3>1. admin_sessions'[u] = rows
      BY <1>1, <2>1
    <3> QED
      BY <2>1, <3>1
  <2>2. CASE u # t
    <3>1. admin_sessions'[u] = admin_sessions[u]
      BY <1>1, <2>2
    <3> QED
      BY <3>1, Zenon DEF EndedRowsStay
  <2> QED
    BY <2>1, <2>2
<1> QED
  BY <1>2, <1>3, <1>4 DEF RowsGoOn

(* Rows that do not change go on.                                          *)
LEMMA RowsAsTheyAre ==
  ASSUME LoginInv, UNCHANGED <<time, admin_sessions>>
  PROVE  RowsGoOn
<1>1. \A t \in Tokens : EndedRowsStay(admin_sessions[t], admin_sessions'[t])
  BY Zenon DEF EndedRowsStay
<1> QED
  BY <1>1 DEF LoginInv, LoginTypes, RowsGoOn

(* A login adds the row of a new token.                                    *)
LEMMA LoginKeepsSessions ==
  ASSUME AdminAssumption, LoginInv, NEW t \in Tokens, Login(t)
  PROVE  LoginInv' /\ RowsGoOn
<1> DEFINE rows == {[expires |-> time + SessionTtl, ended |-> "no"]}
<1>0. time \in Nat /\ SessionTtl \in Nat
  BY DEF LoginInv, LoginTypes, AdminAssumption
<1>1. rows \in SUBSET SessionRows
  BY <1>0 DEF SessionRows
<1>2. EndedRowsStay(admin_sessions[t], rows)
  BY DEF Login, EndedRowsStay
<1>3. RowsGoOn
  BY <1>1, <1>2, OneTokensRows DEF Login
<1> QED
  BY <1>3, SessionsGoOn DEF Login, LoginInv, LoginTypes

(* A logout ends a row.                                                    *)
LEMMA LogoutKeepsSessions ==
  ASSUME AdminAssumption, LoginInv, NEW t \in Tokens, Logout(t)
  PROVE  LoginInv' /\ RowsGoOn
<1> DEFINE rows == {[row EXCEPT !.ended = "logout"] : row \in admin_sessions[t]}
<1>1. admin_sessions[t] \in SUBSET SessionRows
  BY DEF LoginInv, LoginTypes
<1>2. rows \in SUBSET SessionRows
  BY <1>1 DEF SessionRows
<1>3. ASSUME NEW row \in admin_sessions[t]
      PROVE  \E it \in rows : it.ended # "no" /\ it.expires = row.expires
  <2>1. /\ [row EXCEPT !.ended = "logout"].ended # "no"
        /\ [row EXCEPT !.ended = "logout"].expires = row.expires
    BY <1>1 DEF SessionRows
  <2> QED
    BY <2>1
<1>4. EndedRowsStay(admin_sessions[t], rows)
  <2> HIDE DEF rows
  <2> QED
    BY <1>3 DEF EndedRowsStay
<1>5. \A a, b \in rows : a = b
  BY DEF LoginInv
<1>6. admin_sessions' = [admin_sessions EXCEPT ![t] = rows]
  BY <1>1 DEF Logout, LoginInv, LoginTypes
<1>7. RowsGoOn
  <2> HIDE DEF rows
  <2> QED
    BY <1>2, <1>4, <1>5, <1>6, OneTokensRows DEF Logout
<1> QED
  BY <1>7, SessionsGoOn DEF Logout, LoginInv, LoginTypes

(* A request reads the clock before it reads the row.                      *)
LEMMA ReadClockKeepsSessions ==
  ASSUME LoginInv, NEW w \in Workers, NEW t \in Tokens, ReadClock(w, t)
  PROVE  LoginInv' /\ RowsGoOn
<1> DEFINE r == [step |-> "clock", token |-> t, now |-> time, rows |-> {},
                 late |-> Over(admin_sessions[t])]
<1>1. Over(admin_sessions[t]) \in BOOLEAN /\ time \in Nat
  BY DEF Over, LoginInv, LoginTypes
<1>2. r \in RequestRecords
  BY <1>1 DEF RequestRecords
<1>3. /\ request' \in [Workers -> RequestRecords] /\ request'[w] = r
      /\ \A v \in Workers \ {w} : request'[v] = request[v]
  BY <1>2 DEF ReadClock, LoginInv, LoginTypes
<1>4. RowsGoOn
  BY RowsAsTheyAre DEF ReadClock
<1>5. SoundRequest(w)'
  BY <1>3 DEF SoundRequest, ReadClock
<1> QED
  BY <1>3, <1>4, <1>5, SessionsGoOn

(* A request that has read the row, or could not.                          *)
LEMMA SelectKeepsSessions ==
  ASSUME LoginInv, NEW w \in Workers, Select(w)
  PROVE  LoginInv' /\ RowsGoOn
<1> DEFINE t == request[w].token
           read == [request[w] EXCEPT !.step = "row", !.rows = admin_sessions[t]]
           refused == [request[w] EXCEPT !.step = "refused"]
<1>1. request[w] \in RequestRecords /\ request[w].step = "clock"
  BY DEF LoginInv, LoginTypes, Select
<1>2. /\ t \in Tokens /\ (request[w].late => Over(admin_sessions[t]))
      /\ \A a, b \in admin_sessions[t] : a = b
      /\ \A a, b \in request[w].rows : a = b
  BY <1>1 DEF LoginInv, LateRowsAreOver
<1>3. admin_sessions[t] \in SUBSET SessionRows
  BY <1>2 DEF LoginInv, LoginTypes
<1>4. /\ read \in RequestRecords /\ refused \in RequestRecords
      /\ read.step = "row" /\ read.token = t /\ read.rows = admin_sessions[t]
      /\ read.late = request[w].late
      /\ refused.step = "refused" /\ refused.token = t /\ refused.rows = request[w].rows
      /\ refused.late = request[w].late
  BY <1>1, <1>3 DEF RequestRecords
<1>5. PICK r \in {read, refused} : request' = [request EXCEPT ![w] = r]
  BY DEF Select
<1>6. /\ request' \in [Workers -> RequestRecords] /\ request'[w] = r
      /\ \A v \in Workers \ {w} : request'[v] = request[v]
  BY <1>4, <1>5 DEF LoginInv, LoginTypes
<1>7. RowsGoOn
  BY RowsAsTheyAre DEF Select
<1>8. SoundRequest(w)'
  <2>1. admin_sessions' = admin_sessions
    BY DEF Select
  <2> HIDE DEF t, read, refused
  <2> QED
    BY <1>2, <1>4, <1>5, <1>6, <2>1 DEF SoundRequest
<1> QED
  BY <1>6, <1>7, <1>8, SessionsGoOn

(* A request is answered.                                                  *)
LEMMA RespondKeepsSessions ==
  ASSUME LoginInv, NEW w \in Workers, Respond(w)
  PROVE  LoginInv' /\ RowsGoOn
<1>1. NoRequest \in RequestRecords /\ NoRequest.step = "idle"
  BY Zenon DEF NoRequest, RequestRecords
<1>2. /\ request' \in [Workers -> RequestRecords] /\ request'[w] = NoRequest
      /\ \A v \in Workers \ {w} : request'[v] = request[v]
  BY <1>1 DEF Respond, LoginInv, LoginTypes
<1>3. RowsGoOn
  BY RowsAsTheyAre DEF Respond
<1>4. SoundRequest(w)'
  BY <1>1, <1>2 DEF SoundRequest
<1> QED
  BY <1>2, <1>3, <1>4, SessionsGoOn

(* What the two UPDATEs write is a row, and an ended one is left alone.    *)
LEMMA RowsAreWritten ==
  ASSUME NEW row \in SessionRows, NEW now \in Nat, SessionTtl \in Nat
  PROVE  /\ Expired(row) \in SessionRows /\ Refreshed(row, now) \in SessionRows
         /\ row.ended # "no" => Expired(row) = row /\ Refreshed(row, now) = row
<1>1. now + SessionTtl \in Nat
  OBVIOUS
<1>2. [row EXCEPT !.expires = now + SessionTtl] \in SessionRows
  BY <1>1 DEF SessionRows
<1>3. [row EXCEPT !.ended = "expired"] \in SessionRows
  BY DEF SessionRows
<1> QED
  BY <1>2, <1>3 DEF Expired, Refreshed

(* A request is let in, and its row renewed, or refused.                   *)
LEMMA DecideKeepsSessions ==
  ASSUME AdminAssumption, LoginInv, NEW w \in Workers, Decide(w)
  PROVE  LoginInv' /\ RowsGoOn
<1> DEFINE t == request[w].token
           now == request[w].now
           expired == {Expired(it) : it \in admin_sessions[t]}
           refreshed == {Refreshed(it, now) : it \in admin_sessions[t]}
<1>1. /\ request[w] \in RequestRecords /\ request[w].step = "row" /\ time' = time
      /\ request \in [Workers -> RequestRecords]
  BY DEF LoginInv, LoginTypes, Decide
<1>2. /\ t \in Tokens /\ now \in Nat /\ SessionTtl \in Nat
      /\ request[w].rows \in SUBSET SessionRows
      /\ \A a, b \in request[w].rows : a = b
      /\ request[w].late => Over(admin_sessions[t]) /\ Over(request[w].rows)
  BY <1>1 DEF LoginInv, LateRowsAreOver, RequestRecords, AdminAssumption
<1>3. /\ admin_sessions[t] \in SUBSET SessionRows
      /\ \A a, b \in admin_sessions[t] : a = b
      /\ admin_sessions \in [Tokens -> SUBSET SessionRows]
  BY <1>2 DEF LoginInv, LoginTypes
<1>4. PICK row \in request[w].rows : \E step \in {"refused", "let in"} :
        /\ request' = [request EXCEPT ![w].step = step]
        /\ step = "let in" => row.ended = "no"
        /\ \/ UNCHANGED admin_sessions
           \/ admin_sessions' = [admin_sessions EXCEPT ![t] = expired]
           \/ admin_sessions' = [admin_sessions EXCEPT ![t] = refreshed]
  <2>1. /\ [admin_sessions EXCEPT ![t] = {Expired(it) : it \in @}]
             = [admin_sessions EXCEPT ![t] = expired]
        /\ [admin_sessions EXCEPT ![t] = {Refreshed(it, now) : it \in @}]
             = [admin_sessions EXCEPT ![t] = refreshed]
    BY <1>2, <1>3
  <2> HIDE DEF expired, refreshed
  <2> QED
    BY <2>1 DEF Decide
<1>5. PICK step \in {"refused", "let in"} :
        /\ request' = [request EXCEPT ![w].step = step]
        /\ step = "let in" => row.ended = "no"
  BY <1>4
<1>6. /\ request' \in [Workers -> RequestRecords]
      /\ \A v \in Workers \ {w} : request'[v] = request[v]
      /\ request'[w].step = step /\ request'[w].token = t
      /\ request'[w].rows = request[w].rows /\ request'[w].late = request[w].late
  <2>1. [request[w] EXCEPT !.step = step] \in RequestRecords
    BY <1>1 DEF RequestRecords
  <2>2. request'[w] = [request[w] EXCEPT !.step = step]
    BY <1>1, <1>5
  <2>3. /\ request'[w].step = step /\ request'[w].token = t
        /\ request'[w].rows = request[w].rows /\ request'[w].late = request[w].late
    BY <1>1, <2>2 DEF RequestRecords
  <2>4. /\ request' \in [Workers -> RequestRecords]
        /\ \A v \in Workers \ {w} : request'[v] = request[v]
    BY <1>1, <1>5, <2>1
  <2> QED
    BY <2>3, <2>4
<1>7. ASSUME NEW rows \in {expired, refreshed}
      PROVE  /\ rows \in SUBSET SessionRows /\ \A a, b \in rows : a = b
             /\ EndedRowsStay(admin_sessions[t], rows)
  <2>1. \A it \in admin_sessions[t] :
          /\ Expired(it) \in SessionRows /\ Refreshed(it, now) \in SessionRows
          /\ it.ended # "no" => Expired(it) = it /\ Refreshed(it, now) = it
    BY <1>2, <1>3, RowsAreWritten
  <2>2. rows \in SUBSET SessionRows /\ \A a, b \in rows : a = b
    BY <1>3, <2>1
  <2>3. ASSUME NEW it \in admin_sessions[t], it.ended # "no"
        PROVE  it \in rows
    <3>1. Expired(it) \in expired /\ Refreshed(it, now) \in refreshed
      OBVIOUS
    <3>2. Expired(it) = it /\ Refreshed(it, now) = it
      BY <2>1, <2>3
    <3>3. rows = expired \/ rows = refreshed
      OBVIOUS
    <3>4. it \in expired /\ it \in refreshed
      BY <3>1, <3>2, Zenon
    <3> QED
      BY <3>3, <3>4, Zenon
  <2> HIDE DEF expired, refreshed
  <2> QED
    BY <2>2, <2>3 DEF EndedRowsStay
<1> HIDE DEF t, now, expired, refreshed
<1>8. RowsGoOn
  <2>1. CASE UNCHANGED admin_sessions
    BY <1>1, <2>1, RowsAsTheyAre
  <2>2. CASE \E rows \in {expired, refreshed} :
               admin_sessions' = [admin_sessions EXCEPT ![t] = rows]
    BY <1>1, <1>2, <1>7, <2>2, OneTokensRows
  <2> QED
    BY <1>4, <2>1, <2>2
<1>9. SoundRequest(w)'
  <2>1. request[w].late => row.ended # "no"
    BY <1>2 DEF Over
  <2>2. request'[w].late => Over(admin_sessions'[t]) /\ request'[w].step = "refused"
    BY <1>2, <1>5, <1>6, <1>8, <2>1, OverStays DEF RowsGoOn
  <2> QED
    BY <1>2, <1>6, <2>2, Zenon DEF SoundRequest
<1> QED
  BY <1>6, <1>8, <1>9, SessionsGoOn

(* A step of the specification keeps the invariant and what has ended.     *)
LEMMA LoginStep ==
  ASSUME AdminAssumption, LoginInv, [AdminNext]_administration_vars
  PROVE  LoginInv' /\ RowsGoOn
<1>1. CASE UNCHANGED login_vars /\ time' \in Nat
  <2>1. LoginInv'
    BY <1>1 DEF LoginInv, LoginTypes, LateRowsAreOver, LateAreRefused, login_vars
  <2>2. \A t \in Tokens : EndedRowsStay(admin_sessions[t], admin_sessions'[t])
    BY <1>1, Zenon DEF EndedRowsStay, login_vars
  <2> QED
    BY <1>1, <2>1, <2>2 DEF RowsGoOn, LoginInv, LoginTypes
<1>2. CASE UNCHANGED administration_vars
  BY <1>1, <1>2 DEF administration_vars, LoginInv, LoginTypes
<1>3. CASE LoginNext
  <2>1. CASE PassAdminTime
    BY <1>1, <2>1 DEF PassAdminTime, LoginInv, LoginTypes
  <2> QED
    BY <1>3, <2>1, LoginKeepsSessions, LogoutKeepsSessions, ReadClockKeepsSessions,
       SelectKeepsSessions, DecideKeepsSessions, RespondKeepsSessions DEF LoginNext
<1>4. CASE AuditNext
  <2>1. UNCHANGED login_vars /\ UNCHANGED time
    BY <1>4 DEF AuditNext, RecordAudit, StartWalk, PurgeAudit, ReadPage
  <2> QED
    BY <1>1, <2>1 DEF LoginInv, LoginTypes
<1>5. CASE DeletionNext
  <2>1. UNCHANGED login_vars /\ UNCHANGED time
    BY <1>5 DEF DeletionNext, DeleteTabHistory, DeleteInRoom, DeletionFails, AuditDeletion,
       AddEntry
  <2> QED
    BY <1>1, <2>1 DEF LoginInv, LoginTypes
<1> QED
  BY <1>2, <1>3, <1>4, <1>5 DEF AdminNext

(* The invariant of the login sessions holds in every state.               *)
LEMMA LoginInvariantHolds == AdminSpec => []LoginInv
<1>1. AdminInit => LoginInv
  <2> SUFFICES ASSUME AdminInit PROVE LoginInv
    OBVIOUS
  <2>1. NoRequest \in RequestRecords /\ NoRequest.step = "idle" /\ NoRequest.late = FALSE
    BY Zenon DEF NoRequest, RequestRecords
  <2>2. LoginTypes
    BY <2>1 DEF AdminInit, LoginTypes
  <2> QED
    BY <2>1, <2>2 DEF AdminInit, LoginInv, LateRowsAreOver, LateAreRefused
<1>2. LoginInv /\ [AdminNext]_administration_vars => LoginInv'
  BY AdminAssumption, LoginStep
<1> QED
  BY <1>1, <1>2, PTL DEF AdminSpec

(* What a step may not do to ended sessions.                               *)
EndedRefused ==
  /\ \A w \in Workers : request'[w].late => request'[w].step # "let in"
  /\ \A t \in Tokens : EndedRowsStay(admin_sessions[t], admin_sessions'[t])

(* authenticate: a session that has ended is refused to every request that *)
(* begins afterwards, and however slow a request of before is, it neither  *)
(* moves the expiry of the ended session nor brings it back.               *)
THEOREM EndedIsEnded == AdminSpec => EndedSessionsAreRefused
<1>1. LoginInv /\ [AdminNext]_administration_vars => [EndedRefused]_login_vars
  BY AdminAssumption, LoginStep DEF LoginInv, LateAreRefused, RowsGoOn, EndedRefused
<1>2. AdminSpec => [][EndedRefused]_login_vars
  BY <1>1, LoginInvariantHolds, PTL DEF AdminSpec
<1> QED
  BY <1>2 DEF EndedSessionsAreRefused, EndedRefused

-----------------------------------------------------------------------------
(* The audit log.                                                          *)

AuditTypes ==
  /\ last_id \in Nat
  /\ audit_events \in SUBSET [id : 1 .. last_id, type : EventTypes]
  /\ walk \in [open : BOOLEAN, before : Nat, type : EventTypes \cup {NoWalk.type},
               due : SUBSET [id : 1 .. last_id, type : EventTypes]]
  /\ walked \in Seq(SUBSET [id : 1 .. last_id, type : EventTypes])

(* How far a walk has come: it was shown what was due from its last page   *)
(* on upwards, and nothing below.                                          *)
WalkIsUnderWay ==
  walk.open =>
    /\ walk.before = 0 <=> walked = <<>>
    /\ \A row \in walk.due : row.type = walk.type
    /\ \A i \in DOMAIN walked : \A row \in walked[i] : row.id >= walk.before
    /\ walk.before # 0 => \A row \in walk.due \cap audit_events :
         row.id >= walk.before => \E i \in DOMAIN walked : row \in walked[i]

AuditInv ==
  /\ AuditTypes
  /\ IsFiniteSet(audit_events)
  /\ \A a, b \in audit_events : a.id = b.id => a = b
  /\ WalkIsUnderWay
  /\ AuditWalkIsComplete

(* The page of rows with numbers of their own: not full, it holds all.     *)
Newest(rows, limit) ==
  {row \in rows : Cardinality({other \in rows : other.id > row.id}) < limit}

(* A page that is not full holds all rows that were asked for.             *)
LEMMA PageOfRows ==
  ASSUME NEW rows, IsFiniteSet(rows), NEW bound \in Nat,
         \A row \in rows : row.id \in 1 .. bound,
         \A a, b \in rows : a.id = b.id => a = b,
         NEW limit \in Nat \ {0}, Cardinality(Newest(rows, limit)) # limit
  PROVE  Newest(rows, limit) = rows
<1> DEFINE chosen == Newest(rows, limit)
           Above(row) == {other \in rows : other.id > row.id}
<1>0. \A row \in rows : row.id \in Nat /\ row.id <= bound
  OBVIOUS
<1>1. \A row \in rows : /\ Above(row) \in SUBSET rows /\ IsFiniteSet(Above(row))
                        /\ Cardinality(Above(row)) \in Nat
  BY FS_Subset, FS_CardinalityType
<1>2. chosen \in SUBSET rows /\ IsFiniteSet(chosen) /\ Cardinality(chosen) \in Nat
  BY FS_Subset, FS_CardinalityType DEF Newest
<1>a. \A row, other \in rows : other \in Above(row) <=> other.id > row.id
  OBVIOUS
<1>b. \A row \in rows : row \in chosen <=> Cardinality(Above(row)) < limit
  BY DEF Newest
<1> HIDE DEF Above, chosen
<1>c. Cardinality(chosen) # limit
  BY DEF chosen
<1> SUFFICES ASSUME rows \ chosen # {} PROVE FALSE
  BY <1>2 DEF chosen
(* The newest row that is not on the page; all above it are.               *)
<1>3. PICK last \in rows \ chosen : \A row \in rows \ chosen : row.id <= last.id
  <2> DEFINE T == {row.id : row \in rows \ chosen}
  <2>1. T \in SUBSET Nat /\ \A x \in T : x <= bound
    BY <1>0
  <2>3. T # {}
    OBVIOUS
  <2>2. PICK x \in T : \A y \in T : y <= x
    BY <2>1, <2>3, GreatestNumber
  <2> QED
    BY <2>2
<1>4. Cardinality(Above(last)) >= limit
  BY <1>1, <1>3, <1>b
<1>5. chosen = Above(last)
  <2>1. ASSUME NEW row \in Above(last) PROVE row \in chosen
    BY <1>0, <1>1, <1>3, <1>a, <2>1
  <2>2. ASSUME NEW row \in chosen PROVE row \in Above(last)
    <3> SUFFICES ASSUME row.id < last.id PROVE FALSE
      <4>1. row \in rows /\ row # last /\ row.id # last.id
        BY <1>2, <1>3
      <4> QED
        BY <1>0, <1>a, <4>1
    <3>1. Above(last) \in SUBSET Above(row)
      <4> SUFFICES ASSUME NEW other \in Above(last) PROVE other \in Above(row)
        OBVIOUS
      <4>1. row \in rows /\ other \in rows /\ other.id > last.id
        BY <1>1, <1>2, <1>3, <1>a
      <4> QED
        BY <1>0, <1>a, <4>1
    <3>2. Cardinality(Above(last)) <= Cardinality(Above(row))
      BY <1>1, <1>2, <3>1, FS_Subset
    <3> QED
      BY <1>1, <1>2, <1>4, <1>b, <3>2
  <2> QED
    BY <2>1, <2>2
(* The oldest row of the page has all the others above it.                 *)
<1>6. chosen # {}
  <2>1. Cardinality({}) = 0
    BY FS_EmptySet
  <2> QED
    BY <1>4, <1>5, <2>1
<1>7. PICK first \in chosen : \A row \in chosen : first.id <= row.id
  <2> DEFINE T == {row.id : row \in chosen}
  <2>1. T \in SUBSET Nat
    BY <1>0, <1>2
  <2>3. T # {}
    <3>1. PICK row \in chosen : TRUE
      BY <1>6
    <3>2. row.id \in T
      BY <3>1
    <3> QED
      BY <3>2
  <2>2. PICK x \in T : \A y \in T : x <= y
    BY <2>1, <2>3, LeastNumber
  <2> QED
    BY <2>2
<1>8. chosen \ {first} \in SUBSET Above(first)
  <2> SUFFICES ASSUME NEW row \in chosen \ {first} PROVE row \in Above(first)
    OBVIOUS
  <2>1. row \in rows /\ first \in rows /\ row.id # first.id /\ first.id <= row.id
    BY <1>2, <1>7
  <2> QED
    BY <1>0, <1>a, <2>1
<1>9. Cardinality(chosen \ {first}) <= Cardinality(Above(first))
  BY <1>1, <1>2, <1>8, FS_Subset
<1>10. Cardinality(chosen \ {first}) = Cardinality(chosen) - 1
  BY <1>2, <1>7, FS_RemoveElement
<1>11. Cardinality(Above(first)) < limit
  BY <1>2, <1>7, <1>b
<1> QED
  BY <1>1, <1>2, <1>4, <1>5, <1>7, <1>9, <1>10, <1>11, <1>c

AuditRows == [id : 1 .. last_id, type : EventTypes]

(* An event gets the next id.                                              *)
LEMMA RecordKeepsAudit ==
  ASSUME AuditInv, NEW type \in EventTypes, RecordAudit(type)
  PROVE  AuditInv'
<1> DEFINE new == [id |-> last_id + 1, type |-> type]
<1>1. /\ last_id \in Nat /\ last_id' = last_id + 1 /\ audit_events' = audit_events \cup {new}
      /\ walk' = walk /\ walked' = walked
  BY DEF AuditInv, AuditTypes, RecordAudit
<1>2. AuditRows \subseteq AuditRows' /\ new \in AuditRows'
  BY <1>1 DEF AuditRows
<1>3. AuditTypes'
  <2>1. audit_events' \in SUBSET AuditRows'
    BY <1>1, <1>2 DEF AuditInv, AuditTypes, AuditRows
  <2>2. walk' \in [open : BOOLEAN, before : Nat, type : EventTypes \cup {NoWalk.type},
                  due : SUBSET AuditRows']
    BY <1>1, <1>2 DEF AuditInv, AuditTypes, AuditRows
  <2>3. walked' \in Seq(SUBSET AuditRows')
    <3>1. SUBSET AuditRows \subseteq SUBSET AuditRows'
      BY <1>2
    <3>2. \A i \in DOMAIN walked : walked[i] \in SUBSET AuditRows'
      BY <3>1 DEF AuditInv, AuditTypes, AuditRows
    <3> QED
      BY <1>1, <3>2 DEF AuditInv, AuditTypes
  <2> QED
    BY <1>1, <2>1, <2>2, <2>3 DEF AuditTypes, AuditRows
<1>4. IsFiniteSet(audit_events')
  BY <1>1, FS_AddElement DEF AuditInv
<1>5. \A row \in audit_events : row.id \in 1 .. last_id
  BY DEF AuditInv, AuditTypes
<1>6. (\A a, b \in audit_events : a.id = b.id => a = b)'
  BY <1>1, <1>5 DEF AuditInv
<1>7. new \notin walk.due
  BY <1>1 DEF AuditInv, AuditTypes
<1>8. walk.due \cap audit_events' \subseteq walk.due \cap audit_events
  BY <1>1, <1>7
<1> HIDE DEF new
<1>9. WalkIsUnderWay'
  BY <1>1, <1>8 DEF AuditInv, WalkIsUnderWay
<1>10. AuditWalkIsComplete'
  BY <1>1, <1>8 DEF AuditInv, AuditWalkIsComplete
<1> QED
  BY <1>3, <1>4, <1>6, <1>9, <1>10 DEF AuditInv

(* A row is purged.                                                        *)
LEMMA PurgeKeepsAudit ==
  ASSUME AuditInv, NEW row \in audit_events, PurgeAudit(row)
  PROVE  AuditInv'
<1>1. /\ last_id' = last_id /\ audit_events' \subseteq audit_events
      /\ walk' = walk /\ walked' = walked
  BY DEF PurgeAudit
<1>2. AuditTypes'
  BY <1>1 DEF AuditInv, AuditTypes
<1>3. IsFiniteSet(audit_events')
  BY <1>1, FS_Subset DEF AuditInv
<1>4. WalkIsUnderWay' /\ AuditWalkIsComplete'
  BY <1>1 DEF AuditInv, WalkIsUnderWay, AuditWalkIsComplete
<1> QED
  BY <1>1, <1>2, <1>3, <1>4 DEF AuditInv

(* A walk begins, and the rows of its type are due.                        *)
LEMMA StartKeepsAudit ==
  ASSUME AuditInv, NEW type \in EventTypes, StartWalk(type)
  PROVE  AuditInv'
<1>1. /\ last_id' = last_id /\ audit_events' = audit_events /\ walked = <<>> /\ walked' = <<>>
      /\ walk' = [open |-> TRUE, before |-> 0, type |-> type, due |-> Matches(type, 0)]
  BY DEF StartWalk
<1>2. /\ Matches(type, 0) \in SUBSET AuditRows
      /\ \A row \in Matches(type, 0) : row.type = type
  BY DEF AuditInv, AuditTypes, Matches, AuditRows
<1>3. AuditTypes'
  BY <1>1, <1>2 DEF AuditInv, AuditTypes, AuditRows
<1>4. WalkIsUnderWay' /\ AuditWalkIsComplete'
  BY <1>1, <1>2 DEF WalkIsUnderWay, AuditWalkIsComplete
<1> QED
  BY <1>1, <1>3, <1>4 DEF AuditInv

(* A page continues where the last one ended, so that no row due is left   *)
(* out.                                                                    *)
LEMMA ReadKeepsAudit ==
  ASSUME AdminAssumption, AuditInv, NEW limit \in PageLimits, ReadPage(limit)
  PROVE  AuditInv'
<1> DEFINE matches == Matches(walk.type, walk.before)
           chosen == Page(walk.type, walk.before, limit)
           n == Len(walked)
<1>1. chosen = Newest(matches, limit)
  BY DEF Page, Newest
<1>2. /\ limit \in Nat \ {0} /\ walk.open /\ last_id \in Nat /\ n \in Nat
      /\ audit_events' = audit_events /\ last_id' = last_id
      /\ walked' = Append(walked, chosen) /\ DOMAIN walked = 1 .. n
      /\ walked \in Seq(SUBSET AuditRows)
      /\ walk' = IF Cardinality(chosen) = limit
                 THEN [walk EXCEPT !.before = Min({row.id : row \in chosen})]
                 ELSE [walk EXCEPT !.open = FALSE]
  BY DEF AuditInv, AuditTypes, ReadPage, AdminAssumption, AuditRows
<1>3. /\ walk.before \in Nat /\ walk.due \in SUBSET AuditRows /\ audit_events \in SUBSET AuditRows
      /\ \A row \in AuditRows : row.id \in Nat /\ row.id >= 1 /\ row.id <= last_id
  BY <1>2 DEF AuditInv, AuditTypes, AuditRows
<1>4. /\ matches \in SUBSET audit_events /\ IsFiniteSet(matches) /\ chosen \in SUBSET matches
      /\ chosen \in SUBSET AuditRows
      /\ \A row \in audit_events : row \in matches <=>
           row.type = walk.type /\ (walk.before = 0 \/ row.id < walk.before)
  BY <1>1, <1>3, FS_Subset DEF AuditInv, Matches, Newest
<1>5. /\ walk.before = 0 <=> walked = <<>>
      /\ \A row \in walk.due : row.type = walk.type
      /\ \A i \in 1 .. n : \A row \in walked[i] : row.id >= walk.before
      /\ walk.before # 0 => \A row \in walk.due \cap audit_events :
           row.id >= walk.before => \E i \in 1 .. n : row \in walked[i]
  BY <1>2 DEF AuditInv, WalkIsUnderWay
<1>6. /\ DOMAIN walked' = 1 .. n + 1 /\ walked'[n + 1] = chosen /\ walked' # <<>>
      /\ \A i \in 1 .. n : walked'[i] = walked[i]
      /\ walked' \in Seq(SUBSET AuditRows)
  <2> HIDE DEF chosen
  <2> QED
    BY <1>2, <1>4
<1> HIDE DEF chosen, matches, n
(* The page is new to the reader.                                          *)
<1>7. \A i, j \in 1 .. n + 1 : i # j => walked'[i] \cap walked'[j] = {}
  <2>1. ASSUME NEW i \in 1 .. n PROVE walked[i] \cap chosen = {}
    <3> SUFFICES ASSUME NEW row \in walked[i], row \in chosen PROVE FALSE
      OBVIOUS
    <3>1. row \in matches /\ row \in audit_events /\ row.id \in Nat
      BY <1>3, <1>4
    <3>2. walk.before = 0 \/ row.id < walk.before
      BY <1>4, <3>1
    <3>3. walk.before # 0
      BY <1>2, <1>5
    <3>4. row.id >= walk.before
      BY <1>5
    <3> QED
      BY <1>3, <3>1, <3>2, <3>3, <3>4
  <2>2. \A i, j \in 1 .. n : i # j => walked[i] \cap walked[j] = {}
    BY <1>2 DEF AuditInv, AuditWalkIsComplete
  <2> QED
    BY <1>2, <1>6, <2>1, <2>2
(* What was shown, and what of the page there is to show.                  *)
<1>8. ASSUME NEW row \in walk.due \cap audit_events, row \in chosen \/ row \notin matches
      PROVE  \E i \in 1 .. n + 1 : row \in walked'[i]
  <2>1. CASE row \in chosen
    BY <1>2, <1>6, <2>1
  <2>2. CASE row \notin matches
    <3>1. walk.before # 0 /\ row.id >= walk.before
      BY <1>3, <1>4, <1>5, <2>2
    <3>2. PICK i \in 1 .. n : row \in walked[i]
      BY <1>5, <3>1
    <3> QED
      BY <1>2, <1>6, <3>2
  <2> QED
    BY <1>8, <2>1, <2>2
<1>9. CASE Cardinality(chosen) # limit
  <2>1. chosen = matches
    <3>1. /\ \A row \in matches : row.id \in 1 .. last_id
          /\ \A a, b \in matches : a.id = b.id => a = b
      BY <1>3, <1>4 DEF AuditInv, AuditRows
    <3> QED
      BY <1>1, <1>2, <1>4, <1>9, <3>1, PageOfRows
  <2>2. walk' = [walk EXCEPT !.open = FALSE]
    BY <1>2, <1>9
  <2>3. AuditTypes' /\ walk'.due = walk.due /\ ~walk'.open
    BY <1>2, <1>6, <2>2 DEF AuditInv, AuditTypes, AuditRows
  <2>4. \A row \in walk.due \cap audit_events : \E i \in 1 .. n + 1 : row \in walked'[i]
    BY <1>8, <2>1
  <2>5. AuditWalkIsComplete'
    BY <1>2, <1>6, <1>7, <2>3, <2>4, SMTT(30) DEF AuditWalkIsComplete
  <2>6. WalkIsUnderWay'
    BY <2>3 DEF WalkIsUnderWay
  <2> QED
    BY <1>2, <2>3, <2>5, <2>6 DEF AuditInv
<1>10. CASE Cardinality(chosen) = limit
  <2> DEFINE T == {row.id : row \in chosen}
             least == Min(T)
  <2>1. least \in T /\ \A x \in T : least <= x
    <3>1. chosen # {}
      BY <1>2, <1>10, FS_EmptySet
    <3>2. T \in SUBSET Nat
      BY <1>3, <1>4
    <3>3. T # {}
      BY <3>1
    <3>4. \E x \in T : \A y \in T : x <= y
      BY <3>2, <3>3, LeastNumber
    <3> HIDE DEF T
    <3> QED
      BY <3>4 DEF Min
  <2>2. PICK first \in chosen : first.id = least /\ \A row \in chosen : first.id <= row.id
    BY <2>1
  <2> HIDE DEF T, least
  <2>3. /\ first \in AuditRows /\ least \in Nat /\ least # 0 /\ first \in matches
        /\ first \in audit_events /\ (walk.before = 0 \/ least < walk.before)
    BY <1>3, <1>4, <2>2
  <2>4. walk' = [walk EXCEPT !.before = least]
    BY <1>2, <1>10 DEF T, least
  <2>5. /\ AuditTypes' /\ walk'.due = walk.due /\ walk'.open /\ walk'.before = least
        /\ walk'.type = walk.type
    BY <1>2, <1>6, <2>3, <2>4 DEF AuditInv, AuditTypes, AuditRows
  <2>6. \A i \in 1 .. n + 1 : \A row \in walked'[i] : row.id >= least
    <3> SUFFICES ASSUME NEW i \in 1 .. n + 1, NEW row \in walked'[i] PROVE row.id >= least
      OBVIOUS
    <3>1. CASE i = n + 1
      BY <1>2, <1>3, <1>4, <1>6, <2>2, <2>3, <3>1
    <3>2. CASE i \in 1 .. n
      <4>1. row \in walked[i] /\ row.id >= walk.before /\ walk.before # 0
        BY <1>2, <1>5, <1>6, <3>2
      <4>2. row.id \in Nat
        BY <1>2, <1>3, <3>2, <4>1
      <4> QED
        BY <1>3, <2>3, <4>1, <4>2
    <3> QED
      BY <1>2, <3>1, <3>2
  <2>7. ASSUME NEW row \in walk.due \cap audit_events, row.id >= least
        PROVE  \E i \in 1 .. n + 1 : row \in walked'[i]
    <3>1. ASSUME row \in matches PROVE row \in chosen
      <4> DEFINE above(r) == {other \in matches : other.id > r.id}
      <4>1. above(row) \in SUBSET above(first) /\ above(first) \in SUBSET matches
        BY <1>3, <1>4, <2>2, <2>3, <2>7
      <4>2. IsFiniteSet(above(first)) /\ IsFiniteSet(above(row))
        BY <1>4, <4>1, FS_Subset
      <4>3. Cardinality(above(row)) <= Cardinality(above(first))
        BY <4>1, <4>2, FS_Subset
      <4>4. Cardinality(above(first)) < limit
        BY <1>1, <2>2 DEF Newest
      <4>5. Cardinality(above(first)) \in Nat /\ Cardinality(above(row)) \in Nat
        BY <4>2, FS_CardinalityType
      <4>6. Cardinality(above(row)) < limit
        BY <1>2, <4>3, <4>4, <4>5
      <4> QED
        BY <1>1, <3>1, <4>6 DEF Newest
    <3> QED
      BY <1>8, <3>1
  <2>8. AuditWalkIsComplete'
    BY <1>6, <1>7, <2>5 DEF AuditWalkIsComplete
  <2>9. WalkIsUnderWay'
    BY <1>2, <1>5, <1>6, <2>3, <2>5, <2>6, <2>7 DEF WalkIsUnderWay
  <2> QED
    BY <1>2, <2>5, <2>8, <2>9 DEF AuditInv
<1> QED
  BY <1>9, <1>10

(* The invariant of the audit log holds in every state.                    *)
LEMMA AuditInvariantHolds == AdminSpec => []AuditInv
<1>1. AdminInit => AuditInv
  <2> SUFFICES ASSUME AdminInit PROVE AuditInv
    OBVIOUS
  <2>1. /\ NoWalk.open = FALSE /\ NoWalk.before = 0 /\ NoWalk.due = {}
        /\ NoWalk \in [open : BOOLEAN, before : Nat, type : EventTypes \cup {NoWalk.type},
                       due : SUBSET AuditRows]
    BY Zenon DEF NoWalk
  <2>2. AuditTypes
    BY <2>1 DEF AdminInit, AuditTypes, AuditRows
  <2>3. IsFiniteSet(audit_events)
    BY FS_EmptySet DEF AdminInit
  <2>4. WalkIsUnderWay /\ AuditWalkIsComplete /\ (\A a, b \in audit_events : a.id = b.id => a = b)
    BY <2>1 DEF AdminInit, WalkIsUnderWay, AuditWalkIsComplete
  <2> QED
    BY <2>2, <2>3, <2>4 DEF AuditInv
<1>2. AuditInv /\ [AdminNext]_administration_vars => AuditInv'
  <2> SUFFICES ASSUME AuditInv, [AdminNext]_administration_vars PROVE AuditInv'
    OBVIOUS
  <2>1. CASE UNCHANGED audit_vars
    BY <2>1 DEF AuditInv, AuditTypes, WalkIsUnderWay, AuditWalkIsComplete, audit_vars
  <2>2. CASE UNCHANGED administration_vars
    BY <2>1, <2>2 DEF administration_vars
  <2>3. CASE LoginNext
    <3>1. UNCHANGED audit_vars
      BY <2>3 DEF LoginNext, PassAdminTime, Login, Logout, ReadClock, Select, Decide, Respond
    <3> QED
      BY <2>1, <3>1
  <2>4. CASE AuditNext
    BY <2>4, AdminAssumption, RecordKeepsAudit, StartKeepsAudit, PurgeKeepsAudit, ReadKeepsAudit
    DEF AuditNext
  <2>5. CASE DeletionNext
    <3>1. UNCHANGED audit_vars
      BY <2>5 DEF DeletionNext, DeleteTabHistory, DeleteInRoom, DeletionFails, AuditDeletion,
         AddEntry
    <3> QED
      BY <2>1, <3>1
  <2> QED
    BY <2>2, <2>3, <2>4, <2>5 DEF AdminNext
<1> QED
  BY <1>1, <1>2, PTL DEF AdminSpec

-----------------------------------------------------------------------------
(* Deletions of tab history records.                                       *)

DeletionTypes ==
  /\ tab_entries \in SUBSET Records
  /\ deletion \in [Workers ->
       [step : {"idle", "running"}, asked : SUBSET Records, rooms : SUBSET RoomsOf(Records),
        deleted : SUBSET Records]]
  /\ tally \in [Records -> [removed : Nat, audited : Nat, unaudited : Nat]]

(* The requests that have removed the record and answered for it not yet.  *)
Owing(record) == {w \in Workers : record \in deletion[w].deleted}

DeletionInv ==
  /\ DeletionTypes
  /\ \A w \in Workers :
       /\ deletion[w].step = "idle" => deletion[w].deleted = {}
       /\ \A record \in deletion[w].deleted : RoomOfRecord[record] \notin deletion[w].rooms
  /\ \A record \in Records : IsFiniteSet(Owing(record))
  /\ DeletionsAreListedOnce

(* A request that ends answers for all it has removed: once each, in its   *)
(* audit row or, a room or that row having failed, in none.                *)
LEMMA DeletionEnds ==
  ASSUME DeletionInv, NEW w \in Workers, deletion' = [deletion EXCEPT ![w] = NoDeletion],
         UNCHANGED tab_entries, NEW field \in {"audited", "unaudited"},
         tally' = [r \in Records |-> IF r \in deletion[w].deleted
                                     THEN [tally[r] EXCEPT ![field] = @ + 1] ELSE tally[r]]
  PROVE  DeletionInv'
<1>1. NoDeletion \in [step : {"idle", "running"}, asked : SUBSET Records,
                     rooms : SUBSET RoomsOf(Records), deleted : SUBSET Records]
  BY DEF NoDeletion
<1>2. /\ \A v \in Workers \ {w} : deletion'[v] = deletion[v]
      /\ deletion'[w] = NoDeletion /\ NoDeletion.deleted = {} /\ NoDeletion.rooms = {}
  BY DEF DeletionInv, DeletionTypes, NoDeletion
<1>3. DeletionTypes'
  BY <1>1 DEF DeletionInv, DeletionTypes
<1>4. \A v \in Workers : /\ deletion'[v].step = "idle" => deletion'[v].deleted = {}
                         /\ \A record \in deletion'[v].deleted :
                              RoomOfRecord[record] \notin deletion'[v].rooms
  BY <1>2 DEF DeletionInv
<1>5. ASSUME NEW record \in Records
      PROVE  /\ IsFiniteSet(Owing(record)')
             /\ tally'[record].removed = tally'[record].audited + tally'[record].unaudited
                  + Cardinality(Owing(record)')
  <2>1. Owing(record)' = Owing(record) \ {w}
    BY <1>2 DEF Owing
  <2>2. /\ IsFiniteSet(Owing(record)') /\ Cardinality(Owing(record)) \in Nat
        /\ Cardinality(Owing(record)') = IF w \in Owing(record) THEN Cardinality(Owing(record)) - 1
                                                                ELSE Cardinality(Owing(record))
    BY <2>1, FS_RemoveElement, FS_CardinalityType DEF DeletionInv
  <2>3. w \in Owing(record) <=> record \in deletion[w].deleted
    BY DEF Owing
  <2>4. tally[record].removed = tally[record].audited + tally[record].unaudited
          + Cardinality(Owing(record))
    BY DEF DeletionInv, DeletionsAreListedOnce, Owing
  <2>5. tally[record] \in [removed : Nat, audited : Nat, unaudited : Nat]
    BY DEF DeletionInv, DeletionTypes
  <2>6. tally'[record] = IF record \in deletion[w].deleted
                         THEN [tally[record] EXCEPT ![field] = @ + 1] ELSE tally[record]
    OBVIOUS
  <2> HIDE DEF Owing
  <2>7. CASE record \in deletion[w].deleted
    <3>1. /\ tally'[record].removed = tally[record].removed
          /\ tally'[record].audited + tally'[record].unaudited
               = tally[record].audited + tally[record].unaudited + 1
      BY <2>5, <2>6, <2>7
    <3>2. Cardinality(Owing(record)') = Cardinality(Owing(record)) - 1
      BY <2>2, <2>3, <2>7
    <3> QED
      BY <2>2, <2>4, <2>5, <3>1, <3>2
  <2>8. CASE record \notin deletion[w].deleted
    BY <2>2, <2>3, <2>4, <2>5, <2>6, <2>8
  <2> QED
    BY <2>7, <2>8
<1>6. DeletionsAreListedOnce'
  BY <1>5 DEF DeletionsAreListedOnce, Owing
<1> QED
  BY <1>3, <1>4, <1>5, <1>6 DEF DeletionInv

(* Records that are deleted are counted once.                              *)
LEMMA DeleteTabHistoryKeepsTally ==
  ASSUME DeletionInv, NEW w \in Workers, NEW asked \in SUBSET Records, DeleteTabHistory(w, asked)
  PROVE  DeletionInv'
<1> DEFINE d == [step |-> "running", asked |-> asked, rooms |-> RoomsOf(asked), deleted |-> {}]
<1>1. RoomsOf(asked) \in SUBSET RoomsOf(Records)
  BY DEF RoomsOf
<1>2. d \in [step : {"idle", "running"}, asked : SUBSET Records,
             rooms : SUBSET RoomsOf(Records), deleted : SUBSET Records]
  BY <1>1
<1>3. /\ deletion' = [deletion EXCEPT ![w] = d] /\ deletion[w].step = "idle"
      /\ tab_entries' = tab_entries /\ tally' = tally
  BY DEF DeleteTabHistory
<1>4. /\ \A v \in Workers \ {w} : deletion'[v] = deletion[v]
      /\ deletion'[w].deleted = {} /\ deletion[w].deleted = {}
  BY <1>3 DEF DeletionInv, DeletionTypes
<1>5. DeletionTypes'
  BY <1>2, <1>3 DEF DeletionInv, DeletionTypes
<1>6. \A v \in Workers : deletion'[v].deleted = deletion[v].deleted
  BY <1>4
<1>7. \A record \in Records : Owing(record)' = Owing(record)
  BY <1>6 DEF Owing
<1>8. DeletionsAreListedOnce'
  BY <1>3, <1>7 DEF DeletionInv, DeletionsAreListedOnce, Owing
<1>9. \A v \in Workers : /\ deletion'[v].step = "idle" => deletion'[v].deleted = {}
                         /\ \A record \in deletion'[v].deleted :
                              RoomOfRecord[record] \notin deletion'[v].rooms
  BY <1>4 DEF DeletionInv
<1> QED
  BY <1>5, <1>7, <1>8, <1>9 DEF DeletionInv

(* So are those of a room.                                                 *)
LEMMA DeleteInRoomKeepsTally ==
  ASSUME DeletionInv, NEW w \in Workers, NEW room, DeleteInRoom(w, room)
  PROVE  DeletionInv'
<1> DEFINE gone == deletion[w].asked \cap RecordsOf(room) \cap tab_entries
           d == [deletion[w] EXCEPT !.rooms = @ \ {room}, !.deleted = @ \cup gone]
<1>1. /\ deletion[w] \in [step : {"idle", "running"}, asked : SUBSET Records,
                          rooms : SUBSET RoomsOf(Records), deleted : SUBSET Records]
      /\ gone \in SUBSET Records /\ room \in deletion[w].rooms
      /\ \A record \in gone : RoomOfRecord[record] = room
  BY DEF DeletionInv, DeletionTypes, DeleteInRoom, RecordsOf
<1>2. /\ deletion' = [deletion EXCEPT ![w] = d] /\ tab_entries' = tab_entries \ gone
      /\ tally' = [r \in Records |-> IF r \in gone THEN [tally[r] EXCEPT !.removed = @ + 1]
                                                  ELSE tally[r]]
      /\ deletion[w].step = "running"
  BY DEF DeleteInRoom, DeletionInv, DeletionTypes
<1> HIDE DEF gone
<1>3. /\ d \in [step : {"idle", "running"}, asked : SUBSET Records,
                rooms : SUBSET RoomsOf(Records), deleted : SUBSET Records]
      /\ d.step = "running" /\ d.rooms = deletion[w].rooms \ {room}
      /\ d.deleted = deletion[w].deleted \cup gone
  BY <1>1, <1>2
<1> HIDE DEF d
<1>4. DeletionTypes'
  BY <1>1, <1>2, <1>3 DEF DeletionInv, DeletionTypes
<1>5. /\ \A v \in Workers \ {w} : deletion'[v] = deletion[v]
      /\ deletion'[w] = d
  BY <1>2 DEF DeletionInv, DeletionTypes
<1>6. \A v \in Workers : /\ deletion'[v].step = "idle" => deletion'[v].deleted = {}
                         /\ \A record \in deletion'[v].deleted :
                              RoomOfRecord[record] \notin deletion'[v].rooms
  BY <1>1, <1>3, <1>5 DEF DeletionInv
(* A record of a room that is still to come was not removed before.        *)
<1>7. gone \cap deletion[w].deleted = {}
  BY <1>1 DEF DeletionInv
<1>8. ASSUME NEW record \in Records
      PROVE  /\ IsFiniteSet(Owing(record)')
             /\ tally'[record].removed = tally'[record].audited + tally'[record].unaudited
                  + Cardinality(Owing(record)')
  <2>1. /\ IsFiniteSet(Owing(record)) /\ Cardinality(Owing(record)) \in Nat
        /\ tally[record].removed = tally[record].audited + tally[record].unaudited
             + Cardinality(Owing(record))
        /\ tally[record] \in [removed : Nat, audited : Nat, unaudited : Nat]
    BY FS_CardinalityType DEF DeletionInv, DeletionsAreListedOnce, Owing, DeletionTypes
  <2>2. CASE record \in gone
    <3>1. Owing(record)' = Owing(record) \cup {w} /\ w \notin Owing(record)
      BY <1>3, <1>5, <1>7, <2>2 DEF Owing
    <3>2. /\ IsFiniteSet(Owing(record)')
          /\ Cardinality(Owing(record)') = Cardinality(Owing(record)) + 1
      BY <2>1, <3>1, FS_AddElement
    <3>3. tally'[record] = [tally[record] EXCEPT !.removed = @ + 1]
      BY <1>2, <2>2
    <3> QED
      BY <2>1, <3>2, <3>3
  <2>3. CASE record \notin gone
    <3>1. Owing(record)' = Owing(record)
      BY <1>3, <1>5, <2>3 DEF Owing
    <3>2. tally'[record] = tally[record]
      BY <1>2, <2>3
    <3> QED
      BY <2>1, <3>1, <3>2
  <2> QED
    BY <2>2, <2>3
<1>9. DeletionsAreListedOnce'
  BY <1>8 DEF DeletionsAreListedOnce, Owing
<1> QED
  BY <1>4, <1>6, <1>8, <1>9 DEF DeletionInv

(* The tallies are exact in every state.                                   *)
LEMMA DeletionInvariantHolds == AdminSpec => []DeletionInv
<1>1. AdminInit => DeletionInv
  <2> SUFFICES ASSUME AdminInit PROVE DeletionInv
    OBVIOUS
  <2>1. \A w \in Workers : deletion[w] = NoDeletion /\ deletion[w].deleted = {}
    BY DEF AdminInit, NoDeletion
  <2>2. DeletionTypes
    BY DEF AdminInit, DeletionTypes, NoDeletion
  <2>3. \A record \in Records : Owing(record) = {} /\ IsFiniteSet(Owing(record))
                               /\ Cardinality(Owing(record)) = 0
    BY <2>1, FS_EmptySet DEF Owing
  <2>4. DeletionsAreListedOnce
    <3>1. \A record \in Records : /\ tally[record].removed = 0 /\ tally[record].audited = 0
                                  /\ tally[record].unaudited = 0
      BY DEF AdminInit
    <3>2. \A record \in Records : tally[record].removed =
            tally[record].audited + tally[record].unaudited + Cardinality(Owing(record))
      BY <2>3, <3>1
    <3> QED
      BY <3>2 DEF DeletionsAreListedOnce, Owing
  <2> QED
    BY <2>1, <2>2, <2>3, <2>4 DEF DeletionInv
<1>2. DeletionInv /\ [AdminNext]_administration_vars => DeletionInv'
  <2> SUFFICES ASSUME DeletionInv, [AdminNext]_administration_vars PROVE DeletionInv'
    OBVIOUS
  <2>1. ASSUME UNCHANGED <<deletion, tally>>, tab_entries' \in SUBSET Records PROVE DeletionInv'
    BY <2>1 DEF DeletionInv, DeletionTypes, DeletionsAreListedOnce, Owing
  <2>2. CASE UNCHANGED deletion_vars
    BY <2>1, <2>2 DEF deletion_vars, DeletionInv, DeletionTypes
  <2>3. CASE UNCHANGED administration_vars
    BY <2>2, <2>3 DEF administration_vars
  <2>4. CASE LoginNext
    <3>1. UNCHANGED deletion_vars
      BY <2>4 DEF LoginNext, PassAdminTime, Login, Logout, ReadClock, Select, Decide, Respond
    <3> QED
      BY <2>2, <3>1
  <2>5. CASE AuditNext
    <3>1. UNCHANGED deletion_vars
      BY <2>5 DEF AuditNext, RecordAudit, StartWalk, PurgeAudit, ReadPage
    <3> QED
      BY <2>2, <3>1
  <2>6. CASE DeletionNext
    <3>1. ASSUME NEW w \in Workers, DeletionFails(w) PROVE DeletionInv'
      <4>1. tally' = [r \in Records |-> IF r \in deletion[w].deleted
                       THEN [tally[r] EXCEPT !["unaudited"] = @ + 1] ELSE tally[r]]
        BY <3>1 DEF DeletionFails
      <4> QED
        BY <3>1, <4>1, DeletionEnds DEF DeletionFails
    <3>2. ASSUME NEW w \in Workers, AuditDeletion(w) PROVE DeletionInv'
      <4>1. PICK field \in {"audited", "unaudited"} :
              tally' = [r \in Records |-> IF r \in deletion[w].deleted
                         THEN [tally[r] EXCEPT ![field] = @ + 1] ELSE tally[r]]
        BY <3>2 DEF AuditDeletion
      <4> QED
        BY <3>2, <4>1, DeletionEnds DEF AuditDeletion
    <3>3. ASSUME NEW record \in Records, AddEntry(record) PROVE DeletionInv'
      BY <2>1, <3>3 DEF AddEntry, DeletionInv, DeletionTypes
    <3> QED
      BY <2>6, <3>1, <3>2, <3>3, DeleteTabHistoryKeepsTally, DeleteInRoomKeepsTally DEF DeletionNext
  <2> QED
    BY <2>3, <2>4, <2>5, <2>6 DEF AdminNext
<1> QED
  BY <1>1, <1>2, PTL DEF AdminSpec

(* The pages of the audit log show what was there throughout the reading,  *)
(* and nothing twice, whatever is recorded and purged meanwhile.  Of rows  *)
(* of deletions, none tells of a removal that another tells of or that was *)
(* not its request's own; a removal is in none only if its request failed  *)
(* at a later room or the row itself could not be written (record_audit).  *)
THEOREM AuditTellsOnce == AdminSpec => []AuditIsSound
<1>1. AuditInv /\ DeletionInv => AuditIsSound
  BY DEF AuditInv, DeletionInv, AuditIsSound
<1> QED
  BY <1>1, AuditInvariantHolds, DeletionInvariantHolds, PTL

-----------------------------------------------------------------------------
(* The page of room data.                                                  *)

RowsOfTable(table, room) == {row \in table_rows : row.table = table /\ row.room = room}
RecordsInMemory(room) == {record \in last_seen_history : record[1] = room}
Related(room) == {row.player : row \in {row \in relationship_players : row.realm = room}}
Candidates(room) == PeopleOf(room) \cup Related(room)
Leaving(people, room) ==
  {p \in people : p \in player_identity_mappings /\ ~NamedElsewhere(p, room)}

PageIsRecord ==
  page = [step |-> page.step, room |-> page.room, rooms |-> page.rooms,
          last_seen |-> page.last_seen, counts |-> page.counts,
          unasked |-> page.unasked, identities |-> page.identities]

(* What the steps so far have put on the page is still so, for a write     *)
(* throws the page away.                                                   *)
PageSteps ==
  page.step # "none" =>
    /\ page.step \in {"rooms", "counts", "identities", "shown"} /\ page.room \in DataRooms
    /\ page.last_seen = Cardinality(RecordsInMemory(page.room))
    /\ DOMAIN page.counts \subseteq DataTables
    /\ \A table \in DOMAIN page.counts :
         page.counts[table] = Cardinality(RowsOfTable(table, page.room))
    /\ page.step \in {"rooms", "counts"} => page.identities = {}
    /\ page.step # "rooms" => {row.room : row \in table_rows} \ {Null} \subseteq page.rooms
    /\ page.step \in {"identities", "shown"} =>
         /\ DOMAIN page.counts = DataTables /\ page.unasked \subseteq Candidates(page.room)
         /\ page.identities = Leaving(Candidates(page.room) \ page.unasked, page.room)
    /\ page.step = "shown" => page.unasked = {}

RoomDataInv ==
  /\ relationship_players \subseteq [realm : DataRooms, player : People]
  /\ PageIsRecord /\ PageSteps

StoreUnchanged ==
  UNCHANGED <<table_rows, relationship_players, player_identity_mappings, last_seen_history>>

(* Where the store does not change, nothing that a page counts changes.    *)
LEMMA NothingMoves ==
  ASSUME StoreUnchanged
  PROVE  \A room, table, people :
           /\ RowsOfTable(table, room)' = RowsOfTable(table, room)
           /\ RecordsInMemory(room)' = RecordsInMemory(room)
           /\ Candidates(room)' = Candidates(room)
           /\ Leaving(people, room)' = Leaving(people, room)
BY DEF StoreUnchanged, RowsOfTable, RecordsInMemory, Candidates, Related, PeopleOf, Leaving,
   NamedElsewhere

(* A write during a page leaves the page open.                             *)
LEMMA WritingKeepsPage ==
  ASSUME Written, relationship_players' \subseteq [realm : DataRooms, player : People]
  PROVE  RoomDataInv'
BY DEF Written, NoPage, RoomDataInv, PageIsRecord, PageSteps

(* A page is opened.                                                       *)
LEMMA OpenPageKeepsPage ==
  ASSUME RoomDataInv, NEW room \in DataRooms, OpenPage(room)
  PROVE  RoomDataInv'
<1>1. StoreUnchanged
  BY DEF OpenPage, StoreUnchanged
<1>2. /\ page'.step = "rooms" /\ page'.room = room /\ page'.counts = <<>> /\ page'.identities = {}
      /\ page'.last_seen = Cardinality(RecordsInMemory(room)) /\ PageIsRecord'
  BY DEF OpenPage, NoPage, PageIsRecord, RecordsInMemory
<1>3. DOMAIN page'.counts = {}
  BY <1>2
<1>4. PageSteps'
  BY <1>1, <1>2, <1>3, NothingMoves DEF PageSteps
<1> QED
  BY <1>1, <1>2, <1>4 DEF RoomDataInv, StoreUnchanged

(* Its rooms are listed.                                                   *)
LEMMA ListRoomsKeepsPage ==
  ASSUME RoomDataInv, ListRooms
  PROVE  RoomDataInv'
<1>1. StoreUnchanged
  BY DEF ListRooms, StoreUnchanged
<1>2. /\ page.step = "rooms" /\ page'.step = "counts" /\ page'.room = page.room
      /\ page'.counts = page.counts /\ page'.last_seen = page.last_seen
      /\ page'.identities = page.identities /\ PageIsRecord'
      /\ page'.rooms = page.rooms \cup ({row.room : row \in table_rows} \ {Null})
  BY DEF ListRooms, PageIsRecord, RoomDataInv
<1>3. {row.room : row \in table_rows}' = {row.room : row \in table_rows}
  BY <1>1 DEF StoreUnchanged
<1>4. PageSteps'
  BY <1>1, <1>2, <1>3, NothingMoves DEF PageSteps, RoomDataInv
<1> QED
  BY <1>1, <1>2, <1>4 DEF RoomDataInv, StoreUnchanged

(* The rows of a table are counted.                                        *)
LEMMA CountTableKeepsPage ==
  ASSUME RoomDataInv, NEW table \in DataTables, CountTable(table)
  PROVE  RoomDataInv'
<1>1. StoreUnchanged
  BY DEF CountTable, StoreUnchanged
<1>2. /\ page.step = "counts" /\ page'.step = "counts" /\ page'.room = page.room
      /\ page'.rooms = page.rooms /\ page'.last_seen = page.last_seen
      /\ page'.identities = page.identities /\ PageIsRecord'
      /\ page'.counts = [t \in DOMAIN page.counts \cup {table} |->
                           IF t = table THEN Cardinality(RowsOfTable(table, page.room))
                           ELSE page.counts[t]]
  BY DEF CountTable, PageIsRecord, RoomDataInv, RowsOfTable
<1>3. {row.room : row \in table_rows}' = {row.room : row \in table_rows}
  BY <1>1 DEF StoreUnchanged
<1>4. /\ DOMAIN page'.counts = DOMAIN page.counts \cup {table}
      /\ \A t \in DOMAIN page'.counts :
           page'.counts[t] = Cardinality(RowsOfTable(t, page.room))
  BY <1>2 DEF PageSteps, RoomDataInv
<1>5. PageSteps'
  BY <1>1, <1>2, <1>3, <1>4, NothingMoves DEF PageSteps, RoomDataInv
<1> QED
  BY <1>1, <1>2, <1>5 DEF RoomDataInv, StoreUnchanged

(* The players that may lose their identity are selected.                  *)
LEMMA SelectCandidatesKeepsPage ==
  ASSUME RoomDataInv, SelectCandidates
  PROVE  RoomDataInv'
<1>1. StoreUnchanged
  BY DEF SelectCandidates, StoreUnchanged
<1>2. /\ page.step = "counts" /\ page'.step = "identities" /\ page'.room = page.room
      /\ page'.rooms = page.rooms /\ page'.last_seen = page.last_seen
      /\ page'.identities = page.identities /\ PageIsRecord' /\ page'.counts = page.counts
      /\ page'.unasked = Candidates(page.room) /\ DOMAIN page.counts = DataTables
  BY DEF SelectCandidates, PageIsRecord, RoomDataInv, Candidates, Related
<1>3. {row.room : row \in table_rows}' = {row.room : row \in table_rows}
  BY <1>1 DEF StoreUnchanged
<1>4. page'.identities = Leaving(Candidates(page.room) \ page'.unasked, page.room)
  BY <1>2 DEF PageSteps, RoomDataInv, Leaving
<1>5. PageSteps'
  <2>1. /\ page'.last_seen = Cardinality(RecordsInMemory(page.room)')
        /\ \A t \in DOMAIN page'.counts :
             page'.counts[t] = Cardinality(RowsOfTable(t, page.room)')
    BY <1>1, <1>2, NothingMoves DEF PageSteps, RoomDataInv
  <2>2. /\ page'.unasked \subseteq Candidates(page.room)'
        /\ page'.identities = Leaving(Candidates(page.room) \ page.unasked, page.room)'
    BY <1>1, <1>2, <1>4, NothingMoves
  <2>3. /\ page'.room \in DataRooms /\ DOMAIN page'.counts = DataTables
        /\ {row.room : row \in table_rows}' \ {Null} \subseteq page'.rooms
    BY <1>2, <1>3 DEF PageSteps, RoomDataInv
  <2> QED
    BY <1>2, <2>1, <2>2, <2>3 DEF PageSteps
<1> QED
  BY <1>1, <1>2, <1>5 DEF RoomDataInv, StoreUnchanged

(* One of them is looked at.                                               *)
LEMMA CountIdentityKeepsPage ==
  ASSUME RoomDataInv, NEW player, CountIdentity(player)
  PROVE  RoomDataInv'
<1>1. StoreUnchanged
  BY DEF CountIdentity, StoreUnchanged
<1>2. /\ page.step = "identities" /\ page'.step = "identities" /\ page'.room = page.room
      /\ page'.rooms = page.rooms /\ page'.last_seen = page.last_seen
      /\ PageIsRecord' /\ page'.counts = page.counts /\ player \in page.unasked
      /\ page'.unasked = page.unasked \ {player}
      /\ page'.identities = page.identities \cup Leaving({player}, page.room)
  BY DEF CountIdentity, PageIsRecord, RoomDataInv, Leaving
<1>3. {row.room : row \in table_rows}' = {row.room : row \in table_rows}
  BY <1>1 DEF StoreUnchanged
<1>4. /\ page'.unasked \subseteq Candidates(page.room)
      /\ page'.identities = Leaving(Candidates(page.room) \ page'.unasked, page.room)
  BY <1>2 DEF PageSteps, RoomDataInv, Leaving
<1>5. PageSteps'
  <2>1. /\ page'.last_seen = Cardinality(RecordsInMemory(page.room)')
        /\ \A t \in DOMAIN page'.counts :
             page'.counts[t] = Cardinality(RowsOfTable(t, page.room)')
    BY <1>1, <1>2, NothingMoves DEF PageSteps, RoomDataInv
  <2>2. /\ page'.unasked \subseteq Candidates(page.room)'
        /\ page'.identities = Leaving(Candidates(page.room) \ page.unasked, page.room)'
    BY <1>1, <1>2, <1>4, NothingMoves
  <2>3. /\ page'.room \in DataRooms /\ DOMAIN page'.counts = DataTables
        /\ {row.room : row \in table_rows}' \ {Null} \subseteq page'.rooms
    BY <1>2, <1>3 DEF PageSteps, RoomDataInv
  <2> QED
    BY <1>2, <2>1, <2>2, <2>3 DEF PageSteps
<1> QED
  BY <1>1, <1>2, <1>5 DEF RoomDataInv, StoreUnchanged

(* The page is shown.                                                      *)
LEMMA ShowPageKeepsPage ==
  ASSUME RoomDataInv, ShowPage
  PROVE  RoomDataInv'
<1>1. StoreUnchanged
  BY DEF ShowPage, StoreUnchanged
<1>2. /\ page.step = "identities" /\ page'.step = "shown" /\ page'.room = page.room
      /\ page'.rooms = page.rooms /\ page'.last_seen = page.last_seen
      /\ PageIsRecord' /\ page'.counts = page.counts /\ page.unasked = {}
      /\ page'.unasked = page.unasked /\ page'.identities = page.identities
  BY DEF ShowPage, PageIsRecord, RoomDataInv
<1>3. {row.room : row \in table_rows}' = {row.room : row \in table_rows}
  BY <1>1 DEF StoreUnchanged
<1>4. PageSteps'
  BY <1>1, <1>2, <1>3, NothingMoves DEF PageSteps, RoomDataInv
<1> QED
  BY <1>1, <1>2, <1>4 DEF RoomDataInv, StoreUnchanged

(* What is on a shown page is what DeleteRoomData takes.                   *)
LEMMA ShownIsRemoved ==
  ASSUME RoomDataAssumption, RoomDataInv
  PROVE  RemovalIsAnnounced
<1> SUFFICES ASSUME page.step = "shown" PROVE RemovalIsAnnounced
  BY DEF RemovalIsAnnounced
<1> DEFINE room == page.room
<1>1. /\ room \in DataRooms /\ room # Null /\ page.last_seen = Cardinality(RecordsInMemory(room))
      /\ \A table \in DataTables : page.counts[table] = Cardinality(RowsOfTable(table, room))
      /\ {row.room : row \in table_rows} \ {Null} \subseteq page.rooms
      /\ page.identities = Leaving(Candidates(room), room)
  BY DEF RoomDataInv, PageSteps, RoomDataAssumption
<1>2. \A table : RowsOfTable(table, room) = {row \in RemovedRows(room) : row.table = table}
  BY DEF RowsOfTable, RemovedRows
<1>3. \A table \in DataTables :
        page.counts[table] = Cardinality({row \in RemovedRows(room) : row.table = table})
  BY <1>1, <1>2
<1>4. page.last_seen = Cardinality({record \in last_seen_history : record[1] = room})
  BY <1>1 DEF RecordsInMemory
<1>5. \A player : (\E row \in table_rows \ RemovedRows(room) : row.player = player)
                   <=> NamedElsewhere(player, room)
  BY DEF RemovedRows, NamedElsewhere
<1>6. RemovedIdentities(room) = page.identities \cap PeopleOf(room)
  BY <1>1, <1>5 DEF RemovedIdentities, Leaving, Candidates
<1>7. ASSUME NEW player \in page.identities \ PeopleOf(room)
      PROVE  [realm |-> room, player |-> player] \in relationship_players
  <2>1. player \in Related(room)
    BY <1>1 DEF Leaving, Candidates
  <2>2. PICK row \in relationship_players : row.realm = room /\ row.player = player
    BY <2>1 DEF Related
  <2>3. row = [realm |-> room, player |-> player]
    BY <2>2 DEF RoomDataInv
  <2> QED
    BY <2>3
<1>8. RemovedRows(room) # {} => room \in page.rooms
  BY <1>1 DEF RemovedRows
<1> QED
  BY <1>3, <1>4, <1>6, <1>7, <1>8 DEF RemovalIsAnnounced

(* room_data_summary and delete_room_data: what the page of room data      *)
(* announces is what the removal then takes, if nothing is written between *)
(* them, though one asks statement by statement for what the other removes *)
(* in a transaction of its own queries.                                    *)
THEOREM AnnouncedIsRemoved == RoomDataSpec => []RemovalIsAnnounced
<1>1. RoomDataInit => RoomDataInv
  BY DEF RoomDataInit, NoPage, RoomDataInv, PageIsRecord, PageSteps
<1>2. RoomDataInv /\ [RoomDataNext]_room_data_vars => RoomDataInv'
  <2> SUFFICES ASSUME RoomDataInv, [RoomDataNext]_room_data_vars PROVE RoomDataInv'
    OBVIOUS
  <2>1. relationship_players \subseteq [realm : DataRooms, player : People]
    BY DEF RoomDataInv
  <2>2. CASE UNCHANGED room_data_vars
    <3>1. StoreUnchanged /\ page' = page
      BY <2>2 DEF room_data_vars, StoreUnchanged
    <3>2. {row.room : row \in table_rows}' = {row.room : row \in table_rows}
      BY <3>1 DEF StoreUnchanged
    <3>3. PageSteps' /\ PageIsRecord'
      BY <3>1, <3>2, NothingMoves DEF PageSteps, PageIsRecord, RoomDataInv
    <3> QED
      BY <2>1, <3>1, <3>3 DEF RoomDataInv, StoreUnchanged
  <2>3. ASSUME NEW row, InsertRow(row) \/ DeleteTabEntry(row) PROVE RoomDataInv'
    BY <2>1, <2>3, WritingKeepsPage DEF InsertRow, DeleteTabEntry
  <2>4. ASSUME NEW room \in DataRooms, NEW players \in SUBSET People,
               ImportRelationships(room, players)
        PROVE  RoomDataInv'
    <3>1. relationship_players' \subseteq [realm : DataRooms, player : People]
      BY <2>1, <2>4 DEF ImportRelationships
    <3> QED
      BY <2>4, <3>1, WritingKeepsPage DEF ImportRelationships
  <2>5. ASSUME NEW room \in DataRooms, NEW player, SeePlayer(room, player) PROVE RoomDataInv'
    BY <2>1, <2>5, WritingKeepsPage DEF SeePlayer
  <2>6. ASSUME NEW room \in DataRooms, DeleteRoomData(room) \/ PurgeLastSeen(room)
        PROVE  RoomDataInv'
    <3>1. Written /\ relationship_players' \subseteq relationship_players
      BY <2>6 DEF DeleteRoomData, PurgeLastSeen
    <3> QED
      BY <2>1, <3>1, WritingKeepsPage
  <2>7. CASE RoomDataNext
    BY <2>3, <2>4, <2>5, <2>6, <2>7, OpenPageKeepsPage, ListRoomsKeepsPage, CountTableKeepsPage,
       SelectCandidatesKeepsPage, CountIdentityKeepsPage, ShowPageKeepsPage DEF RoomDataNext
  <2> QED
    BY <2>2, <2>7
<1>3. RoomDataInv => RemovalIsAnnounced
  BY RoomDataAssumption, ShownIsRemoved
<1> QED
  BY <1>1, <1>2, <1>3, PTL DEF RoomDataSpec

-----------------------------------------------------------------------------
(***************************************************************************)
(* Traffic metrics: Metrics.                                               *)
(***************************************************************************)

(* The rows that a cell of a table is the sum of.                          *)
KeysOf(t) == {key \in Keys : key[1] = t.series /\ key[2] \in Places(t)}

(* What of the increments taken is still to be inserted.                   *)
StillToInsert == [key \in Keys |-> IF key \in flush.rest THEN flush.taken[key] ELSE 0]

(* The types of what a flush and the wire counter hold.                    *)
FlushRecords ==
  [running : BOOLEAN, taken : [Keys -> Nat], rest : SUBSET Keys, tables : [Cells -> Nat]]

WireRecords ==
  [active : BOOLEAN, total : Nat, last : Nat, read : SUBSET Nat, pump : BOOLEAN,
   counted : Nat, final : Nat]

(* The types of the variables.                                             *)
TrafficTypes ==
  /\ second \in Seconds
  /\ {pending_rows, recorded, lost} \subseteq [Keys -> Nat]
  /\ stored \in [Cells -> Nat]
  /\ flush \in FlushRecords
  /\ wire \in WireRecords

(* What the sampler has read it has counted.                               *)
SamplesCounted == wire.counted >= wire.last /\ wire.counted >= wire.final

(* A transaction holds what was stored when it began and what of the       *)
(* increments taken has been inserted.                                     *)
FlushIsWhole ==
  IF flush.running
  THEN \A t \in Cells : flush.tables[t] + SumOf(StillToInsert, KeysOf(t))
                          = stored[t] + SumOf(flush.taken, KeysOf(t))
  ELSE flush.taken = NoBytes

(* A cell, what is pending and taken for it, and what went with a process  *)
(* that stopped, are together what was recorded.                           *)
BytesAccounted ==
  \A t \in Cells :
    stored[t] + SumOf(pending_rows, KeysOf(t)) + SumOf(flush.taken, KeysOf(t))
      + SumOf(lost, KeysOf(t)) = SumOf(recorded, KeysOf(t))

(* The inductive invariant.                                                *)
TrafficInv == TrafficTypes /\ SamplesCounted /\ FlushIsWhole /\ BytesAccounted

(* The rows of a cell are finitely many, so that they have a sum.          *)
LEMMA KeysAreFinite ==
  ASSUME NEW t \in Cells
  PROVE  /\ IsFiniteSet(KeysOf(t)) /\ KeysOf(t) \subseteq Keys
         /\ \A f \in [Keys -> Nat] : Numbers(f, KeysOf(t)) /\ SumOf(f, KeysOf(t)) \in Int
<1>1. IsFiniteSet(Seconds)
  BY MetricsAssumption, FS_Interval DEF Seconds
<1>2. IsFiniteSet({t.series})
  BY FS_Singleton
<1>3. IsFiniteSet({t.series} \X Seconds)
  BY <1>1, <1>2, FS_Product
<1>4. KeysOf(t) \subseteq {t.series} \X Seconds /\ KeysOf(t) \subseteq Keys
  BY DEF KeysOf, Keys
<1>5. IsFiniteSet(KeysOf(t))
  BY <1>3, <1>4, FS_Subset
<1>6. ASSUME NEW f \in [Keys -> Nat]
      PROVE  Numbers(f, KeysOf(t)) /\ SumOf(f, KeysOf(t)) \in Int
  <2>1. Numbers(f, KeysOf(t))
    BY <1>4 DEF Numbers
  <2>2. Total(f, KeysOf(t)) \in Int
    BY <1>5, <2>1, TotalIsNumber
  <2> QED
    BY <2>1, <2>2, Zenon DEF SumOf, Total
<1> QED
  BY <1>4, <1>5, <1>6

(* The laws of sums, over the keys of a cell.                              *)
LEMMA SumIsSame ==
  ASSUME NEW t \in Cells, NEW f \in [Keys -> Nat], NEW g \in [Keys -> Nat],
         \A key \in KeysOf(t) : f[key] = g[key]
  PROVE  SumOf(f, KeysOf(t)) = SumOf(g, KeysOf(t))
<1>1. Total(f, KeysOf(t)) = Total(g, KeysOf(t))
  BY KeysAreFinite, TotalIsSame
<1> QED
  BY <1>1, Zenon DEF SumOf, Total

(* Zeros sum to zero.                                                      *)
LEMMA SumOfNone ==
  ASSUME NEW t \in Cells, NEW f \in [Keys -> Nat], \A key \in KeysOf(t) : f[key] = 0
  PROVE  SumOf(f, KeysOf(t)) = 0
<1>1. Total(f, KeysOf(t)) = 0
  BY KeysAreFinite, TotalOfNone
<1> QED
  BY <1>1, Zenon DEF SumOf, Total

(* Sums add.                                                               *)
LEMMA SumAdds ==
  ASSUME NEW t \in Cells, NEW f \in [Keys -> Nat], NEW g \in [Keys -> Nat],
         NEW h \in [Keys -> Nat], \A key \in KeysOf(t) : h[key] = f[key] + g[key]
  PROVE  SumOf(h, KeysOf(t)) = SumOf(f, KeysOf(t)) + SumOf(g, KeysOf(t))
<1>1. Total(h, KeysOf(t)) = Total(f, KeysOf(t)) + Total(g, KeysOf(t))
  BY KeysAreFinite, TotalAdds
<1> QED
  BY <1>1, Zenon DEF SumOf, Total

(* A sum grows with the row of a key of the cell.                          *)
LEMMA SumGrows ==
  ASSUME NEW t \in Cells, NEW f \in [Keys -> Nat], NEW g \in [Keys -> Nat],
         NEW key \in Keys, NEW n \in Int, g[key] = f[key] + n,
         \A other \in Keys \ {key} : g[other] = f[other]
  PROVE  SumOf(g, KeysOf(t)) = SumOf(f, KeysOf(t)) + (IF key \in KeysOf(t) THEN n ELSE 0)
<1>1. CASE key \in KeysOf(t)
  <2>1. Total(g, KeysOf(t)) = Total(f, KeysOf(t)) + n
    BY <1>1, KeysAreFinite, TotalGrows
  <2> QED
    BY <1>1, <2>1, Zenon DEF SumOf, Total
<1>2. CASE key \notin KeysOf(t)
  <2>1. \A k \in KeysOf(t) : f[k] = g[k]
    BY <1>2, KeysAreFinite
  <2>2. SumOf(f, KeysOf(t)) = SumOf(g, KeysOf(t))
    BY <2>1, SumIsSame
  <2> QED
    BY <1>2, <2>2, KeysAreFinite
<1> QED
  BY <1>1, <1>2

(* What recording does to the rows.                                        *)
Recorded(series, amount) ==
  \E at \in Seconds :
    /\ pending_rows' = [pending_rows EXCEPT ![<<series, at>>] = @ + amount]
    /\ recorded' = [recorded EXCEPT ![<<series, at>>] = @ + amount]

(* The rows are as they were.                                              *)
RowsKept == UNCHANGED <<pending_rows, recorded, lost, stored, flush>>

(* Then what is accounted for stays so.                                    *)
LEMMA RowsKeptStep ==
  ASSUME TrafficInv, RowsKept
  PROVE  FlushIsWhole' /\ BytesAccounted'
BY Zenon DEF TrafficInv, RowsKept, FlushIsWhole, BytesAccounted, StillToInsert

(* What is recorded is pending (record).                                   *)
LEMMA RecordedStep ==
  ASSUME TrafficInv, NEW series \in Series, NEW amount \in Nat, Recorded(series, amount),
         UNCHANGED <<flush, stored, lost>>
  PROVE  /\ {pending_rows', recorded'} \subseteq [Keys -> Nat]
         /\ FlushIsWhole' /\ BytesAccounted'
<1>1. PICK at \in Seconds :
        /\ pending_rows' = [pending_rows EXCEPT ![<<series, at>>] = @ + amount]
        /\ recorded' = [recorded EXCEPT ![<<series, at>>] = @ + amount]
  BY DEF Recorded
<1> DEFINE k == <<series, at>>
<1>2. k \in Keys
  BY DEF Keys
<1> HIDE DEF k
<1>3. pending_rows \in [Keys -> Nat] /\ recorded \in [Keys -> Nat] /\ lost \in [Keys -> Nat]
  BY DEF TrafficInv, TrafficTypes
<1>4. pending_rows' \in [Keys -> Nat] /\ recorded' \in [Keys -> Nat]
  BY <1>1, <1>2, <1>3 DEF k
<1>5. /\ pending_rows'[k] = pending_rows[k] + amount /\ recorded'[k] = recorded[k] + amount
      /\ \A other \in Keys \ {k} : /\ pending_rows'[other] = pending_rows[other]
                                  /\ recorded'[other] = recorded[other]
  BY <1>1, <1>2, <1>3 DEF k
<1>6. FlushIsWhole'
  BY Zenon DEF TrafficInv, FlushIsWhole, StillToInsert
<1>7. ASSUME NEW t \in Cells
      PROVE  stored'[t] + SumOf(pending_rows', KeysOf(t)) + SumOf(flush'.taken, KeysOf(t))
               + SumOf(lost', KeysOf(t)) = SumOf(recorded', KeysOf(t))
  <2> DEFINE n == IF k \in KeysOf(t) THEN amount ELSE 0
  <2>1. /\ SumOf(pending_rows', KeysOf(t)) = SumOf(pending_rows, KeysOf(t)) + n
        /\ SumOf(recorded', KeysOf(t)) = SumOf(recorded, KeysOf(t)) + n
    <3>1. /\ pending_rows'[k] = pending_rows[k] + amount
          /\ \A other \in Keys \ {k} : pending_rows'[other] = pending_rows[other]
      BY <1>5
    <3>2. /\ recorded'[k] = recorded[k] + amount
          /\ \A other \in Keys \ {k} : recorded'[other] = recorded[other]
      BY <1>5
    <3>3. amount \in Int
      OBVIOUS
    <3>4. SumOf(pending_rows', KeysOf(t)) = SumOf(pending_rows, KeysOf(t)) + n
      BY <1>2, <1>3, <1>4, <3>1, <3>3, SumGrows, Zenon
    <3>5. SumOf(recorded', KeysOf(t)) = SumOf(recorded, KeysOf(t)) + n
      BY <1>2, <1>3, <1>4, <3>2, <3>3, SumGrows, Zenon
    <3> QED
      BY <3>4, <3>5
  <2>2. n \in Int
    OBVIOUS
  <2> HIDE DEF n
  <2>3. stored[t] + SumOf(pending_rows, KeysOf(t)) + SumOf(flush.taken, KeysOf(t))
               + SumOf(lost, KeysOf(t)) = SumOf(recorded, KeysOf(t))
    BY DEF TrafficInv, BytesAccounted
  <2>4. /\ stored[t] \in Int /\ SumOf(pending_rows, KeysOf(t)) \in Int
        /\ SumOf(flush.taken, KeysOf(t)) \in Int /\ SumOf(lost, KeysOf(t)) \in Int
        /\ SumOf(recorded, KeysOf(t)) \in Int
    <3>1. stored[t] \in Int /\ flush.taken \in [Keys -> Nat]
      BY DEF TrafficInv, TrafficTypes, FlushRecords
    <3> QED
      BY <1>3, <3>1, KeysAreFinite
  <2>5. stored' = stored /\ flush' = flush /\ lost' = lost
    OBVIOUS
  <2> QED
    BY <2>1, <2>2, <2>3, <2>4, <2>5
<1>8. BytesAccounted'
  BY <1>7, Zenon DEF BytesAccounted, KeysOf
<1> QED
  BY <1>4, <1>6, <1>8

(* A drain takes what is pending (drain_pending), an insertion moves one   *)
(* increment into the cells of its tables (flush_traffic).                 *)
LEMMA DrainStep ==
  ASSUME TrafficInv, DrainPending
  PROVE  TrafficInv'
<1>1. /\ pending_rows \in [Keys -> Nat] /\ recorded \in [Keys -> Nat] /\ lost \in [Keys -> Nat]
      /\ stored \in [Cells -> Nat] /\ NoBytes \in [Keys -> Nat]
      /\ flush.taken = NoBytes
  BY DEF TrafficInv, TrafficTypes, NoBytes, FlushIsWhole, DrainPending
<1>2. /\ flush'.running = TRUE /\ flush'.taken = pending_rows /\ flush'.tables = stored
      /\ flush'.rest = {key \in Keys : pending_rows[key] > 0}
      /\ flush' \in FlushRecords
      /\ pending_rows' = NoBytes
      /\ second' = second /\ stored' = stored /\ wire' = wire
      /\ recorded' = recorded /\ lost' = lost
  BY <1>1 DEF DrainPending, FlushRecords
<1>3. TrafficTypes' /\ SamplesCounted'
  BY <1>1, <1>2 DEF TrafficInv, TrafficTypes, SamplesCounted
<1>4. StillToInsert' = [key \in Keys |-> IF key \in flush'.rest THEN flush'.taken[key] ELSE 0]
  BY DEF StillToInsert
<1>5. StillToInsert' \in [Keys -> Nat] /\ \A key \in Keys : StillToInsert'[key] = pending_rows[key]
  BY <1>1, <1>2, <1>4
<1>6. ASSUME NEW t \in Cells
      PROVE  /\ flush'.tables[t] + SumOf(StillToInsert', KeysOf(t))
                   = stored'[t] + SumOf(flush'.taken, KeysOf(t))
             /\ stored'[t] + SumOf(pending_rows', KeysOf(t)) + SumOf(flush'.taken, KeysOf(t))
                  + SumOf(lost', KeysOf(t)) = SumOf(recorded', KeysOf(t))
  <2>1. SumOf(StillToInsert', KeysOf(t)) = SumOf(pending_rows, KeysOf(t))
    BY <1>1, <1>5, SumIsSame, KeysAreFinite
  <2>2. SumOf(NoBytes, KeysOf(t)) = 0
    BY <1>1, SumOfNone, KeysAreFinite DEF NoBytes
  <2>3. /\ stored[t] \in Int /\ SumOf(pending_rows, KeysOf(t)) \in Int
        /\ SumOf(lost, KeysOf(t)) \in Int
    BY <1>1, KeysAreFinite
  <2>4. stored[t] + SumOf(pending_rows, KeysOf(t)) + SumOf(flush.taken, KeysOf(t))
               + SumOf(lost, KeysOf(t)) = SumOf(recorded, KeysOf(t))
    BY DEF TrafficInv, BytesAccounted
  <2> QED
    BY <1>1, <1>2, <2>1, <2>2, <2>3, <2>4
<1>7. FlushIsWhole' /\ BytesAccounted'
  BY <1>2, <1>6, Zenon DEF FlushIsWhole, BytesAccounted, KeysOf
<1> QED
  BY <1>3, <1>7 DEF TrafficInv

(* An insertion keeps the invariant.                                       *)
LEMMA InsertStep ==
  ASSUME TrafficInv, NEW k \in Keys, InsertIncrement(k)
  PROVE  TrafficInv'
<1> DEFINE tables == [t \in Cells |-> IF t.series = k[1] /\ k[2] \in Places(t)
                                     THEN flush.tables[t] + flush.taken[k] ELSE flush.tables[t]]
<1>1. /\ flush \in FlushRecords /\ flush.running /\ k \in flush.rest
      /\ flush.taken \in [Keys -> Nat] /\ flush.tables \in [Cells -> Nat]
      /\ flush.rest \in SUBSET Keys
  BY DEF TrafficInv, TrafficTypes, InsertIncrement, FlushRecords
<1>2. flush' = [flush EXCEPT !.rest = flush.rest \ {k}, !.tables = tables]
  BY <1>1, Zenon DEF InsertIncrement
<1>3. tables \in [Cells -> Nat]
  BY <1>1
<1>4. \A t \in Cells : tables[t] = flush.tables[t] + (IF k \in KeysOf(t) THEN flush.taken[k] ELSE 0)
  BY <1>1 DEF KeysOf
<1> HIDE DEF tables
<1>5. /\ flush'.running = flush.running /\ flush'.taken = flush.taken
      /\ flush'.rest = flush.rest \ {k} /\ flush'.tables = tables
      /\ flush' \in FlushRecords
  BY <1>1, <1>2, <1>3 DEF FlushRecords
<1>6. UNCHANGED <<second, pending_rows, stored, wire, recorded, lost>>
  BY DEF InsertIncrement
<1>7. TrafficTypes' /\ SamplesCounted'
  BY <1>5, <1>6, Zenon DEF TrafficInv, TrafficTypes, SamplesCounted
<1>8. StillToInsert' = [key \in Keys |-> IF key \in flush'.rest THEN flush'.taken[key] ELSE 0]
  BY DEF StillToInsert
<1>9. /\ StillToInsert \in [Keys -> Nat] /\ StillToInsert' \in [Keys -> Nat]
      /\ StillToInsert'[k] = StillToInsert[k] + (0 - flush.taken[k])
      /\ \A other \in Keys \ {k} : StillToInsert'[other] = StillToInsert[other]
  BY <1>1, <1>5, <1>8 DEF StillToInsert
<1>10. ASSUME NEW t \in Cells
       PROVE  flush'.tables[t] + SumOf(StillToInsert', KeysOf(t))
                = stored'[t] + SumOf(flush'.taken, KeysOf(t))
  <2> DEFINE n == flush.taken[k]
             before == SumOf(StillToInsert, KeysOf(t))
             after == SumOf(StillToInsert', KeysOf(t))
             taken == SumOf(flush.taken, KeysOf(t))
  <2>1. n \in Int /\ 0 - n \in Int
    BY <1>1
  <2>2. after = before + (IF k \in KeysOf(t) THEN 0 - n ELSE 0)
    <3>1. \A a, b \in [Keys -> Nat] : \A m \in Int :
            b[k] = a[k] + m /\ (\A other \in Keys \ {k} : b[other] = a[other]) =>
            SumOf(b, KeysOf(t)) = SumOf(a, KeysOf(t)) + (IF k \in KeysOf(t) THEN m ELSE 0)
      BY SumGrows
    <3> QED
      BY <1>9, <2>1, <3>1, Zenon
  <2>3. before \in Int /\ after \in Int /\ taken \in Int
    BY <1>1, <1>9, KeysAreFinite
  <2>4. flush.tables[t] + before = stored[t] + taken
    BY <1>1 DEF TrafficInv, FlushIsWhole
  <2>5. flush.tables[t] \in Int /\ stored[t] \in Int
    BY <1>1 DEF TrafficInv, TrafficTypes
  <2>6. tables[t] = flush.tables[t] + (IF k \in KeysOf(t) THEN n ELSE 0)
    BY <1>4
  <2> HIDE DEF n, before, after, taken
  <2>7. tables[t] + after = stored[t] + taken
    BY <2>1, <2>2, <2>3, <2>4, <2>5, <2>6
  <2> QED
    BY <1>5, <1>6, <2>7, Zenon DEF after, taken
<1>11. FlushIsWhole'
  BY <1>1, <1>5, <1>10, Zenon DEF FlushIsWhole, KeysOf
<1>12. BytesAccounted'
  BY <1>5, <1>6, Zenon DEF TrafficInv, BytesAccounted
<1> QED
  BY <1>7, <1>11, <1>12 DEF TrafficInv

(* The transaction is over and its increments are in the tables, in the    *)
(* rows again, or lost.                                                    *)
LEMMA IdleFlush ==
  Idle \in FlushRecords /\ ~Idle.running /\ Idle.taken = NoBytes /\ NoBytes \in [Keys -> Nat]
BY DEF Idle, FlushRecords, NoBytes

(* A commit: the increments are in the tables.                             *)
LEMMA CommitStep ==
  ASSUME TrafficInv, CommitFlush
  PROVE  TrafficInv'
<1>1. /\ flush \in FlushRecords /\ flush.running /\ flush.rest = {}
      /\ flush.taken \in [Keys -> Nat] /\ flush.tables \in [Cells -> Nat]
      /\ stored' = flush.tables /\ flush' = Idle
      /\ UNCHANGED <<second, pending_rows, wire, recorded, lost>>
  BY DEF TrafficInv, TrafficTypes, CommitFlush, FlushRecords
<1>2. TrafficTypes' /\ SamplesCounted' /\ FlushIsWhole'
  BY <1>1, IdleFlush, Zenon DEF TrafficInv, TrafficTypes, SamplesCounted, FlushIsWhole
<1>3. ASSUME NEW t \in Cells
      PROVE  stored'[t] + SumOf(pending_rows', KeysOf(t)) + SumOf(flush'.taken, KeysOf(t))
               + SumOf(lost', KeysOf(t)) = SumOf(recorded', KeysOf(t))
  <2>1. SumOf(StillToInsert, KeysOf(t)) = 0
    <3>1. StillToInsert \in [Keys -> Nat] /\ \A key \in Keys : StillToInsert[key] = 0
      BY <1>1 DEF StillToInsert
    <3> QED
      BY <3>1, SumOfNone, KeysAreFinite
  <2>2. SumOf(NoBytes, KeysOf(t)) = 0
    BY IdleFlush, SumOfNone, KeysAreFinite DEF NoBytes
  <2>3. /\ stored[t] \in Int /\ flush.tables[t] \in Int /\ SumOf(pending_rows, KeysOf(t)) \in Int
        /\ SumOf(lost, KeysOf(t)) \in Int /\ SumOf(flush.taken, KeysOf(t)) \in Int
    BY <1>1, KeysAreFinite DEF TrafficInv, TrafficTypes
  <2>4. stored[t] + SumOf(pending_rows, KeysOf(t)) + SumOf(flush.taken, KeysOf(t))
               + SumOf(lost, KeysOf(t)) = SumOf(recorded, KeysOf(t))
    BY DEF TrafficInv, BytesAccounted
  <2>5. flush.tables[t] + SumOf(StillToInsert, KeysOf(t))
          = stored[t] + SumOf(flush.taken, KeysOf(t))
    BY <1>1 DEF TrafficInv, FlushIsWhole
  <2>6. flush'.taken = NoBytes
    BY <1>1, IdleFlush
  <2> QED
    BY <1>1, <2>1, <2>2, <2>3, <2>4, <2>5, <2>6
<1>4. BytesAccounted'
  BY <1>3, Zenon DEF BytesAccounted, KeysOf
<1> QED
  BY <1>2, <1>4 DEF TrafficInv

(* A rollback: they are in the rows again.                                 *)
LEMMA FailStep ==
  ASSUME TrafficInv, FailFlush
  PROVE  TrafficInv'
<1>1. /\ flush.taken \in [Keys -> Nat] /\ pending_rows \in [Keys -> Nat]
      /\ lost \in [Keys -> Nat] /\ stored \in [Cells -> Nat]
      /\ pending_rows' = [key \in Keys |-> pending_rows[key] + flush.taken[key]]
      /\ flush' = Idle
      /\ UNCHANGED <<second, stored, wire, recorded, lost>>
  BY DEF TrafficInv, TrafficTypes, FailFlush, FlushRecords, Requeue
<1>2. pending_rows' \in [Keys -> Nat]
  BY <1>1
<1>3. TrafficTypes' /\ SamplesCounted' /\ FlushIsWhole'
  BY <1>1, <1>2, IdleFlush DEF TrafficInv, TrafficTypes, SamplesCounted, FlushIsWhole
<1>4. ASSUME NEW t \in Cells
      PROVE  stored'[t] + SumOf(pending_rows', KeysOf(t)) + SumOf(flush'.taken, KeysOf(t))
               + SumOf(lost', KeysOf(t)) = SumOf(recorded', KeysOf(t))
  <2>1. SumOf(pending_rows', KeysOf(t))
          = SumOf(pending_rows, KeysOf(t)) + SumOf(flush.taken, KeysOf(t))
    BY <1>1, <1>2, SumAdds, KeysAreFinite
  <2>2. SumOf(NoBytes, KeysOf(t)) = 0
    BY IdleFlush, SumOfNone, KeysAreFinite DEF NoBytes
  <2>3. /\ stored[t] \in Int /\ SumOf(pending_rows, KeysOf(t)) \in Int
        /\ SumOf(lost, KeysOf(t)) \in Int /\ SumOf(flush.taken, KeysOf(t)) \in Int
    BY <1>1, KeysAreFinite
  <2>4. stored[t] + SumOf(pending_rows, KeysOf(t)) + SumOf(flush.taken, KeysOf(t))
               + SumOf(lost, KeysOf(t)) = SumOf(recorded, KeysOf(t))
    BY DEF TrafficInv, BytesAccounted
  <2>5. flush'.taken = NoBytes /\ stored' = stored /\ lost' = lost /\ recorded' = recorded
    BY <1>1, IdleFlush
  <2> QED
    BY <2>1, <2>2, <2>3, <2>4, <2>5
<1>5. BytesAccounted'
  BY <1>4, Zenon DEF BytesAccounted, KeysOf
<1> QED
  BY <1>3, <1>5 DEF TrafficInv

(* A process that stops takes with it what was pending or in a             *)
(* transaction.                                                            *)
LEMMA RestartStep ==
  ASSUME TrafficInv, Restart
  PROVE  TrafficInv'
<1>1. /\ flush.taken \in [Keys -> Nat] /\ pending_rows \in [Keys -> Nat]
      /\ lost \in [Keys -> Nat] /\ stored \in [Cells -> Nat]
      /\ lost' = [key \in Keys |-> lost[key] + pending_rows[key] + flush.taken[key]]
      /\ pending_rows' = NoBytes /\ flush' = Idle /\ wire' = NoWire
      /\ UNCHANGED <<second, stored, recorded>>
  BY DEF TrafficInv, TrafficTypes, Restart, FlushRecords
<1> DEFINE both == [key \in Keys |-> lost[key] + pending_rows[key]]
<1>2. lost' \in [Keys -> Nat] /\ both \in [Keys -> Nat]
  BY <1>1
<1>3. /\ \A key \in Keys : both[key] = lost[key] + pending_rows[key]
      /\ \A key \in Keys : lost'[key] = both[key] + flush.taken[key]
  BY <1>1
<1> HIDE DEF both
<1>4. TrafficTypes' /\ SamplesCounted' /\ FlushIsWhole'
  <2>1. NoWire \in WireRecords /\ NoWire.counted >= NoWire.last /\ NoWire.counted >= NoWire.final
    BY DEF NoWire, WireRecords
  <2> QED
    BY <1>1, <1>2, <2>1, IdleFlush DEF TrafficInv, TrafficTypes, SamplesCounted, FlushIsWhole
<1>5. ASSUME NEW t \in Cells
      PROVE  stored'[t] + SumOf(pending_rows', KeysOf(t)) + SumOf(flush'.taken, KeysOf(t))
               + SumOf(lost', KeysOf(t)) = SumOf(recorded', KeysOf(t))
  <2>0. \A key \in KeysOf(t) : both[key] = lost[key] + pending_rows[key]
    BY <1>3, KeysAreFinite
  <2>1. SumOf(both, KeysOf(t)) = SumOf(lost, KeysOf(t)) + SumOf(pending_rows, KeysOf(t))
    BY <1>1, <1>2, <2>0, SumAdds, Zenon
  <2>2. SumOf(lost', KeysOf(t)) = SumOf(both, KeysOf(t)) + SumOf(flush.taken, KeysOf(t))
    BY <1>1, <1>2, <1>3, SumAdds, KeysAreFinite, SMTT(30)
  <2>3. SumOf(NoBytes, KeysOf(t)) = 0
    BY IdleFlush, SumOfNone, KeysAreFinite DEF NoBytes
  <2>4. /\ stored[t] \in Int /\ SumOf(pending_rows, KeysOf(t)) \in Int
        /\ SumOf(lost, KeysOf(t)) \in Int /\ SumOf(flush.taken, KeysOf(t)) \in Int
    BY <1>1, KeysAreFinite
  <2>5. stored[t] + SumOf(pending_rows, KeysOf(t)) + SumOf(flush.taken, KeysOf(t))
               + SumOf(lost, KeysOf(t)) = SumOf(recorded, KeysOf(t))
    BY DEF TrafficInv, BytesAccounted
  <2>6. /\ flush'.taken = NoBytes /\ pending_rows' = NoBytes
        /\ stored' = stored /\ recorded' = recorded
    BY <1>1, IdleFlush
  <2> QED
    BY <2>1, <2>2, <2>3, <2>4, <2>5, <2>6
<1>6. BytesAccounted'
  BY <1>5, Zenon DEF BytesAccounted, KeysOf
<1> QED
  BY <1>4, <1>6 DEF TrafficInv

(* Bytes of a frame are recorded at once.                                  *)
LEMMA RecordStep ==
  ASSUME TrafficInv, NEW series \in Series, Record(series)
  PROVE  TrafficInv'
<1>1. Recorded(series, 1)
  BY DEF Record, RecordBytes, Recorded, Read
<1>2. UNCHANGED <<second, flush, stored, wire, lost>>
  BY DEF Record
<1>3. {pending_rows', recorded'} \subseteq [Keys -> Nat] /\ FlushIsWhole' /\ BytesAccounted'
  BY <1>1, <1>2, RecordedStep
<1>4. TrafficTypes' /\ SamplesCounted'
  BY <1>2, <1>3 DEF TrafficInv, TrafficTypes, SamplesCounted
<1> QED
  BY <1>3, <1>4 DEF TrafficInv

(* What is read from the wire is recorded, once the sampler reads more     *)
(* than before.                                                            *)
WireRecorded(amount) ==
  \/ amount > 0 /\ Recorded(WireSeries, amount)
  \/ UNCHANGED <<pending_rows, recorded>>

(* Bytes of the wire are, when the sampler or the end of the pump counts   *)
(* them.                                                                   *)
LEMMA WireStep ==
  ASSUME TrafficInv, wire' \in WireRecords, SamplesCounted', NEW amount \in Nat,
         WireRecorded(amount), UNCHANGED <<second, flush, stored, lost>>
  PROVE  TrafficInv'
<1>1. CASE Recorded(WireSeries, amount)
  <2>1. {pending_rows', recorded'} \subseteq [Keys -> Nat] /\ FlushIsWhole' /\ BytesAccounted'
    BY <1>1, RecordedStep, MetricsAssumption
  <2> QED
    BY <2>1 DEF TrafficInv, TrafficTypes
<1>2. CASE UNCHANGED <<pending_rows, recorded>>
  <2>1. FlushIsWhole' /\ BytesAccounted'
    BY <1>2, RowsKeptStep DEF RowsKept
  <2> QED
    BY <1>2, <2>1, Zenon DEF TrafficInv, TrafficTypes
<1> QED
  BY <1>1, <1>2 DEF WireRecorded

(* The fields of a wire counter.                                           *)
LEMMA WireFields ==
  ASSUME NEW w \in WireRecords
  PROVE  /\ w.active \in BOOLEAN /\ w.total \in Nat /\ w.last \in Nat /\ w.read \in SUBSET Nat
         /\ w.pump \in BOOLEAN /\ w.counted \in Nat /\ w.final \in Nat
BY DEF WireRecords

(* And what becomes of them.                                               *)
LEMMA WireChanges ==
  ASSUME NEW w \in WireRecords, NEW n \in Nat, NEW m \in Nat, NEW b \in BOOLEAN,
         NEW S \in SUBSET Nat
  PROVE  /\ [w EXCEPT !.read = S, !.last = n, !.counted = m] \in WireRecords
         /\ [w EXCEPT !.pump = b, !.counted = m, !.final = n] \in WireRecords
         /\ [w EXCEPT !.total = n] \in WireRecords
         /\ [w EXCEPT !.active = b] \in WireRecords
         /\ [w EXCEPT !.read = S] \in WireRecords
BY Zenon DEF WireRecords

(* A sampler that comes late counts nothing twice: it records only what is *)
(* above the last reading.                                                 *)
LEMMA SamplerStep ==
  ASSUME TrafficInv, SamplerRecords \/ PumpEnds
  PROVE  TrafficInv'
<1>1. wire \in WireRecords /\ SamplesCounted
  BY DEF TrafficInv, TrafficTypes
<1>2. CASE SamplerRecords
  <2>1. PICK total \in wire.read, at \in Read :
          LET amount == IF total > wire.last THEN total - wire.last ELSE 0 IN
          /\ wire' = [wire EXCEPT !.read = {}, !.last = total, !.counted = @ + amount]
          /\ RecordOrSkip(WireSeries, amount, at)
    BY <1>2 DEF SamplerRecords
  <2> DEFINE amount == IF total > wire.last THEN total - wire.last ELSE 0
  <2>2. total \in Nat /\ amount \in Nat
    BY <1>1 DEF WireRecords
  <2>3. wire' \in WireRecords /\ SamplesCounted'
    <3> DEFINE sum == wire.counted + amount
    <3>1. wire.counted \in Nat /\ wire.last \in Nat /\ wire.final \in Nat /\ sum \in Nat
      BY <1>1, <2>2, WireFields
    <3>2. sum >= total /\ sum >= wire.final
      BY <1>1, <2>2, <3>1 DEF SamplesCounted
    <3> HIDE DEF sum, amount
    <3>3. wire' = [wire EXCEPT !.read = {}, !.last = total, !.counted = sum]
      BY <2>1 DEF sum, amount
    <3>4. wire' \in WireRecords
      BY <1>1, <2>2, <3>1, <3>3, WireChanges
    <3>5. wire'.counted = sum /\ wire'.last = total /\ wire'.final = wire.final
      BY <1>1, <3>3 DEF WireRecords
    <3> QED
      BY <3>2, <3>4, <3>5 DEF SamplesCounted
  <2>4. WireRecorded(amount)
    <3> HIDE DEF amount
    <3>1. RecordOrSkip(WireSeries, amount, at)
      BY <2>1 DEF amount
    <3> QED
      BY <3>1 DEF RecordOrSkip, RecordBytes, WireRecorded, Recorded, Read
  <2> HIDE DEF amount
  <2> QED
    BY <1>2, <2>2, <2>3, <2>4, WireStep DEF SamplerRecords
<1>3. CASE PumpEnds
  <2> DEFINE amount == IF wire.total > wire.last THEN wire.total - wire.last ELSE 0
  <2>1. PICK at \in Read :
          /\ wire' = [wire EXCEPT !.pump = FALSE, !.counted = @ + amount, !.final = wire.total]
          /\ RecordOrSkip(WireSeries, amount, at)
    BY <1>3 DEF PumpEnds
  <2>2. wire.total \in Nat /\ amount \in Nat
    BY <1>1 DEF WireRecords
  <2>3. wire' \in WireRecords /\ SamplesCounted'
    <3> DEFINE sum == wire.counted + amount
    <3>1. /\ wire.counted \in Nat /\ wire.last \in Nat /\ wire.final \in Nat
          /\ wire.total \in Nat /\ sum \in Nat
      BY <1>1, <2>2, WireFields
    <3>2. sum >= wire.last /\ sum >= wire.total
      BY <1>1, <2>2, <3>1 DEF SamplesCounted
    <3> HIDE DEF sum, amount
    <3>3. wire' = [wire EXCEPT !.pump = FALSE, !.counted = sum, !.final = wire.total]
      BY <2>1 DEF sum, amount
    <3>4. wire' \in WireRecords
      BY <1>1, <3>1, <3>3, WireChanges
    <3>5. wire'.counted = sum /\ wire'.last = wire.last /\ wire'.final = wire.total
      BY <1>1, <3>3 DEF WireRecords
    <3> QED
      BY <3>2, <3>4, <3>5 DEF SamplesCounted
  <2> HIDE DEF amount
  <2>4. WireRecorded(amount)
    BY <2>1 DEF RecordOrSkip, RecordBytes, WireRecorded, Recorded, Read
  <2> QED
    BY <1>3, <2>2, <2>3, <2>4, WireStep DEF PumpEnds
<1> QED
  BY <1>2, <1>3

(* Nothing else moves a byte.                                              *)
LEMMA QuietStep ==
  ASSUME TrafficInv,
         \/ Tick \/ ActivateSession \/ Transfer \/ Deactivate \/ SamplerReads
         \/ \E actor \in Actors : RegisterConnection(actor) \/ Unregister(actor)
         \/ \E actor \in Actors, type \in MessageTypes, bytes \in {1, 2} :
              RecordProtobuf(actor, type, bytes)
         \/ UNCHANGED metrics_vars
  PROVE  TrafficInv'
<1>1. RowsKept
  BY Zenon DEF Tick, ActivateSession, Transfer, Deactivate, SamplerReads, RegisterConnection,
               Unregister, RecordProtobuf, metrics_vars, RowsKept
<1>2. FlushIsWhole' /\ BytesAccounted'
  BY <1>1, RowsKeptStep
<1>3. second' \in Seconds
  <2>1. second' = second \/ (second < LastSecond /\ second' = second + 1)
    BY Zenon DEF Tick, ActivateSession, Transfer, Deactivate, SamplerReads, RegisterConnection,
                 Unregister, RecordProtobuf, metrics_vars
  <2> QED
    BY <2>1, MetricsAssumption DEF TrafficInv, TrafficTypes, Seconds
<1>4. wire' \in WireRecords /\ SamplesCounted'
  <2>1. wire \in WireRecords /\ SamplesCounted
    BY DEF TrafficInv, TrafficTypes
  <2>2. CASE wire' = wire
    BY <2>1, <2>2 DEF SamplesCounted
  <2>3. CASE ActivateSession
    <3>1. wire' = [NoWire EXCEPT !.active = TRUE, !.pump = TRUE]
      BY <2>3 DEF ActivateSession
    <3>2. wire' = [active |-> TRUE, total |-> 0, last |-> 0, read |-> {}, pump |-> TRUE,
                   counted |-> 0, final |-> 0]
      BY <3>1 DEF NoWire
    <3>3. wire' \in WireRecords
      <4>1. TRUE \in BOOLEAN /\ 0 \in Nat /\ {} \in SUBSET Nat
        OBVIOUS
      <4> QED
        BY <3>2, <4>1, Zenon DEF WireRecords
    <3>4. wire'.counted = 0 /\ wire'.last = 0 /\ wire'.final = 0
      BY <3>2
    <3> QED
      BY <3>3, <3>4 DEF SamplesCounted
  <2>4. CASE Transfer \/ Deactivate \/ SamplerReads
    <3>1. /\ wire.total + 1 \in Nat /\ {wire.total} \in SUBSET Nat /\ FALSE \in BOOLEAN
          /\ 0 \in Nat
      BY <2>1, WireFields
    <3>2. \/ wire' = [wire EXCEPT !.total = wire.total + 1]
          \/ wire' = [wire EXCEPT !.active = FALSE]
          \/ wire' = [wire EXCEPT !.read = {wire.total}]
      BY <2>4 DEF Transfer, Deactivate, SamplerReads
    <3>3. wire' \in WireRecords
      BY <2>1, <3>1, <3>2, WireChanges, Zenon
    <3>4. wire'.counted = wire.counted /\ wire'.last = wire.last /\ wire'.final = wire.final
      BY <2>1, <3>2 DEF WireRecords
    <3> QED
      BY <2>1, <3>3, <3>4 DEF SamplesCounted
  <2> QED
    BY <2>2, <2>3, <2>4, Zenon
    DEF Tick, RegisterConnection, Unregister, RecordProtobuf, metrics_vars
<1> QED
  BY <1>1, <1>2, <1>3, <1>4, Zenon DEF RowsKept, TrafficInv, TrafficTypes

(* The invariant holds in every state.                                     *)
THEOREM TrafficInvariant == MetricsSpec => []TrafficInv
<1>1. MetricsInit => TrafficInv
  <2> SUFFICES ASSUME MetricsInit PROVE TrafficInv
    OBVIOUS
  <2>1. NoWire \in WireRecords /\ NoWire.counted >= NoWire.last /\ NoWire.counted >= NoWire.final
    BY DEF NoWire, WireRecords
  <2>2. /\ stored \in [Cells -> Nat] /\ 0 \in Seconds
        /\ \A t \in Cells : stored[t] = 0
    BY MetricsAssumption DEF MetricsInit, Seconds
  <2>3. TrafficTypes /\ SamplesCounted /\ FlushIsWhole
    BY <2>1, <2>2, IdleFlush DEF MetricsInit, TrafficTypes, SamplesCounted, FlushIsWhole
  <2>4. ASSUME NEW t \in Cells PROVE SumOf(NoBytes, KeysOf(t)) = 0
    BY IdleFlush, SumOfNone, KeysAreFinite DEF NoBytes
  <2>5. BytesAccounted
    BY <2>2, <2>4, IdleFlush DEF MetricsInit, BytesAccounted
  <2> QED
    BY <2>3, <2>5 DEF TrafficInv
<1>2. TrafficInv /\ [MetricsNext]_metrics_vars => TrafficInv'
  <2> SUFFICES ASSUME TrafficInv, [MetricsNext]_metrics_vars PROVE TrafficInv'
    OBVIOUS
  <2> QED
    BY DrainStep, CommitStep, FailStep, RestartStep, RecordStep, InsertStep, SamplerStep, QuietStep,
       Zenon DEF MetricsNext, TrafficNext, ProtobufNext, WireNext
<1> QED
  BY <1>1, <1>2, PTL DEF MetricsSpec

(* Every byte recorded is in each table or on its way there, or went with  *)
(* a process that stopped, whatever fails between drain and commit; and    *)
(* what the pump read before it ended is recorded (Metrics::record,        *)
(* drain_pending, flush_traffic, sample_wire_traffic).                     *)
THEOREM NoByteIsForgotten == MetricsSpec => []TrafficAccounted
<1>1. TrafficInv => TrafficAccounted
  BY Zenon DEF TrafficInv, TrafficAccounted, BytesAccounted, SamplesCounted, WireIsRecorded, KeysOf
<1> QED
  BY <1>1, TrafficInvariant, PTL

-----------------------------------------------------------------------------
(* The views of the past: a cell holds what was recorded of its period, so *)
(* the cells of a range, of whatever table, hold what was recorded of it.  *)

(* What has been recorded and is not pending, taken or lost is stored.     *)
Net == [key \in Keys |-> recorded[key] - pending_rows[key] - flush.taken[key] - lost[key]]

(* A cell holds the sum of it over its rows.                               *)
LEMMA CellIsSum ==
  ASSUME TrafficInv, NEW t \in Cells
  PROVE  stored[t] = Total(Net, KeysOf(t)) /\ Numbers(Net, KeysOf(t)) /\ IsFiniteSet(KeysOf(t))
<1> DEFINE K == KeysOf(t)
           a == [key \in Keys |-> Net[key] + pending_rows[key]]
           b == [key \in Keys |-> a[key] + flush.taken[key]]
<1>1. /\ recorded \in [Keys -> Nat] /\ pending_rows \in [Keys -> Nat]
      /\ lost \in [Keys -> Nat] /\ flush.taken \in [Keys -> Nat]
      /\ stored[t] \in Int
  BY DEF TrafficInv, TrafficTypes, FlushRecords
<1>2. IsFiniteSet(K) /\ K \subseteq Keys
  BY KeysAreFinite
<1>3. \A key \in Keys : /\ Net[key] \in Int /\ a[key] \in Int
                        /\ recorded[key] = b[key] + lost[key]
                        /\ b[key] = a[key] + flush.taken[key]
                        /\ a[key] = Net[key] + pending_rows[key]
                        /\ b[key] \in Int
  BY <1>1 DEF Net
<1>4. /\ Numbers(Net, K) /\ Numbers(a, K) /\ Numbers(b, K) /\ Numbers(recorded, K)
      /\ Numbers(lost, K) /\ Numbers(flush.taken, K) /\ Numbers(pending_rows, K)
  BY <1>1, <1>2, <1>3 DEF Numbers
<1> HIDE DEF a, b, K
<1>5. Total(recorded, K) = Total(b, K) + Total(lost, K)
  <2>1. \A key \in K : recorded[key] = b[key] + lost[key]
    BY <1>2, <1>3
  <2> QED
    BY <1>2, <1>4, <2>1, TotalAdds
<1>6. Total(b, K) = Total(a, K) + Total(flush.taken, K)
  <2>1. \A key \in K : b[key] = a[key] + flush.taken[key]
    BY <1>2, <1>3
  <2> QED
    BY <1>2, <1>4, <2>1, TotalAdds
<1>7. Total(a, K) = Total(Net, K) + Total(pending_rows, K)
  <2>1. \A key \in K : a[key] = Net[key] + pending_rows[key]
    BY <1>2, <1>3
  <2> QED
    BY <1>2, <1>4, <2>1, TotalAdds
<1>8. stored[t] + Total(pending_rows, K) + Total(flush.taken, K) + Total(lost, K)
        = Total(recorded, K)
  BY Zenon DEF TrafficInv, BytesAccounted, SumOf, Total, K
<1>9. /\ Total(Net, K) \in Int /\ Total(pending_rows, K) \in Int
      /\ Total(flush.taken, K) \in Int /\ Total(lost, K) \in Int
  BY <1>2, <1>4, TotalIsNumber
<1>10. stored[t] = Total(Net, K)
  BY <1>1, <1>5, <1>6, <1>7, <1>8, <1>9
<1> QED
  BY <1>2, <1>4, <1>10 DEF K

(* The cells of a table within a range, and the rows of the range.         *)
CellsIn(p, series, lo, hi) ==
  {t \in Cells : /\ t.seconds = p /\ t.series = series
                 /\ lo <= t.seconds * t.place /\ t.seconds * t.place < hi}

KeysIn(series, lo, hi) == {key \in Keys : key[1] = series /\ lo <= key[2] /\ key[2] < hi}

CellFields == \A t \in Cells : /\ t.seconds \in Nat \ {0} /\ t.place \in Nat
                               /\ t.place <= LastSecond /\ t.series \in Series

(* The fields of a cell.                                                   *)
LEMMA FieldsOfCells == CellFields
<1> SUFFICES ASSUME NEW t \in Cells
             PROVE  /\ t.seconds \in Nat \ {0} /\ t.place \in Nat
                    /\ t.place <= LastSecond /\ t.series \in Series
  BY Zenon DEF CellFields
<1>1. t \in [seconds : Periods, place : Seconds, series : Series]
  BY Zenon DEF Cells
<1>2. t.seconds \in Periods /\ t.place \in Seconds /\ t.series \in Series
  BY <1>1
<1>3. t.seconds \in Nat \ {0}
  BY <1>2, MetricsAssumption
<1>4. \A n \in Seconds : n \in Nat /\ n <= LastSecond
  BY MetricsAssumption DEF Seconds
<1> QED
  BY <1>2, <1>3, <1>4

(* A table has finitely many cells.                                        *)
LEMMA CellsAreFinite ==
  ASSUME NEW p \in Periods, NEW series \in Series, NEW S \in SUBSET Cells,
         \A t \in S : t.seconds = p /\ t.series = series
  PROVE  IsFiniteSet(S)
<1> DEFINE at == [t \in S |-> t.place]
<1>1. IsFiniteSet(Seconds)
  BY MetricsAssumption, FS_Interval DEF Seconds
<1>2. at \in [S -> Seconds]
  BY DEF Cells
<1>3. \A t, u \in S : at[t] = at[u] => t = u
  BY DEF Cells
<1> HIDE DEF at
<1>4. at \in Injection(S, Seconds)
  BY <1>2, <1>3 DEF Injection, IsInjective
<1> QED
  BY <1>1, <1>4, FS_Injection

(* The rows of the cells of a range that begins and ends with one.         *)
LEMMA RowsOfRange ==
  ASSUME NEW p \in Periods, NEW series \in Series, NEW lo, NEW hi,
         MultipleOf(p, lo), MultipleOf(p, hi)
  PROVE  Together([t \in Cells |-> KeysOf(t)], CellsIn(p, series, lo, hi)) = KeysIn(series, lo, hi)
<1>1. p \in Nat \ {0} /\ LastSecond \in Nat
  BY MetricsAssumption
<1>2. PICK k \in Nat, l \in Nat : lo = p * k /\ hi = p * l
  BY DEF MultipleOf
<1>3. lo \in Nat /\ hi \in Nat
  BY <1>1, <1>2
<1>4. ASSUME NEW t \in CellsIn(p, series, lo, hi), NEW key \in KeysOf(t)
      PROVE  key \in KeysIn(series, lo, hi)
  <2>1. /\ t.place \in Nat /\ t.series = series /\ t.seconds = p
        /\ lo <= p * t.place /\ p * t.place < hi
    BY <1>4, FieldsOfCells DEF CellsIn, CellFields
  <2>2. /\ key \in Keys /\ key[1] = series /\ key[2] \in Nat
        /\ p * t.place <= key[2] /\ key[2] <= p * t.place + p - 1
    BY <1>1, <1>4, <2>1 DEF KeysOf, Places, Keys, Seconds
  <2>3. p * t.place + p <= hi
    BY <1>1, <1>2, <2>1, MultiplesApart
  <2>4. p * t.place \in Nat
    BY <1>1, <2>1
  <2>5. lo <= key[2] /\ key[2] < hi
    BY <1>1, <1>3, <2>1, <2>2, <2>3, <2>4
  <2> QED
    BY <2>2, <2>5 DEF KeysIn
<1>5. ASSUME NEW key \in KeysIn(series, lo, hi)
      PROVE  \E t \in CellsIn(p, series, lo, hi) : key \in KeysOf(t)
  <2> DEFINE n == key[2]
             q == n \div p
             t == [seconds |-> p, place |-> q, series |-> series]
  <2>1. /\ key \in Keys /\ key[1] = series /\ n \in Nat /\ n <= LastSecond
        /\ lo <= n /\ n < hi
    BY <1>1 DEF KeysIn, Keys, Seconds
  <2> HIDE DEF n
  <2>2. q \in Nat /\ n = p * q + (n % p) /\ n % p \in Nat /\ n % p < p
    BY <1>1, <2>1, Quotients
  <2> HIDE DEF q
  <2>3. p * q \in Nat /\ p * q <= n /\ n <= p * q + p - 1 /\ p * q < hi
    BY <1>1, <1>3, <2>1, <2>2
  <2>4. q <= LastSecond
    <3>1. q <= p * q
      BY <1>1, <2>2
    <3> QED
      BY <1>1, <2>1, <2>2, <2>3, <3>1
  <2>5. lo <= p * q
    <3>1. CASE p * q < lo
      <4>1. p * q + p <= lo
        BY <1>1, <1>2, <2>2, <3>1, MultiplesApart
      <4> QED
        BY <1>1, <1>3, <2>1, <2>3, <4>1
    <3> QED
      BY <1>3, <2>3, <3>1
  <2>6. t \in Cells
    BY <1>1, <2>1, <2>2, <2>3, <2>4 DEF Cells, Seconds
  <2>7. t \in CellsIn(p, series, lo, hi)
    BY <2>3, <2>5, <2>6 DEF CellsIn
  <2>8. key \in KeysOf(t)
    BY <2>1, <2>3 DEF KeysOf, Places, n
  <2> QED
    BY <2>7, <2>8
<1> DEFINE S == CellsIn(p, series, lo, hi)
           K == [t \in Cells |-> KeysOf(t)]
           rows == KeysIn(series, lo, hi)
<1>6. \A t \in S : K[t] = KeysOf(t)
  BY DEF CellsIn
<1>7. (\A t \in S : KeysOf(t) \subseteq rows) /\ \A key \in rows : \E t \in S : key \in KeysOf(t)
  BY <1>4, <1>5
<1> HIDE DEF S, K, rows
<1>8. Together(K, S) = rows
  BY <1>6, <1>7 DEF Together
<1> QED
  BY <1>8 DEF S, K, rows

(* A row belongs to one cell of a table.                                   *)
LEMMA CellsShareNothing ==
  ASSUME NEW t \in Cells, NEW u \in Cells, t.seconds = u.seconds, t.series = u.series, t # u
  PROVE  KeysOf(t) \cap KeysOf(u) = {}
<1> DEFINE p == t.seconds
<1>1. p \in Nat \ {0} /\ t.place \in Nat /\ u.place \in Nat /\ u.seconds = p
  BY FieldsOfCells DEF CellFields
<1>2. t.place # u.place
  BY DEF Cells
<1> HIDE DEF p
<1>3. ASSUME NEW key \in KeysOf(t), key \in KeysOf(u) PROVE FALSE
  <2> DEFINE n == key[2]
  <2>1. n \in Int /\ p * t.place <= n /\ n <= p * t.place + p - 1
    BY <1>1, <1>3 DEF KeysOf, Places, Keys, Seconds, p
  <2>2. p * u.place <= n /\ n <= p * u.place + p - 1
    BY <1>1, <1>3 DEF KeysOf, Places, Keys, Seconds, p
  <2> HIDE DEF n
  <2>3. p * t.place \in Int /\ p * u.place \in Int
    BY <1>1
  <2>4. n \in Nat
    BY <1>1, <2>1, <2>3
  <2>5. n \div p = t.place
    BY <1>1, <2>1, <2>3, <2>4, QuotientIs
  <2>6. n \div p = u.place
    BY <1>1, <2>2, <2>3, <2>4, QuotientIs
  <2> QED
    BY <1>2, <2>5, <2>6
<1> QED
  BY <1>3

(* So the cells of such a range hold what is stored of its rows.           *)
LEMMA RangeIsSum ==
  ASSUME TrafficInv, NEW p \in Periods, NEW series \in Series, NEW lo, NEW hi,
         MultipleOf(p, lo), MultipleOf(p, hi)
  PROVE  /\ Total(stored, CellsIn(p, series, lo, hi)) = Total(Net, KeysIn(series, lo, hi))
         /\ IsFiniteSet(CellsIn(p, series, lo, hi))
<1> DEFINE S == CellsIn(p, series, lo, hi)
           K == [t \in Cells |-> KeysOf(t)]
<1>1. S \subseteq Cells /\ \A t \in S : t.seconds = p /\ t.series = series
  BY DEF CellsIn
<1>2. IsFiniteSet(S)
  BY <1>1, CellsAreFinite
<1>3. \A t \in S : K[t] = KeysOf(t) /\ t \in Cells
  BY <1>1
<1>4. Together(K, S) = KeysIn(series, lo, hi)
  BY RowsOfRange
<1> HIDE DEF S, K
<1>5. Apart(K, S, Net)
  <2>1. ASSUME NEW t \in S
        PROVE  /\ IsFiniteSet(K[t]) /\ Numbers(Net, K[t])
               /\ \A u \in S \ {t} : K[t] \cap K[u] = {}
    <3>1. IsFiniteSet(K[t]) /\ Numbers(Net, K[t])
      BY <1>3, CellIsSum
    <3>2. ASSUME NEW u \in S \ {t} PROVE K[t] \cap K[u] = {}
      BY <1>1, <1>3, CellsShareNothing
    <3> QED
      BY <3>1, <3>2
  <2> QED
    BY <2>1 DEF Apart
<1>6. \A t \in S : stored[t] = Total(Net, K[t])
  BY <1>3, CellIsSum
<1>7. Total(Net, Together(K, S)) = Total(stored, S)
  BY <1>2, <1>5, <1>6, TotalOfParts
<1> QED
  BY <1>2, <1>4, <1>7 DEF S

(* The table of a history, and the one with the shortest periods: both     *)
(* divide its buckets.                                                     *)
LEMMA TablesDivide ==
  ASSUME NEW bucket \in BucketSizes
  PROVE  /\ bucket \in Nat \ {0}
         /\ TableFor(bucket) \in Periods /\ MultipleOf(TableFor(bucket), bucket)
         /\ Min(Periods) \in Periods /\ MultipleOf(Min(Periods), bucket)
<1> DEFINE fitting == {t \in Periods : t <= bucket}
<1>1. /\ bucket \in Nat \ {0} /\ fitting \subseteq Nat /\ fitting # {} /\ fitting \subseteq Periods
      /\ Periods \subseteq Nat \ {0}
      /\ \A t \in fitting : t <= bucket /\ bucket % t = 0
  BY MetricsAssumption, BucketAssumption
<1>2. \A t \in fitting : MultipleOf(t, bucket)
  BY <1>1, NoRemainder
<1>3. fitting = {t \in Periods : t <= bucket}
  OBVIOUS
<1> HIDE DEF fitting
<1>4. TableFor(bucket) \in fitting
  <2>1. PICK x \in fitting : \A y \in fitting : y <= x
    BY <1>1, GreatestNumber
  <2>2. \A y \in fitting : x >= y
    BY <1>1, <2>1
  <2>3. Max(fitting) \in fitting
    BY <2>1, <2>2, Zenon DEF Max
  <2> QED
    BY <1>3, <2>3, Zenon DEF TableFor
<1>5. Min(Periods) \in fitting
  <2>1. Periods \subseteq Nat /\ Periods # {}
    BY <1>1
  <2>2. PICK x \in Periods : \A y \in Periods : x <= y
    BY <2>1, LeastNumber
  <2>3. Min(Periods) \in Periods /\ \A y \in Periods : Min(Periods) <= y
    BY <2>2, Zenon DEF Min
  <2>4. PICK y \in fitting : TRUE
    BY <1>1
  <2>5. Min(Periods) <= y /\ y <= bucket /\ Min(Periods) \in Nat /\ y \in Nat
    BY <1>1, <2>3, <2>4
  <2> QED
    BY <1>1, <1>3, <2>3, <2>5
<1> QED
  BY <1>1, <1>2, <1>4, <1>5

(* The rows of the buckets of a history.                                   *)
RowsOfBucket(p, series, start, bucket, i) ==
  {t \in Cells : /\ t.seconds = p /\ t.series = series
                 /\ t.seconds * t.place >= start
                 /\ (t.seconds * t.place - start) \div bucket = i}

ShareNothing(K, S) == \A t \in S : \A u \in S \ {t} : K[t] \cap K[u] = {}

(* They make up its range and share nothing.                               *)
LEMMA BucketsMeetRange ==
  ASSUME NEW p \in Periods, NEW series, NEW start \in Nat, NEW bucket \in Nat \ {0},
         NEW count \in Nat,
         NEW rows,
         \A i \in 0 .. count - 1 : rows[i] = RowsOfBucket(p, series, start, bucket, i)
  PROVE  /\ Together(rows, 0 .. count - 1) = CellsIn(p, series, start, start + count * bucket)
         /\ ShareNothing(rows, 0 .. count - 1)
<1>0. start + count * bucket \in Nat
  OBVIOUS
<1>1. ASSUME NEW i \in 0 .. count - 1, NEW t \in rows[i]
      PROVE  t \in CellsIn(p, series, start, start + count * bucket)
  <2> DEFINE n == t.seconds * t.place
  <2>1. /\ t \in Cells /\ t.seconds = p /\ t.series = series /\ n >= start
        /\ (n - start) \div bucket = i
    BY <1>1 DEF RowsOfBucket
  <2>2. n \in Nat
    BY <2>1, FieldsOfCells DEF CellFields
  <2> HIDE DEF n
  <2>3. /\ n - start \in Nat /\ n - start = bucket * i + ((n - start) % bucket)
        /\ (n - start) % bucket \in Nat /\ (n - start) % bucket < bucket
    <3> DEFINE d == n - start
    <3>1. d \in Nat /\ d \div bucket = i
      BY <2>1, <2>2
    <3> HIDE DEF d
    <3>2. d = bucket * (d \div bucket) + (d % bucket) /\ d % bucket \in Nat /\ d % bucket < bucket
      BY <3>1, Quotients
    <3>3. /\ d \in Nat /\ d = bucket * i + (d % bucket)
          /\ d % bucket \in Nat /\ d % bucket < bucket
      BY <3>1, <3>2
    <3> QED
      BY <3>3 DEF d
  <2>4. bucket * i + bucket <= count * bucket
    <3>1. (i + 1) * bucket <= count * bucket
      OBVIOUS
    <3> QED
      BY <3>1
  <2>5. bucket * i \in Nat /\ count * bucket \in Nat
    OBVIOUS
  <2>6. n < start + count * bucket
    BY <2>2, <2>3, <2>4, <2>5
  <2> QED
    BY <2>1, <2>2, <2>6 DEF CellsIn, n
<1>2. ASSUME NEW t \in CellsIn(p, series, start, start + count * bucket)
      PROVE  \E i \in 0 .. count - 1 : t \in rows[i]
  <2> DEFINE n == t.seconds * t.place
             i == (n - start) \div bucket
  <2>1. /\ t \in Cells /\ t.seconds = p /\ t.series = series /\ start <= n
        /\ n < start + count * bucket
    BY <1>2 DEF CellsIn
  <2>2. n \in Nat
    BY <2>1, FieldsOfCells DEF CellFields
  <2> HIDE DEF n
  <2>3. /\ n - start \in Nat /\ n - start = bucket * i + ((n - start) % bucket)
        /\ (n - start) % bucket \in Nat /\ (n - start) % bucket < bucket /\ i \in Nat
    BY <2>1, <2>2, Quotients
  <2>4. i < count
    <3> HIDE DEF i
    <3>1. CASE i >= count
      <4>1. bucket * i >= count * bucket
        BY <2>3, <3>1
      <4>2. bucket * i \in Nat /\ count * bucket \in Nat
        BY <2>3
      <4> QED
        BY <2>1, <2>2, <2>3, <4>1, <4>2
    <3> QED
      BY <2>3, <3>1
  <2>5. i \in 0 .. count - 1
    BY <2>3, <2>4
  <2>6. t \in RowsOfBucket(p, series, start, bucket, i)
    BY <2>1, <2>2 DEF RowsOfBucket, n
  <2> QED
    BY <2>5, <2>6
<1>3. ASSUME NEW i \in 0 .. count - 1, NEW j \in 0 .. count - 1, i # j
      PROVE  rows[i] \cap rows[j] = {}
  BY <1>3 DEF RowsOfBucket
<1> DEFINE S == CellsIn(p, series, start, start + count * bucket)
<1> HIDE DEF S
<1>4. Together(rows, 0 .. count - 1) = S
  <2>1. /\ \A i \in 0 .. count - 1 : rows[i] \subseteq S
        /\ \A t \in S : \E i \in 0 .. count - 1 : t \in rows[i]
    BY <1>1, <1>2 DEF S
  <2> QED
    BY <2>1 DEF Together
<1> QED
  BY <1>3, <1>4 DEF S, ShareNothing

(* However a history is cut, it adds up to what was stored.                *)
LEMMA HistoryIsExact ==
  ASSUME TrafficInv
  PROVE  HistoryAddsUp
<1> SUFFICES ASSUME NEW series \in {t.series : t \in {c \in Cells : stored[c] > 0}},
                    NEW bucket \in BucketSizes, NEW from \in Seconds, NEW count \in 1 .. 2
             PROVE  LET shown == TrafficSeries(series, from, count, bucket)
                        start == from - (from % bucket)
                        finest == {t \in Cells :
                                     /\ t.seconds = Min(Periods) /\ t.series = series
                                     /\ t.seconds * t.place
                                          \in start .. start + count * bucket - 1}
                    IN SumOf(shown, 0 .. count - 1) = SumOf(stored, finest)
  BY Zenon DEF HistoryAddsUp
<1> DEFINE shown == TrafficSeries(series, from, count, bucket)
           start == from - (from % bucket)
           p == TableFor(bucket)
           m == Min(Periods)
           end == start + count * bucket
           finest == {t \in Cells :
                        /\ t.seconds = Min(Periods) /\ t.series = series
                        /\ t.seconds * t.place \in start .. start + count * bucket - 1}
           rows == [i \in 0 .. count - 1 |-> RowsOfBucket(p, series, start, bucket, i)]
<1>1. /\ bucket \in Nat \ {0} /\ p \in Periods /\ MultipleOf(p, bucket)
      /\ m \in Periods /\ MultipleOf(m, bucket)
  BY TablesDivide
<1>2. series \in Series
  <2>1. PICK cell \in Cells : series = cell.series
    OBVIOUS
  <2> QED
    BY <2>1, FieldsOfCells DEF CellFields
<1>3. from \in Nat
  BY MetricsAssumption DEF Seconds
<1>4. start = bucket * (from \div bucket) /\ from \div bucket \in Nat /\ start \in Nat
  <2>1. /\ from = bucket * (from \div bucket) + (from % bucket)
        /\ from \div bucket \in Nat /\ from % bucket \in Nat
    BY <1>1, <1>3, Quotients
  <2>2. bucket * (from \div bucket) \in Nat
    BY <1>1, <2>1
  <2> QED
    BY <1>3, <2>1, <2>2
<1>5. ASSUME NEW q \in Periods, MultipleOf(q, bucket)
      PROVE  MultipleOf(q, start) /\ MultipleOf(q, end)
  <2>0. q \in Nat \ {0}
    BY MetricsAssumption
  <2>1. MultipleOf(q, start)
    BY <1>1, <1>4, <1>5, <2>0, MultiplesCompose
  <2>2. MultipleOf(q, bucket * count) /\ bucket * count \in Nat
    BY <1>1, <1>5, <2>0, MultiplesCompose
  <2>3. MultipleOf(q, start + bucket * count)
    <3> DEFINE x == bucket * count
    <3> HIDE DEF x
    <3>1. \A z : MultipleOf(q, z) => MultipleOf(q, z + x)
      BY <2>0, <2>2, MultiplesCompose DEF x
    <3> QED
      BY <2>1, <3>1 DEF x
  <2>4. bucket * count = count * bucket
    BY <1>1
  <2> QED
    BY <2>1, <2>3, <2>4
<1>6. end \in Nat
  BY <1>1, <1>4
<1> HIDE DEF p, m, end, start
<1>7. /\ Total(stored, CellsIn(p, series, start, end)) = Total(Net, KeysIn(series, start, end))
      /\ IsFiniteSet(CellsIn(p, series, start, end))
      /\ Total(stored, CellsIn(m, series, start, end)) = Total(Net, KeysIn(series, start, end))
  BY <1>1, <1>2, <1>5, RangeIsSum
<1>8. /\ Together(rows, 0 .. count - 1) = CellsIn(p, series, start, end)
      /\ ShareNothing(rows, 0 .. count - 1)
  <2>1. count \in Nat
    OBVIOUS
  <2>2. \A i \in 0 .. count - 1 : rows[i] = RowsOfBucket(p, series, start, bucket, i)
    OBVIOUS
  <2> HIDE DEF rows
  <2>3. /\ Together(rows, 0 .. count - 1)
             = CellsIn(p, series, start, start + count * bucket)
        /\ ShareNothing(rows, 0 .. count - 1)
    BY <1>1, <1>4, <2>1, <2>2, BucketsMeetRange, Zenon
  <2> QED
    BY <2>3 DEF end
<1>9. shown = [i \in 0 .. count - 1 |-> Total(stored, rows[i])]
  <2>1. shown = [i \in 0 .. count - 1 |->
                   SumOf(stored, RowsOfBucket(p, series, start, bucket, i))]
    BY Zenon DEF TrafficSeries, AlignDatetime, RowsOfBucket, p, start
  <2>2. \A i \in 0 .. count - 1 : rows[i] = RowsOfBucket(p, series, start, bucket, i)
    OBVIOUS
  <2> HIDE DEF shown, rows
  <2>3. \A S : SumOf(stored, S) = Total(stored, S)
    BY Zenon DEF SumOf, Total
  <2> QED
    BY <2>1, <2>2, <2>3
<1>10. Apart(rows, 0 .. count - 1, stored)
  <2>1. \A i \in 0 .. count - 1 : rows[i] \subseteq CellsIn(p, series, start, end)
    BY <1>8 DEF Together
  <2>2. stored \in [Cells -> Nat]
    BY DEF TrafficInv, TrafficTypes
  <2>3. CellsIn(p, series, start, end) \subseteq Cells
    BY DEF CellsIn
  <2> HIDE DEF rows
  <2>4. \A i \in 0 .. count - 1 : IsFiniteSet(rows[i]) /\ Numbers(stored, rows[i])
    BY <1>7, <2>1, <2>2, <2>3, FS_Subset DEF Numbers
  <2> QED
    BY <1>8, <2>4 DEF Apart, ShareNothing
<1> HIDE DEF rows, shown
<1>11. Total(stored, CellsIn(p, series, start, end)) = Total(shown, 0 .. count - 1)
  <2>1. \A i \in 0 .. count - 1 : shown[i] = Total(stored, rows[i])
    BY <1>9
  <2>2. IsFiniteSet(0 .. count - 1)
    BY FS_Interval
  <2>3. Total(stored, Together(rows, 0 .. count - 1)) = Total(shown, 0 .. count - 1)
    BY <1>10, <2>1, <2>2, TotalOfParts
  <2> QED
    BY <1>8, <2>3
<1>12. finest = CellsIn(m, series, start, end)
  <2>0. start + count * bucket - 1 = end - 1
    BY <1>1, <1>4 DEF end
  <2>1. ASSUME NEW t \in Cells
        PROVE  t.seconds * t.place \in start .. end - 1
                 <=> start <= t.seconds * t.place /\ t.seconds * t.place < end
    <3>1. t.seconds * t.place \in Nat
      BY FieldsOfCells DEF CellFields
    <3> QED
      BY <1>4, <1>6, <3>1
  <2>2. ASSUME NEW t \in Cells
        PROVE  t \in finest <=> /\ t.seconds = m /\ t.series = series
                                /\ t.seconds * t.place \in start .. end - 1
    BY <2>0, Zenon DEF m
  <2>3. finest \subseteq Cells /\ CellsIn(m, series, start, end) \subseteq Cells
    BY DEF CellsIn
  <2>4. ASSUME NEW t \in Cells
        PROVE  t \in CellsIn(m, series, start, end) <=>
                 /\ t.seconds = m /\ t.series = series
                 /\ start <= t.seconds * t.place /\ t.seconds * t.place < end
    BY Zenon DEF CellsIn
  <2> HIDE DEF finest
  <2> QED
    BY <2>1, <2>2, <2>3, <2>4
<1>13. SumOf(shown, 0 .. count - 1) = SumOf(stored, finest)
  <2>1. Total(shown, 0 .. count - 1) = Total(stored, finest)
    BY <1>7, <1>11, <1>12
  <2> QED
    BY <2>1, Zenon DEF SumOf, Total
<1> QED
  BY <1>13 DEF shown, start

-----------------------------------------------------------------------------
(* The views of the last seconds.                                          *)

(* The records of the buckets.                                             *)
BucketRecords ==
  [second : Seconds, traffic : [Series -> Nat],
   protobuf : [Actors \X MessageTypes -> Nat \X Nat]]

(* What of a bucket is counted: the bytes of a series, or the packets      *)
(* (which = 1) or their bytes (which = 2) of an actor and a type.          *)
TrafficOf(series) == [b \in BucketRecords |-> b.traffic[series]]
ProtobufOf(actor, type, which) == [b \in BucketRecords |-> b.protobuf[<<actor, type>>][which]]

Measures == [BucketRecords -> Nat]

(* What a sequence of buckets counts after a second.                       *)
After(q, c, measure) == [i \in 1 .. Len(q) |-> IF q[i].second > c THEN measure[q[i]] ELSE 0]
SumAfter(q, c, measure) == Total(After(q, c, measure), 1 .. Len(q))

(* A new bucket counts nothing, and what is counted are numbers.           *)
LEMMA NewBucketIsEmpty ==
  ASSUME NEW at \in Seconds
  PROVE  /\ NewBucket(at) \in BucketRecords /\ NewBucket(at).second = at
         /\ \A series \in Series : TrafficOf(series)[NewBucket(at)] = 0
         /\ \A actor \in Actors, type \in MessageTypes, which \in {1, 2} :
              ProtobufOf(actor, type, which)[NewBucket(at)] = 0
<1>1. NewBucket(at) \in BucketRecords
  BY DEF NewBucket, BucketRecords
<1> QED
  BY <1>1 DEF NewBucket, TrafficOf, ProtobufOf

(* What is counted of a bucket is a number.                                *)
LEMMA MeasuresAre ==
  /\ \A series \in Series : TrafficOf(series) \in Measures
  /\ \A actor \in Actors, type \in MessageTypes, which \in {1, 2} :
       ProtobufOf(actor, type, which) \in Measures
<1>1. ASSUME NEW series \in Series, NEW b \in BucketRecords PROVE b.traffic[series] \in Nat
  BY DEF BucketRecords
<1>2. ASSUME NEW actor \in Actors, NEW type \in MessageTypes, NEW which \in {1, 2},
             NEW b \in BucketRecords
      PROVE  b.protobuf[<<actor, type>>][which] \in Nat
  BY DEF BucketRecords
<1> QED
  BY <1>1, <1>2 DEF TrafficOf, ProtobufOf, Measures

(* What a recorder finds after trimming (current_bucket): the old ones are *)
(* gone from the front, the last one is that of its second.                *)
Trimmed(d, at, current) ==
  /\ d \in 0 .. Len(buckets) /\ \A i \in 1 .. d : buckets[i].second < at - WindowSeconds - 2
  /\ current \in Seq(BucketRecords) /\ Len(current) > 0
  /\ current[Len(current)].second = at
  /\ \/ /\ Len(current) = Len(buckets) - d
        /\ \A i \in 1 .. Len(current) : current[i] = buckets[i + d]
     \/ /\ Len(current) = Len(buckets) - d + 1
        /\ \A i \in 1 .. Len(buckets) - d : current[i] = buckets[i + d]
        /\ current[Len(current)] = NewBucket(at)

(* The bucket of the present recorder is found so.                         *)
LEMMA CurrentIsTrimmed ==
  ASSUME buckets \in Seq(BucketRecords), NEW at \in Seconds
  PROVE  \E d : Trimmed(d, at, CurrentBucket(at))
<1> DEFINE n == Len(buckets)
           old == {i \in DOMAIN buckets : \A j \in 1 .. i :
                     buckets[j].second < at - WindowSeconds - 2}
           d == Cardinality(old)
           kept == Prune(buckets, at)
<1>1. n \in Nat /\ DOMAIN buckets = 1 .. n /\ \A i \in 1 .. n : buckets[i] \in BucketRecords
  OBVIOUS
<1>2. d \in 0 .. n /\ old = 1 .. d
  <2>1. old \in SUBSET (1 .. n)
    BY <1>1
  <2>2. ASSUME NEW i \in old PROVE 1 .. i \subseteq old
    BY <1>1
  <2> HIDE DEF old
  <2> QED
    BY <1>1, <2>1, <2>2, InitialPart
<1>3. \A i \in 1 .. d : buckets[i].second < at - WindowSeconds - 2
  BY <1>2
<1>4. kept = SubSeq(buckets, d + 1, n)
  BY Zenon DEF Prune
<1> HIDE DEF old, d, n, kept
<1>5. /\ kept \in Seq(BucketRecords) /\ Len(kept) = n - d
      /\ \A i \in 1 .. n - d : kept[i] = buckets[i + d]
  <2>1. d \in Nat /\ n \in Nat /\ d <= n /\ n = Len(buckets)
    BY <1>1, <1>2 DEF n
  <2>2. kept \in Seq(BucketRecords)
    BY <1>4, <2>1
  <2>3. Len(kept) = n - d
    BY <1>4, <2>1
  <2>4. \A i \in 1 .. n - d : kept[i] = buckets[i + d]
    BY <1>4, <2>1
  <2> QED
    BY <2>2, <2>3, <2>4
<1>6. CASE kept # <<>> /\ kept[Len(kept)].second = at
  <2>1. CurrentBucket(at) = kept
    BY <1>6 DEF CurrentBucket, kept
  <2>2. Len(kept) > 0
    BY <1>5, <1>6
  <2>3. Trimmed(d, at, kept)
    BY <1>2, <1>3, <1>5, <1>6, <2>2 DEF Trimmed, n
  <2> QED
    BY <2>1, <2>3
<1>7. CASE ~(kept # <<>> /\ kept[Len(kept)].second = at)
  <2> DEFINE current == Append(kept, NewBucket(at))
  <2>1. CurrentBucket(at) = current
    BY <1>7 DEF CurrentBucket, kept
  <2>2. /\ current \in Seq(BucketRecords) /\ Len(current) = n - d + 1
        /\ \A i \in 1 .. n - d : current[i] = buckets[i + d]
        /\ current[Len(current)] = NewBucket(at) /\ Len(current) > 0
    <3>1. NewBucket(at) \in BucketRecords
      BY NewBucketIsEmpty
    <3>2. n - d \in Nat
      BY <1>1, <1>2
    <3> QED
      BY <1>5, <3>1, <3>2
  <2>3. current[Len(current)].second = at
    BY <2>2, NewBucketIsEmpty
  <2> HIDE DEF current
  <2>4. Trimmed(d, at, current)
    BY <1>2, <1>3, <2>2, <2>3 DEF Trimmed, n
  <2> QED
    BY <2>1, <2>4
<1> QED
  BY <1>6, <1>7

(* A sequence of buckets with another last one.                            *)
WithLast(q, current, changed) ==
  /\ q \in Seq(BucketRecords) /\ Len(q) = Len(current) /\ q[Len(current)] = changed
  /\ \A i \in 1 .. Len(current) - 1 : q[i] = current[i]

(* What is recorded counts once, for every second before it that is not    *)
(* trimmed.                                                                *)
LEMMA RecordingCounts ==
  ASSUME buckets \in Seq(BucketRecords), NEW at \in Seconds, NEW current, NEW d,
         Trimmed(d, at, current), NEW measure \in Measures, measure[NewBucket(at)] = 0,
         NEW changed \in BucketRecords, changed.second = at, NEW amount \in Int,
         measure[changed] = measure[current[Len(current)]] + amount,
         NEW q, WithLast(q, current, changed),
         NEW c \in Int, c >= at - WindowSeconds
  PROVE  SumAfter(q, c, measure)
           = SumAfter(buckets, c, measure) + (IF at > c THEN amount ELSE 0)
<1> DEFINE n == Len(buckets)
           size == Len(current)
           g == After(buckets, c, measure)
           h == After(q, c, measure)
           more == IF at > c THEN amount ELSE 0
<1>1. /\ n \in Nat /\ \A i \in 1 .. n : buckets[i] \in BucketRecords
      /\ d \in Nat /\ d <= n /\ size \in Nat /\ size > 0 /\ current \in Seq(BucketRecords)
      /\ \A i \in 1 .. size : current[i] \in BucketRecords
      /\ WindowSeconds \in Nat /\ at \in Int
  BY MetricsAssumption DEF Trimmed, Seconds
<1>2. /\ q \in Seq(BucketRecords) /\ Len(q) = size /\ q[size] = changed
      /\ \A i \in 1 .. size - 1 : q[i] = current[i]
  BY <1>1 DEF WithLast
<1>3. ASSUME NEW b \in BucketRecords PROVE b.second \in Int /\ measure[b] \in Int
  <2>1. b.second \in Seconds
    BY DEF BucketRecords
  <2>2. Seconds \subseteq Int
    BY DEF Seconds
  <2>3. measure[b] \in Int
    BY DEF Measures
  <2> QED
    BY <2>1, <2>2, <2>3, Zenon
<1>4. /\ \A i \in 1 .. n : g[i] = IF buckets[i].second > c THEN measure[buckets[i]] ELSE 0
      /\ \A i \in 1 .. size : h[i] = IF q[i].second > c THEN measure[q[i]] ELSE 0
  BY <1>2 DEF After
<1>5. Numbers(g, 1 .. n)
  BY <1>1, <1>3, <1>4, SMTT(30) DEF Numbers
<1>6. \A i \in 1 .. d : g[i] = 0
  <2>1. ASSUME NEW i \in 1 .. d PROVE ~(buckets[i].second > c) /\ i \in 1 .. n
    <3>1. buckets[i].second < at - WindowSeconds - 2 /\ i \in 1 .. n
      BY <1>1 DEF Trimmed
    <3>2. buckets[i].second \in Int
      BY <1>1, <1>3, <3>1
    <3> QED
      BY <1>1, <3>1, <3>2
  <2> QED
    BY <1>4, <2>1
<1>7. more \in Int
  OBVIOUS
<1>8. h[size] = IF at > c THEN measure[current[size]] + amount ELSE 0
  <2>1. size \in 1 .. size
    BY <1>1
  <2>2. h[size] = IF changed.second > c THEN measure[changed] ELSE 0
    BY <1>2, <1>4, <2>1
  <2> QED
    BY <2>2
<1> HIDE DEF g, h
<1> SUFFICES Total(h, 1 .. size) = Total(g, 1 .. n) + more
  BY <1>2 DEF SumAfter, g, h
<1>9. CASE /\ size = n - d
           /\ \A i \in 1 .. size : current[i] = buckets[i + d]
  <2>1. current[size] = buckets[n] /\ buckets[n].second = at /\ n \in 1 .. n
    <3>1. size + d = n /\ size \in 1 .. size /\ n \in 1 .. n
      BY <1>1, <1>9
    <3> QED
      BY <1>9, <3>1 DEF Trimmed
  <2>2. h[size] = g[n] + more
    <3>1. g[n] = IF at > c THEN measure[current[size]] ELSE 0
      BY <1>4, <2>1
    <3>2. measure[current[size]] \in Int
      BY <1>1, <1>3, <2>1
    <3> QED
      BY <1>8, <3>1, <3>2
  <2>3. ASSUME NEW i \in 1 .. size - 1 PROVE h[i] = g[i + d]
    <3>1. i \in 1 .. size /\ i + d \in 1 .. n
      BY <1>1, <1>9
    <3> QED
      BY <1>2, <1>4, <1>9, <3>1
  <2>4. Total(h, 1 .. size) = Total(g, 1 .. n) + more
    <3>1. Slides(n, d, g, more, size, h)
      BY <1>1, <1>9, <2>2, <2>3 DEF Slides
    <3> HIDE DEF n, size, more
    <3> QED
      BY <1>1, <1>5, <1>6, <1>7, <3>1, WindowMoves
  <2> QED
    BY <2>4
<1>10. CASE /\ size = n - d + 1
            /\ \A i \in 1 .. n - d : current[i] = buckets[i + d]
            /\ current[size] = NewBucket(at)
  <2>1. h[size] = more
    BY <1>8, <1>10
  <2>2. ASSUME NEW i \in 1 .. n - d PROVE h[i] = g[i + d]
    <3>1. i \in 1 .. size /\ i \in 1 .. size - 1 /\ i + d \in 1 .. n
      BY <1>1, <1>10
    <3> QED
      BY <1>2, <1>4, <1>10, <3>1
  <2>3. Total(h, 1 .. size) = Total(g, 1 .. n) + more
    <3>1. Slides(n, d, g, more, size, h)
      BY <1>10, <2>1, <2>2 DEF Slides
    <3> HIDE DEF n, size, more
    <3> QED
      BY <1>1, <1>5, <1>6, <1>7, <3>1, WindowMoves
  <2> QED
    BY <2>3
<1> QED
  BY <1>9, <1>10 DEF Trimmed

(* The packets sent, and those of an actor and a type after a second.      *)
Packets == [nr : Nat, actor : Actors, type : MessageTypes, bytes : Nat, at : Seconds]
SentBy(packets, actor, type, c) ==
  {p \in packets : p.actor = actor /\ p.type = type /\ p.at > c}
Weight(which) == [p \in Packets |-> IF which = 1 THEN 1 ELSE p.bytes]

KeysAfter(series, c) == {key \in Keys : key[1] = series /\ key[2] > c}

PacketTotals == [messages : Nat, bytes : Nat, max_bytes : Nat]

(* The types of what is shown.                                             *)
WindowTypes ==
  /\ restarts \in Nat
  /\ buckets \in Seq(BucketRecords)
  /\ IsFiniteSet(sent) /\ sent \subseteq Packets /\ \A p \in sent : p.nr < Cardinality(sent)

TotalsTyped ==
  /\ by_type \in [MessageTypes -> PacketTotals]
  /\ DOMAIN connections \subseteq Actors
  /\ \A a \in DOMAIN connections : connections[a] \in [MessageTypes -> PacketTotals]

(* After every second that the window has not left, the buckets count what *)
(* was recorded.                                                           *)
TrafficCounted(series, c) ==
  SumAfter(buckets, c, TrafficOf(series)) = Total(recorded, KeysAfter(series, c))

PacketsCounted(actor, type, which, c) ==
  SumAfter(buckets, c, ProtobufOf(actor, type, which))
    = Total(Weight(which), SentBy(sent, actor, type, c))

InWindow(c) == c \in Int /\ c >= second - WindowSeconds

TrafficWindow ==
  restarts = 0 => \A series \in Series : \A c : InWindow(c) => TrafficCounted(series, c)

PacketWindow ==
  \A actor \in Actors, type \in MessageTypes, which \in {1, 2} :
    \A c : InWindow(c) => PacketsCounted(actor, type, which, c)

(* The connections listed have no more than the types.                     *)
BytesOf(type) == [a \in DOMAIN connections |-> connections[a][type].bytes]
ListedBelow ==
  \A type \in MessageTypes : Total(BytesOf(type), DOMAIN connections) <= by_type[type].bytes

WindowInv == WindowTypes /\ TotalsTyped /\ TrafficWindow /\ PacketWindow /\ ListedBelow

(* The rows of a series after a second.                                    *)
LEMMA RowsAfter ==
  ASSUME NEW series \in Series, NEW c
  PROVE  IsFiniteSet(KeysAfter(series, c)) /\ KeysAfter(series, c) \subseteq Keys
<1>1. IsFiniteSet(Seconds)
  BY MetricsAssumption, FS_Interval DEF Seconds
<1>2. IsFiniteSet({series})
  BY FS_Singleton
<1>3. IsFiniteSet({series} \X Seconds)
  BY <1>1, <1>2, FS_Product
<1>4. KeysAfter(series, c) \subseteq {series} \X Seconds /\ KeysAfter(series, c) \subseteq Keys
  BY DEF KeysAfter, Keys
<1> QED
  BY <1>3, <1>4, FS_Subset

(* What is recorded at a second is among the rows after an earlier one.    *)
Grown(f, g, k, amount) == g[k] = f[k] + amount /\ \A key \in Keys \ {k} : g[key] = f[key]

(* Then the sum after a second grows by what is recorded after it.         *)
LEMMA RecordedAfter ==
  ASSUME NEW f \in [Keys -> Nat], NEW g, NEW amount \in Nat, NEW own \in Series,
         NEW at \in Seconds, Grown(f, g, <<own, at>>, amount),
         NEW series \in Series, NEW c \in Int
  PROVE  Total(g, KeysAfter(series, c)) = Total(f, KeysAfter(series, c))
           + (IF at > c THEN IF series = own THEN amount ELSE 0 ELSE 0)
<1> DEFINE rows == KeysAfter(series, c)
<1>0. PICK k, S : k = <<own, at>> /\ S = rows
  OBVIOUS
<1>1. IsFiniteSet(S) /\ S \subseteq Keys
  BY <1>0, RowsAfter
<1>2. k \in Keys /\ (k \in S <=> at > c /\ series = own)
  BY <1>0 DEF Keys, KeysAfter
<1>3. g[k] = f[k] + amount /\ \A key \in Keys \ {k} : g[key] = f[key]
  BY <1>0 DEF Grown
<1>4. Numbers(f, S)
  BY <1>1 DEF Numbers
<1>5. Total(f, S) \in Int
  BY <1>1, <1>4, TotalIsNumber
<1>6. CASE k \in S
  <2>1. Total(g, S) = Total(f, S) + amount
    <3>1. \A key \in S \ {k} : g[key] = f[key]
      BY <1>1, <1>3
    <3>2. amount \in Int
      OBVIOUS
    <3> QED
      BY <1>1, <1>3, <1>4, <1>6, <3>1, <3>2, TotalGrows, ZenonT(40)
  <2> QED
    BY <1>0, <1>2, <1>6, <2>1
<1>7. CASE k \notin S
  <2>1. Total(f, S) = Total(g, S)
    <3>1. \A key \in S : f[key] = g[key]
      BY <1>1, <1>3, <1>7
    <3> QED
      BY <1>1, <1>4, <3>1, TotalIsSame
  <2> QED
    BY <1>0, <1>2, <1>5, <1>7, <2>1
<1> QED
  BY <1>6, <1>7

(* A recorder of the second, or of the one before.                         *)
LEMMA Reading ==
  ASSUME TrafficInv, NEW at \in Read
  PROVE  /\ at \in Seconds /\ at \in Int
         /\ \A c : InWindow(c) => c \in Int /\ c >= at - WindowSeconds
<1>1. /\ second \in Seconds /\ at \in Seconds /\ at \in {second - 1, second}
      /\ Seconds \subseteq Int /\ WindowSeconds \in Int
  BY MetricsAssumption DEF TrafficInv, TrafficTypes, Read, Seconds
<1>2. second \in Int /\ at <= second /\ at \in Int
  BY <1>1
<1> QED
  BY <1>1, <1>2 DEF InWindow

(* What buckets count is a number.                                         *)
LEMMA SumAfterIsNumber ==
  ASSUME NEW q \in Seq(BucketRecords), NEW c, NEW measure \in Measures
  PROVE  SumAfter(q, c, measure) \in Int
<1>1. Numbers(After(q, c, measure), 1 .. Len(q))
  <2>1. ASSUME NEW i \in 1 .. Len(q) PROVE After(q, c, measure)[i] \in Int
    <3>1. measure[q[i]] \in Nat
      BY DEF Measures
    <3> QED
      BY <3>1 DEF After
  <2> QED
    BY <2>1 DEF Numbers
<1>2. IsFiniteSet(1 .. Len(q))
  BY FS_Interval
<1> QED
  BY <1>1, <1>2, TotalIsNumber DEF SumAfter

(* Bytes are counted as they are recorded (record).                        *)
LEMMA RecordBytesCounts ==
  ASSUME TrafficInv, WindowInv, NEW own \in Series, NEW amount \in Nat, NEW at \in Read,
         RecordBytes(own, amount, at), UNCHANGED <<second, restarts, sent>>
  PROVE  buckets' \in Seq(BucketRecords) /\ TrafficWindow' /\ PacketWindow'
<1> DEFINE now == CurrentBucket(at)
<1>1. PICK current : current = now
  OBVIOUS
<1>2. /\ buckets \in Seq(BucketRecords) /\ recorded \in [Keys -> Nat]
      /\ buckets' = [current EXCEPT ![Len(current)].traffic[own] = @ + amount]
      /\ recorded' = [recorded EXCEPT ![<<own, at>>] = @ + amount]
  BY <1>1 DEF TrafficInv, TrafficTypes, WindowInv, WindowTypes, RecordBytes
<1>3. at \in Seconds /\ at \in Int
  BY Reading
<1>4. PICK d : Trimmed(d, at, current)
  BY <1>1, <1>2, <1>3, CurrentIsTrimmed
<1>5. PICK last : last = current[Len(current)]
  OBVIOUS
<1>6. last \in BucketRecords /\ last.second = at /\ Len(current) \in DOMAIN current
  BY <1>4, <1>5 DEF Trimmed
<1>7. PICK changed : changed = [last EXCEPT !.traffic = [last.traffic EXCEPT ![own] = @ + amount]]
  OBVIOUS
<1>8. /\ last.traffic \in [Series -> Nat] /\ last.second \in Seconds
      /\ last.protobuf \in [Actors \X MessageTypes -> Nat \X Nat]
      /\ last = [second |-> last.second, traffic |-> last.traffic, protobuf |-> last.protobuf]
  BY <1>6 DEF BucketRecords
<1>9. [last.traffic EXCEPT ![own] = @ + amount] \in [Series -> Nat]
  BY <1>8
<1>10. changed \in BucketRecords
  BY <1>6, <1>7, <1>9, Zenon DEF BucketRecords
<1>11. /\ changed.second = at /\ changed.protobuf = last.protobuf
       /\ changed.traffic = [last.traffic EXCEPT ![own] = @ + amount]
  BY <1>6, <1>7, <1>8
<1>12. buckets' = [current EXCEPT ![Len(current)] = changed]
  BY <1>2, <1>5, <1>7, Zenon
<1>13. /\ WithLast(buckets', current, changed)
       /\ changed.second = at /\ buckets \in Seq(BucketRecords)
  <2>1. current \in Seq(BucketRecords) /\ Len(current) > 0
    BY <1>4 DEF Trimmed
  <2>2. PICK n \in Nat : n = Len(current) /\ n > 0
    BY <2>1
  <2>3. buckets' \in Seq(BucketRecords) /\ Len(buckets') = n
    BY <1>10, <1>12, <2>1, <2>2
  <2>4. buckets'[n] = changed /\ \A i \in 1 .. n - 1 : buckets'[i] = current[i]
    BY <1>12, <2>1, <2>2
  <2> QED
    BY <1>2, <1>11, <2>2, <2>3, <2>4 DEF WithLast
<1>14. ASSUME NEW series \in Series
       PROVE  TrafficOf(series)[changed]
                = TrafficOf(series)[last] + (IF series = own THEN amount ELSE 0)
  BY <1>6, <1>8, <1>10, <1>11 DEF TrafficOf
<1>15. ASSUME NEW actor \in Actors, NEW type \in MessageTypes, NEW which \in {1, 2}
       PROVE  ProtobufOf(actor, type, which)[changed] = ProtobufOf(actor, type, which)[last] + 0
  <2>1. ProtobufOf(actor, type, which)[last] \in Nat
    BY <1>6, MeasuresAre DEF Measures
  <2> QED
    BY <1>6, <1>10, <1>11, <2>1 DEF ProtobufOf
<1>16. ASSUME NEW series \in Series, NEW c, InWindow(c)
       PROVE  SumAfter(buckets', c, TrafficOf(series))
                = SumAfter(buckets, c, TrafficOf(series))
                  + (IF at > c THEN IF series = own THEN amount ELSE 0 ELSE 0)
  <2>1. PICK measure : measure = TrafficOf(series)
    OBVIOUS
  <2>2. PICK more \in Int : more = IF series = own THEN amount ELSE 0
    OBVIOUS
  <2>3. measure \in Measures /\ measure[NewBucket(at)] = 0
    BY <1>3, <2>1, MeasuresAre, NewBucketIsEmpty
  <2>4. measure[changed] = measure[current[Len(current)]] + more
    BY <1>5, <1>14, <2>1, <2>2
  <2>5. c \in Int /\ c >= at - WindowSeconds
    BY <1>16, Reading
  <2>6. SumAfter(buckets', c, measure)
          = SumAfter(buckets, c, measure) + (IF at > c THEN more ELSE 0)
    BY <1>3, <1>4, <1>10, <1>13, <2>3, <2>4, <2>5, RecordingCounts
  <2> QED
    BY <2>1, <2>2, <2>6
<1>17. ASSUME NEW actor \in Actors, NEW type \in MessageTypes, NEW which \in {1, 2}, NEW c,
              InWindow(c)
       PROVE  SumAfter(buckets', c, ProtobufOf(actor, type, which))
                = Total(Weight(which), SentBy(sent, actor, type, c))
  <2>1. PICK measure : measure = ProtobufOf(actor, type, which)
    OBVIOUS
  <2>2. measure \in Measures /\ measure[NewBucket(at)] = 0
    BY <1>3, <2>1, MeasuresAre, NewBucketIsEmpty
  <2>3. measure[changed] = measure[current[Len(current)]] + 0
    BY <1>5, <1>15, <2>1
  <2>4. c \in Int /\ c >= at - WindowSeconds
    BY <1>17, Reading
  <2>5. 0 \in Int
    OBVIOUS
  <2>6. SumAfter(buckets', c, measure)
          = SumAfter(buckets, c, measure) + (IF at > c THEN 0 ELSE 0)
    BY <1>3, <1>4, <1>10, <1>13, <2>2, <2>3, <2>4, <2>5, RecordingCounts
  <2>7. SumAfter(buckets, c, measure) \in Int
    BY <1>2, <2>2, SumAfterIsNumber
  <2>8. SumAfter(buckets, c, measure) = Total(Weight(which), SentBy(sent, actor, type, c))
    BY <1>17, <2>1 DEF WindowInv, PacketWindow, PacketsCounted
  <2> QED
    BY <2>1, <2>6, <2>7, <2>8
<1>18. buckets' \in Seq(BucketRecords)
  BY <1>13 DEF WithLast
<1>19. ASSUME restarts = 0, NEW series \in Series, NEW c, InWindow(c)
       PROVE  SumAfter(buckets', c, TrafficOf(series)) = Total(recorded', KeysAfter(series, c))
  <2>1. SumAfter(buckets, c, TrafficOf(series)) = Total(recorded, KeysAfter(series, c))
    BY <1>19 DEF WindowInv, TrafficWindow, TrafficCounted
  <2>2. c \in Int
    BY <1>19 DEF InWindow
  <2>3. Grown(recorded, recorded', <<own, at>>, amount)
    <3>1. <<own, at>> \in Keys
      BY <1>3 DEF Keys
    <3> QED
      BY <1>2, <3>1 DEF Grown
  <2>4. Total(recorded', KeysAfter(series, c)) = Total(recorded, KeysAfter(series, c))
           + (IF at > c THEN IF series = own THEN amount ELSE 0 ELSE 0)
    <3>1. recorded \in [Keys -> Nat] /\ at \in Seconds
      BY <1>2, <1>3
    <3>2. PICK g : g = recorded'
      OBVIOUS
    <3>3. Grown(recorded, g, <<own, at>>, amount)
      BY <2>3, <3>2
    <3>4. Total(g, KeysAfter(series, c)) = Total(recorded, KeysAfter(series, c))
            + (IF at > c THEN IF series = own THEN amount ELSE 0 ELSE 0)
      BY <2>2, <3>1, <3>3, RecordedAfter
    <3> QED
      BY <3>2, <3>4
  <2> QED
    BY <1>16, <1>19, <2>1, <2>4
<1>20. TrafficWindow'
  BY <1>19, ZenonT(40) DEF TrafficWindow, TrafficCounted, InWindow
<1>21. PacketWindow'
  BY <1>17, ZenonT(40) DEF PacketWindow, PacketsCounted, InWindow
<1> QED
  BY <1>18, <1>20, <1>21

(* The packets of an actor and a type are finitely many.                   *)
LEMMA SentAreFinite ==
  ASSUME NEW packets \in SUBSET Packets, IsFiniteSet(packets), NEW actor, NEW type, NEW which, NEW c
  PROVE  /\ IsFiniteSet(SentBy(packets, actor, type, c))
         /\ Numbers(Weight(which), SentBy(packets, actor, type, c))
         /\ Total(Weight(which), SentBy(packets, actor, type, c)) \in Int
<1> DEFINE S == SentBy(packets, actor, type, c)
<1>1. S \subseteq packets
  BY DEF SentBy
<1>2. IsFiniteSet(S)
  BY <1>1, FS_Subset
<1>3. ASSUME NEW p \in Packets PROVE Weight(which)[p] \in Int
  <2>1. p.bytes \in Int
    BY DEF Packets
  <2> QED
    BY <2>1 DEF Weight
<1>4. Numbers(Weight(which), S)
  BY <1>1, <1>3 DEF Numbers
<1>5. Total(Weight(which), S) \in Int
  BY <1>2, <1>4, TotalIsNumber
<1> QED
  BY <1>2, <1>4, <1>5

(* One packet more counts for its actor and its type.                      *)
LEMMA SentAfter ==
  ASSUME NEW packets \in SUBSET Packets, IsFiniteSet(packets), NEW p \in Packets, p \notin packets,
         NEW actor, NEW type, NEW which, NEW c, NEW after, after = packets \cup {p}
  PROVE  Total(Weight(which), SentBy(after, actor, type, c))
           = Total(Weight(which), SentBy(packets, actor, type, c))
             + (IF p.at > c
                THEN IF p.actor = actor /\ p.type = type THEN Weight(which)[p] ELSE 0 ELSE 0)
<1> DEFINE S == SentBy(packets, actor, type, c)
           w == Weight(which)
<1>1. IsFiniteSet(S) /\ Total(w, S) \in Int
  BY SentAreFinite
<1>2. Numbers(w, S \cup {p})
  <2>1. S \cup {p} \subseteq Packets
    BY DEF SentBy
  <2>2. ASSUME NEW q \in Packets PROVE w[q] \in Int
    <3>1. q.bytes \in Int
      BY DEF Packets
    <3> QED
      BY <3>1 DEF Weight
  <2> QED
    BY <2>1, <2>2 DEF Numbers
<1>3. p \notin S
  BY DEF SentBy
<1>4. CASE p.at > c /\ p.actor = actor /\ p.type = type
  <2>1. SentBy(after, actor, type, c) = S \cup {p}
    BY <1>4 DEF SentBy
  <2> HIDE DEF S, w
  <2>2. Total(w, S \cup {p}) = Total(w, S) + w[p]
    BY <1>1, <1>2, <1>3, TotalWith
  <2> QED
    BY <1>4, <2>1, <2>2 DEF S, w
<1>5. CASE ~(p.at > c /\ p.actor = actor /\ p.type = type)
  <2>1. SentBy(after, actor, type, c) = S
    BY <1>5 DEF SentBy
  <2> QED
    BY <1>1, <1>5, <2>1
<1> QED
  BY <1>4, <1>5

(* A packet is counted as it is recorded (record_protobuf).                *)
LEMMA RecordProtobufCounts ==
  ASSUME TrafficInv, WindowInv, NEW own \in Actors, NEW kind \in MessageTypes,
         NEW amount \in {1, 2}, RecordProtobuf(own, kind, amount)
  PROVE  WindowTypes' /\ TrafficWindow' /\ PacketWindow'
<1>1. PICK at \in Read :
        LET current == CurrentBucket(at) IN
        /\ buckets' = [current EXCEPT ![Len(current)].protobuf[<<own, kind>>] =
                         <<@[1] + 1, @[2] + amount>>]
        /\ sent' = sent \cup {[nr |-> Cardinality(sent), actor |-> own, type |-> kind,
                              bytes |-> amount, at |-> at]}
  BY DEF RecordProtobuf
<1> DEFINE now == CurrentBucket(at)
<1>2. PICK current : current = now
  OBVIOUS
<1>3. at \in Seconds /\ at \in Int
  BY Reading
<1>4. /\ buckets \in Seq(BucketRecords) /\ IsFiniteSet(sent) /\ sent \in SUBSET Packets
      /\ \A p \in sent : p.nr < Cardinality(sent)
      /\ restarts \in Nat
      /\ UNCHANGED <<second, restarts, recorded>>
  BY DEF WindowInv, WindowTypes, RecordProtobuf
<1>5. PICK d : Trimmed(d, at, current)
  BY <1>2, <1>3, <1>4, CurrentIsTrimmed
<1>6. PICK last : last = current[Len(current)]
  OBVIOUS
<1>7. last \in BucketRecords /\ last.second = at /\ Len(current) \in DOMAIN current
  BY <1>5, <1>6 DEF Trimmed
<1>8. PICK counts : counts = [last.protobuf EXCEPT ![<<own, kind>>] = <<@[1] + 1, @[2] + amount>>]
  OBVIOUS
<1>9. PICK changed : changed = [last EXCEPT !.protobuf = counts]
  OBVIOUS
<1>10. /\ last.traffic \in [Series -> Nat] /\ last.second \in Seconds
       /\ last.protobuf \in [Actors \X MessageTypes -> Nat \X Nat]
       /\ last = [second |-> last.second, traffic |-> last.traffic, protobuf |-> last.protobuf]
  BY <1>7 DEF BucketRecords
<1>11. counts \in [Actors \X MessageTypes -> Nat \X Nat]
  <2>1. last.protobuf[<<own, kind>>] \in Nat \X Nat
    BY <1>10
  <2>2. <<last.protobuf[<<own, kind>>][1] + 1, last.protobuf[<<own, kind>>][2] + amount>>
          \in Nat \X Nat
    BY <2>1
  <2> QED
    BY <1>8, <1>10, <2>2
<1>12. changed \in BucketRecords
  BY <1>7, <1>9, <1>11, Zenon DEF BucketRecords
<1>13. /\ changed.second = at /\ changed.traffic = last.traffic /\ changed.protobuf = counts
  BY <1>7, <1>9, <1>10
<1>14. buckets' = [current EXCEPT ![Len(current)] = changed]
  BY <1>1, <1>2, <1>6, <1>8, <1>9, Zenon
<1>15. WithLast(buckets', current, changed)
  <2>1. current \in Seq(BucketRecords) /\ Len(current) > 0
    BY <1>5 DEF Trimmed
  <2>2. PICK n \in Nat : n = Len(current) /\ n > 0
    BY <2>1
  <2>3. buckets' \in Seq(BucketRecords) /\ Len(buckets') = n
    BY <1>12, <1>14, <2>1, <2>2
  <2>4. buckets'[n] = changed /\ \A i \in 1 .. n - 1 : buckets'[i] = current[i]
    BY <1>14, <2>1, <2>2
  <2> QED
    BY <2>2, <2>3, <2>4 DEF WithLast
<1>16. PICK p : p = [nr |-> Cardinality(sent), actor |-> own, type |-> kind,
                    bytes |-> amount, at |-> at]
  OBVIOUS
<1>17. Cardinality(sent) \in Nat
  BY <1>4, FS_CardinalityType
<1>18. /\ p \in Packets /\ p.actor = own /\ p.type = kind /\ p.at = at /\ p.bytes = amount
       /\ p.nr = Cardinality(sent)
  BY <1>3, <1>16, <1>17 DEF Packets
<1>19. p \notin sent
  BY <1>4, <1>17, <1>18
<1>20. sent' = sent \cup {p}
  BY <1>1, <1>16, Zenon
<1>21. WindowTypes'
  <2>1. IsFiniteSet(sent') /\ Cardinality(sent') = Cardinality(sent) + 1
    BY <1>4, <1>19, <1>20, FS_AddElement
  <2>2. sent' \subseteq Packets
    BY <1>4, <1>18, <1>20
  <2>3. ASSUME NEW q \in sent' PROVE q.nr < Cardinality(sent')
    <3>1. CASE q = p
      BY <1>17, <1>18, <2>1, <3>1
    <3>2. CASE q \in sent
      <4>1. q.nr \in Nat
        BY <1>4, <3>2 DEF Packets
      <4> QED
        BY <1>4, <1>17, <2>1, <3>2, <4>1
    <3> QED
      BY <1>20, <3>1, <3>2
  <2>4. buckets' \in Seq(BucketRecords)
    BY <1>15 DEF WithLast
  <2> QED
    BY <1>4, <2>1, <2>2, <2>3, <2>4 DEF WindowTypes
<1>22. ASSUME restarts = 0, NEW series \in Series, NEW c, InWindow(c)
       PROVE  SumAfter(buckets', c, TrafficOf(series)) = Total(recorded', KeysAfter(series, c))
  <2>1. PICK measure : measure = TrafficOf(series)
    OBVIOUS
  <2>2. measure \in Measures /\ measure[NewBucket(at)] = 0
    BY <1>3, <2>1, MeasuresAre, NewBucketIsEmpty
  <2>3. measure[changed] = measure[current[Len(current)]] + 0
    <3>1. measure[last] \in Nat
      BY <1>7, <2>2 DEF Measures
    <3> QED
      BY <1>6, <1>7, <1>12, <1>13, <2>1, <3>1 DEF TrafficOf
  <2>4. c \in Int /\ c >= at - WindowSeconds /\ 0 \in Int /\ changed.second = at
    BY <1>13, <1>22, Reading
  <2>5. SumAfter(buckets', c, measure)
          = SumAfter(buckets, c, measure) + (IF at > c THEN 0 ELSE 0)
    BY <1>3, <1>4, <1>5, <1>12, <1>15, <2>2, <2>3, <2>4, RecordingCounts
  <2>6. SumAfter(buckets, c, measure) \in Int
    BY <1>4, <2>2, SumAfterIsNumber
  <2>7. SumAfter(buckets, c, measure) = Total(recorded, KeysAfter(series, c))
    BY <1>22, <2>1 DEF WindowInv, TrafficWindow, TrafficCounted
  <2>8. recorded' = recorded
    BY <1>4
  <2> QED
    BY <2>1, <2>5, <2>6, <2>7, <2>8
<1>23. ASSUME NEW actor \in Actors, NEW type \in MessageTypes, NEW which \in {1, 2}, NEW c,
              InWindow(c)
       PROVE  SumAfter(buckets', c, ProtobufOf(actor, type, which))
                = Total(Weight(which), SentBy(sent', actor, type, c))
  <2>1. PICK measure : measure = ProtobufOf(actor, type, which)
    OBVIOUS
  <2>2. measure \in Measures /\ measure[NewBucket(at)] = 0
    BY <1>3, <2>1, MeasuresAre, NewBucketIsEmpty
  <2>3. PICK more : more = IF p.actor = actor /\ p.type = type THEN Weight(which)[p] ELSE 0
    OBVIOUS
  <2>4. Weight(which)[p] = (IF which = 1 THEN 1 ELSE amount) /\ more \in Int
    BY <1>18, <2>3 DEF Weight
  <2>5. measure[changed] = measure[current[Len(current)]] + more
    <3>1. measure[changed] = counts[<<actor, type>>][which]
      BY <1>12, <1>13, <2>1 DEF ProtobufOf
    <3>2. measure[last] = last.protobuf[<<actor, type>>][which] /\ measure[last] \in Nat
      BY <1>7, <2>1, <2>2 DEF ProtobufOf, Measures
    <3>3. CASE own = actor /\ kind = type
      <4>1. counts[<<actor, type>>] = <<last.protobuf[<<own, kind>>][1] + 1,
                                        last.protobuf[<<own, kind>>][2] + amount>>
        BY <1>8, <1>10, <3>3
      <4>2. CASE which = 1
        BY <1>6, <1>18, <2>3, <2>4, <3>1, <3>2, <3>3, <4>1, <4>2
      <4>3. CASE which = 2
        BY <1>6, <1>18, <2>3, <2>4, <3>1, <3>2, <3>3, <4>1, <4>3
      <4> QED
        BY <4>2, <4>3
    <3>4. CASE ~(own = actor /\ kind = type)
      <4>1. counts[<<actor, type>>] = last.protobuf[<<actor, type>>]
        BY <1>8, <1>10, <3>4
      <4> QED
        BY <1>6, <1>18, <2>3, <3>1, <3>2, <3>4, <4>1
    <3> QED
      BY <3>3, <3>4
  <2>6. c \in Int /\ c >= at - WindowSeconds /\ changed.second = at
    BY <1>13, <1>23, Reading
  <2>7. SumAfter(buckets', c, measure)
          = SumAfter(buckets, c, measure) + (IF at > c THEN more ELSE 0)
    BY <1>3, <1>4, <1>5, <1>12, <1>15, <2>2, <2>4, <2>5, <2>6, RecordingCounts
  <2>8. SumAfter(buckets, c, measure) = Total(Weight(which), SentBy(sent, actor, type, c))
    BY <1>23, <2>1 DEF WindowInv, PacketWindow, PacketsCounted
  <2>9. PICK after : after = sent'
    OBVIOUS
  <2>10. after = sent \cup {p}
    BY <1>20, <2>9
  <2>11. Total(Weight(which), SentBy(after, actor, type, c))
           = Total(Weight(which), SentBy(sent, actor, type, c))
             + (IF p.at > c
                THEN IF p.actor = actor /\ p.type = type THEN Weight(which)[p] ELSE 0 ELSE 0)
    BY <1>4, <1>18, <1>19, <2>10, SentAfter
  <2>12. Total(Weight(which), SentBy(after, actor, type, c))
           = Total(Weight(which), SentBy(sent, actor, type, c)) + (IF at > c THEN more ELSE 0)
    BY <1>18, <2>3, <2>11
  <2> QED
    BY <2>1, <2>7, <2>8, <2>9, <2>12
<1>24. TrafficWindow'
  BY <1>4, <1>22, ZenonT(40) DEF TrafficWindow, TrafficCounted, InWindow
<1>25. PacketWindow'
  BY <1>4, <1>23, ZenonT(40) DEF PacketWindow, PacketsCounted, InWindow
<1> QED
  BY <1>21, <1>24, <1>25

(* The bytes of the connections listed: none is negative.                  *)
LEMMA BytesAreNumbers ==
  ASSUME TotalsTyped, NEW type \in MessageTypes
  PROVE  /\ IsFiniteSet(DOMAIN connections)
         /\ \A a \in DOMAIN connections : /\ connections[a][type].bytes \in Nat
                                          /\ BytesOf(type)[a] = connections[a][type].bytes
         /\ Numbers(BytesOf(type), DOMAIN connections)
         /\ Total(BytesOf(type), DOMAIN connections) \in Int
         /\ by_type[type].bytes \in Nat
<1>1. IsFiniteSet(DOMAIN connections)
  BY MetricsAssumption, FS_Subset DEF TotalsTyped
<1>2. ASSUME NEW a \in DOMAIN connections
      PROVE  connections[a][type].bytes \in Nat /\ BytesOf(type)[a] = connections[a][type].bytes
  <2>1. connections[a][type] \in PacketTotals
    BY DEF TotalsTyped
  <2> QED
    BY <2>1 DEF PacketTotals, BytesOf
<1>3. Numbers(BytesOf(type), DOMAIN connections)
  BY <1>2 DEF Numbers
<1>4. Total(BytesOf(type), DOMAIN connections) \in Int
  BY <1>1, <1>3, TotalIsNumber
<1>5. by_type[type].bytes \in Nat
  BY DEF TotalsTyped, PacketTotals
<1> QED
  BY <1>1, <1>2, <1>3, <1>4, <1>5

(* A packet more.                                                          *)
LEMMA PacketAdded ==
  ASSUME NEW totals \in PacketTotals, NEW amount \in Nat
  PROVE  /\ AddPacket(totals, amount) \in PacketTotals
         /\ AddPacket(totals, amount).bytes = totals.bytes + amount
<1>1. totals.messages \in Nat /\ totals.bytes \in Nat /\ totals.max_bytes \in Nat
  BY DEF PacketTotals
<1>2. totals.messages + 1 \in Nat /\ totals.bytes + amount \in Nat
  BY <1>1
<1> QED
  BY <1>1, <1>2 DEF AddPacket, PacketTotals

(* An empty total counts nothing.                                          *)
LEMMA EmptyIsTotals == Empty \in PacketTotals /\ Empty.bytes = 0
BY DEF Empty, PacketTotals

(* A connection is registered, anew or again.                              *)
LEMMA RegisterListed ==
  ASSUME TotalsTyped, ListedBelow, NEW actor \in Actors, RegisterConnection(actor)
  PROVE  TotalsTyped' /\ ListedBelow'
<1> DEFINE listed == DOMAIN connections
<1>1. /\ by_type' = by_type
      /\ connections' = [a \in listed \cup {actor} |->
                           IF a = actor THEN [m \in MessageTypes |-> Empty] ELSE connections[a]]
  BY DEF RegisterConnection
<1>2. DOMAIN connections' = listed \cup {actor}
  BY <1>1
<1>3. TotalsTyped'
  <2>1. [m \in MessageTypes |-> Empty] \in [MessageTypes -> PacketTotals]
    BY EmptyIsTotals
  <2>2. ASSUME NEW a \in DOMAIN connections'
        PROVE  connections'[a] \in [MessageTypes -> PacketTotals]
    BY <1>1, <1>2, <2>1 DEF TotalsTyped
  <2> QED
    BY <1>1, <1>2, <2>2 DEF TotalsTyped
<1>4. ASSUME NEW type \in MessageTypes
      PROVE  Total(BytesOf(type)', DOMAIN connections') <= by_type'[type].bytes
  <2>1. PICK f : f = BytesOf(type)
    OBVIOUS
  <2>2. PICK g, S : g = BytesOf(type)' /\ S = DOMAIN connections'
    OBVIOUS
  <2>3. \A a \in listed : f[a] \in Nat
    BY <2>1, BytesAreNumbers
  <2>4. \A a \in S : g[a] = IF a = actor THEN 0 ELSE f[a]
    <3>1. g = [a \in DOMAIN connections' |-> connections'[a][type].bytes]
      BY <2>2 DEF BytesOf
    <3>2. ASSUME NEW a \in S PROVE g[a] = IF a = actor THEN 0 ELSE f[a]
      BY <1>1, <1>2, <2>1, <2>2, <3>1, EmptyIsTotals DEF BytesOf
    <3> QED
      BY <3>2
  <2>5. S = listed \cup {actor} /\ actor \in S
    BY <1>2, <2>2
  <2>6. IsFiniteSet(S) /\ IsFiniteSet(S \ {actor}) /\ IsFiniteSet(listed)
    BY <1>3, <2>2, <2>5, BytesAreNumbers, FS_AddElement, FS_Subset
  <2>7. Numbers(g, S) /\ Numbers(g, S \ {actor}) /\ Numbers(f, S \ {actor}) /\ Numbers(f, listed)
    <3>1. \A a \in S \ {actor} : f[a] \in Int /\ g[a] = f[a]
      BY <2>3, <2>4, <2>5
    <3>2. g[actor] = 0
      BY <2>4, <2>5
    <3> QED
      BY <2>3, <3>1, <3>2 DEF Numbers
  <2>8. Total(g, S) = g[actor] + Total(g, S \ {actor})
    BY <2>5, <2>6, <2>7, TotalWithout
  <2>9. Total(f, S \ {actor}) = Total(g, S \ {actor})
    <3>1. \A a \in S \ {actor} : f[a] = g[a]
      BY <2>4
    <3> QED
      BY <2>6, <2>7, <3>1, TotalIsSame
  <2>10. Total(f, S \ {actor}) \in Int /\ Total(f, listed) \in Int
    BY <2>6, <2>7, TotalIsNumber
  <2>11. Total(f, S \ {actor}) <= Total(f, listed)
    <3>1. CASE actor \in listed
      <4>1. S \ {actor} = listed \ {actor}
        BY <2>5
      <4>2. Total(f, listed) = f[actor] + Total(f, listed \ {actor})
        BY <2>6, <2>7, <3>1, TotalWithout
      <4> QED
        BY <2>3, <2>10, <3>1, <4>1, <4>2
    <3>2. CASE actor \notin listed
      <4>1. S \ {actor} = listed
        BY <2>5, <3>2
      <4> QED
        BY <2>10, <4>1
    <3> QED
      BY <3>1, <3>2
  <2>12. Total(f, listed) <= by_type[type].bytes /\ by_type[type].bytes \in Int
    BY <2>1, BytesAreNumbers DEF ListedBelow
  <2>13. Total(g, S) <= by_type[type].bytes
    BY <2>4, <2>5, <2>8, <2>9, <2>10, <2>11, <2>12
  <2> QED
    BY <1>1, <2>2, <2>13
<1> QED
  BY <1>3, <1>4 DEF ListedBelow

(* One is taken off the list.                                              *)
LEMMA UnregisterListed ==
  ASSUME TotalsTyped, ListedBelow, NEW actor \in Actors, Unregister(actor)
  PROVE  TotalsTyped' /\ ListedBelow'
<1> DEFINE listed == DOMAIN connections
<1>1. by_type' = by_type /\ connections' = [a \in listed \ {actor} |-> connections[a]]
  BY DEF Unregister
<1>2. DOMAIN connections' = listed \ {actor}
  BY <1>1
<1>3. TotalsTyped'
  <2>1. ASSUME NEW a \in DOMAIN connections'
        PROVE  connections'[a] \in [MessageTypes -> PacketTotals]
    BY <1>1, <1>2 DEF TotalsTyped
  <2> QED
    BY <1>1, <1>2, <2>1 DEF TotalsTyped
<1>4. ASSUME NEW type \in MessageTypes
      PROVE  Total(BytesOf(type)', DOMAIN connections') <= by_type'[type].bytes
  <2>1. PICK f : f = BytesOf(type)
    OBVIOUS
  <2>2. PICK g, S : g = BytesOf(type)' /\ S = DOMAIN connections'
    OBVIOUS
  <2>3. \A a \in listed : f[a] \in Nat
    BY <2>1, BytesAreNumbers
  <2>4. \A a \in S : f[a] = g[a]
    <3>1. g = [a \in DOMAIN connections' |-> connections'[a][type].bytes]
      BY <2>2 DEF BytesOf
    <3> QED
      BY <1>1, <1>2, <2>1, <2>2, <3>1 DEF BytesOf
  <2>5. S = listed \ {actor}
    BY <1>2, <2>2
  <2>6. IsFiniteSet(listed) /\ IsFiniteSet(S)
    BY <1>3, <2>2, <2>5, BytesAreNumbers, FS_Subset
  <2>7. Numbers(f, listed) /\ Numbers(f, S)
    BY <2>3, <2>5 DEF Numbers
  <2>8. Total(f, S) = Total(g, S)
    BY <2>4, <2>6, <2>7, TotalIsSame
  <2>9. Total(f, S) \in Int /\ Total(f, listed) \in Int
    BY <2>6, <2>7, TotalIsNumber
  <2>10. Total(f, S) <= Total(f, listed)
    <3>1. CASE actor \in listed
      <4>1. Total(f, listed) = f[actor] + Total(f, listed \ {actor})
        BY <2>6, <2>7, <3>1, TotalWithout
      <4> QED
        BY <2>3, <2>5, <2>9, <3>1, <4>1
    <3>2. CASE actor \notin listed
      <4>1. S = listed
        BY <2>5, <3>2
      <4> QED
        BY <2>9, <4>1
    <3> QED
      BY <3>1, <3>2
  <2>11. Total(f, listed) <= by_type[type].bytes /\ by_type[type].bytes \in Int
    BY <2>1, BytesAreNumbers DEF ListedBelow
  <2>12. Total(g, S) <= by_type[type].bytes
    BY <2>8, <2>9, <2>10, <2>11
  <2> QED
    BY <1>1, <2>2, <2>12
<1> QED
  BY <1>3, <1>4 DEF ListedBelow

(* A packet counts for its type, and for its connection if it is listed.   *)
LEMMA PacketListed ==
  ASSUME TotalsTyped, ListedBelow, NEW own \in Actors, NEW kind \in MessageTypes,
         NEW amount \in {1, 2}, RecordProtobuf(own, kind, amount)
  PROVE  TotalsTyped' /\ ListedBelow'
<1> DEFINE listed == DOMAIN connections
<1>1. /\ by_type' = [by_type EXCEPT ![kind] = AddPacket(@, amount)]
      /\ connections' = [a \in listed |->
           IF a = own THEN [connections[a] EXCEPT ![kind] = AddPacket(@, amount)]
           ELSE connections[a]]
  BY DEF RecordProtobuf
<1>2. DOMAIN connections' = listed /\ amount \in Nat
  BY <1>1
<1>3. ASSUME NEW totals \in [MessageTypes -> PacketTotals]
      PROVE  /\ [totals EXCEPT ![kind] = AddPacket(@, amount)] \in [MessageTypes -> PacketTotals]
             /\ \A type \in MessageTypes :
                  [totals EXCEPT ![kind] = AddPacket(@, amount)][type].bytes
                    = totals[type].bytes + (IF type = kind THEN amount ELSE 0)
  <2>1. totals[kind] \in PacketTotals
    OBVIOUS
  <2>2. /\ AddPacket(totals[kind], amount) \in PacketTotals
        /\ AddPacket(totals[kind], amount).bytes = totals[kind].bytes + amount
    BY <1>2, <2>1, PacketAdded
  <2>3. ASSUME NEW type \in MessageTypes PROVE totals[type].bytes \in Nat
    BY DEF PacketTotals
  <2> QED
    BY <2>2, <2>3
<1>4. by_type \in [MessageTypes -> PacketTotals]
  BY DEF TotalsTyped
<1>5. TotalsTyped'
  <2>1. ASSUME NEW a \in listed PROVE connections'[a] \in [MessageTypes -> PacketTotals]
    <3>1. connections[a] \in [MessageTypes -> PacketTotals]
      BY DEF TotalsTyped
    <3> QED
      BY <1>1, <1>3, <3>1
  <2>2. by_type' \in [MessageTypes -> PacketTotals]
    BY <1>1, <1>3, <1>4
  <2> QED
    BY <1>2, <2>1, <2>2 DEF TotalsTyped
<1>6. ASSUME NEW type \in MessageTypes
      PROVE  Total(BytesOf(type)', DOMAIN connections') <= by_type'[type].bytes
  <2>1. PICK f : f = BytesOf(type)
    OBVIOUS
  <2>2. PICK g : g = BytesOf(type)'
    OBVIOUS
  <2>3. PICK n : n = IF type = kind THEN amount ELSE 0
    OBVIOUS
  <2>4. n \in Nat
    BY <1>2, <2>3
  <2>5. by_type'[type].bytes = by_type[type].bytes + n
    BY <1>1, <1>3, <1>4, <2>3
  <2>6. /\ IsFiniteSet(listed) /\ Numbers(f, listed) /\ Total(f, listed) \in Int
        /\ by_type[type].bytes \in Nat /\ Total(f, listed) <= by_type[type].bytes
    BY <2>1, BytesAreNumbers DEF ListedBelow
  <2>7. ASSUME NEW a \in listed PROVE g[a] = f[a] + (IF a = own THEN n ELSE 0)
    <3>1. g[a] = connections'[a][type].bytes /\ f[a] = connections[a][type].bytes
      BY <1>2, <2>1, <2>2 DEF BytesOf
    <3>2. connections[a] \in [MessageTypes -> PacketTotals] /\ f[a] \in Nat
      BY <2>1, BytesAreNumbers DEF TotalsTyped
    <3>3. CASE a = own
      <4>1. connections'[a] = [connections[a] EXCEPT ![kind] = AddPacket(@, amount)]
        BY <1>1, <3>3
      <4> QED
        BY <1>3, <2>3, <3>1, <3>2, <3>3, <4>1
    <3>4. CASE a # own
      BY <1>1, <3>1, <3>2, <3>4
    <3> QED
      BY <3>3, <3>4
  <2>8. CASE own \in listed
    <3>1. g[own] = f[own] + n /\ n \in Int
      BY <2>4, <2>7, <2>8
    <3>2. \A a \in listed \ {own} : g[a] = f[a]
      <4>1. \A a \in listed : f[a] \in Int
        BY <2>6 DEF Numbers
      <4> QED
        BY <2>7, <4>1
    <3> HIDE DEF listed
    <3>3. Total(g, listed) = Total(f, listed) + n
      BY <2>6, <2>8, <3>1, <3>2, TotalGrows
    <3> QED
      BY <1>2, <2>2, <2>4, <2>5, <2>6, <3>3
  <2>9. CASE own \notin listed
    <3>1. \A a \in listed : f[a] = g[a]
      <4>1. \A a \in listed : f[a] \in Int
        BY <2>6 DEF Numbers
      <4> QED
        BY <2>7, <2>9, <4>1
    <3> HIDE DEF listed
    <3>2. Total(f, listed) = Total(g, listed)
      BY <2>6, <3>1, TotalIsSame
    <3> QED
      BY <1>2, <2>2, <2>4, <2>5, <2>6, <3>2
  <2> QED
    BY <2>8, <2>9
<1> QED
  BY <1>5, <1>6 DEF ListedBelow

(* The invariant of what is shown of the last seconds.                     *)
ShownInv == TrafficInv /\ WindowInv

(* The sum over the buckets that are live is that of the window.           *)
LEMMA LiveIsWindow ==
  ASSUME ShownInv, NEW measure \in Measures, NEW f, \A i \in Live : f[i] = measure[buckets[i]]
  PROVE  SumOf(f, Live) = SumAfter(buckets, second - WindowSeconds, measure)
<1> DEFINE now == second - WindowSeconds
           amounts == After(buckets, now, measure)
<1>1. PICK c, g, n : c = now /\ g = amounts /\ n = Len(buckets)
  OBVIOUS
<1>2. buckets \in Seq(BucketRecords) /\ DOMAIN buckets = 1 .. n /\ n \in Nat
  BY <1>1 DEF ShownInv, WindowInv, WindowTypes
<1>3. IsFiniteSet(1 .. n)
  BY <1>2, FS_Interval
<1>4. PICK T : T = Live
  OBVIOUS
<1>5. T \in SUBSET (1 .. n) /\ \A i \in 1 .. n : i \in T <=> buckets[i].second > c
  BY <1>1, <1>2, <1>4 DEF Live
<1>6. Numbers(f, T)
  <2>1. ASSUME NEW i \in T PROVE f[i] \in Int
    <3>1. buckets[i] \in BucketRecords
      BY <1>2, <1>5
    <3>2. measure[buckets[i]] \in Nat
      BY <3>1 DEF Measures
    <3> QED
      BY <1>4, <3>2
  <2> QED
    BY <2>1 DEF Numbers
<1>7. \A i \in 1 .. n : g[i] = IF i \in T THEN f[i] ELSE 0
  BY <1>1, <1>4, <1>5 DEF After
<1> HIDE DEF amounts
<1>8. Total(f, T) = Total(g, 1 .. n)
  <2>1. PICK S : S = 1 .. n
    OBVIOUS
  <2>2. T \subseteq S /\ CountsOnly(g, S, f, T)
    BY <1>5, <1>7, <2>1 DEF CountsOnly
  <2>3. IsFiniteSet(S)
    BY <1>3, <2>1
  <2>4. Total(f, T) = Total(g, S)
    BY <1>6, <2>2, <2>3, TotalOfSome
  <2> QED
    BY <2>1, <2>4
<1>9. SumOf(f, Live) = Total(f, T)
  BY <1>4, Zenon DEF SumOf, Total
<1> QED
  BY <1>1, <1>8, <1>9 DEF SumAfter, amounts

(* The present window.                                                     *)
LEMMA PresentWindow ==
  ASSUME ShownInv
  PROVE  InWindow(second - WindowSeconds)
<1>1. second \in Int /\ WindowSeconds \in Int
  BY MetricsAssumption DEF ShownInv, TrafficInv, TrafficTypes, Seconds
<1> QED
  BY <1>1 DEF InWindow

(* What is shown of a series.                                              *)
LEMMA LiveTrafficIsExact ==
  ASSUME ShownInv, restarts = 0, NEW series \in Series
  PROVE  LiveTraffic(series) =
           SumOf(recorded, {key \in Keys : key[1] = series /\ key[2] > second - WindowSeconds})
<1> DEFINE f == [i \in Live |-> buckets[i].traffic[series]]
<1>1. TrafficOf(series) \in Measures
  BY MeasuresAre
<1>2. \A i \in Live : f[i] = TrafficOf(series)[buckets[i]]
  <2>1. \A i \in Live : buckets[i] \in BucketRecords
    BY DEF ShownInv, WindowInv, WindowTypes, Live
  <2> QED
    BY <2>1 DEF TrafficOf
<1>3. LiveTraffic(series) = SumOf(f, Live)
  BY Zenon DEF LiveTraffic
<1> HIDE DEF f
<1>4. SumOf(f, Live) = SumAfter(buckets, second - WindowSeconds, TrafficOf(series))
  BY <1>1, <1>2, LiveIsWindow
<1>5. SumAfter(buckets, second - WindowSeconds, TrafficOf(series))
        = Total(recorded, KeysAfter(series, second - WindowSeconds))
  BY PresentWindow DEF ShownInv, WindowInv, TrafficWindow, TrafficCounted
<1>6. Total(recorded, KeysAfter(series, second - WindowSeconds)) =
        SumOf(recorded, {key \in Keys : key[1] = series /\ key[2] > second - WindowSeconds})
  BY Zenon DEF SumOf, Total, KeysAfter
<1> QED
  BY <1>3, <1>4, <1>5, <1>6

(* What is shown of an actor and a type.                                   *)
LEMMA LiveOfIsExact ==
  ASSUME ShownInv, NEW actor \in Actors, NEW type \in MessageTypes, NEW which \in {1, 2}
  PROVE  LiveOf(actor, type)[which]
           = Total(Weight(which), SentBy(sent, actor, type, second - WindowSeconds))
<1> DEFINE f == [i \in Live |-> buckets[i].protobuf[<<actor, type>>][which]]
<1>1. ProtobufOf(actor, type, which) \in Measures
  BY MeasuresAre
<1>2. \A i \in Live : f[i] = ProtobufOf(actor, type, which)[buckets[i]]
  <2>1. \A i \in Live : buckets[i] \in BucketRecords
    BY DEF ShownInv, WindowInv, WindowTypes, Live
  <2> QED
    BY <2>1 DEF ProtobufOf
<1>3. LiveOf(actor, type)[which] = SumOf(f, Live)
  <2>1. CASE which = 1
    BY <2>1 DEF LiveOf
  <2>2. CASE which = 2
    BY <2>2 DEF LiveOf
  <2> QED
    BY <2>1, <2>2
<1> HIDE DEF f
<1>4. SumOf(f, Live) = SumAfter(buckets, second - WindowSeconds, ProtobufOf(actor, type, which))
  BY <1>1, <1>2, LiveIsWindow
<1>5. SumAfter(buckets, second - WindowSeconds, ProtobufOf(actor, type, which))
        = Total(Weight(which), SentBy(sent, actor, type, second - WindowSeconds))
  BY PresentWindow DEF ShownInv, WindowInv, PacketWindow, PacketsCounted
<1> QED
  BY <1>3, <1>4, <1>5

(* And of a type, summed over the actors.                                  *)
LEMMA LiveOfTypeIsExact ==
  ASSUME ShownInv, NEW type \in MessageTypes
  PROVE  LET recent == {packet \in sent : packet.type = type /\ packet.at > second - WindowSeconds}
         IN  LiveOfType(type)
               = <<Cardinality(recent), SumOf([packet \in recent |-> packet.bytes], recent)>>
<1> DEFINE recent == {packet \in sent : packet.type = type /\ packet.at > second - WindowSeconds}
           bytes == [packet \in recent |-> packet.bytes]
           K == [a \in Actors |-> SentBy(sent, a, type, second - WindowSeconds)]
<1>1. IsFiniteSet(sent) /\ sent \in SUBSET Packets /\ IsFiniteSet(Actors)
  BY MetricsAssumption DEF ShownInv, WindowInv, WindowTypes
<1>2. IsFiniteSet(recent) /\ recent \subseteq Packets
  BY <1>1, FS_Subset
<1>3. Together(K, Actors) = recent
  <2>1. \A packet \in sent : packet.actor \in Actors
    BY <1>1 DEF Packets
  <2> QED
    BY <2>1 DEF Together, SentBy
<1>4. ASSUME NEW which \in {1, 2}
      PROVE  SumOf([a \in Actors |-> LiveOf(a, type)[which]], Actors) = Total(Weight(which), recent)
  <2> DEFINE sums == [a \in Actors |-> LiveOf(a, type)[which]]
  <2>1. \A a \in Actors : K[a] = SentBy(sent, a, type, second - WindowSeconds)
    OBVIOUS
  <2>2. \A a \in Actors : sums[a] = Total(Weight(which), K[a])
    BY LiveOfIsExact
  <2>3. Apart(K, Actors, Weight(which))
    <3>1. \A a \in Actors : IsFiniteSet(K[a]) /\ Numbers(Weight(which), K[a])
      BY <1>1, SentAreFinite
    <3>2. \A a, b \in Actors : a # b => K[a] \cap K[b] = {}
      BY DEF SentBy
    <3> HIDE DEF K
    <3> QED
      BY <3>1, <3>2 DEF Apart
  <2> HIDE DEF sums, K, recent
  <2>4. Total(Weight(which), Together(K, Actors)) = Total(sums, Actors)
    BY <1>1, <2>2, <2>3, TotalOfParts
  <2>5. SumOf(sums, Actors) = Total(sums, Actors)
    BY Zenon DEF SumOf, Total
  <2>6. SumOf(sums, Actors) = Total(Weight(which), recent)
    BY <1>3, <2>4, <2>5
  <2> QED
    BY <2>6 DEF sums
<1>5. Cardinality(recent) = Total(Weight(1), recent)
  <2>1. \A p \in recent : Weight(1)[p] = 1
    BY <1>2 DEF Weight
  <2> HIDE DEF recent
  <2> QED
    BY <1>2, <2>1, CountIsTotal
<1>6. SumOf(bytes, recent) = Total(Weight(2), recent)
  <2>1. \A p \in recent : bytes[p] = Weight(2)[p] /\ p.bytes \in Nat /\ bytes[p] = p.bytes
    BY <1>2 DEF Weight, Packets
  <2> HIDE DEF recent, bytes
  <2>2. Numbers(bytes, recent)
    BY <2>1 DEF Numbers
  <2>3. Total(bytes, recent) = Total(Weight(2), recent)
    BY <1>2, <2>1, <2>2, TotalIsSame
  <2> QED
    BY <2>3, Zenon DEF SumOf, Total
<1>7. LiveOfType(type) = <<Total(Weight(1), recent), Total(Weight(2), recent)>>
  <2>1. /\ SumOf([a \in Actors |-> LiveOf(a, type)[1]], Actors) = Total(Weight(1), recent)
        /\ SumOf([a \in Actors |-> LiveOf(a, type)[2]], Actors) = Total(Weight(2), recent)
    BY <1>4
  <2> HIDE DEF recent
  <2> QED
    BY <2>1, Zenon DEF LiveOfType
<1> QED
  BY <1>5, <1>6, <1>7

(* The views of the last seconds are exact.                                *)
LEMMA WindowExact ==
  ASSUME ShownInv
  PROVE  WindowIsExact
<1>1. ASSUME NEW type \in MessageTypes
      PROVE  /\ SumOf([a \in DOMAIN connections |-> connections[a][type].bytes],
                      DOMAIN connections) <= by_type[type].bytes
             /\ by_type[type].bytes <= CombineSession(by_type).bytes
  <2> DEFINE all == [m \in MessageTypes |-> by_type[m].bytes]
  <2>1. Total(BytesOf(type), DOMAIN connections) <= by_type[type].bytes
    BY DEF ShownInv, WindowInv, ListedBelow
  <2>2. Total(BytesOf(type), DOMAIN connections)
          = SumOf([a \in DOMAIN connections |-> connections[a][type].bytes], DOMAIN connections)
    BY Zenon DEF SumOf, Total, BytesOf
  <2>3. TotalsTyped
    BY DEF ShownInv, WindowInv
  <2>4. DOMAIN by_type = MessageTypes /\ \A m \in MessageTypes : all[m] \in Nat
    BY <2>3, BytesAreNumbers DEF TotalsTyped
  <2>5. CombineSession(by_type).bytes = SumOf(all, MessageTypes)
    BY <2>4 DEF CombineSession
  <2>6. SumOf(all, MessageTypes) = Total(all, MessageTypes)
    BY Zenon DEF SumOf, Total
  <2>7. all[type] <= Total(all, MessageTypes)
    <3> HIDE DEF all
    <3> QED
      BY <2>4, MetricsAssumption, TotalIsNatural
  <2> QED
    BY <2>1, <2>2, <2>5, <2>6, <2>7
<1>2. restarts = 0 => \A series \in Series : LiveTraffic(series) =
        SumOf(recorded, {key \in Keys : key[1] = series /\ key[2] > second - WindowSeconds})
  BY LiveTrafficIsExact
<1> QED
  BY <1>1, <1>2, LiveOfTypeIsExact, Zenon DEF WindowIsExact

(* Nothing has been counted of nothing.                                    *)
LEMMA NothingCounted ==
  /\ <<>> \in Seq(BucketRecords) /\ IsFiniteSet({}) /\ {} \subseteq Packets
  /\ \A c, measure : SumAfter(<<>>, c, measure) = 0
  /\ \A actor, type, which, c : Total(Weight(which), SentBy({}, actor, type, c)) = 0
<1>1. <<>> \in Seq(BucketRecords) /\ IsFiniteSet({})
  BY FS_EmptySet
<1>2. ASSUME NEW c, NEW measure PROVE SumAfter(<<>>, c, measure) = 0
  <2>1. 1 .. Len(<<>>) = {}
    OBVIOUS
  <2> QED
    BY <2>1, TotalOfNothing DEF SumAfter
<1>3. ASSUME NEW actor, NEW type, NEW which, NEW c
      PROVE  Total(Weight(which), SentBy({}, actor, type, c)) = 0
  <2>1. SentBy({}, actor, type, c) = {}
    BY DEF SentBy
  <2> QED
    BY <2>1, TotalOfNothing
<1> QED
  BY <1>1, <1>2, <1>3

(* At first nothing has been recorded.                                     *)
LEMMA WindowBegins ==
  ASSUME MetricsInit
  PROVE  WindowInv
<1>1. WindowTypes
  BY NothingCounted DEF MetricsInit, WindowTypes
<1>2. DOMAIN connections = {} /\ by_type = [m \in MessageTypes |-> Empty]
  BY DEF MetricsInit
<1>3. TotalsTyped
  BY <1>2, EmptyIsTotals DEF TotalsTyped
<1>4. ASSUME NEW type \in MessageTypes
      PROVE  Total(BytesOf(type), DOMAIN connections) <= by_type[type].bytes
  <2>1. Total(BytesOf(type), DOMAIN connections) = 0
    BY <1>2, TotalOfNothing
  <2> QED
    BY <1>2, <2>1, EmptyIsTotals
<1>5. ListedBelow
  BY <1>4 DEF ListedBelow
<1>6. ASSUME NEW series \in Series, NEW c
      PROVE  TrafficCounted(series, c)
  <2>1. \A key \in KeysAfter(series, c) : recorded[key] = 0
    BY RowsAfter DEF MetricsInit, NoBytes
  <2>2. Total(recorded, KeysAfter(series, c)) = 0
    BY <2>1, RowsAfter, TotalOfNone
  <2>3. SumAfter(buckets, c, TrafficOf(series)) = 0
    BY NothingCounted DEF MetricsInit
  <2> QED
    BY <2>2, <2>3 DEF TrafficCounted
<1>7. TrafficWindow
  BY <1>6 DEF TrafficWindow
<1>8. PacketWindow
  BY NothingCounted DEF MetricsInit, PacketWindow, PacketsCounted
<1> QED
  BY <1>1, <1>3, <1>5, <1>7, <1>8 DEF WindowInv

(* The totals change with their variables only.                            *)
LEMMA TotalsKept ==
  ASSUME WindowInv, UNCHANGED <<by_type, connections>>
  PROVE  TotalsTyped' /\ ListedBelow'
BY Zenon DEF WindowInv, TotalsTyped, ListedBelow, BytesOf

(* What is in the window later has been in it.                             *)
LEMMA WindowKept ==
  ASSUME TrafficInv, WindowInv, UNCHANGED <<buckets, restarts, recorded, sent>>,
         second' = second \/ second' = second + 1
  PROVE  WindowTypes' /\ TrafficWindow' /\ PacketWindow'
<1>1. second \in Int /\ WindowSeconds \in Int
  BY MetricsAssumption DEF TrafficInv, TrafficTypes, Seconds
<1>2. ASSUME NEW c, InWindow(c)' PROVE InWindow(c)
  BY <1>1, <1>2 DEF InWindow
<1>3. WindowTypes'
  BY Zenon DEF WindowInv, WindowTypes
<1>4. TrafficWindow'
  BY <1>2, Zenon DEF WindowInv, TrafficWindow, TrafficCounted
<1>5. PacketWindow'
  BY <1>2, Zenon DEF WindowInv, PacketWindow, PacketsCounted
<1> QED
  BY <1>3, <1>4, <1>5

(* Bytes of a frame, or what is sampled of a wire.                         *)
LEMMA BytesKeepWindow ==
  ASSUME TrafficInv, WindowInv, NEW own \in Series, NEW amount \in Nat, NEW at \in Read,
         RecordOrSkip(own, amount, at),
         UNCHANGED <<second, restarts, sent, by_type, connections>>
  PROVE  WindowInv'
<1>1. CASE RecordBytes(own, amount, at)
  <2>1. buckets' \in Seq(BucketRecords) /\ TrafficWindow' /\ PacketWindow'
    BY <1>1, RecordBytesCounts
  <2>2. WindowTypes'
    BY <2>1, Zenon DEF WindowInv, WindowTypes
  <2> QED
    BY <2>1, <2>2, TotalsKept DEF WindowInv
<1>2. CASE UNCHANGED <<buckets, recorded>>
  <2>1. WindowTypes' /\ TrafficWindow' /\ PacketWindow'
    BY <1>2, WindowKept
  <2> QED
    BY <2>1, TotalsKept DEF WindowInv
<1> QED
  BY <1>1, <1>2, Zenon DEF RecordOrSkip

(* The bytes of a frame.                                                   *)
LEMMA RecordKeepsWindow ==
  ASSUME TrafficInv, WindowInv, NEW series \in Series, Record(series)
  PROVE  WindowInv'
<1>1. PICK at \in Read : RecordBytes(series, 1, at)
  BY DEF Record
<1>2. 1 \in Nat /\ 1 > 0
  OBVIOUS
<1>3. RecordOrSkip(series, 1, at)
  BY <1>1, <1>2 DEF RecordOrSkip
<1>4. UNCHANGED <<second, restarts, sent, by_type, connections>>
  BY DEF Record
<1> QED
  BY <1>1, <1>2, <1>3, <1>4, BytesKeepWindow

(* The bytes of a wire.                                                    *)
LEMMA SamplerKeepsWindow ==
  ASSUME TrafficInv, WindowInv, SamplerRecords \/ PumpEnds
  PROVE  WindowInv'
<1>1. PICK amount \in Nat, at \in Read : RecordOrSkip(WireSeries, amount, at)
  <2>1. /\ wire.read \in SUBSET Nat /\ wire.total \in Nat /\ wire.last \in Nat
    BY WireFields DEF TrafficInv, TrafficTypes
  <2>2. CASE SamplerRecords
    <3>1. PICK total \in wire.read, at \in Read :
            RecordOrSkip(WireSeries, IF total > wire.last THEN total - wire.last ELSE 0, at)
      BY <2>2 DEF SamplerRecords
    <3>2. (IF total > wire.last THEN total - wire.last ELSE 0) \in Nat
      BY <2>1
    <3> QED
      BY <3>1, <3>2
  <2>3. CASE PumpEnds
    <3>1. PICK at \in Read :
            RecordOrSkip(WireSeries,
                         IF wire.total > wire.last THEN wire.total - wire.last ELSE 0, at)
      BY <2>3 DEF PumpEnds
    <3>2. (IF wire.total > wire.last THEN wire.total - wire.last ELSE 0) \in Nat
      BY <2>1
    <3> QED
      BY <3>1, <3>2
  <2> QED
    BY <2>2, <2>3
<1>2. UNCHANGED <<second, restarts, sent, by_type, connections>>
  BY Zenon DEF SamplerRecords, PumpEnds
<1>3. WireSeries \in Series
  BY MetricsAssumption
<1> QED
  BY <1>1, <1>2, <1>3, BytesKeepWindow

(* A packet, and the connections that come and go.                         *)
LEMMA PacketsKeepWindow ==
  ASSUME TrafficInv, WindowInv, NEW actor \in Actors,
         \/ RegisterConnection(actor) \/ Unregister(actor)
         \/ \E type \in MessageTypes, bytes \in {1, 2} : RecordProtobuf(actor, type, bytes)
  PROVE  WindowInv'
<1>1. CASE RegisterConnection(actor) \/ Unregister(actor)
  <2>1. TotalsTyped' /\ ListedBelow'
    BY <1>1, RegisterListed, UnregisterListed DEF WindowInv
  <2>2. UNCHANGED <<second, buckets, restarts, recorded, sent>>
    BY <1>1, Zenon DEF RegisterConnection, Unregister
  <2> QED
    BY <2>1, <2>2, WindowKept DEF WindowInv
<1>2. CASE \E type \in MessageTypes, bytes \in {1, 2} : RecordProtobuf(actor, type, bytes)
  BY <1>2, RecordProtobufCounts, PacketListed DEF WindowInv
<1> QED
  BY <1>1, <1>2

(* A new process shows nothing of before.                                  *)
LEMMA RestartKeepsWindow ==
  ASSUME TrafficInv, WindowInv, Restart
  PROVE  WindowInv'
<1>1. /\ buckets' = <<>> /\ sent' = {} /\ restarts' = restarts + 1 /\ restarts \in Nat
      /\ by_type' = [m \in MessageTypes |-> Empty] /\ connections' = [a \in {} |-> by_type]
  BY DEF Restart, WindowInv, WindowTypes
<1>2. DOMAIN connections' = {} /\ restarts' \in Nat /\ restarts' # 0
  BY <1>1
<1>3. WindowTypes'
  BY <1>1, <1>2, NothingCounted DEF WindowTypes
<1>4. TotalsTyped'
  BY <1>1, <1>2, EmptyIsTotals DEF TotalsTyped
<1>5. ASSUME NEW type \in MessageTypes
      PROVE  Total(BytesOf(type)', DOMAIN connections') <= by_type'[type].bytes
  <2>1. Total(BytesOf(type)', DOMAIN connections') = 0
    BY <1>2, TotalOfNothing
  <2> QED
    BY <1>1, <2>1, EmptyIsTotals
<1>6. ListedBelow'
  BY <1>5 DEF ListedBelow
<1>7. TrafficWindow'
  BY <1>2 DEF TrafficWindow
<1>8. PacketWindow'
  BY <1>1, NothingCounted DEF PacketWindow, PacketsCounted
<1> QED
  BY <1>3, <1>4, <1>6, <1>7, <1>8 DEF WindowInv

(* The rest leaves it alone.                                               *)
LEMMA OthersKeepWindow ==
  ASSUME TrafficInv, WindowInv,
         \/ Tick \/ DrainPending \/ CommitFlush \/ FailFlush
         \/ \E key \in Keys : InsertIncrement(key)
         \/ ActivateSession \/ Transfer \/ Deactivate \/ SamplerReads
         \/ UNCHANGED metrics_vars
  PROVE  WindowInv'
<1>1. UNCHANGED <<buckets, restarts, recorded, sent, by_type, connections>>
  BY Zenon DEF Tick, DrainPending, CommitFlush, FailFlush, InsertIncrement, ActivateSession,
               Transfer, Deactivate, SamplerReads, metrics_vars
<1>2. second' = second \/ second' = second + 1
  BY Zenon DEF Tick, DrainPending, CommitFlush, FailFlush, InsertIncrement, ActivateSession,
               Transfer, Deactivate, SamplerReads, metrics_vars
<1> QED
  BY <1>1, <1>2, WindowKept, TotalsKept DEF WindowInv

(* Every bucket that the window has not left counts what was recorded in   *)
(* its second, although recorders append and trim with clocks that differ; *)
(* and the connections listed count no more than the types                 *)
(* (Metrics::current_bucket, prune, record, record_protobuf, register,     *)
(* unregister).                                                            *)
THEOREM WindowInvariant == MetricsSpec => []WindowInv
<1>1. MetricsInit => WindowInv
  BY WindowBegins
<1>2. TrafficInv /\ WindowInv /\ [MetricsNext]_metrics_vars => WindowInv'
  <2> SUFFICES ASSUME TrafficInv, WindowInv, [MetricsNext]_metrics_vars PROVE WindowInv'
    OBVIOUS
  <2> QED
    BY RecordKeepsWindow, SamplerKeepsWindow, PacketsKeepWindow, RestartKeepsWindow,
       OthersKeepWindow, Zenon DEF MetricsNext, TrafficNext, ProtobufNext, WireNext
<1> QED
  BY <1>1, <1>2, TrafficInvariant, PTL DEF MetricsSpec

(* What the admin API shows of the last seconds is what was sent in them,  *)
(* and a history adds up however it is cut (live_traffic_json,             *)
(* traffic_series).                                                        *)
THEOREM ShownIsExact == MetricsSpec => []ViewsAreExact
<1>1. TrafficInv /\ WindowInv => ViewsAreExact
  BY WindowExact, HistoryIsExact, Zenon DEF ShownInv, ViewsAreExact
<1> QED
  BY <1>1, TrafficInvariant, WindowInvariant, PTL

=============================================================================
