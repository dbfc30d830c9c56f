----------------------------- MODULE MCSessions -----------------------------
(***************************************************************************)
(* Small instances of the life of sessions and the removal of rooms        *)
(* (Session), of what a reader does with requests (Requests), of the       *)
(* management API's own state (Admin) and of the page of room data         *)
(* (RoomData).  The first state says which of them runs.                   *)
(***************************************************************************)
EXTENDS Session, Requests, Admin, RoomData, TLC
VARIABLE part

Symmetric == Permutations(Sessions) \cup Permutations(Ids)
MCAnswers == {<<>>, <<2, 1, 1, 1, 2>>, <<3, 3>>}
MCRoomOf == [record \in Records |-> record]

SessionsInit ==
  /\ part \in {"sessions", "heads", "answers", "logins", "audit", "deletions",
              "room data"}
  /\ Init /\ RequestsInit /\ AdminInit /\ RoomDataInit
  /\ part # "room data" => player_identity_mappings = {}

OnlyRequests == UNCHANGED <<vars, administration_vars, room_data_vars>>
OnlyAdmin == UNCHANGED <<vars, requests_vars, room_data_vars>>
OnlyRoomData == UNCHANGED <<vars, requests_vars, administration_vars>>

SessionsNext ==
  /\ UNCHANGED part
  /\ \/ part = "sessions" /\ Next /\ UNCHANGED <<requests_vars, administration_vars, room_data_vars>>
     \/ part = "heads" /\ HeadsNext({"s1", "s2"}, {"s3"}) /\ OnlyRequests
     \/ part = "answers" /\ AnswersNext({"s1"}) /\ OnlyRequests
     \/ part = "logins" /\ LoginNext /\ OnlyAdmin
     \/ part = "audit" /\ AuditNext /\ OnlyAdmin
     \/ part = "deletions" /\ DeletionNext /\ OnlyAdmin
     \/ part = "room data" /\ RoomDataNext /\ OnlyRoomData
=============================================================================
