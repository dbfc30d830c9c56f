------------------------------ MODULE MCState ------------------------------
(***************************************************************************)
(* What the relay keeps of a room and how clients catch up with it, each   *)
(* on a small instance: the sources' state (Sources), the stream of        *)
(* snapshots and patches (Delivery), and the log of the tab history        *)
(* (TabHistory).  The first state says which one runs, and on what.        *)
(***************************************************************************)
EXTENDS Delivery, TabHistory, Sources, TLC
CONSTANTS Good, Poor
VARIABLE part

PlayersAndMaps ==
  {[is_player |-> TRUE, unreliable_positions |-> FALSE],
   [is_player |-> FALSE, unreliable_positions |-> TRUE]}
Qualities == [label \in Labels |-> IF label = Poor THEN 1 ELSE 2]
MCTimeout == [scope \in Scopes |-> 1]
Symmetric == Permutations(Players)

(* The scopes that sources report in, and the rooms that they join.        *)
Parts ==
  [name : {"stream", "log", "messages"}, on : {{}}, rooms : {{"r1"}}]
    \cup [name : {"sources"}, rooms : {{"r1"}},
          on : {{"players"}, {"battle_chunks"}, {"waypoints"}, {"last_seen_players"},
                {"tab_players"}}]
    \cup [name : {"sources"}, rooms : {Rooms}, on : {{}}]

Runs(name) == part.name = name

(* A part that does not run begins in one state.                           *)
StateInit ==
  /\ part \in Parts
  /\ Init /\ TabInit /\ SourcesInit
  /\ ~Runs("stream") => target = Nothing /\ kind.is_player

StateNext ==
  /\ UNCHANGED part
  /\ \/ Runs("stream") /\ Next /\ UNCHANGED <<tab_vars, sources_vars>>
     \/ Runs("log") /\ TabNext /\ UNCHANGED <<vars, sources_vars>>
     \/ /\ UNCHANGED <<vars, tab_vars>>
        /\ \/ Runs("sources") /\ HandlersNext(part.on, part.rooms)
           \/ Runs("messages") /\ (HandlersNext({}, part.rooms) \/ MessagesNext(part.rooms))
=============================================================================
