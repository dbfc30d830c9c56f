------------------------------ MODULE MCParts ------------------------------
(***************************************************************************)
(* Small instances of the parts of the server that do not share state:     *)
(* door and dictionaries, arbitration, observations of the battle map,     *)
(* patches for old clients, metrics and relationships.  The first state    *)
(* says which part runs, and on what; the others stay as they begin.       *)
(***************************************************************************)
EXTENDS DoorControl, Arbitration, BattleObservation, PatchCodec, Metrics,
        Relationships
VARIABLE part

(* Dictionaries are interchangeable.                                       *)
Symmetric == Permutations(Dicts)

MCTabs == {{}, {1}, {1, 2}, {2, 4}, {4}}
MCHellos ==
  LET peer(version, lowest, kind, role, datagrams) ==
        [current |-> version, minimum |-> lowest, kind |-> kind, role |-> role,
         accepts |-> {"movement", "unspecified", "unknown"},
         accepts_positions |-> kind = "web_map", datagrams |-> datagrams]
  IN {peer(600, 600, "player", "player", TRUE), peer(601, 601, "player", "external_source", TRUE),
      peer(604, 601, "player", "player", FALSE), peer(605, 601, "web_map", "player", TRUE),
      peer(700, 601, "player", "player", TRUE),
      peer(701, 601, "player", "player", FALSE), peer(950, 800, "web_map", "player", FALSE),
      peer(950, 800, "player", "external_source", TRUE),
      peer(950, 800, "player", "player", TRUE), peer(950, 910, "player", "player", TRUE)}
MCObservations ==
  [dimension : Dimensions,
   candidates : {<<>>, <<1>>, <<0, 1>>, <<1, 3>>},
   cells : {<<>>, <<<<1, "red">>, <<3, "red">>, <<2, "blue">>>>}
             \cup {<<<<0, c>>, <<1, d>>>> : c, d \in Colors}
             \cup {<<<<2, c>>>> : c \in Colors},
   at : {0, 1, 3}]

(* Two snapshots in two chunks, of players that change their affiliations. *)
MCRealmOf == [publisher \in {"p1", "p2"} |-> "r1"]
Row(id, name, ids) == [id |-> id, name |-> name, ids |-> ids]
Edge(from, to, relation) == [from |-> from, to |-> to, relation |-> relation]
MCGraphs ==
  <<<<[players |-> {Row(1, "ann", {"x"}), Row(2, "bob", {"y"})},
       affiliations |-> {"x", "y"}, edges |-> {Edge("x", "y", "hostile")}],
      [players |-> {Row(3, "Ann", {"x", "y"})}, affiliations |-> {}, edges |-> {}]>>,
    <<[players |-> {Row(1, "ann", {"z"}), Row(3, "cid", {"y"})},
       affiliations |-> {"z"}, edges |-> {}],
      [players |-> {Row(2, "bob", {"y"})},
       affiliations |-> {"y"}, edges |-> {Edge("y", "z", "ally")}]>>>>
MCNormal == [name \in {"ann", "Ann", "bob", "cid"} |-> IF name = "Ann" THEN "ann" ELSE name]

-----------------------------------------------------------------------------
(* A part, and the scopes, rooms or objects it runs on.                    *)
Parts ==
  [name : {"door", "observation", "traffic", "protobuf", "wire", "relationships"},
   on : {{}}]
    \cup [name : {"arbitration"}, on : {PlayerObjects, EntityObjects, {}}]
    \cup [name : {"codec"},
          on : {{"players"}, {"battle_chunks"}, {"last_seen_players"}, {"player_marks"}, {"tab_reports"}}]

PartsInit ==
  /\ part \in Parts
  /\ Init /\ ArbitrationInit /\ ObservationInit /\ CodecInit /\ MetricsInit
  /\ RelationshipInit

(* The variables of each module; all but one module's stay.                *)
OnlyDoor == UNCHANGED <<arbitration_vars, observation_vars, codec_vars, metrics_vars,
                        relationship_vars>>
OnlyArbitration == UNCHANGED <<vars, observation_vars, codec_vars, metrics_vars,
                               relationship_vars>>
OnlyObservation == UNCHANGED <<vars, arbitration_vars, codec_vars, metrics_vars,
                               relationship_vars>>
OnlyCodec == UNCHANGED <<vars, arbitration_vars, observation_vars, metrics_vars,
                         relationship_vars>>
OnlyMetrics == UNCHANGED <<vars, arbitration_vars, observation_vars, codec_vars,
                           relationship_vars>>
OnlyRelationships == UNCHANGED <<vars, arbitration_vars, observation_vars, codec_vars,
                                 metrics_vars>>

Runs(name) == part.name = name

PartsNext ==
  /\ UNCHANGED part
  /\ \/ Runs("door") /\ Next /\ OnlyDoor
     \/ /\ Runs("arbitration") /\ OnlyArbitration
        /\ ArbitrationNext(part.on, IF part.on = {} THEN Tabs ELSE {},
                           IF part.on = EntityObjects THEN BOOLEAN ELSE {})
     \/ Runs("observation") /\ ObservationNext /\ OnlyObservation
     \/ Runs("codec") /\ CodecNext(part.on) /\ OnlyCodec
     \/ Runs("traffic") /\ TrafficNext /\ OnlyMetrics
     \/ Runs("protobuf") /\ ProtobufNext /\ OnlyMetrics
     \/ Runs("wire") /\ WireNext /\ OnlyMetrics
     \/ Runs("relationships") /\ RelationshipNext /\ OnlyRelationships
=============================================================================
