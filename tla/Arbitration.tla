---------------------------- MODULE Arbitration ----------------------------
(***************************************************************************)
(* Which source the relay believes about an object: same_server_grouping,  *)
(* collect_candidates, resolve_candidates, resolve_player_candidates and   *)
(* build_room_snapshot of src/src/relay.rs, and the part of broadcast that *)
(* chooses a snapshot for each recipient.                                  *)
(*                                                                         *)
(* One room.  A source is the number of its id, so that ids are ordered;   *)
(* a player is an object whose number is the id of the client that plays   *)
(* it.  What is known of an object is the time of its report.              *)
(***************************************************************************)
EXTENDS Integers, Sequences, FiniteSets, SequencesExt, Functions

CONSTANTS
  GameSources,      \* ids of game clients
  ExternalSources,  \* ids of external sources
  PlayerObjects,    \* objects in the scope players
  EntityObjects,    \* objects in one of the other scopes
  Names,            \* what a tab list can name: ids of clients and others
  Tabs,             \* the tab lists that are reported: sets of names
  GameTakeoverDelay,
  SwitchThreshold,
  ObjectTimeout,
  ScopedLimit,      \* 128 in the code
  ArbitrationMaxNow \* bound: the clock

NoTime == -1
NoSource == 0
Sources == GameSources \cup ExternalSources
Objects == PlayerObjects \cup EntityObjects

ASSUME ArbitrationAssumption ==
  /\ Sources \subseteq Nat \ {NoSource} /\ Objects \subseteq Nat
  /\ IsFiniteSet(Sources)
  /\ GameSources \cap ExternalSources = {}
  /\ PlayerObjects \cap EntityObjects = {}
  /\ Sources \subseteq Names /\ Tabs \subseteq SUBSET Names
  /\ {GameTakeoverDelay, SwitchThreshold, ObjectTimeout} \subseteq Nat
  /\ ScopedLimit \in Nat \ {0}
  /\ ArbitrationMaxNow \in Nat

VARIABLES
  active_sources,   \* connected clients and external sources
  received_at,      \* per source and object: the time of the report
  tab_players,      \* per source: whom its tab list names
  same_server_filter_enabled,
  arbitration_dirty,
  arbitration_now,
  selections        \* Relay.scoped_selections; the key Sources stands for the
                    \* selections that rooms keeps for unscoped snapshots

arbitration_vars == <<active_sources, received_at, tab_players,
                      same_server_filter_enabled, arbitration_dirty,
                      arbitration_now, selections>>

-----------------------------------------------------------------------------
(* Grouping of the sources that play on one server.                        *)

(* What a source is known by: its own id and everybody on its tab list.    *)
IdentitySet(s) == {s} \cup tab_players[s]

Linked(s, t) == IdentitySet(s) \cap IdentitySet(t) # {}

(* The root of a source: follow the parents.  A source stands for its      *)
(* place in the sorted list, which has the same order.  That the code      *)
(* shortens the path it took changes no root.                              *)
FindGroup(parents, source) ==
  LET root[s \in DOMAIN parents] ==
        IF parents[s] = s THEN s ELSE root[parents[s]]
  IN root[source]

(* Mutant: the element is attached, not its root.                          *)
UnionOfElements(parents, left, right) ==
  [parents EXCEPT ![right] = FindGroup(parents, left)]

UnionGroups(parents, left, right) ==
  LET l == FindGroup(parents, left)
      r == FindGroup(parents, right)
  IN IF l < r THEN [parents EXCEPT ![r] = l] ELSE [parents EXCEPT ![l] = r]

(* active_sources.sort().                                                  *)
InOrder(S) ==
  [i \in 1 .. Cardinality(S) |-> CHOOSE s \in S : Cardinality({t \in S : t < s}) = i - 1]

(* The inner of the two nested loops over the sorted sources.              *)
JoinLinked(parents, left, order) ==
  FoldLeft(LAMBDA ps, right : IF left < right /\ Linked(left, right)
                              THEN UnionGroups(ps, left, right) ELSE ps,
           parents, order)

(* Per active source: the first of its group, after the loops.             *)
SameServerGrouping ==
  LET order == InOrder(active_sources)
      parents == FoldLeft(LAMBDA ps, left : JoinLinked(ps, left, order),
                          [s \in active_sources |-> s], order)
  IN [s \in active_sources |-> FindGroup(parents, s)]

(* The sources whose reports a player gets to see.                         *)
AllowedSourcesForPlayer(id) ==
  IF ~same_server_filter_enabled \/ id \notin active_sources
  THEN active_sources
  ELSE LET group == SameServerGrouping
       IN {s \in active_sources : group[s] = group[id]}

-----------------------------------------------------------------------------
(* Selection of a source.  A selection holds, per object, the source       *)
(* selected last, and per player object since when each game source has    *)
(* been seen to report it.                                                 *)

NothingSelected ==
  [selected |-> [o \in Objects |-> NoSource],
   seen |-> [o \in PlayerObjects |-> [s \in GameSources |-> NoTime]]]

(* The sources of the scope that report the object.                        *)
CollectCandidates(received, scope, o) == {s \in scope : received[s][o] # NoTime}

(* A client's word on its own player weighs more than another's.           *)
Priority(o, s) ==
  IF o \in EntityObjects THEN 0 ELSE IF o = s THEN 2 ELSE 1

(* The later report, or that of the smaller id.                            *)
Later(received, o, s, t) ==
  \/ received[s][o] > received[t][o]
  \/ received[s][o] = received[t][o] /\ s < t

(* The two max_by: among external sources only the time counts.            *)
Latest(received, o, S) ==
  CHOOSE s \in S : \A t \in S \ {s} : Later(received, o, s, t)

Best(received, o, S) ==
  CHOOSE s \in S : \A t \in S \ {s} :
    \/ Priority(o, s) > Priority(o, t)
    \/ Priority(o, s) = Priority(o, t) /\ Later(received, o, s, t)

(* Mutant: the threshold is forgotten.                                     *)
ResolveFreshest(received, o, S, previous) ==
  IF S = {} THEN NoSource ELSE Best(received, o, S)

(* resolve_candidates: the selected source is kept unless another is       *)
(* fresher by more than the threshold.                                     *)
ResolveCandidate(received, o, S, previous) ==
  LET best == Best(received, o, S)
  IN IF S = {} THEN NoSource
     ELSE IF /\ previous \in S
             /\ received[best][o] - received[previous][o] <= SwitchThreshold
          THEN previous
          ELSE best

(* Since when the game sources among the candidates have been seen.        *)
SeenSince(S, seen) ==
  [s \in GameSources |->
     IF s \notin S THEN NoTime
     ELSE IF seen[s] = NoTime THEN arbitration_now ELSE seen[s]]

(* resolve_player_candidates: external sources are the base; a game source *)
(* that has been seen for the delay takes over, and is given up only for a *)
(* source of higher priority or when it stops to report.                   *)
ResolvePlayerCandidate(received, o, S, previous, seen) ==
  LET external == S \cap ExternalSources
      game == S \cap GameSources
      best_external == IF previous \in external THEN previous
                       ELSE Latest(received, o, external)
      best_game == Best(received, o, game)
  IN IF S = {} THEN NoSource
     ELSE IF game = {} THEN best_external
     ELSE IF previous \in game
     THEN IF Priority(o, best_game) > Priority(o, previous) THEN best_game ELSE previous
     ELSE IF \/ external = {}
             \/ arbitration_now - seen[best_game] >= GameTakeoverDelay
          THEN best_game ELSE best_external

(* The selection that build_room_snapshot leaves behind, given the one it  *)
(* finds.  It runs two times per room, and a second run changes nothing.   *)
BuildRoomSnapshot(received, scope, previous) ==
  LET candidates(o) == CollectCandidates(received, scope, o)
      seen == [o \in PlayerObjects |-> SeenSince(candidates(o), previous.seen[o])]
  IN [selected |-> [o \in Objects |->
        IF o \in PlayerObjects
        THEN ResolvePlayerCandidate(received, o, candidates(o), previous.selected[o], seen[o])
        ELSE ResolveCandidate(received, o, candidates(o), previous.selected[o])],
      seen |-> seen]

-----------------------------------------------------------------------------
ArbitrationInit ==
  /\ active_sources = {}
  /\ received_at = [s \in Sources |-> [o \in Objects |-> NoTime]]
  /\ tab_players = [s \in Sources |-> {}]
  /\ same_server_filter_enabled = FALSE
  /\ arbitration_dirty = FALSE
  /\ arbitration_now = 0
  /\ selections = [key \in {Sources} |-> NothingSelected]

RegisterSource(s) ==
  /\ s \notin active_sources
  /\ active_sources' = active_sources \cup {s}
  /\ arbitration_dirty' = TRUE
  /\ UNCHANGED <<received_at, tab_players, same_server_filter_enabled,
                 arbitration_now, selections>>

(* The connection goes, and with it what the source held.                  *)
Disconnect(s) ==
  /\ s \in active_sources
  /\ active_sources' = active_sources \ {s}
  /\ arbitration_dirty' =
       (\/ arbitration_dirty
        \/ tab_players[s] # {}
        \/ \E o \in Objects : received_at[s][o] # NoTime)
  /\ received_at' = [received_at EXCEPT ![s] = [o \in Objects |-> NoTime]]
  /\ tab_players' = [tab_players EXCEPT ![s] = {}]
  /\ UNCHANGED <<same_server_filter_enabled, arbitration_now, selections>>

(* A report names objects anew (a patch, or a keepalive) and drops others. *)
ReportObjects(s, named, dropped) ==
  /\ s \in active_sources
  /\ received_at' = [received_at EXCEPT ![s] = [o \in Objects |->
       IF o \in dropped THEN NoTime
       ELSE IF o \in named THEN arbitration_now ELSE @[o]]]
  /\ arbitration_dirty' = TRUE
  /\ UNCHANGED <<active_sources, tab_players, same_server_filter_enabled,
                 arbitration_now, selections>>

ReportTab(s, tab) ==
  /\ s \in active_sources
  /\ tab_players' = [tab_players EXCEPT ![s] = tab]
  /\ arbitration_dirty' = TRUE
  /\ UNCHANGED <<active_sources, received_at, same_server_filter_enabled,
                 arbitration_now, selections>>

SetSameServerFilter(enabled) ==
  /\ same_server_filter_enabled' = enabled
  /\ arbitration_dirty' = TRUE
  /\ UNCHANGED <<active_sources, received_at, tab_players, arbitration_now,
                 selections>>

PassArbitrationTime ==
  /\ arbitration_now < ArbitrationMaxNow
  /\ arbitration_now' = arbitration_now + 1
  /\ UNCHANGED <<active_sources, received_at, tab_players,
                 same_server_filter_enabled, arbitration_dirty, selections>>

(* The scopes that broadcast builds snapshots for: one for each set of     *)
(* allowed sources that is not all of the active ones.                     *)
RecipientScopes ==
  {AllowedSourcesForPlayer(id) : id \in active_sources \cap GameSources}
    \ {active_sources}

(* cleanup_timeouts.                                                       *)
Timely ==
  [s \in Sources |-> [o \in Objects |->
     IF arbitration_now - received_at[s][o] <= ObjectTimeout
     THEN received_at[s][o] ELSE NoTime]]

(* A full table of scoped selections is cleared before a new key enters.   *)
MakeRoom(table, scope) ==
  IF scope \notin DOMAIN table /\ Cardinality(DOMAIN table \ {Sources}) >= ScopedLimit
  THEN Restrict(table, {Sources})
  ELSE table

(* One more scope.                                                         *)
SelectScope(received, table, scope) ==
  LET kept == MakeRoom(table, scope)
      found == IF scope \in DOMAIN kept THEN kept[scope] ELSE NothingSelected
  IN [key \in DOMAIN kept \cup {scope} |->
        IF key = scope THEN BuildRoomSnapshot(received, scope, found) ELSE kept[key]]

(* One turn of the timer: cleanup_timeouts, and broadcast if the state is  *)
(* dirty or the digest of a client is due, as it may be at any time.  It   *)
(* builds the snapshot of the room, then those of the scopes, in any order.*)
BroadcastTick ==
  /\ active_sources # {}
  /\ \/ arbitration_dirty \/ Timely # received_at
     \/ active_sources \cap GameSources # {}
  /\ received_at' = Timely
  /\ \E order \in SetToSeqs(RecipientScopes) :
       selections' = FoldLeft(LAMBDA table, scope : SelectScope(Timely, table, scope),
                              selections, <<Sources>> \o order)
  /\ arbitration_dirty' = FALSE
  /\ UNCHANGED <<active_sources, tab_players, same_server_filter_enabled,
                 arbitration_now>>

ArbitrationNext(objects, tabs, filters) ==
  \/ \E s \in Sources : RegisterSource(s) \/ Disconnect(s)
  \/ \E s \in Sources, o \in objects :
       ReportObjects(s, {o}, {}) \/ ReportObjects(s, {}, {o})
  \/ \E s \in Sources, tab \in tabs : ReportTab(s, tab)
  \/ /\ objects # {}
     /\ \/ \E enabled \in filters : SetSameServerFilter(enabled)
        \/ BroadcastTick
        \/ PassArbitrationTime

ArbitrationSpec ==
  ArbitrationInit /\ [][ArbitrationNext(Objects, Tabs, BOOLEAN)]_arbitration_vars

-----------------------------------------------------------------------------
(* Two sources are in one group if and only if a chain of shared           *)
(* identities leads from one to the other (same_server_grouping's unions,  *)
(* against the definition by closed sets), and a group is named by its     *)
(* first member.                                                           *)
Closed(C) == \A s \in C, t \in active_sources : Linked(s, t) => t \in C

GroupsAreComponents ==
  LET group == SameServerGrouping
      closed == {C \in SUBSET active_sources : Closed(C)}
  IN \A s, t \in active_sources :
       /\ group[s] = group[t] <=> \A C \in closed : s \in C => t \in C
       /\ group[s] <= s

(* The selected source of an object changes only for a reason, in each     *)
(* scope that is kept: the source stopped to report the object, another is *)
(* fresher by more than the threshold, a game source has been seen for the *)
(* takeover delay, or a client reports its own player.  In particular an   *)
(* external source never takes a player back while the selected game       *)
(* client reports it, and nothing changes back and forth.  A table of      *)
(* scopes that overflows forgets, and is exempt.                           *)
Reason(received, o, old, new, seen) ==
  \/ received[old][o] = NoTime
  \/ o \in EntityObjects /\ received[new][o] - received[old][o] > SwitchThreshold
  \/ /\ o \in PlayerObjects /\ new \in GameSources
     /\ \/ old \in GameSources /\ o = new
        \/ /\ old \in ExternalSources /\ seen[o][new] # NoTime
           /\ arbitration_now - seen[o][new] >= GameTakeoverDelay

SwitchesHaveReason ==
  [][\A key \in DOMAIN selections \cap DOMAIN selections' :
       Cardinality(DOMAIN selections \cup RecipientScopes) <= ScopedLimit + 1 =>
         \A o \in Objects :
           LET old == selections[key].selected[o]
               new == selections'[key].selected[o]
           IN \/ old \in {new, NoSource}
              \/ Reason(received_at', o, old, new, selections'[key].seen)]_selections
=============================================================================
