----------------------------- MODULE MCProgress -----------------------------
(***************************************************************************)
(* What must eventually happen, on small instances: offers of dictionaries *)
(* are taken up (DoorControl), clients converge (Delivery), sessions end   *)
(* and rooms reopen (Session).  The first state says which part runs; each *)
(* has the fairness that its module states.  No symmetry, as the           *)
(* properties are temporal.                                                *)
(***************************************************************************)
EXTENDS DoorControl

CONSTANTS
  StreamIds, Positions, Infos, Unsent, StreamCapacity, MaxChanges,
  Sessions, SessionIds, Rooms, Default, Nobody, NoRoom, RelayCapacity, MaxReports

VARIABLES
  part,
  kind, target, dirty, force_full, delivered, state_watch, writing, written,
  events, resync, view, changes, overtaken,
  phase, id, room, reader, queue, connections, sources, battle_caches,
  maintenance, task, reports, purged

(* A player whose positions come by datagrams.                             *)
LossyPlayer == [is_player |-> TRUE, unreliable_positions |-> TRUE]

Stream == INSTANCE Delivery WITH
  Ids <- StreamIds, Kinds <- {LossyPlayer}, EventCapacity <- StreamCapacity,
  reports <- changes

Life == INSTANCE Session WITH Ids <- SessionIds, EventCapacity <- RelayCapacity

stream_vars == <<kind, target, dirty, force_full, delivered, state_watch, writing,
                 written, events, resync, view, changes, overtaken>>
life_vars == <<phase, id, room, reader, queue, connections, sources, battle_caches,
               maintenance, task, reports, purged>>
progress_vars == <<part, vars, stream_vars, life_vars>>

Runs(name) == part = name

(* A part that does not run begins in one state.                           *)
ProgressInit ==
  /\ part \in {"door", "stream", "life"}
  /\ Init /\ Stream!Init /\ Life!Init
  /\ ~Runs("stream") => DOMAIN target = {}

ProgressNext ==
  /\ UNCHANGED part
  /\ \/ Runs("door") /\ Next /\ UNCHANGED <<stream_vars, life_vars>>
     \/ Runs("stream") /\ Stream!Next /\ UNCHANGED <<vars, life_vars>>
     \/ Runs("life") /\ Life!Next /\ UNCHANGED <<vars, stream_vars>>

ProgressSpec == ProgressInit /\ [][ProgressNext]_progress_vars

(* With the fairness that its module states, each part makes progress; see *)
(* the modules for what the properties say.                                *)
OffersTakenUp == Runs("door") /\ Fairness => OffersAreTakenUp
PlayerConverges == Runs("stream") /\ Stream!Fairness => Stream!PlayerConverges
DroppedSessionsEnd == Runs("life") /\ Life!Fairness => Life!DroppedSessionsEnd
GateOpensAgain == Runs("life") /\ Life!Fairness => Life!GateOpensAgain
=============================================================================
