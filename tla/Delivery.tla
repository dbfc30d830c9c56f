------------------------------ MODULE Delivery ------------------------------
(***************************************************************************)
(* How the players, entities and waypoints of a room reach one client:     *)
(* Relay::broadcast and its payload (src/src/relay.rs), the watch channel, *)
(* the session's writer (src/src/web.rs, door_writer_loop), Delivered, the *)
(* digests and the resync they lead to.  The battle map travels in the     *)
(* same frames; module BattleDelivery has it.                              *)
(*                                                                         *)
(* An object of the snapshot has a position and other fields.  Positions   *)
(* of players are left out of the patches for a client that gets them by   *)
(* datagram (unreliable_positions), except when a refresh is due.  The     *)
(* datagrams themselves may all be lost, and here they are.                *)
(*                                                                         *)
(* One session of one client, from its registration on; the frames'        *)
(* revision numbers are left out, since one session's Delivered events     *)
(* arrive in order.                                                        *)
(***************************************************************************)
EXTENDS Integers, Sequences, FiniteSets

CONSTANTS
  Ids,             \* players; where nothing is stripped, any objects
  Positions,       \* where one is
  Infos,           \* its other fields
  Unsent,          \* a field that an upsert does not carry
  Kinds,           \* kinds of connection to look at
  EventCapacity,   \* capacity of the relay's event queue
  MaxChanges       \* bound: reports in a behaviour

ASSUME DeliveryAssumption ==
  /\ Kinds \subseteq [is_player : BOOLEAN, unreliable_positions : BOOLEAN]
  /\ EventCapacity \in Nat \ {0}
  /\ MaxChanges \in Nat
  /\ Unsent \notin Positions \cup Infos

VARIABLES
  kind,            \* Connection.kind is Player (otherwise WebMap), and
                   \* Connection.unreliable_positions; they never change
  target,          \* what build_room_snapshot gives for this client
  dirty,           \* Relay.dirty
  force_full,      \* Connection.force_full
  delivered,       \* Connection.delivered_snapshot
  state_watch,     \* the frame in the watch channel the writer has not seen
  writing,         \* the frame the writer has taken, until it is reported
  written,         \* whether the writer has written it
  events,          \* snapshots of the Delivered events in the relay's queue
  resync,          \* a resync request of the client is on its way
  view,            \* what the client shows
  reports,         \* bound: reports so far
  overtaken        \* ghost: a patch was made while a frame was on its way

vars == <<kind, target, dirty, force_full, delivered, state_watch, writing,
          written, events, resync, view, reports, overtaken>>

Objects == [position : Positions, info : Infos]
Snapshots == UNION {[D -> Objects] : D \in SUBSET Ids}

(* A payload is [full], [patch] or None; a frame has [bytes, digest,       *)
(* stripped, snapshot], and a patch [upsert, delete].                      *)
None == <<>>

-----------------------------------------------------------------------------
(* build_patch: what turns `old' into `new'.                               *)
BuildPatch(old, new) ==
  LET changed == {id \in DOMAIN new :
                    id \notin DOMAIN old \/ old[id] # new[id]}
  IN  [upsert |-> [id \in changed |-> new[id]],
       delete |-> DOMAIN old \ DOMAIN new]

(* Mutant: positions are stripped from objects the client does not have.   *)
StripEverything(patch, old) ==
  [patch EXCEPT !.upsert =
     [id \in DOMAIN patch.upsert |->
        [position |-> Unsent, info |-> patch.upsert[id].info]]]

(* strip_player_positions: of the objects the client already has, only     *)
(* what changed besides the position.                                      *)
StripPlayerPositions(patch, old) ==
  LET kept == {id \in DOMAIN patch.upsert :
                 id \notin DOMAIN old \/ patch.upsert[id].info # old[id].info}
  IN  [patch EXCEPT !.upsert =
         [id \in kept |->
            IF id \in DOMAIN old
            THEN [position |-> Unsent, info |-> patch.upsert[id].info]
            ELSE patch.upsert[id]]]

PatchIsEmpty(patch) == DOMAIN patch.upsert = {} /\ patch.delete = {}

(* state_payload_for_profile_with_battle.                                  *)
StatePayload(strip) ==
  IF force_full \/ delivered = None THEN <<[full |-> target]>>
  ELSE LET old == Head(delivered)
           whole == BuildPatch(old, target)
           patch == IF strip THEN StripPlayerPositions(whole, old) ELSE whole
       IN  IF PatchIsEmpty(patch) THEN None ELSE <<[patch |-> patch]>>

(* The client merges the fields it is sent; an upsert of an object it does *)
(* not have must bring the position.                                       *)
Merged(shown, id, upsert) ==
  [position |-> IF upsert.position = Unsent THEN shown[id].position
                ELSE upsert.position,
   info |-> IF upsert.info = Unsent THEN shown[id].info ELSE upsert.info]

Received(shown, bytes) ==
  CASE bytes = None -> shown
    [] bytes # None /\ "full" \in DOMAIN Head(bytes) -> Head(bytes).full
    [] OTHER ->
       LET patch == Head(bytes).patch
           usable == {id \in DOMAIN patch.upsert :
                        \/ id \in DOMAIN shown
                        \/ patch.upsert[id].position # Unsent}
       IN  [id \in (DOMAIN shown \ patch.delete) \cup usable |->
              IF id \in usable THEN Merged(shown, id, patch.upsert[id])
                               ELSE shown[id]]

InTransit == state_watch # None \/ writing # None \/ events # None

-----------------------------------------------------------------------------
(* The relay.                                                              *)

(* A report, a timeout or a command; it need not change the snapshot.      *)
Change ==
  /\ reports < MaxChanges
  /\ reports' = reports + 1
  /\ target' \in Snapshots
  /\ dirty' = TRUE
  /\ UNCHANGED <<kind, force_full, delivered, state_watch, writing, written,
                 events, resync, view, overtaken>>

(* Relay::broadcast for this client.                                       *)
Broadcast(digest_due, strip) ==
  LET bytes == StatePayload(strip)
      frame == [bytes |-> bytes, digest |-> digest_due, stripped |-> strip,
                snapshot |-> target]
      sends == bytes # None \/ digest_due
  IN  /\ state_watch' = IF sends THEN <<frame>> ELSE state_watch
      /\ force_full' = (force_full /\ bytes = None)
      /\ overtaken' = (overtaken \/ (sends /\ InTransit))

(* One tick.  next_digest_at and last_position_refresh are left to chance: *)
(* either may or may not be due.                                           *)
TickWith(digest_due, refresh_due) ==
  /\ digest_due => kind.is_player
  /\ dirty \/ digest_due
  /\ Broadcast(digest_due, kind.unreliable_positions /\ ~refresh_due)
  /\ dirty' = FALSE
  /\ UNCHANGED <<kind, target, delivered, writing, written, events, resync,
                 view, reports>>

RelayTick ==
  \E digest_due, refresh_due \in BOOLEAN : TickWith(digest_due, refresh_due)

(* RelayEvent::Delivered.                                                  *)
HandleDelivered ==
  /\ events # <<>>
  /\ delivered' = <<Head(events)>>
  /\ events' = Tail(events)
  /\ UNCHANGED <<kind, target, dirty, force_full, state_watch, writing,
                 written, resync, view, reports, overtaken>>

(* Mutant: the next tick broadcasts, but a patch again.                    *)
HandleResyncByPatch ==
  /\ resync
  /\ resync' = FALSE
  /\ dirty' = TRUE
  /\ UNCHANGED <<kind, target, force_full, delivered, state_watch, writing,
                 written, events, view, reports, overtaken>>

(* RelayEvent::Resync.                                                     *)
HandleResync ==
  /\ resync
  /\ resync' = FALSE
  /\ force_full' = TRUE
  /\ dirty' = TRUE
  /\ UNCHANGED <<kind, target, delivered, state_watch, writing, written,
                 events, view, reports, overtaken>>

-----------------------------------------------------------------------------
(* The session's writer, and the client.                                   *)

TakeFrame ==
  /\ writing = None
  /\ state_watch # None
  /\ writing' = state_watch
  /\ written' = FALSE
  /\ state_watch' = None
  /\ UNCHANGED <<kind, target, dirty, force_full, delivered, events, resync,
                 view, reports, overtaken>>

(* The bytes, then the digest, reach the client; the client compares what  *)
(* it shows with the digest and asks for a resync if they differ.          *)
WriteFrame ==
  /\ writing # None
  /\ ~written
  /\ written' = TRUE
  /\ LET frame == Head(writing)
     IN  /\ view' = Received(view, frame.bytes)
         /\ resync' = (resync \/ (frame.digest /\ view' # frame.snapshot))
  /\ UNCHANGED <<kind, target, dirty, force_full, delivered, state_watch,
                 writing, events, reports, overtaken>>

(* The writer waits here while the relay's queue is full.                  *)
SendDelivered ==
  /\ writing # None
  /\ written
  /\ Len(events) < EventCapacity
  /\ events' = Append(events, Head(writing).snapshot)
  /\ writing' = None
  /\ written' = FALSE
  /\ UNCHANGED <<kind, target, dirty, force_full, delivered, state_watch,
                 resync, view, reports, overtaken>>

-----------------------------------------------------------------------------
NothingShown == [id \in {} |-> id]

(* RelayEvent::Register has just been handled.                             *)
Init ==
  /\ kind \in Kinds
  /\ target \in Snapshots
  /\ dirty = TRUE
  /\ force_full = TRUE
  /\ delivered = None
  /\ state_watch = None
  /\ writing = None
  /\ written = FALSE
  /\ events = <<>>
  /\ resync = FALSE
  /\ view = NothingShown
  /\ reports = 0
  /\ overtaken = FALSE

Next ==
  \/ Change
  \/ RelayTick
  \/ HandleDelivered
  \/ HandleResync
  \/ TakeFrame
  \/ WriteFrame
  \/ SendDelivered

Spec == Init /\ [][Next]_vars

(* The relay's loop ticks when there is something to broadcast, digests    *)
(* fall due again and again, and tasks with work to do run.                *)
Fairness ==
  /\ WF_vars(RelayTick)
  /\ WF_vars(\E refresh_due \in BOOLEAN : TickWith(TRUE, refresh_due))
  /\ WF_vars(HandleDelivered)
  /\ WF_vars(HandleResync)
  /\ WF_vars(TakeFrame)
  /\ WF_vars(WriteFrame)
  /\ WF_vars(SendDelivered)

FairSpec == Spec /\ Fairness

-----------------------------------------------------------------------------
(* Properties.                                                             *)

(* A client whose frames were each made after the one before was reported  *)
(* shows what the relay meant it to show: all of it, or all but positions  *)
(* when those are left to the datagrams.  Diff, stripping, the frames that *)
(* are skipped and the bare digests do not get in each other's way.        *)
InOrderIsExact ==
  ~overtaken /\ written =>
    LET meant == Head(writing).snapshot
    IN  /\ DOMAIN view = DOMAIN meant
        /\ \A id \in DOMAIN meant : view[id].info = meant[id].info
        /\ ~kind.unreliable_positions => view = meant

HoldsFull(queue) ==
  /\ queue # None
  /\ Head(queue).bytes # None
  /\ "full" \in DOMAIN Head(Head(queue).bytes)

(* A full snapshot that waits for the writer may be overwritten by a frame *)
(* with a digest, when the writer needs longer than until the next digest; *)
(* this says that not every one is.                                        *)
WriterGetsFulls == []<>HoldsFull(state_watch) => []<>HoldsFull(writing)

(* A player's client ends up showing exactly the room: whatever a patch    *)
(* against an outdated baseline left behind, and whatever position was     *)
(* never sent, digests and resyncs repair, though digests and the answers  *)
(* to resyncs are overwritten now and then.                                *)
PlayerConverges == WriterGetsFulls => <>[](view = target)

(* CHANGELOG 1.1.2: patches no longer use a wrong snapshot as their        *)
(* baseline when the state of delivery lags.                               *)
PatchesFitTheClient == written => view = Head(writing).snapshot

(* relay.rs, in broadcast: when the position refresh is due the patch is   *)
(* not stripped and carries all positions, so that a client without        *)
(* datagrams is at most one refresh period behind.                         *)
RefreshBringsPositions ==
  ~overtaken /\ written /\ ~Head(writing).stripped =>
    view = Head(writing).snapshot
=============================================================================
