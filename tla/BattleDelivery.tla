--------------------------- MODULE BattleDelivery ---------------------------
(***************************************************************************)
(* How the battle cache of a room reaches one client: the relay's tick     *)
(* (src/src/relay.rs, Relay::run and Relay::broadcast), the watch channel  *)
(* that holds at most one frame, the session's writer task                 *)
(* (src/src/web.rs, door_writer_loop) and the Delivered events with which  *)
(* the writer tells the relay what it has written.                         *)
(*                                                                         *)
(* The relay computes every frame from what the client was last *reported* *)
(* to have, which may be older than what it has: frames are overwritten in *)
(* the watch channel, are still being written, or are written while their  *)
(* Delivered event waits in the relay's queue.                             *)
(*                                                                         *)
(* The rest of the snapshot travels in the same frames and is left to      *)
(* module Delivery; here it is a reason to send a frame whose battle part  *)
(* is empty.  One session at a time is modelled, each with a new client;   *)
(* Delivered events of a session are handled in the order its frames were  *)
(* numbered, so the relay's test revision >= delivered_revision holds.     *)
(***************************************************************************)
EXTENDS BattleCache

CONSTANTS
  EventCapacity    \* capacity of the relay's event queue (2048 in the code)

ASSUME CapacityAssumption == EventCapacity \in Nat \ {0}

VARIABLES
  connected,       \* the session is registered with the relay
  dirty,           \* Relay.dirty
  force_full,      \* Connection.force_full
  has_delivered,   \* Connection.delivered_snapshot.is_some()
  delivered_battle_revision, \* Connection.delivered_battle_revision
  state_watch,     \* the frame in the watch channel the writer has not seen
  writing,         \* the frame the writer has taken, until it is reported
  written,         \* whether the writer has written it
  events,          \* Delivered events in the relay's queue
  view,            \* the chunks the client shows
  view_revision    \* ghost: the revision they belong to, -1 for none

connection_vars == <<connected, force_full, has_delivered,
                     delivered_battle_revision>>
transit_vars == <<state_watch, writing, written, events>>
client_vars == <<view, view_revision>>
delivery_vars == <<connection_vars, dirty, transit_vars, client_vars>>
vars == <<cache_vars, delivery_vars>>

AtMostOne(queue) == Len(queue) <= 1

Frames ==
  [full : BOOLEAN, upsert : UNION {[D -> Shown] : D \in SUBSET Keys},
   delete : SUBSET Keys, battle_revision : Nat]

NoFrame == <<>>

(* What the client shows once it has received a frame.                     *)
Received(shown, frame) ==
  IF frame.full THEN frame.upsert ELSE ApplyPatch(shown, frame)

-----------------------------------------------------------------------------
(* state_payload_for_profile_with_battle, evaluated in a tick once          *)
(* cleanup_timeouts has run: the primes are the cache it leaves.            *)

(* Mutant: a baseline the log no longer reaches is patched all the same.   *)
SendsFullOnceOnly == force_full \/ ~has_delivered

SendsFull ==
  \/ force_full
  \/ ~has_delivered
  \/ RequiresFull(delivered_battle_revision)'

(* Mutant: a patch forgets the chunks that were removed.                   *)
BattleFrameWithoutDeletes ==
  [full |-> SendsFull,
   upsert |-> IF SendsFull THEN FullEntries(entries')
              ELSE PatchSince(delivered_battle_revision)'.upsert,
   delete |-> {},
   battle_revision |-> revision']

BattleFrame ==
  IF SendsFull
  THEN [full |-> TRUE, upsert |-> FullEntries(entries'), delete |-> {},
        battle_revision |-> revision']
  ELSE [full |-> FALSE,
        upsert |-> PatchSince(delivered_battle_revision)'.upsert,
        delete |-> PatchSince(delivered_battle_revision)'.delete,
        battle_revision |-> revision']

(* Mutant: no new frame while another waits for the writer.                *)
BattleUnchangedWhileWaiting ==
  ~SendsFull /\ (delivered_battle_revision = revision' \/ state_watch # NoFrame)

(* Nothing to say about the battle map: patch_since gave Some(None).       *)
BattleUnchanged == ~SendsFull /\ delivered_battle_revision = revision'

-----------------------------------------------------------------------------
(* The relay.                                                              *)

Report ==
  /\ \E report \in Reports : Upsert(report)
  /\ dirty' = TRUE
  /\ UNCHANGED <<connection_vars, transit_vars, client_vars>>

PassTime == Tick /\ UNCHANGED delivery_vars

(* One tick: cleanup_timeouts, then broadcast.  `other' stands for the     *)
(* rest of the room: changes to send, or a digest that is due.             *)
TickWith(other) ==
  /\ Cleanup
  /\ UNCHANGED <<connected, has_delivered, delivered_battle_revision,
                 writing, written, events, client_vars>>
  /\ LET broadcasts == dirty \/ revision' # revision \/ other
         sends == connected /\ broadcasts /\ (other \/ ~BattleUnchanged)
     IN  /\ state_watch' = IF sends THEN <<BattleFrame>> ELSE state_watch
         /\ force_full' = (force_full /\ ~sends)
         /\ dirty' = (dirty /\ ~broadcasts)

RelayTick == \E other \in BOOLEAN : TickWith(other)

(* Mutant: the baseline becomes what the relay has, not what was written.  *)
HandleDeliveredAsCurrent ==
  /\ connected
  /\ events # <<>>
  /\ has_delivered' = TRUE
  /\ delivered_battle_revision' = revision
  /\ events' = Tail(events)
  /\ UNCHANGED <<cache_vars, dirty, connected, force_full, state_watch,
                 writing, written, client_vars>>

(* RelayEvent::Delivered.                                                  *)
HandleDelivered ==
  /\ connected
  /\ events # <<>>
  /\ has_delivered' = TRUE
  /\ delivered_battle_revision' = Head(events)
  /\ events' = Tail(events)
  /\ UNCHANGED <<cache_vars, dirty, connected, force_full, state_watch,
                 writing, written, client_vars>>

(* RelayEvent::Resync, sent when the client finds its digest differs.      *)
HandleResync ==
  /\ connected
  /\ force_full' = TRUE
  /\ dirty' = TRUE
  /\ UNCHANGED <<cache_vars, connected, has_delivered,
                 delivered_battle_revision, transit_vars, client_vars>>

(* RelayEvent::Register, for a client that has just connected.             *)
Register ==
  /\ ~connected
  /\ connected' = TRUE
  /\ dirty' = TRUE
  /\ force_full' = TRUE
  /\ has_delivered' = FALSE
  /\ delivered_battle_revision' = 0
  /\ UNCHANGED <<cache_vars, transit_vars, client_vars>>

(* RelayEvent::Disconnect, with the end of the session's writer: the       *)
(* client went away or a write failed.  Later Delivered events of the      *)
(* session find no connection.  What the session had reported itself is    *)
(* removed, if there was anything.                                         *)
Disconnect ==
  /\ connected
  /\ connected' = FALSE
  /\ dirty' \in {dirty, TRUE}
  /\ state_watch' = NoFrame
  /\ writing' = NoFrame
  /\ written' = FALSE
  /\ events' = <<>>
  /\ view' = Empty
  /\ view_revision' = -1
  /\ UNCHANGED <<cache_vars, force_full, has_delivered,
                 delivered_battle_revision>>

(* Purging is refused while the room has sessions.                         *)
PurgeRoom ==
  /\ ~connected
  /\ Purge
  /\ dirty' = TRUE
  /\ UNCHANGED <<connection_vars, transit_vars, client_vars>>

-----------------------------------------------------------------------------
(* The session's writer.                                                   *)

(* state.changed(), then borrow_and_update.                                *)
TakeFrame ==
  /\ writing = NoFrame
  /\ state_watch # NoFrame
  /\ writing' = state_watch
  /\ written' = FALSE
  /\ state_watch' = NoFrame
  /\ UNCHANGED <<cache_vars, connection_vars, dirty, events, client_vars>>

(* The frame reaches the client, over an ordered and reliable stream.      *)
WriteFrame ==
  /\ writing # NoFrame
  /\ ~written
  /\ written' = TRUE
  /\ view' = Received(view, Head(writing))
  /\ view_revision' = Head(writing).battle_revision
  /\ UNCHANGED <<cache_vars, connection_vars, dirty, state_watch, writing,
                 events>>

(* The writer waits here while the relay's queue is full.                  *)
SendDelivered ==
  /\ writing # NoFrame
  /\ written
  /\ Len(events) < EventCapacity
  /\ events' = Append(events, Head(writing).battle_revision)
  /\ writing' = NoFrame
  /\ written' = FALSE
  /\ UNCHANGED <<cache_vars, connection_vars, dirty, state_watch,
                 client_vars>>

-----------------------------------------------------------------------------
Init ==
  /\ CacheInit
  /\ connected = FALSE
  /\ dirty = FALSE
  /\ force_full = FALSE
  /\ has_delivered = FALSE
  /\ delivered_battle_revision = 0
  /\ state_watch = NoFrame
  /\ writing = NoFrame
  /\ written = FALSE
  /\ events = <<>>
  /\ view = Empty
  /\ view_revision = -1

Next ==
  \/ Report
  \/ PassTime
  \/ RelayTick
  \/ HandleDelivered
  \/ HandleResync
  \/ Register
  \/ Disconnect
  \/ PurgeRoom
  \/ TakeFrame
  \/ WriteFrame
  \/ SendDelivered

Spec == Init /\ [][Next]_vars

(* The relay's loop comes back to its tick, and tasks with work to do run; *)
(* nothing says that the rest of the room ever changes.                    *)
Fairness ==
  /\ WF_vars(TickWith(FALSE))
  /\ WF_vars(TakeFrame)
  /\ WF_vars(WriteFrame)
  /\ WF_vars(HandleDelivered)
  /\ WF_vars(SendDelivered)

FairSpec == Spec /\ Fairness

-----------------------------------------------------------------------------
(* Properties.                                                             *)

DeliveryTypeOK ==
  /\ connected \in BOOLEAN
  /\ dirty \in BOOLEAN
  /\ force_full \in BOOLEAN
  /\ has_delivered \in BOOLEAN
  /\ delivered_battle_revision \in Nat
  /\ state_watch \in Seq(Frames) /\ AtMostOne(state_watch)
  /\ writing \in Seq(Frames) /\ AtMostOne(writing)
  /\ written \in BOOLEAN
  /\ events \in Seq(Nat)
  /\ Len(events) <= EventCapacity
  /\ view_revision \in Nat \cup {-1}

(* The client never shows a mixture: what it shows is what the cache held  *)
(* at one revision, although frames are dropped and every patch is         *)
(* computed from an acknowledgement that may be several frames behind.     *)
ViewIsSomeRevision ==
  IF view_revision = -1 THEN view = Empty
  ELSE view_revision \in 0..revision /\ view = history[view_revision]

(* The relay never believes the client to be ahead of what it shows, nor   *)
(* ahead of a frame still on its way.                                      *)
BaselineNotAhead ==
  connected =>
    /\ has_delivered => delivered_battle_revision <= view_revision
    /\ \A i \in DOMAIN events : events[i] <= view_revision
    /\ \A i \in DOMAIN state_watch :
         view_revision <= state_watch[i].battle_revision
    /\ \A i \in DOMAIN writing :
         view_revision <= writing[i].battle_revision

(* Refinement: the protocol implements the feed a client is promised.      *)
Feed == INSTANCE BattleFeed WITH
          NothingShown <- Empty, published <- history, latest <- revision,
          position <- view_revision, shown <- view
FeedImplemented == Feed!FeedSpec

(* Once no more reports arrive and the session stays up, the client ends   *)
(* up showing exactly the cache, whatever was overwritten on the way.      *)
ClientCatchesUp ==
  <>[]connected => <>[](view = FullEntries(entries))
=============================================================================
