---------------------------- MODULE DoorControl ----------------------------
(***************************************************************************)
(* The door-control stream of one QUIC or WebTransport connection:         *)
(* src/src/door_control.rs and its use in quic_transport.rs (and, line by  *)
(* line the same, web_transport.rs).                                       *)
(*                                                                         *)
(* The task that sends movement datagrams trains dictionaries and offers   *)
(* them to the client; the client installs one and says so; only then the  *)
(* task compresses with it.  The task that transfers bulk content announces *)
(* each transfer on the same stream, and opens its own stream after it.    *)
(*                                                                         *)
(* Suite zstd-dict.  A dictionary stands for its content and its id.       *)
(***************************************************************************)
EXTENDS Integers, Sequences

CONSTANTS
  Dicts,            \* dictionaries that training can yield
  NoDict,           \* none
  Threshold,        \* chunks_threshold
  MinInterval,      \* min_interval
  FrameCapacity,    \* of the channel of door frames; 8 in the code
  MaxChunks,        \* bound: chunks of a movement batch
  MaxNow,           \* bound: the clock
  MaxRequests       \* bound: bulk requests

ASSUME DoorAssumption ==
  /\ NoDict \notin Dicts
  /\ Threshold \in Nat \ {0}
  /\ MinInterval \in Nat
  /\ FrameCapacity \in Nat \ {0}
  /\ MaxChunks \in 1..(4 * Threshold)
  /\ MaxNow \in Nat
  /\ MaxRequests \in Nat

VARIABLES
  current,          \* DatagramDictEncoder.current
  previous,         \* DatagramDictEncoder.previous
  pending,          \* DatagramDictEncoder.pending
  samples,          \* how many samples are kept
  last_training,    \* the time of the last training, as a set
  now,
  door_frames,      \* the channel of door frames: an offer, or NoDict for
                    \* the announcement of a bulk transfer
  pump,             \* the task that writes them
  door_ready,       \* the oneshot that tells of the first one written
  streams,          \* the streams the server has opened
  door_stream,      \* what the client has not read of the door stream
  installed,        \* the client's dictionaries
  readies,          \* dict_ready, from the client to the encoder
  requests,         \* bulk requests so far
  registered,       \* whether Hub.sessions has this session
  bulk_queue,       \* whether the channel of bulk requests holds one
  bulk              \* where the bulk task stands

encoder_vars == <<current, previous, pending, samples, last_training>>
bulk_vars == <<requests, registered, bulk_queue, bulk>>
client_vars == <<door_stream, installed, readies>>
pump_vars == <<door_frames, pump, door_ready, streams>>
vars == <<encoder_vars, now, pump_vars, client_vars, bulk_vars>>

MaybeDict == Dicts \cup {NoDict}

(* A door frame that does not find the channel closed or full is queued.   *)
HasRoom == pump # "dead" /\ Len(door_frames) < FrameCapacity

-----------------------------------------------------------------------------
(* The task that sends movement datagrams.                                 *)

(* Mutant: the buffer is not cut.                                          *)
KeptAll(count) == count

(* The buffer of samples, its oldest half dropped if it is too long.       *)
Kept(count) == IF count > Threshold * 4 THEN count - count \div 2 ELSE count

(* Mutant: an offer that is not answered does not defer the next one.      *)
MayTrainWhilePending(count) ==
  /\ count >= Threshold
  /\ \A time \in last_training : now - time >= MinInterval

MayTrain(count) ==
  /\ pending = NoDict
  /\ count >= Threshold
  /\ \A time \in last_training : now - time >= MinInterval

(* DatagramDictEncoder::observe and the try_send of its offer.  Whether    *)
(* the samples have the bytes to train from is left open.                  *)
Observe(chunks) ==
  LET count == Kept(samples + chunks)
  IN  \/ /\ samples' = count
         /\ UNCHANGED <<pending, last_training, door_frames>>
      \/ /\ MayTrain(count)          \* training fails
         /\ samples' = count - count \div 2
         /\ last_training' = {now}
         /\ UNCHANGED <<pending, door_frames>>
      \/ /\ MayTrain(count)
         /\ samples' = 0
         /\ last_training' = {now}
         /\ \E dict \in Dicts :
              /\ pending' = dict
              /\ door_frames' = IF HasRoom THEN Append(door_frames, dict)
                                           ELSE door_frames

SendMovement ==
  /\ \E chunks \in 1..MaxChunks : Observe(chunks)
  /\ UNCHANGED <<current, previous, now, pump, door_ready, streams,
                 client_vars, bulk_vars>>

(* Mutant: the dictionary before the previous one is kept.                 *)
ActivateOver(dict) ==
  IF dict # NoDict /\ dict = pending
  THEN /\ current' = dict
       /\ previous' = IF previous = NoDict THEN current ELSE previous
       /\ pending' = NoDict
  ELSE UNCHANGED <<current, previous, pending>>

(* Mutant: only the first dictionary is activated.                         *)
ActivateFirst(dict) ==
  IF dict # NoDict /\ dict = pending /\ current = NoDict
  THEN /\ current' = dict
       /\ previous' = current
       /\ pending' = NoDict
  ELSE UNCHANGED <<current, previous, pending>>

(* DatagramDictEncoder::activate.                                          *)
Activate(dict) ==
  IF dict # NoDict /\ dict = pending
  THEN /\ current' = dict
       /\ previous' = current
       /\ pending' = NoDict
  ELSE UNCHANGED <<current, previous, pending>>

ReceiveReady ==
  /\ readies # <<>>
  /\ Activate(Head(readies))
  /\ readies' = Tail(readies)
  /\ UNCHANGED <<samples, last_training, now, pump_vars, door_stream,
                 installed, bulk_vars>>

PassTime ==
  /\ now < MaxNow
  /\ now' = now + 1
  /\ UNCHANGED <<encoder_vars, pump_vars, client_vars, bulk_vars>>

-----------------------------------------------------------------------------
(* The task that writes door frames.  It is started when the state stream  *)
(* is open, and opens its own when it has something to write.              *)

(* If it cannot be opened, the bridge ends and drops the door channels.    *)
OpenStateStream ==
  /\ pump = "unborn"
  /\ \/ /\ streams' = Append(streams, "state")
        /\ pump' = "waiting"
        /\ UNCHANGED <<door_frames, door_ready>>
     \/ /\ pump' = "dead"
        /\ door_frames' = <<>>
        /\ door_ready' = "dropped"
        /\ UNCHANGED streams
  /\ UNCHANGED <<encoder_vars, now, client_vars, bulk_vars>>

WriteFrame ==
  /\ door_frames # <<>>
  /\ \/ /\ pump = "waiting"
        /\ streams' = Append(streams, "door")
        /\ door_ready' = "sent"
     \/ /\ pump = "open"
        /\ UNCHANGED <<streams, door_ready>>
  /\ pump' = "open"
  /\ door_stream' = Append(door_stream, Head(door_frames))
  /\ door_frames' = Tail(door_frames)
  /\ UNCHANGED <<encoder_vars, now, installed, readies, bulk_vars>>

(* The stream cannot be opened or written; the task drops its channels.    *)
PumpFails ==
  /\ door_frames # <<>>
  /\ \/ /\ pump = "waiting"
        /\ streams' \in {streams, Append(streams, "door")}
        /\ door_ready' = "dropped"
     \/ /\ pump = "open"
        /\ UNCHANGED <<streams, door_ready>>
  /\ pump' = "dead"
  /\ door_frames' = <<>>
  /\ UNCHANGED <<encoder_vars, now, client_vars, bulk_vars>>

(* The client reads the next frame.  It keeps the last two dictionaries,   *)
(* and answers an offer when it has installed it.                          *)
Install(dict) ==
  installed' = IF dict = installed.current THEN installed
               ELSE [current |-> dict, previous |-> installed.current]

ClientReads ==
  /\ door_stream # <<>>
  /\ LET frame == Head(door_stream)
     IN  IF frame = NoDict
         THEN UNCHANGED <<installed, readies>>
         ELSE /\ Install(frame)
              /\ readies' = Append(readies, frame)
  /\ door_stream' = Tail(door_stream)
  /\ UNCHANGED <<encoder_vars, now, pump_vars, bulk_vars>>

-----------------------------------------------------------------------------
(* The bulk task.                                                          *)

(* Hub::push to this connection; a session that has no room for a request *)
(* or has ended is evicted.                                                *)
RequestBulk ==
  /\ requests < MaxRequests
  /\ registered
  /\ requests' = requests + 1
  /\ IF bulk_queue \/ bulk \in {"ended", "panicked"}
     THEN /\ registered' = FALSE
          /\ UNCHANGED bulk_queue
     ELSE /\ bulk_queue' = TRUE
          /\ UNCHANGED registered
  /\ UNCHANGED <<encoder_vars, now, pump_vars, client_vars, bulk>>

TakeRequest ==
  /\ bulk = "idle"
  /\ bulk_queue
  /\ bulk_queue' = FALSE
  /\ bulk' = "announcing"
  /\ UNCHANGED <<encoder_vars, now, pump_vars, client_vars, requests,
                 registered>>

(* The announcement waits for room in the channel.                         *)
Announce ==
  /\ bulk = "announcing"
  /\ \/ /\ HasRoom
        /\ door_frames' = Append(door_frames, NoDict)
        /\ bulk' = "waiting"
     \/ /\ pump = "dead"
        /\ bulk' = "ended"
        /\ UNCHANGED door_frames
  /\ UNCHANGED <<encoder_vars, now, pump, door_ready, streams, client_vars,
                 requests, registered, bulk_queue>>

(* Mutant: it does not wait for the door stream.                           *)
AwaitNothing ==
  /\ bulk = "waiting"
  /\ bulk' = "opening"
  /\ UNCHANGED <<encoder_vars, now, pump_vars, client_vars, requests,
                 registered, bulk_queue>>

(* door_ready.await.  The oneshot is not put away afterwards, and to await *)
(* one again that has been answered is a panic.                            *)
AwaitDoor ==
  /\ bulk = "waiting"
  /\ \/ /\ door_ready = "sent"
        /\ door_ready' = "answered"
        /\ bulk' = "opening"
     \/ /\ door_ready = "dropped"
        /\ bulk' = "ended"
        /\ UNCHANGED door_ready
     \/ /\ door_ready = "answered"
        /\ bulk' = "panicked"
        /\ UNCHANGED door_ready
  /\ UNCHANGED <<encoder_vars, now, door_frames, pump, streams, client_vars,
                 requests, registered, bulk_queue>>

OpenBulkStream ==
  /\ bulk = "opening"
  /\ \/ /\ streams' = Append(streams, "bulk")
        /\ bulk' = "sending"
     \/ /\ bulk' = "ended"
        /\ UNCHANGED streams
  /\ UNCHANGED <<encoder_vars, now, door_frames, pump, door_ready,
                 client_vars, requests, registered, bulk_queue>>

FinishBulk ==
  /\ bulk = "sending"
  /\ bulk' = "idle"
  /\ UNCHANGED <<encoder_vars, now, pump_vars, client_vars, requests,
                 registered, bulk_queue>>

-----------------------------------------------------------------------------
Init ==
  /\ current = NoDict
  /\ previous = NoDict
  /\ pending = NoDict
  /\ samples = 0
  /\ last_training = {}
  /\ now = 0
  /\ door_frames = <<>>
  /\ pump = "unborn"
  /\ door_ready = "open"
  /\ streams = <<>>
  /\ door_stream = <<>>
  /\ installed = [current |-> NoDict, previous |-> NoDict]
  /\ readies = <<>>
  /\ requests = 0
  /\ registered = TRUE
  /\ bulk_queue = FALSE
  /\ bulk = "idle"

BulkStep ==
  \/ TakeRequest
  \/ Announce
  \/ AwaitDoor
  \/ OpenBulkStream
  \/ FinishBulk

Next ==
  \/ SendMovement
  \/ ReceiveReady
  \/ PassTime
  \/ OpenStateStream
  \/ WriteFrame
  \/ PumpFails
  \/ ClientReads
  \/ RequestBulk
  \/ BulkStep

Spec == Init /\ [][Next]_vars

(* The tasks run and the client reads.                                     *)
Fairness ==
  /\ WF_vars(OpenStateStream)
  /\ WF_vars(WriteFrame)
  /\ WF_vars(ClientReads)
  /\ WF_vars(ReceiveReady)

FairSpec == Spec /\ Fairness

-----------------------------------------------------------------------------
(* Properties.                                                             *)

(* Types; the samples stay within four times the threshold, and the door   *)
(* channel within its capacity.                                            *)
TypeOK ==
  /\ current \in MaybeDict
  /\ previous \in MaybeDict
  /\ pending \in MaybeDict
  /\ samples \in 0..(4 * Threshold)
  /\ last_training \subseteq Nat
  /\ now \in Nat
  /\ door_frames \in Seq(MaybeDict)
  /\ Len(door_frames) <= FrameCapacity
  /\ pump \in {"unborn", "waiting", "open", "dead"}
  /\ door_ready \in {"open", "sent", "dropped", "answered"}
  /\ streams \in Seq({"state", "door", "bulk"})
  /\ door_stream \in Seq(MaybeDict)
  /\ installed \in [current : MaybeDict, previous : MaybeDict]
  /\ readies \in Seq(Dicts)
  /\ requests \in Nat
  /\ registered \in BOOLEAN
  /\ bulk_queue \in BOOLEAN
  /\ bulk \in {"idle", "announcing", "waiting", "opening", "sending",
               "ended", "panicked"}

Installed == {installed.current, installed.previous}

(* The causal barrier: the server compresses with no dictionary that the   *)
(* client does not hold, although the client keeps only the last two and   *)
(* hears of them on another stream.                                        *)
CompressedWithInstalled == current # NoDict => current \in Installed

(* Datagrams of the dictionary before, still on their way, can be decoded  *)
(* until the client has installed the next one.                            *)
GraceForPrevious ==
  previous # NoDict /\ (pending = NoDict \/ pending \notin Installed) =>
    previous \in Installed

(* The order of streams by which the client tells them apart: state, then  *)
(* door control, then bulk.                                                *)
StreamOrder ==
  \A i \in DOMAIN streams :
    /\ i = 1 <=> streams[i] = "state"
    /\ i = 2 <=> streams[i] = "door"

(* An offer that was queued is taken up unless the door stream fails.      *)
OffersAreTakenUp ==
  \A dict \in Dicts :
    (\E i \in DOMAIN door_frames : door_frames[i] = dict)
      ~> (current = dict \/ pump = "dead")

(* A comment in quic_transport.rs: only the first bulk transfer has to     *)
(* wait for the door stream, later ones need not.                          *)
BulkTaskSurvives == bulk # "panicked"
=============================================================================
