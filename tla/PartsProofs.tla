---------------------------- MODULE PartsProofs ----------------------------
(***************************************************************************)
(* Proofs about DoorControl: for any dictionaries, thresholds and channel  *)
(* capacity, the server compresses with nothing that the client does not   *)
(* hold, and streams are opened in the order by which they are recognized. *)
(* And about PatchCodec: for any client versions and any contents, the     *)
(* patches computed once for many clients lead each of them to what it     *)
(* would have been sent in full.  And about Arbitration: selections change *)
(* for a reason only, and groups are the connected components of shared    *)
(* names in the tab lists.                                                 *)
(***************************************************************************)
EXTENDS DoorControl, PatchCodec, Arbitration, DataInduction, FiniteSetTheorems, TLAPS

(* No offer is on its way in the channel or stream s.                      *)
Blank(s) == \A i \in DOMAIN s : s[i] = NoDict

(* Exactly one offer is, of dict.                                          *)
Carries(s, dict) ==
  \E i \in DOMAIN s :
    /\ s[i] = dict
    /\ \A j \in DOMAIN s : j # i => s[j] = NoDict

(* Nothing is on its way: there is no offer, or one that was dropped.      *)
Silent ==
  /\ Blank(door_frames)
  /\ Blank(door_stream)
  /\ readies = <<>>
  /\ installed.current = current
  /\ previous \in Installed

(* The offer waits to be written.                                          *)
Offered ==
  /\ pending \in Dicts
  /\ Carries(door_frames, pending)
  /\ Blank(door_stream)
  /\ readies = <<>>
  /\ installed.current = current
  /\ previous \in Installed

(* The offer waits to be read.                                             *)
Written ==
  /\ pending \in Dicts
  /\ Blank(door_frames)
  /\ Carries(door_stream, pending)
  /\ readies = <<>>
  /\ installed.current = current
  /\ previous \in Installed

(* The answer is on its way.                                               *)
Answered ==
  /\ pending \in Dicts
  /\ Blank(door_frames)
  /\ Blank(door_stream)
  /\ readies = <<pending>>
  /\ installed.current = pending
  /\ current \in Installed

(* An offer is at one place at a time.                                     *)
Handover == Silent \/ Offered \/ Written \/ Answered

(* What has been opened, as far as the tasks have come.                    *)
StreamsOpened ==
  /\ pump = "unborn" => streams = <<>>
  /\ pump = "waiting" => streams = <<"state">>
  /\ door_ready = "open" <=> pump \in {"unborn", "waiting"}
  /\ door_ready \in {"sent", "answered"} => Len(streams) >= 2
  /\ bulk = "opening" => door_ready = "answered"
  /\ StreamOrder

-----------------------------------------------------------------------------
(* Sequences of frames.                                                    *)

(* A frame after blank ones.                                               *)
LEMMA AppendToBlank ==
  ASSUME NEW S, NEW s \in Seq(S), NEW frame \in S, Blank(s)
  PROVE  /\ frame = NoDict => Blank(Append(s, frame))
         /\ Carries(Append(s, frame), frame)
<1>1. /\ Len(Append(s, frame)) = Len(s) + 1
      /\ DOMAIN Append(s, frame) = 1..(Len(s) + 1)
      /\ \A i \in 1..Len(s) : Append(s, frame)[i] = s[i]
      /\ Append(s, frame)[Len(s) + 1] = frame
  OBVIOUS
<1>2. DOMAIN s = 1..Len(s) /\ Len(s) \in Nat
  OBVIOUS
<1>3. \A i \in 1..(Len(s) + 1) : i = Len(s) + 1 \/ Append(s, frame)[i] = NoDict
  BY <1>1, <1>2 DEF Blank
<1>4. Len(s) + 1 \in 1..(Len(s) + 1)
  BY <1>2
<1> QED
  BY <1>1, <1>3, <1>4 DEF Blank, Carries

(* A blank frame after an offer.                                           *)
LEMMA AppendToOffer ==
  ASSUME NEW S, NEW s \in Seq(S), NEW dict \in S, NoDict \in S,
         Carries(s, dict)
  PROVE  Carries(Append(s, NoDict), dict)
<1>1. /\ DOMAIN Append(s, NoDict) = 1..(Len(s) + 1)
      /\ \A i \in 1..Len(s) : Append(s, NoDict)[i] = s[i]
      /\ Append(s, NoDict)[Len(s) + 1] = NoDict
  OBVIOUS
<1>2. DOMAIN s = 1..Len(s) /\ Len(s) \in Nat
  OBVIOUS
<1>3. PICK i \in DOMAIN s :
        s[i] = dict /\ \A j \in DOMAIN s : j # i => s[j] = NoDict
  BY DEF Carries
<1>4. i \in 1..(Len(s) + 1) /\ Append(s, NoDict)[i] = dict
  BY <1>1, <1>2, <1>3
<1>5. \A j \in 1..(Len(s) + 1) : j # i => Append(s, NoDict)[j] = NoDict
  BY <1>1, <1>2, <1>3
<1> QED
  BY <1>1, <1>4, <1>5 DEF Carries

(* Without its head a blank queue is blank.                                *)
LEMMA TailOfBlank ==
  ASSUME NEW S, NEW s \in Seq(S), s # <<>>, Blank(s)
  PROVE  Head(s) = NoDict /\ Blank(Tail(s))
<1>1. /\ Len(s) \in Nat /\ Len(s) >= 1
      /\ DOMAIN s = 1..Len(s)
      /\ DOMAIN Tail(s) = 1..(Len(s) - 1)
      /\ \A i \in 1..(Len(s) - 1) : Tail(s)[i] = s[i + 1]
      /\ Head(s) = s[1]
  OBVIOUS
<1> QED
  BY <1>1 DEF Blank

(* Without its head a queue carries the offer, unless the head was it.     *)
LEMMA TailOfOffer ==
  ASSUME NEW S, NEW s \in Seq(S), s # <<>>, NEW dict \in S, dict # NoDict,
         Carries(s, dict)
  PROVE  \/ Head(s) = NoDict /\ Carries(Tail(s), dict)
         \/ Head(s) = dict /\ Blank(Tail(s))
<1>1. /\ Len(s) \in Nat /\ Len(s) >= 1
      /\ DOMAIN s = 1..Len(s)
      /\ DOMAIN Tail(s) = 1..(Len(s) - 1)
      /\ \A i \in 1..(Len(s) - 1) : Tail(s)[i] = s[i + 1]
      /\ Head(s) = s[1]
  OBVIOUS
<1>2. PICK i \in DOMAIN s :
        s[i] = dict /\ \A j \in DOMAIN s : j # i => s[j] = NoDict
  BY DEF Carries
<1>3. CASE i = 1
  BY <1>1, <1>2, <1>3 DEF Blank
<1>4. CASE i # 1
  <2>1. i - 1 \in 1..(Len(s) - 1) /\ Tail(s)[i - 1] = dict
    BY <1>1, <1>2, <1>4
  <2>2. \A j \in 1..(Len(s) - 1) : j # i - 1 => Tail(s)[j] = NoDict
    BY <1>1, <1>2, <1>4
  <2>3. Head(s) = NoDict
    BY <1>1, <1>2, <1>4
  <2> QED
    BY <1>1, <2>1, <2>2, <2>3 DEF Carries
<1> QED
  BY <1>3, <1>4

-----------------------------------------------------------------------------
(* Types.                                                                  *)

(* The types of queues.                                                    *)
LEMMA QueueTypes ==
  ASSUME NEW S
  PROVE  /\ <<>> \in Seq(S) /\ Len(<<>>) = 0
         /\ \A s \in Seq(S), x \in S :
              Append(s, x) \in Seq(S) /\ Len(Append(s, x)) = Len(s) + 1
         /\ \A s \in Seq(S) : s # <<>> =>
              /\ Head(s) \in S
              /\ Tail(s) \in Seq(S)
              /\ Len(Tail(s)) = Len(s) - 1
         /\ \A s \in Seq(S) : Len(s) \in Nat
OBVIOUS

(* A queue that is appended to when it has room keeps its bound.           *)
LEMMA AppendStaysBounded ==
  ASSUME NEW S, NEW s \in Seq(S), NEW t, NEW bound \in Nat, Len(s) <= bound,
         \/ t = s
         \/ Len(s) < bound /\ \E x \in S : t = Append(s, x)
  PROVE  t \in Seq(S) /\ Len(t) <= bound
<1>1. CASE t = s
  BY <1>1
<1>2. CASE Len(s) < bound /\ \E x \in S : t = Append(s, x)
  <2>1. PICK x \in S : t = Append(s, x)
    BY <1>2
  <2>2. t \in Seq(S) /\ Len(t) = Len(s) + 1 /\ Len(s) \in Nat
    BY <2>1, QueueTypes
  <2> QED
    BY <1>2, <2>2
<1> QED
  BY <1>1, <1>2

(* What is kept of the samples is bounded.                                 *)
LEMMA KeptIsBounded ==
  ASSUME NEW count \in 0..(8 * Threshold)
  PROVE  Kept(count) \in 0..(4 * Threshold)
BY DoorAssumption DEF Kept

(* Every variable keeps its type; samples and channel keep their bounds.   *)
THEOREM TypeCorrect == Spec => []TypeOK
<1> DEFINE StreamNames == {"state", "door", "bulk"}
<1>0. NoDict \in MaybeDict /\ Dicts \subseteq MaybeDict
      /\ \A dict \in MaybeDict : dict # NoDict => dict \in Dicts
  BY DEF MaybeDict
<1>1. Init => TypeOK
  <2> SUFFICES ASSUME Init PROVE TypeOK
    OBVIOUS
  <2>1. /\ door_frames \in Seq(MaybeDict) /\ Len(door_frames) <= FrameCapacity
        /\ door_stream \in Seq(MaybeDict)
        /\ streams \in Seq(StreamNames)
        /\ readies \in Seq(Dicts)
    BY DoorAssumption, QueueTypes DEF Init
  <2>2. installed \in [current : MaybeDict, previous : MaybeDict]
    BY <1>0 DEF Init
  <2>3. samples \in 0..(4 * Threshold) /\ last_training \subseteq Nat
    BY DoorAssumption DEF Init
  <2> QED
    BY <1>0, <2>1, <2>2, <2>3 DEF Init, TypeOK
<1>2. TypeOK /\ [Next]_vars => TypeOK'
  <2> SUFFICES ASSUME TypeOK, [Next]_vars PROVE TypeOK'
    OBVIOUS
  <2>0. /\ door_frames \in Seq(MaybeDict) /\ Len(door_frames) <= FrameCapacity
        /\ door_stream \in Seq(MaybeDict)
        /\ streams \in Seq(StreamNames)
        /\ readies \in Seq(Dicts)
        /\ FrameCapacity \in Nat \ {0}
    BY DoorAssumption DEF TypeOK
  <2>1. CASE SendMovement
    <3>1. PICK chunks \in 1..MaxChunks : Observe(chunks)
      BY <2>1 DEF SendMovement
    <3>2. samples + chunks \in 0..(8 * Threshold)
      BY DoorAssumption DEF TypeOK
    <3>3. Kept(samples + chunks) \in 0..(4 * Threshold)
      BY <3>2, KeptIsBounded
    <3>4. samples' \in 0..(4 * Threshold)
      BY <3>1, <3>3, DoorAssumption DEF Observe
    <3>5. pending' \in MaybeDict /\ last_training' \subseteq Nat
      BY <1>0, <3>1 DEF Observe, TypeOK
    <3>6. \/ door_frames' = door_frames
          \/ /\ Len(door_frames) < FrameCapacity
             /\ \E dict \in MaybeDict : door_frames' = Append(door_frames, dict)
      BY <1>0, <3>1 DEF Observe, HasRoom
    <3>7. door_frames' \in Seq(MaybeDict) /\ Len(door_frames') <= FrameCapacity
      BY <2>0, <3>6, AppendStaysBounded
    <3> QED
      BY <2>1, <3>4, <3>5, <3>7
         DEF SendMovement, TypeOK, client_vars, bulk_vars
  <2>2. CASE ReceiveReady
    <3>1. Head(readies) \in Dicts /\ readies' \in Seq(Dicts)
      BY <2>0, <2>2, QueueTypes DEF ReceiveReady
    <3> QED
      BY <1>0, <2>2, <3>1
         DEF ReceiveReady, Activate, TypeOK, pump_vars, bulk_vars
  <2>3. CASE PassTime
    BY <2>3 DEF PassTime, TypeOK, encoder_vars, pump_vars, client_vars,
                bulk_vars
  <2>4. CASE OpenStateStream
    <3>0. door_frames' = door_frames \/ door_frames' = <<>>
      BY <2>4 DEF OpenStateStream
    <3>1. door_frames' \in Seq(MaybeDict) /\ Len(door_frames') <= FrameCapacity
      <4>1. /\ <<>> \in Seq(MaybeDict) /\ Len(<<>>) = 0
            /\ 0 <= FrameCapacity
        BY <2>0, QueueTypes
      <4>2. CASE door_frames' = door_frames
        BY <2>0, <4>2
      <4>3. CASE door_frames' = <<>>
        BY <4>1, <4>3, Zenon
      <4> QED
        BY <3>0, <4>2, <4>3
    <3>2. streams' \in Seq(StreamNames)
      <4>1. streams' = streams \/ streams' = Append(streams, "state")
        BY <2>4 DEF OpenStateStream
      <4> QED
        BY <2>0, <4>1, QueueTypes
    <3> QED
      BY <2>4, <3>1, <3>2
         DEF OpenStateStream, TypeOK, encoder_vars, client_vars, bulk_vars
  <2>5. CASE WriteFrame
    <3>1. /\ door_frames' \in Seq(MaybeDict)
          /\ Len(door_frames') <= FrameCapacity
          /\ Head(door_frames) \in MaybeDict
      BY <2>0, <2>5, QueueTypes DEF WriteFrame
    <3>2. door_stream' \in Seq(MaybeDict)
      BY <2>0, <2>5, <3>1, QueueTypes DEF WriteFrame
    <3>3. streams' \in Seq(StreamNames)
      BY <2>0, <2>5, QueueTypes DEF WriteFrame
    <3> QED
      BY <2>5, <3>1, <3>2, <3>3 DEF WriteFrame, TypeOK, encoder_vars, bulk_vars
  <2>6. CASE PumpFails
    <3>1. door_frames' \in Seq(MaybeDict) /\ Len(door_frames') <= FrameCapacity
      BY <2>0, <2>6, QueueTypes DEF PumpFails
    <3>2. streams' \in Seq(StreamNames)
      BY <2>0, <2>6, QueueTypes, ZenonT(30) DEF PumpFails
    <3> QED
      BY <2>6, <3>1, <3>2
         DEF PumpFails, TypeOK, encoder_vars, client_vars, bulk_vars
  <2>7. CASE ClientReads
    <3>1. door_stream' \in Seq(MaybeDict) /\ Head(door_stream) \in MaybeDict
      BY <2>0, <2>7, QueueTypes DEF ClientReads
    <3>2. readies' \in Seq(Dicts)
      <4>1. CASE Head(door_stream) = NoDict
        BY <2>0, <2>7, <4>1 DEF ClientReads
      <4>2. CASE Head(door_stream) # NoDict
        <5>1. readies' = Append(readies, Head(door_stream))
          BY <2>7, <4>2 DEF ClientReads
        <5> QED
          BY <1>0, <2>0, <3>1, <4>2, <5>1, QueueTypes
      <4> QED
        BY <4>1, <4>2
    <3>3. installed' \in [current : MaybeDict, previous : MaybeDict]
      BY <2>7, <3>1 DEF ClientReads, Install, TypeOK
    <3> QED
      BY <2>7, <3>1, <3>2, <3>3
         DEF ClientReads, TypeOK, encoder_vars, pump_vars, bulk_vars
  <2>8. CASE RequestBulk
    <3>1. requests' \in Nat /\ registered' \in BOOLEAN /\ bulk_queue' \in BOOLEAN
      <4>1. requests' = requests + 1
        BY <2>8 DEF RequestBulk
      <4>2. requests' \in Nat
        BY <4>1 DEF TypeOK
      <4>3. registered' \in {registered, FALSE}
        BY <2>8, Zenon DEF RequestBulk
      <4>4. bulk_queue' \in {bulk_queue, TRUE}
        BY <2>8, Zenon DEF RequestBulk
      <4> QED
        BY <4>2, <4>3, <4>4, Zenon DEF TypeOK
    <3>2. UNCHANGED <<encoder_vars, now, pump_vars, client_vars, bulk>>
      BY <2>8 DEF RequestBulk
    <3> QED
      BY <3>1, <3>2 DEF TypeOK, encoder_vars, pump_vars, client_vars
  <2>9. CASE TakeRequest
    BY <2>9 DEF TakeRequest, TypeOK, encoder_vars, pump_vars, client_vars
  <2>10. CASE Announce
    <3>1. door_frames' \in Seq(MaybeDict) /\ Len(door_frames') <= FrameCapacity
      <4>1. \/ door_frames' = door_frames
            \/ /\ Len(door_frames) < FrameCapacity
               /\ \E frame \in MaybeDict :
                    door_frames' = Append(door_frames, frame)
        BY <1>0, <2>10 DEF Announce, HasRoom
      <4> QED
        BY <2>0, <4>1, AppendStaysBounded
    <3> QED
      BY <2>10, <3>1 DEF Announce, TypeOK, encoder_vars, client_vars
  <2>11. CASE AwaitDoor
    BY <2>11 DEF AwaitDoor, TypeOK, encoder_vars, client_vars
  <2>12. CASE OpenBulkStream
    <3>1. streams' \in Seq(StreamNames)
      BY <2>0, <2>12, QueueTypes, ZenonT(30) DEF OpenBulkStream
    <3> QED
      BY <2>12, <3>1 DEF OpenBulkStream, TypeOK, encoder_vars, client_vars
  <2>13. CASE FinishBulk
    BY <2>13 DEF FinishBulk, TypeOK, encoder_vars, pump_vars, client_vars
  <2>14. CASE UNCHANGED vars
    BY <2>14 DEF TypeOK, vars, encoder_vars, pump_vars, client_vars, bulk_vars
  <2> QED
    BY <2>1, <2>2, <2>3, <2>4, <2>5, <2>6, <2>7, <2>8, <2>9, <2>10, <2>11,
       <2>12, <2>13, <2>14 DEF Next, BulkStep
<1> QED
  BY <1>1, <1>2, PTL DEF Spec

-----------------------------------------------------------------------------
(* Dictionaries.                                                           *)

(* No dictionary is offered at first.                                      *)
LEMMA HandoverInit == Init => Handover
<1>1. Init => Blank(door_frames) /\ Blank(door_stream)
  BY DEF Init, Blank
<1> QED
  BY <1>1 DEF Init, Handover, Silent, Installed

(* Movement is sampled, and a dictionary may be trained and offered.       *)
LEMMA TrainingKeepsHandover ==
  ASSUME TypeOK, Handover, SendMovement
  PROVE  Handover'
<1>1. UNCHANGED <<current, previous, door_stream, installed, readies>>
  BY DEF SendMovement, client_vars
<1>2. \/ UNCHANGED <<pending, door_frames>>
      \/ /\ pending = NoDict
         /\ pending' \in Dicts
         /\ door_frames' \in {door_frames, Append(door_frames, pending')}
  BY DEF SendMovement, Observe, MayTrain
<1>3. CASE UNCHANGED <<pending, door_frames>>
  BY <1>1, <1>3 DEF Handover, Silent, Offered, Written, Answered, Installed,
                    Blank, Carries
<1>4. CASE /\ pending = NoDict
           /\ pending' \in Dicts
           /\ door_frames' \in {door_frames, Append(door_frames, pending')}
  <2>1. Silent
    BY <1>4, DoorAssumption DEF Handover, Offered, Written, Answered
  <2>2. CASE door_frames' = door_frames
    BY <1>1, <2>1, <2>2 DEF Handover, Silent, Installed, Blank
  <2>3. CASE door_frames' = Append(door_frames, pending')
    <3>1. Blank(door_frames) /\ door_frames \in Seq(MaybeDict)
          /\ pending' \in MaybeDict
      BY <1>4, <2>1 DEF Silent, TypeOK, MaybeDict
    <3>2. Carries(door_frames', pending')
      BY <2>3, <3>1, AppendToBlank
    <3> QED
      BY <1>1, <1>4, <2>1, <3>2
         DEF Handover, Silent, Offered, Installed, Blank, Carries
  <2> QED
    BY <1>4, <2>2, <2>3
<1> QED
  BY <1>2, <1>3, <1>4

(* An answer takes up an offer, or another one.                            *)
LEMMA AnswerKeepsHandover ==
  ASSUME TypeOK, Handover, ReceiveReady
  PROVE  Handover'
<1>1. /\ readies # <<>>
      /\ Activate(Head(readies))
      /\ readies' = Tail(readies)
      /\ UNCHANGED <<door_frames, door_stream, installed>>
  BY DEF ReceiveReady, pump_vars
<1>2. Answered
  BY <1>1 DEF Handover, Silent, Offered, Written
<1>3. Head(readies) = pending /\ Tail(readies) = <<>>
  BY <1>2 DEF Answered
<1>4. current' = pending /\ previous' = current
  BY <1>1, <1>2, <1>3, DoorAssumption DEF Activate, Answered
<1> QED
  BY <1>1, <1>2, <1>3, <1>4
     DEF Handover, Answered, Silent, Installed, Blank

(* The pump writes a frame.                                                *)
LEMMA WriteKeepsHandover ==
  ASSUME TypeOK, Handover, WriteFrame
  PROVE  Handover'
<1>1. /\ door_frames # <<>>
      /\ door_stream' = Append(door_stream, Head(door_frames))
      /\ door_frames' = Tail(door_frames)
      /\ UNCHANGED <<current, previous, pending, installed, readies>>
  BY DEF WriteFrame, encoder_vars
<1>2. /\ door_frames \in Seq(MaybeDict) /\ door_stream \in Seq(MaybeDict)
      /\ pending \in MaybeDict /\ NoDict \in MaybeDict
  BY DEF TypeOK, MaybeDict
<1>3. CASE Blank(door_frames)
  <2>1. Head(door_frames) = NoDict /\ Blank(door_frames')
    BY <1>1, <1>2, <1>3, TailOfBlank
  <2>2. Blank(door_stream) => Blank(door_stream')
    BY <1>1, <1>2, <2>1, AppendToBlank
  <2>3. Carries(door_stream, pending) => Carries(door_stream', pending)
    BY <1>1, <1>2, <2>1, AppendToOffer
  <2>4. ~Offered
    <3> SUFFICES ASSUME pending \in Dicts, Carries(door_frames, pending)
                 PROVE  FALSE
      BY DEF Offered
    <3> QED
      BY <1>3, DoorAssumption DEF Blank, Carries
  <2>5. Silent => Silent'
    BY <1>1, <2>1, <2>2 DEF Silent, Installed, Blank
  <2>6. Written => Written'
    BY <1>1, <2>1, <2>3 DEF Written, Installed, Blank, Carries
  <2>7. Answered => Answered'
    BY <1>1, <2>1, <2>2 DEF Answered, Installed, Blank
  <2> QED
    BY <2>4, <2>5, <2>6, <2>7 DEF Handover
<1>4. CASE ~Blank(door_frames)
  <2>1. Offered
    BY <1>4 DEF Handover, Silent, Written, Answered
  <2>2. pending # NoDict
    BY <2>1, DoorAssumption DEF Offered
  <2>3. \/ Head(door_frames) = NoDict /\ Carries(door_frames', pending)
        \/ Head(door_frames) = pending /\ Blank(door_frames')
    BY <1>1, <1>2, <2>1, <2>2, TailOfOffer DEF Offered
  <2>4. CASE Head(door_frames) = NoDict /\ Carries(door_frames', pending)
    <3>1. Blank(door_stream')
      BY <1>1, <1>2, <2>1, <2>4, AppendToBlank DEF Offered
    <3> QED
      BY <1>1, <2>1, <2>4, <3>1
         DEF Handover, Offered, Installed, Blank, Carries
  <2>5. CASE Head(door_frames) = pending /\ Blank(door_frames')
    <3>1. Carries(door_stream', pending)
      BY <1>1, <1>2, <2>1, <2>5, AppendToBlank DEF Offered
    <3> QED
      BY <1>1, <2>1, <2>5, <3>1
         DEF Handover, Offered, Written, Installed, Blank, Carries
  <2> QED
    BY <2>3, <2>4, <2>5
<1> QED
  BY <1>3, <1>4

(* The pump fails, or is not even started: the channel's frames are lost.  *)
LEMMA FailureKeepsHandover ==
  ASSUME TypeOK, Handover, door_frames' = <<>>,
         UNCHANGED <<current, previous, pending, door_stream, installed, readies>>
  PROVE  Handover'
<1>1. /\ door_frames' = <<>>
      /\ UNCHANGED <<current, previous, pending, door_stream, installed,
                     readies>>
  OBVIOUS
<1>2. Blank(door_frames')
  BY <1>1 DEF Blank
<1>3. Silent \/ Offered => Silent'
  BY <1>1, <1>2 DEF Silent, Offered, Installed, Blank
<1>4. Written => Written'
  BY <1>1, <1>2 DEF Written, Installed, Blank, Carries
<1>5. Answered => Answered'
  BY <1>1, <1>2 DEF Answered, Installed, Blank
<1> QED
  BY <1>3, <1>4, <1>5 DEF Handover

(* The client reads a frame.                                               *)
LEMMA ReadingKeepsHandover ==
  ASSUME TypeOK, Handover, ClientReads
  PROVE  Handover'
<1>1. /\ door_stream # <<>>
      /\ door_stream' = Tail(door_stream)
      /\ UNCHANGED <<current, previous, pending, door_frames>>
  BY DEF ClientReads, encoder_vars, pump_vars
<1>2. /\ door_stream \in Seq(MaybeDict) /\ pending \in MaybeDict
      /\ installed \in [current : MaybeDict, previous : MaybeDict]
  BY DEF TypeOK
<1>3. CASE Blank(door_stream)
  <2>1. Head(door_stream) = NoDict /\ Blank(door_stream')
    BY <1>1, <1>2, <1>3, TailOfBlank
  <2>2. UNCHANGED <<installed, readies>>
    BY <2>1 DEF ClientReads
  <2>3. ~Written
    <3> SUFFICES ASSUME pending \in Dicts, Carries(door_stream, pending)
                 PROVE  FALSE
      BY DEF Written
    <3> QED
      BY <1>3, DoorAssumption DEF Blank, Carries
  <2>4. Silent => Silent'
    BY <1>1, <2>1, <2>2 DEF Silent, Installed, Blank
  <2>5. Offered => Offered'
    BY <1>1, <2>1, <2>2 DEF Offered, Installed, Blank, Carries
  <2>6. Answered => Answered'
    BY <1>1, <2>1, <2>2 DEF Answered, Installed, Blank
  <2> QED
    BY <2>3, <2>4, <2>5, <2>6 DEF Handover
<1>4. CASE ~Blank(door_stream)
  <2>1. Written
    BY <1>4 DEF Handover, Silent, Offered, Answered
  <2>2. pending # NoDict
    BY <2>1, DoorAssumption DEF Written
  <2>3. \/ Head(door_stream) = NoDict /\ Carries(door_stream', pending)
        \/ Head(door_stream) = pending /\ Blank(door_stream')
    BY <1>1, <1>2, <2>1, <2>2, TailOfOffer DEF Written
  <2>4. CASE Head(door_stream) = NoDict /\ Carries(door_stream', pending)
    <3>1. UNCHANGED <<installed, readies>>
      BY <2>4 DEF ClientReads
    <3> QED
      BY <1>1, <2>1, <2>4, <3>1
         DEF Handover, Written, Installed, Blank, Carries
  <2>5. CASE Head(door_stream) = pending /\ Blank(door_stream')
    <3>1. readies' = <<pending>>
      <4>1. readies' = Append(readies, pending)
        BY <2>2, <2>5 DEF ClientReads
      <4> QED
        BY <2>1, <4>1 DEF Written
    <3>2. Install(pending)
      BY <2>2, <2>5 DEF ClientReads
    <3>3. installed'.current = pending /\ current \in Installed'
      BY <1>2, <2>1, <3>2 DEF Install, Written, Installed
    <3> QED
      BY <1>1, <2>1, <2>5, <3>1, <3>3
         DEF Handover, Written, Answered, Installed, Blank
  <2> QED
    BY <2>3, <2>4, <2>5
<1> QED
  BY <1>3, <1>4

(* The stream of bulk data is announced.                                   *)
LEMMA AnnouncementKeepsHandover ==
  ASSUME TypeOK, Handover, Announce
  PROVE  Handover'
<1>1. /\ door_frames' \in {door_frames, Append(door_frames, NoDict)}
      /\ UNCHANGED <<current, previous, pending, door_stream, installed,
                     readies>>
  BY DEF Announce, encoder_vars, client_vars
<1>2. /\ door_frames \in Seq(MaybeDict)
      /\ pending \in MaybeDict /\ NoDict \in MaybeDict
  BY DEF TypeOK, MaybeDict
<1>3. Blank(door_frames) => Blank(door_frames')
  BY <1>1, <1>2, AppendToBlank
<1>4. Carries(door_frames, pending) => Carries(door_frames', pending)
  BY <1>1, <1>2, AppendToOffer
<1>5. Silent => Silent'
  BY <1>1, <1>3 DEF Silent, Installed, Blank
<1>6. Offered => Offered'
  BY <1>1, <1>4 DEF Offered, Installed, Blank, Carries
<1>7. Written => Written'
  BY <1>1, <1>3 DEF Written, Installed, Blank, Carries
<1>8. Answered => Answered'
  BY <1>1, <1>3 DEF Answered, Installed, Blank
<1> QED
  BY <1>5, <1>6, <1>7, <1>8 DEF Handover

(* An offer is at one place at a time: trained and queued, written, or     *)
(* installed and about to be acknowledged (observe, activate, the pump and *)
(* the reader of the client's door stream).                                *)
THEOREM OfferIsHandedOver == Spec => []Handover
<1>1. Init => Handover
  BY HandoverInit
<1>2. TypeOK /\ Handover /\ [Next]_vars => Handover'
  <2> SUFFICES ASSUME TypeOK, Handover, [Next]_vars PROVE Handover'
    OBVIOUS
  <2>1. CASE UNCHANGED <<current, previous, pending, door_frames, door_stream,
                         installed, readies>>
    BY <2>1 DEF Handover, Silent, Offered, Written, Answered, Installed,
                Blank, Carries
  <2>2. CASE PassTime \/ RequestBulk \/ TakeRequest
             \/ AwaitDoor \/ OpenBulkStream \/ FinishBulk \/ UNCHANGED vars
    BY <2>1, <2>2
       DEF PassTime, RequestBulk, TakeRequest, AwaitDoor,
           OpenBulkStream, FinishBulk, vars, encoder_vars, pump_vars,
           client_vars
  <2>3. CASE OpenStateStream
    BY <2>1, <2>3, FailureKeepsHandover DEF OpenStateStream, encoder_vars, client_vars
  <2>4. CASE PumpFails
    BY <2>4, FailureKeepsHandover DEF PumpFails, encoder_vars, client_vars
  <2> QED
    BY <2>2, <2>3, <2>4, TrainingKeepsHandover, AnswerKeepsHandover, WriteKeepsHandover,
       ReadingKeepsHandover, AnnouncementKeepsHandover
       DEF Next, BulkStep
<1> QED
  BY <1>1, <1>2, TypeCorrect, PTL DEF Spec

(* The causal barrier of activate: what the server compresses with is held *)
(* by the client.                                                          *)
THEOREM BarrierHolds == Spec => []CompressedWithInstalled
<1>1. Handover => CompressedWithInstalled
  BY DEF Handover, Silent, Offered, Written, Answered, Installed,
         CompressedWithInstalled
<1> QED
  BY <1>1, OfferIsHandedOver, PTL

(* The dictionary before the current one can be decoded with until the     *)
(* client installs the next.                                               *)
THEOREM GraceHolds == Spec => []GraceForPrevious
<1>1. Handover => GraceForPrevious
  BY DoorAssumption
     DEF Handover, Silent, Offered, Written, Answered, Installed,
         GraceForPrevious
<1> QED
  BY <1>1, OfferIsHandedOver, PTL

-----------------------------------------------------------------------------
(* Streams.                                                                *)

(* Bulk streams come after the other two.                                  *)
LEMMA AppendAfterTwo ==
  ASSUME streams \in Seq({"state", "door", "bulk"}), StreamOrder,
         Len(streams) >= 2, streams' = Append(streams, "bulk")
  PROVE  StreamOrder' /\ Len(streams') >= 2
<1>1. /\ Len(streams) \in Nat
      /\ DOMAIN streams = 1..Len(streams)
      /\ DOMAIN streams' = 1..(Len(streams) + 1)
      /\ Len(streams') = Len(streams) + 1
      /\ \A i \in 1..Len(streams) : streams'[i] = streams[i]
      /\ streams'[Len(streams) + 1] = "bulk"
  OBVIOUS
<1> SUFFICES ASSUME NEW i \in 1..(Len(streams) + 1)
             PROVE  /\ i = 1 <=> streams'[i] = "state"
                    /\ i = 2 <=> streams'[i] = "door"
  BY <1>1 DEF StreamOrder
<1>2. CASE i = Len(streams) + 1
  BY <1>1, <1>2
<1>3. CASE i \in 1..Len(streams)
  BY <1>1, <1>3 DEF StreamOrder
<1> QED
  BY <1>1, <1>2, <1>3

(* The door stream comes after that of the state.                          *)
LEMMA StateThenDoor ==
  ASSUME streams = <<"state">>, streams' = Append(streams, "door")
  PROVE  StreamOrder' /\ Len(streams') >= 2
<1>1. Len(streams) = 1 /\ streams[1] = "state"
      /\ streams \in Seq({"state", "door"})
  OBVIOUS
<1>2. /\ Len(streams') = 2
      /\ DOMAIN streams' = 1..2
      /\ streams'[1] = "state"
      /\ streams'[2] = "door"
  BY <1>1
<1> QED
  BY <1>2 DEF StreamOrder

(* The client tells the server's streams apart by the order they are       *)
(* opened in: the bulk task opens its own only after the door stream is    *)
(* opened and its first frame written.                                     *)
THEOREM OrderHolds == Spec => []StreamOrder
<1>1. Init => StreamsOpened
  BY DEF Init, StreamsOpened, StreamOrder
<1>2. TypeOK /\ StreamsOpened /\ [Next]_vars => StreamsOpened'
  <2> SUFFICES ASSUME TypeOK, StreamsOpened, [Next]_vars PROVE StreamsOpened'
    OBVIOUS
  <2>0. streams \in Seq({"state", "door", "bulk"})
    BY DEF TypeOK
  <2>1. CASE UNCHANGED <<pump, door_ready, streams, bulk>>
    BY <2>1 DEF StreamsOpened, StreamOrder
  <2>2. CASE SendMovement \/ ReceiveReady \/ PassTime \/ ClientReads
             \/ RequestBulk \/ UNCHANGED vars
    BY <2>1, <2>2 DEF SendMovement, ReceiveReady, PassTime, ClientReads,
                      RequestBulk, vars, pump_vars, bulk_vars
  <2>3. CASE OpenStateStream
    <3>1. CASE streams' = Append(streams, "state") /\ pump' = "waiting" /\ door_ready' = door_ready
      <4>1. streams' = <<"state">>
        BY <2>3, <3>1 DEF OpenStateStream, StreamsOpened
      <4>2. StreamOrder'
        BY <4>1 DEF StreamOrder
      <4> QED
        BY <2>3, <3>1, <4>1, <4>2 DEF OpenStateStream, StreamsOpened, bulk_vars
    <3>2. CASE streams' = streams /\ pump' = "dead" /\ door_ready' = "dropped"
      BY <2>3, <3>2 DEF OpenStateStream, StreamsOpened, StreamOrder, bulk_vars
    <3> QED
      BY <2>3, <3>1, <3>2 DEF OpenStateStream
  <2>4. CASE WriteFrame
    <3>1. CASE pump = "waiting"
      <4>1. /\ streams = <<"state">>
            /\ streams' = Append(streams, "door")
            /\ door_ready' = "sent"
        BY <2>4, <3>1 DEF WriteFrame, StreamsOpened
      <4>2. StreamOrder' /\ Len(streams') >= 2
        BY <4>1, StateThenDoor
      <4>3. bulk' # "opening" /\ pump' = "open"
        BY <2>4, <3>1 DEF WriteFrame, StreamsOpened, bulk_vars
      <4> QED
        BY <4>1, <4>2, <4>3 DEF StreamsOpened
    <3>2. CASE pump = "open"
      BY <2>1, <2>4, <3>2 DEF WriteFrame, bulk_vars
    <3> QED
      BY <2>4, <3>1, <3>2 DEF WriteFrame
  <2>5. CASE PumpFails
    <3>1. pump' = "dead" /\ bulk' = bulk
      BY <2>5 DEF PumpFails, bulk_vars
    <3>2. CASE pump = "waiting"
      <4>1. /\ streams = <<"state">>
            /\ streams' \in {streams, Append(streams, "door")}
            /\ door_ready' = "dropped"
        BY <2>5, <3>2 DEF PumpFails, StreamsOpened
      <4>2. StreamOrder'
        BY <4>1, StateThenDoor DEF StreamsOpened, StreamOrder
      <4>3. bulk # "opening"
        BY <3>2 DEF StreamsOpened
      <4> QED
        BY <3>1, <4>1, <4>2, <4>3 DEF StreamsOpened
    <3>3. CASE pump = "open"
      <4>1. UNCHANGED <<streams, door_ready>>
        BY <2>5, <3>3 DEF PumpFails
      <4> QED
        BY <3>1, <3>3, <4>1 DEF StreamsOpened, StreamOrder
    <3> QED
      BY <2>5, <3>2, <3>3 DEF PumpFails
  <2>6. CASE TakeRequest \/ Announce \/ AwaitDoor \/ FinishBulk
    <3>1. UNCHANGED <<pump, streams>>
      BY <2>6 DEF TakeRequest, Announce, AwaitDoor, FinishBulk, pump_vars
    <3>2. \/ door_ready' = door_ready /\ bulk' # "opening"
          \/ door_ready = "sent" /\ door_ready' = "answered"
      BY <2>6 DEF TakeRequest, Announce, AwaitDoor, FinishBulk, pump_vars
    <3> QED
      BY <3>1, <3>2 DEF StreamsOpened, StreamOrder
  <2>7. CASE OpenBulkStream
    <3>1. /\ UNCHANGED <<pump, door_ready>>
          /\ door_ready = "answered"
          /\ bulk' # "opening"
      BY <2>7 DEF OpenBulkStream, StreamsOpened
    <3>2. streams' \in {streams, Append(streams, "bulk")}
      BY <2>7 DEF OpenBulkStream
    <3>3. pump \notin {"unborn", "waiting"} /\ Len(streams) >= 2
      BY <3>1 DEF StreamsOpened
    <3>4. StreamOrder' /\ Len(streams') >= 2
      <4>1. CASE streams' = streams
        BY <3>3, <4>1 DEF StreamsOpened, StreamOrder
      <4>2. CASE streams' = Append(streams, "bulk")
        BY <2>0, <3>3, <4>2, AppendAfterTwo DEF StreamsOpened
      <4> QED
        BY <3>2, <4>1, <4>2
    <3> QED
      BY <3>1, <3>3, <3>4 DEF StreamsOpened
  <2> QED
    BY <2>2, <2>3, <2>4, <2>5, <2>6, <2>7 DEF Next, BulkStep
<1>3. StreamsOpened => StreamOrder
  BY DEF StreamsOpened
<1> QED
  BY <1>1, <1>2, <1>3, TypeCorrect, PTL DEF Spec

-----------------------------------------------------------------------------
(***************************************************************************)
(* Patches across protocol versions: PatchCodec.                           *)
(***************************************************************************)

(* Objects by id, each with its fields; a snapshot has them per scope.     *)
IsFields(f) == f = [x \in DOMAIN f |-> f[x]]
AreObjects(m) == IsFields(m) /\ \A id \in DOMAIN m : IsFields(m[id])
IsSnapshot(w) ==
  /\ w = [scope \in CodecScopes |-> w[scope]]
  /\ \A scope \in CodecScopes : AreObjects(w[scope])

(* Functions are equal if they hold the same, at each level: fields,       *)
(* objects, snapshots.                                                     *)
LEMMA SameFields ==
  ASSUME NEW f, NEW g, IsFields(f), IsFields(g), DOMAIN f = DOMAIN g,
         \A x \in DOMAIN f : f[x] = g[x]
  PROVE  f = g
BY DEF IsFields

(* Objects are equal when their fields are.                                *)
LEMMA SameObjects ==
  ASSUME NEW m, NEW n, AreObjects(m), AreObjects(n), DOMAIN m = DOMAIN n,
         \A id \in DOMAIN m : m[id] = n[id]
  PROVE  m = n
BY SameFields DEF AreObjects

(* Snapshots are equal when their scopes are.                              *)
LEMMA SameSnapshot ==
  ASSUME NEW v, NEW w, IsSnapshot(v), IsSnapshot(w),
         \A scope \in CodecScopes : v[scope] = w[scope]
  PROVE  v = w
<1>1. [scope \in CodecScopes |-> v[scope]] = [scope \in CodecScopes |-> w[scope]]
  OBVIOUS
<1> QED
  BY <1>1, Zenon DEF IsSnapshot

(* What the merge of two objects and a restriction hold.                   *)
LEMMA OverlaidFields ==
  ASSUME NEW new, NEW old
  PROVE  /\ IsFields(Overlaid(new, old))
         /\ DOMAIN Overlaid(new, old) = DOMAIN new \cup DOMAIN old
         /\ \A x \in DOMAIN new : Overlaid(new, old)[x] = new[x]
         /\ \A x \in DOMAIN old \ DOMAIN new : Overlaid(new, old)[x] = old[x]
BY DEF Overlaid, IsFields

(* What a restriction has.                                                 *)
LEMMA RestrictedFields ==
  ASSUME NEW f, NEW S
  PROVE  /\ IsFields(Restrict(f, S)) /\ DOMAIN Restrict(f, S) = S
         /\ \A x \in S : Restrict(f, S)[x] = f[x]
BY DEF Restrict, IsFields

-----------------------------------------------------------------------------
(* Versions.                                                               *)

(* A version has reached exactly the epochs up to its own, so versions of  *)
(* one epoch answer alike every question about epochs                      *)
(* (ProtocolEpoch::from_version).                                          *)

(* A version has reached exactly the epochs up to its own, so versions of  *)
(* one epoch answer alike every question about epochs                      *)
(* (ProtocolEpoch::from_version).                                          *)
LEMMA EpochIsReached ==
  ASSUME NEW v \in Nat, v >= 601
  PROVE  /\ FromVersion(v) \in Epochs
         /\ \A e \in Epochs : v >= e <=> FromVersion(v) >= e
<1> DEFINE reached == {epoch \in Epochs : v >= epoch}
<1>1. reached \in SUBSET Nat /\ 601 \in reached /\ \A e \in reached : e <= 801
  BY DEF Epochs
<1>2. \E x \in reached : \A y \in reached : y <= x
  <2>1. PICK top \in Nat : top = 801
    OBVIOUS
  <2>2. \A x \in reached : x <= top
    BY <1>1, <2>1
  <2>3. reached \in SUBSET Nat /\ reached # {}
    BY <1>1
  <2> HIDE DEF reached
  <2> QED
    BY <2>2, <2>3, GreatestNumber
<1>3. Max(reached) \in reached /\ \A y \in reached : Max(reached) >= y
  <2>1. \E x \in reached : \A y \in reached : x >= y
    <3> HIDE DEF reached
    <3> QED
      BY <1>1, <1>2
  <2> HIDE DEF reached
  <2> QED
    BY <2>1, Zenon DEF Max
<1>4. FromVersion(v) = Max(reached)
  BY <1>1 DEF FromVersion
<1> HIDE DEF reached
<1>5. FromVersion(v) \in Epochs /\ v >= FromVersion(v)
  BY <1>3, <1>4 DEF reached
<1>6. \A e \in Epochs : v >= e => FromVersion(v) >= e
  BY <1>3, <1>4 DEF reached
<1>7. ASSUME NEW e \in Epochs, FromVersion(v) >= e PROVE v >= e
  <2>1. e \in Nat /\ FromVersion(v) \in Nat
    BY <1>5 DEF Epochs
  <2> QED
    BY <1>5, <1>7, <2>1
<1> QED
  BY <1>5, <1>6, <1>7

(* The questions that projections ask of a version have the same answers.  *)
Alike(v, w) ==
  /\ SupportsBattleChunkMode(v) <=> SupportsBattleChunkMode(w)
  /\ SupportsLastSeenPlayers(v) <=> SupportsLastSeenPlayers(w)
  /\ SupportsPlayerSourceMetadata(v) <=> SupportsPlayerSourceMetadata(w)
  /\ SupportsTabHistory(v) <=> SupportsTabHistory(w)

(* Versions of one epoch are alike.                                        *)
LEMMA EpochIsAlike ==
  ASSUME NEW v \in Nat, NEW w \in Nat, v >= 601, w >= 601, FromVersion(v) = FromVersion(w)
  PROVE  Alike(v, w)
<1>1. \A e \in Epochs : v >= e <=> w >= e
  BY EpochIsReached, Zenon
<1>2. {602, 604, 605, 700} \subseteq Epochs
  BY DEF Epochs
<1> QED
  BY <1>1, <1>2 DEF Alike, SupportsBattleChunkMode, SupportsLastSeenPlayers,
                    SupportsPlayerSourceMetadata, SupportsTabHistory

-----------------------------------------------------------------------------
(* Projections.                                                            *)

(* Taking fields away twice is taking them away once.                      *)
LEMMA WithoutFields ==
  ASSUME NEW F, NEW m
  PROVE  /\ AreObjects(Without(F, m)) /\ DOMAIN Without(F, m) = DOMAIN m
         /\ \A id \in DOMAIN m : Without(F, m)[id] = Restrict(m[id], DOMAIN m[id] \ F)
         /\ Without(F, Without(F, m)) = Without(F, m)
<1>1. \A n : /\ IsFields(Without(F, n)) /\ DOMAIN Without(F, n) = DOMAIN n
             /\ \A id \in DOMAIN n : Without(F, n)[id] = Restrict(n[id], DOMAIN n[id] \ F)
  BY DEF Without, IsFields
<1>2. \A n : AreObjects(Without(F, n))
  <2>1. \A f, S : IsFields(Restrict(f, S))
    BY RestrictedFields
  <2> QED
    <3> SUFFICES ASSUME NEW n PROVE AreObjects(Without(F, n))
      OBVIOUS
    <3>1. IsFields(Without(F, n)) /\ DOMAIN Without(F, n) = DOMAIN n
      BY <1>1
    <3>2. ASSUME NEW id \in DOMAIN n PROVE IsFields(Without(F, n)[id])
      <4>1. Without(F, n)[id] = Restrict(n[id], DOMAIN n[id] \ F)
        BY <1>1
      <4> QED
        BY <2>1, <4>1
    <3> QED
      BY <3>1, <3>2 DEF AreObjects
<1>3. ASSUME NEW id \in DOMAIN m
      PROVE  Without(F, Without(F, m))[id] = Without(F, m)[id]
  <2> DEFINE o == Restrict(m[id], DOMAIN m[id] \ F)
             p == Restrict(o, DOMAIN o \ F)
  <2>1. Without(F, m)[id] = o /\ Without(F, Without(F, m))[id] = p
    <3>1. Without(F, m)[id] = o /\ id \in DOMAIN Without(F, m)
      BY <1>1
    <3> HIDE DEF o
    <3> QED
      BY <1>1, <3>1
  <2>2. DOMAIN o = DOMAIN m[id] \ F
    BY RestrictedFields
  <2>3. IsFields(o) /\ IsFields(p) /\ DOMAIN p = DOMAIN o \ F /\ \A x \in DOMAIN o \ F : p[x] = o[x]
    <3> HIDE DEF o
    <3>1. IsFields(o)
      BY RestrictedFields DEF o
    <3> QED
      BY <3>1, RestrictedFields
  <2> HIDE DEF o, p
  <2>4. p = o
    BY <2>2, <2>3, SameFields
  <2> QED
    BY <2>1, <2>4
<1>4. Without(F, Without(F, m)) = Without(F, m)
  BY <1>1, <1>2, <1>3, SameObjects
<1> QED
  BY <1>1, <1>2, <1>4

(* What a projection makes of the objects of a scope.                      *)
Projected(v, scope, m) ==
  CASE scope = "players" /\ ~SupportsPlayerSourceMetadata(v) -> Without({"position_source"}, m)
    [] scope = "battle_chunks" /\ ~SupportsBattleChunkMode(v) -> Without({"mode"}, m)
    [] scope = "last_seen_players" /\ ~SupportsLastSeenPlayers(v) -> <<>>
    [] scope = "tab_reports" /\ ~SupportsTabHistory(v) -> Without({"scoreboard"}, m)
    [] OTHER -> m

(* A projection of objects is one of itself, and alike for alike versions. *)
LEMMA ProjectedObjects ==
  ASSUME NEW v, NEW scope, NEW m, AreObjects(m)
  PROVE  /\ AreObjects(Projected(v, scope, m))
         /\ Projected(v, scope, Projected(v, scope, m)) = Projected(v, scope, m)
<1>1. AreObjects(<<>>)
  BY DEF AreObjects, IsFields
<1> QED
  BY <1>1, WithoutFields DEF Projected

(* Versions that agree in what they know project alike.                    *)
LEMMA ProjectedAlike ==
  ASSUME NEW v, NEW w, Alike(v, w), NEW scope, NEW m
  PROVE  Projected(v, scope, m) = Projected(w, scope, m)
BY Zenon DEF Projected, Alike

(* A snapshot is projected scope by scope; so the same is true of it.      *)
LEMMA ProjectionPerScope ==
  ASSUME NEW v, NEW w, IsSnapshot(w)
  PROVE  /\ IsSnapshot(ProjectSnapshot(v, w))
         /\ \A scope \in CodecScopes :
              ProjectSnapshot(v, w)[scope] = Projected(v, scope, w[scope])
<1> DEFINE a == IF SupportsPlayerSourceMetadata(v) THEN w["players"]
                ELSE Without({"position_source"}, w["players"])
           b == IF SupportsBattleChunkMode(v) THEN w["battle_chunks"]
                ELSE Without({"mode"}, w["battle_chunks"])
           c == IF SupportsLastSeenPlayers(v) THEN w["last_seen_players"] ELSE <<>>
           d == IF SupportsTabHistory(v) THEN w["tab_reports"]
                ELSE Without({"scoreboard"}, w["tab_reports"])
           P == ProjectSnapshot(v, w)
<1>1. DOMAIN w = CodecScopes
  BY DEF IsSnapshot
<1>2. P = [w EXCEPT !["players"] = a, !["battle_chunks"] = b, !["last_seen_players"] = c,
                    !["tab_reports"] = d]
  BY <1>1 DEF ProjectSnapshot, CodecScopes
<1> HIDE DEF P
<1>3. /\ a = Projected(v, "players", w["players"])
      /\ b = Projected(v, "battle_chunks", w["battle_chunks"])
      /\ c = Projected(v, "last_seen_players", w["last_seen_players"])
      /\ d = Projected(v, "tab_reports", w["tab_reports"])
      /\ w["player_marks"] = Projected(v, "player_marks", w["player_marks"])
  BY DEF Projected
<1> HIDE DEF a, b, c, d
<1>4. /\ P["players"] = a /\ P["battle_chunks"] = b /\ P["last_seen_players"] = c
      /\ P["tab_reports"] = d /\ P["player_marks"] = w["player_marks"]
  BY <1>1, <1>2 DEF CodecScopes
<1>5. \A scope \in CodecScopes : P[scope] = Projected(v, scope, w[scope])
  BY <1>3, <1>4 DEF CodecScopes
<1>6. P = [scope \in CodecScopes |-> P[scope]]
  BY <1>1, <1>2
<1>7. \A scope \in CodecScopes : AreObjects(P[scope])
  BY <1>5, ProjectedObjects DEF IsSnapshot
<1>8. IsSnapshot(P)
  BY <1>6, <1>7, Zenon DEF IsSnapshot
<1> QED
  BY <1>5, <1>8 DEF P

(* To project twice is to project once.                                    *)
LEMMA ProjectionIsStable ==
  ASSUME NEW v, NEW w, IsSnapshot(w)
  PROVE  ProjectSnapshot(v, ProjectSnapshot(v, w)) = ProjectSnapshot(v, w)
<1> DEFINE P == ProjectSnapshot(v, w)
           Q == ProjectSnapshot(v, P)
<1>1. IsSnapshot(P) /\ \A scope \in CodecScopes : P[scope] = Projected(v, scope, w[scope])
  BY ProjectionPerScope
<1> HIDE DEF P
<1>2. IsSnapshot(Q) /\ \A scope \in CodecScopes : Q[scope] = Projected(v, scope, P[scope])
  BY <1>1, ProjectionPerScope
<1>3. \A scope \in CodecScopes : AreObjects(w[scope])
  BY DEF IsSnapshot
<1> HIDE DEF Q
<1>4. \A scope \in CodecScopes : Q[scope] = P[scope]
  BY <1>1, <1>2, <1>3, ProjectedObjects
<1>5. Q = P
  BY <1>1, <1>2, <1>4, SameSnapshot
<1> QED
  BY <1>5 DEF P, Q

(* Snapshots project alike for such versions.                              *)
LEMMA ProjectionIsShared ==
  ASSUME NEW v, NEW u, NEW w, IsSnapshot(w), Alike(v, u)
  PROVE  ProjectSnapshot(v, w) = ProjectSnapshot(u, w)
<1>1. \A scope \in CodecScopes : ProjectSnapshot(v, w)[scope] = ProjectSnapshot(u, w)[scope]
  BY ProjectionPerScope, ProjectedAlike
<1> QED
  BY <1>1, ProjectionPerScope, SameSnapshot

-----------------------------------------------------------------------------
(* Patches.                                                                *)

(* A patch that makes the new objects out of the old ones.                 *)
Leads(scope, old, new, patch) ==
  /\ DOMAIN patch.upsert = {id \in DOMAIN new : id \notin DOMAIN old \/ old[id] # new[id]}
  /\ DOMAIN old \ DOMAIN new \subseteq patch.delete
  /\ patch.delete \cap DOMAIN new \subseteq DOMAIN patch.upsert
  /\ \A id \in DOMAIN patch.upsert :
       /\ patch.upsert[id].data = new[id]
       /\ id \in DOMAIN old \ patch.delete /\ scope = "players" =>
            patch.upsert[id].clear_fields = DOMAIN old[id] \ DOMAIN new[id]

(* Such a patch, applied by a client to the old objects, makes the new     *)
(* ones.                                                                   *)
LEMMA LeadsToNew ==
  ASSUME NEW scope, NEW old, NEW new, NEW patch, AreObjects(old), AreObjects(new),
         Leads(scope, old, new, patch)
  PROVE  ApplyScope(scope, old, patch) = new
<1> DEFINE kept == Restrict(old, DOMAIN old \ patch.delete)
           Of(id) == IF id \notin DOMAIN patch.upsert THEN kept[id]
                     ELSE IF id \in DOMAIN kept /\ scope = "players"
                     THEN ApplyDelta(kept[id], patch.upsert[id])
                     ELSE patch.upsert[id].data
           shown == [id \in DOMAIN kept \cup DOMAIN patch.upsert |-> Of(id)]
<1>1. ApplyScope(scope, old, patch) = shown
  BY Zenon DEF ApplyScope
<1>2. DOMAIN kept = DOMAIN old \ patch.delete /\ \A id \in DOMAIN kept : kept[id] = old[id]
  BY RestrictedFields
<1>3. /\ DOMAIN patch.upsert \subseteq DOMAIN new
      /\ \A id \in DOMAIN new \ DOMAIN patch.upsert : id \in DOMAIN old /\ old[id] = new[id]
      /\ DOMAIN old \ DOMAIN new \subseteq patch.delete
      /\ patch.delete \cap DOMAIN new \subseteq DOMAIN patch.upsert
  BY DEF Leads
<1> HIDE DEF kept
<1>4. DOMAIN kept \cup DOMAIN patch.upsert = DOMAIN new
  BY <1>2, <1>3
<1>5. ASSUME NEW id \in DOMAIN new PROVE Of(id) = new[id]
  <2>1. CASE id \notin DOMAIN patch.upsert
    BY <1>2, <1>3, <2>1
  <2>2. CASE id \in DOMAIN patch.upsert /\ id \in DOMAIN kept /\ scope = "players"
    <3> DEFINE delta == patch.upsert[id]
               rest == Restrict(old[id], DOMAIN old[id] \ delta.clear_fields)
    <3>1. Of(id) = Overlaid(delta.data, rest)
      BY <1>2, <2>2 DEF ApplyDelta
    <3>2. delta.data = new[id] /\ delta.clear_fields = DOMAIN old[id] \ DOMAIN new[id]
      BY <1>2, <2>2 DEF Leads
    <3>3. IsFields(new[id])
      BY DEF AreObjects
    <3> HIDE DEF delta, Of
    <3>4. DOMAIN rest \subseteq DOMAIN new[id]
      <4>1. DOMAIN rest = DOMAIN old[id] \ delta.clear_fields
        BY RestrictedFields
      <4> QED
        BY <3>2, <4>1
    <3> HIDE DEF rest
    <3>5. /\ IsFields(Overlaid(new[id], rest))
          /\ DOMAIN Overlaid(new[id], rest) = DOMAIN new[id]
          /\ \A x \in DOMAIN new[id] : Overlaid(new[id], rest)[x] = new[id][x]
      <4>1. DOMAIN new[id] \cup DOMAIN rest = DOMAIN new[id]
        BY <3>4
      <4> QED
        BY <4>1, OverlaidFields, Zenon
    <3>6. Overlaid(new[id], rest) = new[id]
      BY <3>3, <3>5, SameFields
    <3> QED
      BY <3>1, <3>2, <3>6
  <2>3. CASE id \in DOMAIN patch.upsert /\ ~(id \in DOMAIN kept /\ scope = "players")
    BY <2>3 DEF Leads
  <2> QED
    BY <2>1, <2>2, <2>3
<1>6. new = [id \in DOMAIN new |-> new[id]]
  BY DEF AreObjects, IsFields
<1> HIDE DEF Of
<1>7. shown = new
  BY <1>4, <1>5, <1>6
<1> QED
  BY <1>1, <1>7

(* The patch between two snapshots, adapted to a version, is such a patch  *)
(* in every scope: what cannot be cleared is sent in full (build_patch,    *)
(* adapt_outbound_patch).                                                  *)
LEMMA PatchLeads ==
  ASSUME NEW v, NEW old, NEW new, IsSnapshot(old), IsSnapshot(new), NEW scope \in CodecScopes
  PROVE  Leads(scope, old[scope], new[scope], AdaptOutboundPatch(v, BuildPatch(old, new))[scope])
<1> DEFINE o == old[scope]
           n == new[scope]
           due == {id \in DOMAIN n : id \notin DOMAIN o \/ o[id] # n[id]}
           clear(id) == IF id \in DOMAIN o /\ scope \in {"players", "player_marks"}
                        THEN ClearedFields(o[id], n[id]) ELSE {}
           plain == MapPatch(scope, o, n)
           sent == AdaptOutboundPatch(v, BuildPatch(old, new))[scope]
<1>1. BuildPatch(old, new)[scope] = plain
  BY DEF BuildPatch
<1>2. /\ DOMAIN plain.upsert = due /\ plain.delete = DOMAIN o \ DOMAIN n
      /\ \A id \in due : plain.upsert[id].data = n[id] /\ plain.upsert[id].clear_fields = clear(id)
      /\ \A id \in due : plain.upsert[id] = [data |-> n[id], clear_fields |-> clear(id)]
  <2> HIDE DEF o, n, clear
  <2>1. plain = [upsert |-> [id \in due |-> [data |-> n[id], clear_fields |-> clear(id)]],
                 delete |-> DOMAIN o \ DOMAIN n]
    BY DEF MapPatch, clear
  <2> QED
    BY <2>1
<1>3. \A id \in due :
        id \in DOMAIN o /\ scope = "players" => clear(id) = DOMAIN o[id] \ DOMAIN n[id]
  BY DEF ClearedFields
<1> HIDE DEF o, n, clear, plain
<1>4. CASE SupportsClearFields(v)
  <2>1. sent = plain
    BY <1>1, <1>4 DEF AdaptOutboundPatch
  <2> HIDE DEF sent
  <2> QED
    BY <1>2, <1>3, <2>1 DEF Leads, o, n, sent
<1>5. CASE ~SupportsClearFields(v)
  <2>1. sent = [upsert |-> [id \in DOMAIN plain.upsert |->
                              [plain.upsert[id] EXCEPT !.clear_fields = {}]],
                delete |-> plain.delete \cup
                           {id \in DOMAIN plain.upsert : plain.upsert[id].clear_fields # {}}]
    BY <1>1, <1>5 DEF AdaptOutboundPatch
  <2> HIDE DEF sent, due
  <2>2. /\ DOMAIN sent.upsert = due
        /\ sent.delete = (DOMAIN o \ DOMAIN n) \cup {id \in due : clear(id) # {}}
        /\ \A id \in due : sent.upsert[id] = [plain.upsert[id] EXCEPT !.clear_fields = {}]
    <3>1. {id \in due : plain.upsert[id].clear_fields # {}} = {id \in due : clear(id) # {}}
      BY <1>2
    <3> QED
      BY <1>2, <2>1, <3>1
  <2>3. \A id \in due : sent.upsert[id].data = n[id] /\ sent.upsert[id].clear_fields = {}
    BY <1>2, <2>2
  <2> QED
    BY <1>3, <2>2, <2>3 DEF Leads, o, n, sent, due
<1> QED
  BY <1>4, <1>5

(* So it makes the new snapshot out of the old one.                        *)
LEMMA PatchesAreExact ==
  ASSUME NEW v, NEW old, NEW new, IsSnapshot(old), IsSnapshot(new)
  PROVE  ApplyPatch(old, AdaptOutboundPatch(v, BuildPatch(old, new))) = new
<1> DEFINE patch == AdaptOutboundPatch(v, BuildPatch(old, new))
<1>1. \A scope \in CodecScopes : ApplyScope(scope, old[scope], patch[scope]) = new[scope]
  BY PatchLeads, LeadsToNew DEF IsSnapshot
<1> HIDE DEF patch
<1>2. ApplyPatch(old, patch) = [scope \in CodecScopes |-> new[scope]]
  BY <1>1 DEF ApplyPatch
<1> QED
  BY <1>2, Zenon DEF IsSnapshot, patch

(* Sessions.                                                               *)

(* What the relay knows of an accepted peer.                               *)
SoundSession(s) ==
  /\ s.version \in Nat /\ s.version >= 601
  /\ ForAcceptedPeer(s.claimed) = s.version
  /\ s.unreliable_positions <=> "movement" \in s.told

(* An accepted greeting leaves a session of a supported version, which     *)
(* expects positions by datagram exactly if it was told of that channel.   *)
LEMMA GreetedSession ==
  ASSUME NEW hello \in Hellos, Accepted(hello).version # NoVersion
  PROVE  SoundSession(Accepted(hello)) /\ Accepted(hello) # NoSession
<1> DEFINE s == Accepted(hello)
<1>1. hello.current \in Nat /\ hello.minimum \in Nat
  BY CodecAssumption
<1>2. /\ s.version = Negotiate(hello.current, hello.minimum)
      /\ s.claimed = hello.current
      /\ s.told = DownlinkChannels(hello)
      /\ s.unreliable_positions =
           IF hello.kind = "web_map"
           THEN "movement" \in AcceptsUnreliableChannels(hello) /\ hello.datagrams
           ELSE "movement" \in DownlinkChannels(hello)
  BY DEF Accepted
<1>3. s # NoSession
  BY DEF NoSession
<1> HIDE DEF s
<1>4. s.version \in Nat /\ s.version >= 601 /\ ForAcceptedPeer(s.claimed) = s.version
  BY <1>1, <1>2 DEF s, Negotiate, ForAcceptedPeer, MinimumVersion, CurrentVersion, NoVersion
<1>5. s.unreliable_positions <=> "movement" \in s.told
  <2>1. hello.kind = "web_map" =>
          ("movement" \in DownlinkChannels(hello)
             <=> "movement" \in AcceptsUnreliableChannels(hello) /\ hello.datagrams)
    BY Zenon DEF DownlinkChannels
  <2> QED
    BY <1>2, <2>1, Zenon
<1> QED
  BY <1>3, <1>4, <1>5, Zenon DEF SoundSession, s

-----------------------------------------------------------------------------
(* Digests.                                                                *)

(* Versions that share a digest ask for the same fields in it.             *)
SharesKey(v, w) ==
  /\ SupportsBattleChunkMode(v) <=> SupportsBattleChunkMode(w)
  /\ UsesStructuredBattleChunkDigest(v) <=> UsesStructuredBattleChunkDigest(w)
  /\ SupportsPlayerSourceMetadata(v) <=> SupportsPlayerSourceMetadata(w)
  /\ SupportsLastSeenPlayers(v) <=> SupportsLastSeenPlayers(w)

(* So do versions with the same key of a shared digest.                    *)
LEMMA KeyIsShared ==
  ASSUME NEW v \in Nat, NEW w \in Nat, DigestKey(v) = DigestKey(w)
  PROVE  SharesKey(v, w)
<1> DEFINE a == DigestKey(v)
           b == DigestKey(w)
<1>1. /\ a[1] = SupportsBattleChunkMode(v) /\ b[1] = SupportsBattleChunkMode(w)
      /\ a[2] = UsesStructuredBattleChunkDigest(v) /\ b[2] = UsesStructuredBattleChunkDigest(w)
      /\ a[3] = SupportsPlayerSourceMetadata(v) /\ b[3] = SupportsPlayerSourceMetadata(w)
      /\ a[4] = SupportsLastSeenPlayers(v) /\ b[4] = SupportsLastSeenPlayers(w)
  BY DEF DigestKey
<1>2. \A i \in 1 .. 4 : a[i] = b[i]
  OBVIOUS
<1> HIDE DEF a, b
<1>3. a[1] = b[1] /\ a[2] = b[2] /\ a[3] = b[3] /\ a[4] = b[4]
  BY <1>2
<1> QED
  BY <1>1, <1>3, Zenon DEF SharesKey

(* Their digests of their own projections are the same.                    *)
LEMMA DigestIsShared ==
  ASSUME NEW v, NEW u, NEW w, IsSnapshot(w), SharesKey(v, u)
  PROVE  SnapshotDigest(u, ProjectSnapshot(u, w)) = SnapshotDigest(v, ProjectSnapshot(v, w))
<1> DEFINE P(x) == ProjectSnapshot(x, w)
<1>1. \A x : \A scope \in CodecScopes : P(x)[scope] = Projected(x, scope, w[scope])
  BY ProjectionPerScope
<1>2. {"players", "battle_chunks", "last_seen_players"} \subseteq CodecScopes
  BY DEF CodecScopes
<1>3. \A scope \in {"players", "battle_chunks", "last_seen_players"} :
        \A m : Projected(u, scope, m) = Projected(v, scope, m)
  BY Zenon DEF Projected, SharesKey
<1> HIDE DEF P
<1>4. /\ P(u)["players"] = P(v)["players"] /\ P(u)["battle_chunks"] = P(v)["battle_chunks"]
      /\ P(u)["last_seen_players"] = P(v)["last_seen_players"]
  BY <1>1, <1>2, <1>3
<1>5. \A x : SnapshotDigest(x, P(x)) =
        [players |-> StateDigestPlain(
           IF SupportsPlayerSourceMetadata(x) THEN P(x)["players"]
           ELSE Without({"position_source"}, P(x)["players"])),
         battle_chunks |-> BattleDigest(x, P(x)["battle_chunks"]),
         last_seen_players |-> IF SupportsLastSeenPlayers(x)
                               THEN StateDigestPlain(P(x)["last_seen_players"]) ELSE NoDigest]
  BY Zenon DEF SnapshotDigest
<1>6. \A m : BattleDigest(u, m) = BattleDigest(v, m)
  <2>1. BattleDigestContract(u) = BattleDigestContract(v)
    BY Zenon DEF BattleDigestContract, SharesKey
  <2>2. \A chunk : BattleDigestData(u, chunk) = BattleDigestData(v, chunk)
    BY Zenon DEF BattleDigestData, SharesKey
  <2> QED
    BY <2>1, <2>2 DEF BattleDigest
<1>7. SnapshotDigest(u, P(u)) = SnapshotDigest(v, P(v))
  BY <1>4, <1>5, <1>6 DEF SharesKey
<1> QED
  BY <1>7 DEF P

-----------------------------------------------------------------------------
(* The invariant.                                                          *)

(* Each variable says something of every recipient.                        *)
OnRecipients ==
  /\ session = [r \in Recipients |-> session[r]]
  /\ delivered = [r \in Recipients |-> delivered[r]]

(* A client that got its patches in order shows the projection of its      *)
(* baseline; its digest, if it has one, is of that.                        *)
SoundClient(r) ==
  /\ IsSnapshot(delivered[r]) /\ view[r] = delivered[r]
  /\ session[r] = NoSession => delivered[r] = EmptySnapshot /\ digest[r] = NoDigest
  /\ session[r] # NoSession =>
       /\ SoundSession(session[r])
       /\ delivered[r] = ProjectSnapshot(session[r].version, delivered[r])
       /\ digest[r] \in {NoDigest, SnapshotDigest(session[r].version, view[r])}

(* The world is a snapshot, and every client with a session is sound.      *)
CodecInv ==
  /\ OnRecipients /\ IsSnapshot(world)
  /\ \A r \in Recipients : SoundClient(r)

(* Nothing is a snapshot, and is what every version sees of it.            *)
LEMMA EmptyIsSnapshot ==
  /\ IsSnapshot(EmptySnapshot)
  /\ \A v : ProjectSnapshot(v, EmptySnapshot) = EmptySnapshot
<1>1. AreObjects(<<>>) /\ DOMAIN <<>> = {}
  BY DEF AreObjects, IsFields
<1>2. IsSnapshot(EmptySnapshot)
  BY <1>1 DEF IsSnapshot, EmptySnapshot
<1>3. \A scope \in CodecScopes : EmptySnapshot[scope] = <<>>
  BY DEF EmptySnapshot
<1>4. \A F : Without(F, <<>>) = <<>>
  BY <1>1, WithoutFields, SameObjects
<1>5. \A v, scope : Projected(v, scope, <<>>) = <<>>
  BY <1>4 DEF Projected
<1>6. ASSUME NEW v PROVE ProjectSnapshot(v, EmptySnapshot) = EmptySnapshot
  <2>1. \A scope \in CodecScopes : ProjectSnapshot(v, EmptySnapshot)[scope] = EmptySnapshot[scope]
    BY <1>2, <1>3, <1>5, ProjectionPerScope
  <2> QED
    BY <1>2, <2>1, ProjectionPerScope, SameSnapshot
<1> QED
  BY <1>2, <1>6

(* The invariant holds at first.                                           *)
LEMMA CodecBegins == CodecInit => CodecInv
<1> SUFFICES ASSUME CodecInit PROVE CodecInv
  OBVIOUS
<1>1. OnRecipients
  BY DEF CodecInit, OnRecipients
<1>2. ASSUME NEW r \in Recipients PROVE SoundClient(r)
  BY EmptyIsSnapshot DEF CodecInit, SoundClient
<1> QED
  BY <1>1, <1>2, EmptyIsSnapshot DEF CodecInit, CodecInv

(* Steps that change the world alone keep it as long as the world is a     *)
(* snapshot.                                                               *)
LEMMA WorldChanges ==
  ASSUME CodecInv, IsSnapshot(world'),
         UNCHANGED <<session, delivered, force_full, view, digest>>
  PROVE  CodecInv'
BY Zenon DEF CodecInv, OnRecipients, SoundClient

(* It is, if the objects of one scope are replaced by objects.             *)
LEMMA ObjectsChange ==
  ASSUME NEW w, IsSnapshot(w), NEW scope \in CodecScopes, NEW m, AreObjects(m)
  PROVE  IsSnapshot([w EXCEPT ![scope] = m])
BY DEF IsSnapshot

(* One lemma per operation.                                                *)
LEMMA SetObjectStep ==
  ASSUME CodecInv, NEW scope \in CodecScopes, NEW id, NEW object, IsFields(object),
         SetObject(scope, id, object)
  PROVE  CodecInv'
<1> DEFINE new == Overlaid([i \in {id} |-> object], world[scope])
<1>1. world' = [world EXCEPT ![scope] = new]
  BY DEF SetObject
<1>2. AreObjects(world[scope])
  BY DEF CodecInv, IsSnapshot
<1>3. AreObjects(new)
  <2>1. IsFields(new) /\ DOMAIN new = {id} \cup DOMAIN world[scope]
    <3>1. DOMAIN [i \in {id} |-> object] = {id}
      OBVIOUS
    <3> QED
      BY <3>1, OverlaidFields, Zenon
  <2>2. \A x \in DOMAIN new : IsFields(new[x])
    BY <1>2 DEF Overlaid, AreObjects
  <2> QED
    BY <2>1, <2>2 DEF AreObjects
<1> HIDE DEF new
<1>4. IsSnapshot(world')
  BY <1>1, <1>3, ObjectsChange DEF CodecInv
<1> QED
  BY <1>4, WorldChanges DEF SetObject

(* An object is replaced.                                                  *)
LEMMA ReplaceStep ==
  ASSUME CodecInv, NEW scope \in CodecScopes, NEW id, NEW object \in CodecObjects(scope),
         NEW version, ReplaceObject(version, scope, id, object)
  PROVE  CodecInv'
<1>1. IsFields(object)
  BY DEF CodecObjects, CodecScopes, IsFields
<1>2. IsFields(NormalizePlayer(object))
  BY OverlaidFields DEF NormalizePlayer
<1>3. \A S : IsFields(Restrict(object, S))
  BY RestrictedFields
<1>4. \E final : IsFields(final) /\ SetObject(scope, id, final)
  BY <1>1, <1>2, <1>3 DEF ReplaceObject
<1> QED
  BY <1>4, SetObjectStep

(* A player is patched.                                                    *)
LEMMA PatchPlayerStep ==
  ASSUME CodecInv, NEW id, NEW upsert, PatchPlayer(id, upsert)
  PROVE  CodecInv'
<1>1. \E object : SetObject("players", id, NormalizePlayer(object))
  BY DEF PatchPlayer
<1>2. \A object : IsFields(NormalizePlayer(object))
  BY OverlaidFields DEF NormalizePlayer
<1>3. "players" \in CodecScopes
  BY DEF CodecScopes
<1> QED
  BY <1>1, <1>2, <1>3, SetObjectStep

(* An object is dropped.                                                   *)
LEMMA DropStep ==
  ASSUME CodecInv, NEW scope \in CodecScopes, NEW id, DropObject(scope, id)
  PROVE  CodecInv'
<1> DEFINE rest == DOMAIN world[scope] \ {id}
           new == Restrict(world[scope], rest)
<1>1. world' = [world EXCEPT ![scope] = new]
  BY DEF DropObject
<1>2. AreObjects(world[scope])
  BY DEF CodecInv, IsSnapshot
<1>3. AreObjects(new)
  BY <1>2, RestrictedFields DEF AreObjects
<1> HIDE DEF new
<1>4. IsSnapshot(world')
  BY <1>1, <1>3, ObjectsChange DEF CodecInv
<1> QED
  BY <1>4, WorldChanges DEF DropObject

(* A greeting is of a client that was sent nothing in this session.        *)
LEMMA GreetStep ==
  ASSUME CodecInv, NEW r \in Recipients, NEW hello \in Hellos, Greet(r, hello)
  PROVE  CodecInv'
<1>1. SoundSession(Accepted(hello)) /\ Accepted(hello) # NoSession
  BY GreetedSession DEF Greet
<1>2. /\ session' = [session EXCEPT ![r] = Accepted(hello)]
      /\ world' = world /\ delivered' = delivered /\ view' = view /\ digest' = digest
      /\ session[r] = NoSession
  BY DEF Greet
<1>3. OnRecipients'
  <2>1. session' = [q \in Recipients |-> session'[q]]
    BY <1>2 DEF CodecInv, OnRecipients
  <2> QED
    BY <1>2, <2>1, Zenon DEF CodecInv, OnRecipients
<1>4. \A q \in Recipients : session'[q] = IF q = r THEN Accepted(hello) ELSE session[q]
  BY <1>2 DEF CodecInv, OnRecipients
<1>5. ASSUME NEW q \in Recipients PROVE SoundClient(q)'
  <2>1. CASE q # r
    BY <1>2, <1>4, <2>1, Zenon DEF CodecInv, SoundClient
  <2>2. CASE q = r
    <3>1. /\ delivered[r] = EmptySnapshot /\ digest[r] = NoDigest /\ view[r] = delivered[r]
      BY <1>2, Zenon DEF CodecInv, SoundClient
    <3>2. session'[r] = Accepted(hello)
      BY <1>4
    <3> QED
      BY <1>1, <1>2, <2>2, <3>1, <3>2, EmptyIsSnapshot DEF SoundClient
  <2> QED
    BY <2>1, <2>2
<1> QED
  BY <1>2, <1>3, <1>5, Zenon DEF CodecInv

(* A broadcast computes one projection per epoch, one patch per group of   *)
(* clients that share baseline and payload, and one digest per key; each   *)
(* recipient shows its own projection afterwards (Relay::broadcast).       *)
LEMMA BroadcastStep ==
  ASSUME CodecInv, NEW digest_due \in BOOLEAN, BroadcastPatches(digest_due)
  PROVE  CodecInv'
<1> DEFINE Digested == {r \in Receivers : session[r].role = "player"}
<1>0. PICK projector \in {f \in [Receivers -> Receivers] :
                \A r, s \in Receivers :
                  SharesProjection(r, f[r]) /\ (SharesProjection(r, s) => f[r] = f[s])},
           builder \in {f \in [Receivers -> Receivers] :
                \A r, s \in Receivers :
                  SharesPayload(r, f[r]) /\ (SharesPayload(r, s) => f[r] = f[s])},
           digester \in {f \in [Digested -> Digested] :
                \A r, s \in Digested :
                  SharesDigest(r, f[r]) /\ (SharesDigest(r, s) => f[r] = f[s])} :
        LET target == [r \in Receivers |-> ProjectSnapshot(session[projector[r]].version, world)]
            patch(r) == AdaptOutboundPatch(session[builder[r]].version,
                                           BuildPatch(delivered[r], target[r]))
        IN /\ Receivers # {}
           /\ view' = [r \in Recipients |->
                IF r \notin Receivers THEN view[r]
                ELSE IF force_full[r] THEN target[r] ELSE ApplyPatch(view[r], patch(r))]
           /\ delivered' = Overlaid(target, delivered)
           /\ force_full' = [r \in Recipients |-> force_full[r] /\ r \notin Receivers]
           /\ digest' = [r \in Recipients |->
                IF r \in DOMAIN digester /\ digest_due
                THEN SnapshotDigest(session[digester[r]].version, target[digester[r]])
                ELSE NoDigest]
           /\ UNCHANGED <<world, session>>
  BY Zenon DEF BroadcastPatches
<1>1. /\ projector \in [Receivers -> Receivers] /\ builder \in [Receivers -> Receivers]
      /\ digester \in [Digested -> Digested]
      /\ \A r \in Receivers : SharesProjection(r, projector[r])
      /\ \A r \in Digested : SharesDigest(r, digester[r])
  BY <1>0
<1> DEFINE target == [r \in Receivers |-> ProjectSnapshot(session[projector[r]].version, world)]
           patch(r) == AdaptOutboundPatch(session[builder[r]].version,
                                          BuildPatch(delivered[r], target[r]))
<1>2. /\ view' = [r \in Recipients |->
             IF r \notin Receivers THEN view[r]
             ELSE IF force_full[r] THEN target[r] ELSE ApplyPatch(view[r], patch(r))]
      /\ delivered' = Overlaid(target, delivered)
      /\ digest' = [r \in Recipients |->
             IF r \in DOMAIN digester /\ digest_due
             THEN SnapshotDigest(session[digester[r]].version, target[digester[r]])
             ELSE NoDigest]
      /\ world' = world /\ session' = session
  BY <1>0, Zenon
<1>3. IsSnapshot(world) /\ OnRecipients /\ Receivers \subseteq Recipients
  BY DEF CodecInv, Receivers
<1>4. \A r \in Receivers : SoundSession(session[r])
  BY DEF CodecInv, SoundClient, Receivers, NoSession
<1>5. ASSUME NEW r \in Receivers
      PROVE  /\ target[r] = ProjectSnapshot(session[r].version, world)
             /\ IsSnapshot(target[r])
  <2>1. /\ projector[r] \in Receivers
        /\ FromVersion(session[projector[r]].version) = FromVersion(session[r].version)
    BY <1>1 DEF SharesProjection
  <2>2. Alike(session[projector[r]].version, session[r].version)
    BY <1>4, <2>1, EpochIsAlike DEF SoundSession
  <2>3. target[r] = ProjectSnapshot(session[projector[r]].version, world)
    OBVIOUS
  <2> HIDE DEF target
  <2> QED
    BY <1>3, <2>2, <2>3, ProjectionIsShared, ProjectionPerScope
<1>6. DOMAIN target = Receivers
  OBVIOUS
<1> HIDE DEF target
<1>7. /\ DOMAIN delivered' = Recipients
      /\ delivered' = [r \in Recipients |-> delivered'[r]]
      /\ \A r \in Receivers : delivered'[r] = target[r]
      /\ \A r \in Recipients \ Receivers : delivered'[r] = delivered[r]
  <2>1. DOMAIN delivered = Recipients
    BY <1>3 DEF OnRecipients
  <2>2. DOMAIN target \cup DOMAIN delivered = Recipients
    BY <1>3, <1>6, <2>1
  <2>3. IsFields(delivered') /\ DOMAIN delivered' = Recipients
    BY <1>2, <2>2, OverlaidFields
  <2>4. /\ \A r \in Receivers : delivered'[r] = target[r]
        /\ \A r \in Recipients \ Receivers : delivered'[r] = delivered[r]
    <3>1. /\ \A r \in DOMAIN target : Overlaid(target, delivered)[r] = target[r]
          /\ \A r \in DOMAIN delivered \ DOMAIN target :
               Overlaid(target, delivered)[r] = delivered[r]
      BY DEF Overlaid
    <3>2. delivered' = Overlaid(target, delivered)
      BY <1>2
    <3> QED
      BY <1>6, <2>1, <3>1, <3>2, Zenon
  <2> QED
    BY <2>3, <2>4, Zenon DEF IsFields
<1>8. ASSUME NEW r \in Receivers PROVE view'[r] = target[r]
  <2>1. r \in Recipients /\ IsSnapshot(delivered[r]) /\ view[r] = delivered[r]
    BY <1>3 DEF CodecInv, SoundClient
  <2>2. ApplyPatch(view[r], patch(r)) = target[r]
    BY <1>5, <2>1, PatchesAreExact
  <2> HIDE DEF patch
  <2> QED
    BY <1>2, <2>1, <2>2
<1>9. \A r \in Recipients \ Receivers : view'[r] = view[r]
  BY <1>2
<1> HIDE DEF patch
<1>10. ASSUME NEW r \in Receivers
       PROVE  digest'[r] \in {NoDigest, SnapshotDigest(session[r].version, target[r])}
  <2>1. CASE r \in Digested /\ digest_due
    <3>1. digester[r] \in Receivers /\ SharesDigest(r, digester[r])
      BY <1>1, <2>1
    <3> DEFINE v == session[r].version
               u == session[digester[r]].version
    <3>2. v \in Nat /\ u \in Nat
      BY <1>4, <3>1 DEF SoundSession
    <3>3. SharesKey(v, u)
      <4>1. DigestKey(v) = DigestKey(u)
        BY <3>1 DEF SharesDigest
      <4> HIDE DEF v, u
      <4> QED
        BY <3>2, <4>1, KeyIsShared
    <3>4. digest'[r] = SnapshotDigest(u, target[digester[r]])
      BY <1>1, <1>2, <1>3, <2>1
    <3>5. target[digester[r]] = ProjectSnapshot(u, world) /\ target[r] = ProjectSnapshot(v, world)
      BY <1>5, <3>1
    <3> HIDE DEF v, u
    <3>6. SnapshotDigest(u, target[digester[r]]) = SnapshotDigest(v, target[r])
      BY <1>3, <3>3, <3>5, DigestIsShared
    <3> QED
      BY <3>4, <3>6 DEF v
  <2>2. CASE ~(r \in Digested /\ digest_due)
    BY <1>1, <1>2, <1>3, <2>2
  <2> QED
    BY <2>1, <2>2
<1>11. \A r \in Recipients \ Receivers : digest'[r] = NoDigest
  BY <1>1, <1>2
<1> HIDE DEF Digested
<1>12. OnRecipients'
  BY <1>2, <1>3, <1>7, Zenon DEF OnRecipients
<1>13. ASSUME NEW r \in Recipients PROVE SoundClient(r)'
  <2>1. CASE r \in Receivers
    <3>1. session'[r] # NoSession /\ session'[r] = session[r]
      BY <1>2, <2>1 DEF Receivers, NoSession
    <3>2. delivered'[r] = target[r] /\ view'[r] = target[r]
      BY <1>7, <1>8, <2>1
    <3>3. target[r] = ProjectSnapshot(session[r].version, target[r])
      BY <1>3, <1>5, <2>1, ProjectionIsStable
    <3> QED
      BY <1>4, <1>5, <1>10, <2>1, <3>1, <3>2, <3>3, Zenon DEF SoundClient
  <2>2. CASE r \notin Receivers
    <3>1. /\ session'[r] = session[r] /\ delivered'[r] = delivered[r] /\ view'[r] = view[r]
          /\ digest'[r] = NoDigest
      BY <1>2, <1>7, <1>9, <1>11, <2>2
    <3>2. SoundClient(r)
      BY DEF CodecInv
    <3> QED
      BY <3>1, <3>2 DEF SoundClient
  <2> QED
    BY <2>1, <2>2
<1> QED
  BY <1>2, <1>3, <1>12, <1>13, Zenon DEF CodecInv

(* The invariant holds in every state.                                     *)
THEOREM CodecInvariant == CodecSpec => []CodecInv
<1>1. CodecInv /\ [CodecNext(CodecScopes)]_codec_vars => CodecInv'
  <2> SUFFICES ASSUME CodecInv, [CodecNext(CodecScopes)]_codec_vars PROVE CodecInv'
    OBVIOUS
  <2>1. ASSUME NEW r \in Recipients, NEW hello \in Hellos, Greet(r, hello) PROVE CodecInv'
    BY <2>1, GreetStep
  <2>2. ASSUME NEW scope \in CodecScopes, NEW id \in CodecIds, NEW object \in CodecObjects(scope),
               NEW version, ReplaceObject(version, scope, id, object)
        PROVE  CodecInv'
    BY <2>2, ReplaceStep
  <2>3. ASSUME NEW scope \in CodecScopes, NEW id \in CodecIds, DropObject(scope, id) PROVE CodecInv'
    BY <2>3, DropStep
  <2>4. ASSUME NEW id \in CodecIds, NEW upsert, PatchPlayer(id, upsert) PROVE CodecInv'
    BY <2>4, PatchPlayerStep
  <2>5. ASSUME NEW digest_due \in BOOLEAN, BroadcastPatches(digest_due) PROVE CodecInv'
    BY <2>5, BroadcastStep
  <2>6. CASE UNCHANGED codec_vars
    BY <2>6, WorldChanges DEF codec_vars, CodecInv
  <2> QED
    BY <2>1, <2>2, <2>3, <2>4, <2>5, <2>6, Zenon DEF CodecNext
<1> QED
  BY <1>1, CodecBegins, PTL DEF CodecSpec

(* The admin page.                                                         *)

(* The page works out the profile of every session again, from the version *)
(* the peer claimed: the counts are those of the sessions as they are.     *)
LEMMA OverviewIsExact ==
  ASSUME CodecInv
  PROVE  LET sessions == {r \in Recipients : session[r] # NoSession}
         IN /\ \A epoch \in Epochs : CompatibilityOverview.connections_by_epoch[epoch] =
                 Cardinality({r \in sessions : FromVersion(session[r].version) = epoch})
            /\ CompatibilityOverview.rules["FullSnapshotForClearFields"] =
                 Cardinality({r \in sessions : ~SupportsClearFields(session[r].version)})
<1> DEFINE sessions == {r \in Recipients : session[r] # NoSession}
           profile == [r \in sessions |-> ForAcceptedPeer(session[r].claimed)]
           rule == "FullSnapshotForClearFields"
<1>1. /\ \A epoch \in Epochs : CompatibilityOverview.connections_by_epoch[epoch] =
             Cardinality({r \in DOMAIN profile :
                            profile[r] # NoVersion /\ FromVersion(profile[r]) = epoch})
      /\ rule \in DOMAIN IntroducedIn => CompatibilityOverview.rules[rule] =
             Cardinality({r \in DOMAIN profile :
                            profile[r] # NoVersion /\ rule \in ActiveRules(profile[r])})
  BY DEF CompatibilityOverview
<1>2. /\ DOMAIN profile = sessions
      /\ \A r \in sessions : /\ profile[r] = session[r].version /\ profile[r] # NoVersion
                              /\ profile[r] \in Nat
  BY DEF CodecInv, SoundClient, SoundSession, NoVersion
<1>3. /\ rule \in DOMAIN IntroducedIn
      /\ \A v \in Nat : rule \in ActiveRules(v) <=> ~SupportsClearFields(v)
  BY DEF IntroducedIn, ActiveRules, SupportsClearFields
<1> HIDE DEF profile, sessions, rule
<1>4. \A epoch : {r \in DOMAIN profile : profile[r] # NoVersion /\ FromVersion(profile[r]) = epoch}
                  = {r \in sessions : FromVersion(session[r].version) = epoch}
  BY <1>2
<1>5. {r \in DOMAIN profile : profile[r] # NoVersion /\ rule \in ActiveRules(profile[r])}
      = {r \in sessions : ~SupportsClearFields(session[r].version)}
  BY <1>2, <1>3
<1> QED
  BY <1>1, <1>3, <1>4, <1>5, Zenon DEF sessions, rule

(* For any versions and contents, a client that gets its patches in order  *)
(* shows what its version may see of its baseline, its digest is of that,  *)
(* and the page counts clients by what they get (Relay::broadcast,         *)
(* adapt_outbound_patch, compatibility_overview).                          *)
THEOREM PatchesAreUnderstood == CodecSpec => []PatchesLeadToProjection
<1>1. CodecInv => PatchesLeadToProjection
  <2> SUFFICES ASSUME CodecInv PROVE PatchesLeadToProjection
    OBVIOUS
  <2>1. ASSUME NEW r \in {q \in Recipients : session[q] # NoSession}
        PROVE  /\ view[r] = delivered[r]
               /\ delivered[r] = ProjectSnapshot(session[r].version, delivered[r])
               /\ digest[r] \in {NoDigest, SnapshotDigest(session[r].version, view[r])}
               /\ session[r].unreliable_positions <=> "movement" \in session[r].told
    BY ZenonT(30) DEF CodecInv, SoundClient, SoundSession
  <2> QED
    BY <2>1, OverviewIsExact, Zenon DEF PatchesLeadToProjection
<1> QED
  BY <1>1, CodecInvariant, PTL

-----------------------------------------------------------------------------
(* The highest rank counts first, then the latest time, then the least id. *)
Ranked(S, rank, time, bound) ==
  \A s \in S : rank[s] \in 0 .. 2 /\ time[s] \in -1 .. bound

IsBest(s, S, rank, time) ==
  \A t \in S \ {s} :
    \/ rank[s] > rank[t]
    \/ /\ rank[s] = rank[t]
       /\ \/ time[s] > time[t]
          \/ time[s] = time[t] /\ s < t

(* A set of candidates whose ranks and times are bounded has a best one.   *)
LEMMA BestOf ==
  ASSUME NEW S \in SUBSET Nat, S # {}, NEW rank, NEW time, NEW bound \in Nat,
         Ranked(S, rank, time, bound)
  PROVE  \E s \in S : IsBest(s, S, rank, time)
<1> USE DEF Ranked
<1> DEFINE Ranks == {rank[s] : s \in S}
<1>1. PICK r \in Ranks : \A q \in Ranks : q <= r
  <2>1. Ranks # {} /\ \A q \in Ranks : q \in 0 .. 2
    OBVIOUS
  <2>2. Ranks \in SUBSET Nat /\ \A q \in Ranks : q <= 2
    BY <2>1
  <2> HIDE DEF Ranks
  <2> QED
    BY <2>1, <2>2, GreatestNumber
<1> DEFINE Highest == {s \in S : rank[s] = r}
           Times == {time[s] + 1 : s \in Highest}
<1>2. Highest # {} /\ \A t \in S \ Highest : r > rank[t]
  BY <1>1
<1>3. PICK m \in Times : \A q \in Times : q <= m
  <2>1. Times \in SUBSET Nat /\ Times # {} /\ \A q \in Times : q <= bound + 1
    BY <1>2
  <2>2. bound + 1 \in Nat
    OBVIOUS
  <2> HIDE DEF Times
  <2> QED
    BY <2>1, <2>2, GreatestNumber
<1> DEFINE Newest == {s \in Highest : time[s] + 1 = m}
<1>4. Newest # {} /\ Newest \in SUBSET Nat
  BY <1>3
<1>5. PICK s \in Newest : \A t \in Newest : s <= t
  <2> HIDE DEF Newest
  <2> QED
    BY <1>4, LeastNumber
<1>6. ASSUME NEW t \in S \ {s}
      PROVE  \/ rank[s] > rank[t]
             \/ /\ rank[s] = rank[t]
                /\ \/ time[s] > time[t]
                   \/ time[s] = time[t] /\ s < t
  <2>1. s \in S /\ rank[s] = r /\ time[s] + 1 = m
    OBVIOUS
  <2>2. CASE t \notin Highest
    BY <1>2, <1>6, <2>1, <2>2
  <2>3. CASE t \in Highest /\ t \notin Newest
    <3>1. time[t] + 1 <= m /\ time[t] + 1 # m
      BY <1>3, <2>3
    <3> QED
      BY <2>1, <2>3, <3>1
  <2>4. CASE t \in Newest
    BY <1>4, <1>5, <1>6, <2>1, <2>4
  <2> QED
    BY <2>2, <2>3, <2>4
<1> QED
  BY <1>6 DEF IsBest

-----------------------------------------------------------------------------
(* Arbitration.  The times of reports are at most now, so of the sources   *)
(* that report an object one is the best.                                  *)
Reported(received, n) == \A s \in Sources, o \in Objects : received[s][o] \in NoTime .. n

(* The best and the latest of some sources are among them.                 *)
LEMMA BestIsCandidate ==
  ASSUME NEW n \in Nat, NEW received, Reported(received, n), NEW o \in Objects,
         NEW S \in SUBSET Sources, S # {}
  PROVE  Best(received, o, S) \in S /\ Latest(received, o, S) \in S
<1>1. S \in SUBSET Nat /\ NoTime = -1
  BY ArbitrationAssumption DEF NoTime
<1> DEFINE rank == [s \in S |-> Priority(o, s)]
           same == [s \in S |-> 0]
           time == [s \in S |-> received[s][o]]
<1>2. Ranked(S, rank, time, n) /\ Ranked(S, same, time, n)
  <2>1. \A s \in S : Priority(o, s) \in 0 .. 2
    BY DEF Priority
  <2>2. \A s \in S : received[s][o] \in -1 .. n
    BY <1>1 DEF Reported
  <2> QED
    BY <2>1, <2>2 DEF Ranked
<1>3. PICK s \in S : IsBest(s, S, rank, time)
  <2> HIDE DEF rank, same, time
  <2> QED
    BY <1>1, <1>2, BestOf
<1>4. PICK l \in S : IsBest(l, S, same, time)
  <2> HIDE DEF rank, same, time
  <2> QED
    BY <1>1, <1>2, BestOf
<1>5. \E b \in S : \A t \in S \ {b} :
        \/ Priority(o, b) > Priority(o, t)
        \/ Priority(o, b) = Priority(o, t) /\ Later(received, o, b, t)
  BY <1>3 DEF Later, IsBest
<1>6. \E b \in S : \A t \in S \ {b} : Later(received, o, b, t)
  BY <1>4 DEF Later, IsBest
<1>7. Best(received, o, S) \in S
  BY <1>5, Zenon DEF Best
<1>8. Latest(received, o, S) \in S
  BY <1>6, Zenon DEF Latest
<1> QED
  BY <1>7, <1>8

(* A selection of a scope chooses among its sources.                       *)
SelectionsOf(scope) ==
  [selected : [Objects -> scope \cup {NoSource}],
   seen : [PlayerObjects -> [GameSources -> Int]]]

SelectionTables ==
  {table \in UNION {[D -> SelectionsOf(Sources)] : D \in SUBSET SUBSET Sources} :
     /\ Sources \in DOMAIN table
     /\ \A scope \in DOMAIN table : table[scope] \in SelectionsOf(scope)}

(* What a table of selections is, and what makes one.                      *)
LEMMA TableFacts ==
  /\ \A table \in SelectionTables :
       /\ DOMAIN table \in SUBSET SUBSET Sources /\ Sources \in DOMAIN table
       /\ table \in [DOMAIN table -> SelectionsOf(Sources)]
       /\ \A scope \in DOMAIN table : table[scope] \in SelectionsOf(scope)
  /\ \A D \in SUBSET SUBSET Sources : \A table :
       /\ table \in [D -> SelectionsOf(Sources)] /\ Sources \in D
       /\ \A scope \in D : table[scope] \in SelectionsOf(scope)
       => table \in SelectionTables
<1>1. ASSUME NEW table \in SelectionTables
      PROVE  /\ DOMAIN table \in SUBSET SUBSET Sources /\ Sources \in DOMAIN table
             /\ table \in [DOMAIN table -> SelectionsOf(Sources)]
             /\ \A scope \in DOMAIN table : table[scope] \in SelectionsOf(scope)
  <2>1. PICK D \in SUBSET SUBSET Sources : table \in [D -> SelectionsOf(Sources)]
    BY <1>1 DEF SelectionTables
  <2> QED
    BY <1>1, <2>1 DEF SelectionTables
<1>2. ASSUME NEW D \in SUBSET SUBSET Sources, NEW table,
             table \in [D -> SelectionsOf(Sources)], Sources \in D,
             \A scope \in D : table[scope] \in SelectionsOf(scope)
      PROVE  table \in SelectionTables
  <2>1. DOMAIN table = D
    BY <1>2
  <2>2. table \in UNION {[E -> SelectionsOf(Sources)] : E \in SUBSET SUBSET Sources}
    BY <1>2
  <2> QED
    BY <1>2, <2>1, <2>2 DEF SelectionTables
<1> QED
  BY <1>1, <1>2

(* The sources of a scope are sources, and nothing may be selected.        *)
LEMMA ScopesGrow ==
  \A scope \in SUBSET Sources : SelectionsOf(scope) \subseteq SelectionsOf(Sources)
<1> SUFFICES ASSUME NEW scope \in SUBSET Sources, NEW sel \in SelectionsOf(scope)
             PROVE  sel \in SelectionsOf(Sources)
  OBVIOUS
<1>1. sel.selected \in [Objects -> Sources \cup {NoSource}]
  BY DEF SelectionsOf
<1> QED
  BY <1>1 DEF SelectionsOf

(* To have selected nothing is a selection.                                *)
LEMMA NothingIsSelection == \A scope : NothingSelected \in SelectionsOf(scope)
<1>1. [o \in PlayerObjects |-> [s \in GameSources |-> NoTime]]
        \in [PlayerObjects -> [GameSources -> Int]]
  BY DEF NoTime
<1> QED
  BY <1>1 DEF NothingSelected, SelectionsOf

-----------------------------------------------------------------------------
(* What build_room_snapshot leaves behind.                                 *)
LEMMA SnapshotSelects ==
  ASSUME arbitration_now \in Nat, NEW received, Reported(received, arbitration_now),
         NEW scope \in SUBSET Sources, NEW found \in SelectionsOf(scope)
  PROVE  BuildRoomSnapshot(received, scope, found) \in SelectionsOf(scope)
<1> DEFINE built == BuildRoomSnapshot(received, scope, found)
           S(o) == CollectCandidates(received, scope, o)
<1>1. \A o : S(o) \in SUBSET scope /\ S(o) \in SUBSET Sources
  BY DEF CollectCandidates
<1>2. /\ found.selected \in [Objects -> scope \cup {NoSource}]
      /\ found.seen \in [PlayerObjects -> [GameSources -> Int]]
  BY DEF SelectionsOf
<1>3. Objects = PlayerObjects \cup EntityObjects /\ NoTime \in Int
  BY DEF Objects, NoTime
<1>4. \A o \in PlayerObjects : SeenSince(S(o), found.seen[o]) \in [GameSources -> Int]
  BY <1>2, <1>3 DEF SeenSince
<1> HIDE DEF S
<1>5. ASSUME NEW o \in Objects, NEW seen
      PROVE  ResolvePlayerCandidate(received, o, S(o), found.selected[o], seen)
               \in scope \cup {NoSource}
  <2> DEFINE external == S(o) \cap ExternalSources
             game == S(o) \cap GameSources
             old == found.selected[o]
             latest == Latest(received, o, external)
             best == Best(received, o, game)
             result == ResolvePlayerCandidate(received, o, S(o), old, seen)
  <2>1. external \in SUBSET Sources /\ game \in SUBSET Sources
        /\ external \subseteq scope /\ game \subseteq scope
    BY <1>1
  <2>2. (external # {} => latest \in scope) /\ (game # {} => best \in scope)
    BY <2>1, BestIsCandidate
  <2>3. old \in scope \cup {NoSource}
    BY <1>2
  <2>4. S(o) # {} /\ game = {} => external # {}
    BY <1>1 DEF Sources
  <2>5. /\ result \in {NoSource, latest, best, old}
        /\ \/ result = NoSource
           \/ game = {} /\ external # {} /\ result \in {latest, old}
           \/ game # {} /\ external = {} /\ result \in {best, old}
           \/ game # {} /\ external # {}
    BY <2>4 DEF ResolvePlayerCandidate
  <2> HIDE DEF external, game, latest, best, result
  <2>6. result \in scope \cup {NoSource}
    BY <2>2, <2>3, <2>5
  <2> QED
    BY <2>6 DEF result
<1>6. ASSUME NEW o \in Objects
      PROVE  ResolveCandidate(received, o, S(o), found.selected[o]) \in scope \cup {NoSource}
  <2>1. S(o) # {} => Best(received, o, S(o)) \in scope
    BY <1>1, BestIsCandidate
  <2>2. found.selected[o] \in scope \cup {NoSource}
    BY <1>2
  <2> QED
    BY <2>1, <2>2 DEF ResolveCandidate
<1>7. built.selected \in [Objects -> scope \cup {NoSource}]
  BY <1>5, <1>6 DEF BuildRoomSnapshot, S
<1>8. built.seen \in [PlayerObjects -> [GameSources -> Int]]
  BY <1>4 DEF BuildRoomSnapshot, S
<1>9. built = [selected |-> built.selected, seen |-> built.seen]
  BY DEF BuildRoomSnapshot
<1> HIDE DEF built
<1>10. built \in SelectionsOf(scope)
  BY <1>7, <1>8, <1>9 DEF SelectionsOf
<1> QED
  BY <1>10 DEF built

(* One more scope in the table.                                            *)
LEMMA RoomIsMade ==
  ASSUME NEW table \in SelectionTables, NEW scope
  PROVE  /\ MakeRoom(table, scope) \in SelectionTables
         /\ DOMAIN MakeRoom(table, scope) \subseteq DOMAIN table
         /\ \A key \in DOMAIN MakeRoom(table, scope) : MakeRoom(table, scope)[key] = table[key]
<1>1. /\ DOMAIN table \in SUBSET SUBSET Sources /\ Sources \in DOMAIN table
      /\ table \in [DOMAIN table -> SelectionsOf(Sources)]
      /\ \A key \in DOMAIN table : table[key] \in SelectionsOf(key)
  BY TableFacts
<1> DEFINE less == Restrict(table, {Sources})
<1>2. less = [key \in {Sources} |-> table[key]]
  BY <1>1 DEF Restrict
<1>3. /\ {Sources} \in SUBSET SUBSET Sources
      /\ less \in [{Sources} -> SelectionsOf(Sources)]
      /\ \A key \in {Sources} : less[key] \in SelectionsOf(key)
  BY <1>1, <1>2
<1>4. less \in SelectionTables
  BY <1>3, TableFacts
<1>5. DOMAIN less \subseteq DOMAIN table /\ \A key \in DOMAIN less : less[key] = table[key]
  BY <1>1, <1>2
<1> HIDE DEF less
<1> QED
  BY <1>4, <1>5 DEF MakeRoom, less

(* A scope selects among its own sources.                                  *)
LEMMA ScopeIsSelected ==
  ASSUME arbitration_now \in Nat, NEW received, Reported(received, arbitration_now),
         NEW scope \in SUBSET Sources, NEW table \in SelectionTables
  PROVE  SelectScope(received, table, scope) \in SelectionTables
<1> DEFINE kept == MakeRoom(table, scope)
           found == IF scope \in DOMAIN kept THEN kept[scope] ELSE NothingSelected
           built == BuildRoomSnapshot(received, scope, found)
           after == [key \in DOMAIN kept \cup {scope} |-> IF key = scope THEN built ELSE kept[key]]
<1>1. /\ DOMAIN kept \in SUBSET SUBSET Sources /\ Sources \in DOMAIN kept
      /\ kept \in [DOMAIN kept -> SelectionsOf(Sources)]
      /\ \A key \in DOMAIN kept : kept[key] \in SelectionsOf(key)
  BY RoomIsMade, TableFacts
<1>2. SelectScope(received, table, scope) = after
  BY DEF SelectScope
<1> HIDE DEF kept
<1>3. found \in SelectionsOf(scope)
  BY <1>1, NothingIsSelection
<1> HIDE DEF found
<1>4. built \in SelectionsOf(scope) /\ built \in SelectionsOf(Sources)
  BY <1>3, SnapshotSelects, ScopesGrow
<1> HIDE DEF built
<1>5. /\ DOMAIN kept \cup {scope} \in SUBSET SUBSET Sources
      /\ Sources \in DOMAIN kept \cup {scope}
      /\ after \in [DOMAIN kept \cup {scope} -> SelectionsOf(Sources)]
      /\ \A key \in DOMAIN kept \cup {scope} : after[key] \in SelectionsOf(key)
  BY <1>1, <1>4
<1> HIDE DEF after
<1>6. after \in SelectionTables
  BY <1>5, TableFacts
<1> QED
  BY <1>2, <1>6

(* The fold of BroadcastTick goes through the scopes one after another.    *)
SelectAll(received, scopes) ==
  FoldLeft(LAMBDA table, scope : SelectScope(received, table, scope), selections, scopes)

IsSelectFold(fold, received, scopes) ==
  fold = [s \in SUBSET (DOMAIN scopes) |->
            IF s = {} THEN selections
            ELSE SelectScope(received, fold[s \ {Greatest(s)}], scopes[Greatest(s)])]

(* The selection of all scopes is a walk, a scope at a time.               *)
LEMMA SelectWalk ==
  ASSUME arbitration_now \in Nat, NEW received, Reported(received, arbitration_now),
         selections \in SelectionTables, NEW scopes \in Seq(SUBSET Sources)
  PROVE  \E walk \in [0 .. Len(scopes) -> SelectionTables] :
           /\ walk[0] = selections /\ walk[Len(scopes)] = SelectAll(received, scopes)
           /\ \A i \in 1 .. Len(scopes) :
                walk[i] = SelectScope(received, walk[i - 1], scopes[i])
<1>1. PICK n \in Nat : n = Len(scopes) /\ DOMAIN scopes = 1 .. n
                       /\ \A i \in 1 .. n : scopes[i] \in SUBSET Sources
  OBVIOUS
<1> DEFINE step == [p \in (1 .. n) \X SelectionTables |->
                      SelectScope(received, p[2], scopes[p[1]])]
<1>2. step \in [(1 .. n) \X SelectionTables -> SelectionTables]
  BY <1>1, ScopeIsSelected
<1>3. PICK h \in [SUBSET (1 .. n) -> SelectionTables] : SolvesLoop(h, n, selections, step)
  <2> HIDE DEF step
  <2> QED
    BY <1>2, Loop
<1>4. IsSelectFold(h, received, scopes)
  <2>1. ASSUME NEW s \in SUBSET (1 .. n)
        PROVE  h[s] = IF s = {} THEN selections
                      ELSE SelectScope(received, h[s \ {Greatest(s)}], scopes[Greatest(s)])
    <3>1. CASE s = {}
      BY <1>3, <3>1 DEF SolvesLoop
    <3>2. CASE s # {}
      <4>1. Greatest(s) \in 1 .. n /\ h[s \ {Greatest(s)}] \in SelectionTables
        BY <3>2, GreatestOf
      <4>2. h[s] = step[<<Greatest(s), h[s \ {Greatest(s)}]>>]
        BY <1>3, <3>2 DEF SolvesLoop
      <4> QED
        BY <3>2, <4>1, <4>2
    <3> QED
      BY <3>1, <3>2
  <2>2. h = [s \in SUBSET (1 .. n) |-> h[s]]
    OBVIOUS
  <2> QED
    BY <1>1, <2>1, <2>2, Zenon DEF IsSelectFold
<1> DEFINE fold == CHOOSE f : IsSelectFold(f, received, scopes)
<1>5. IsSelectFold(fold, received, scopes)
  BY <1>4, Zenon
<1>6. SelectAll(received, scopes) = fold[1 .. n]
  BY <1>1, Zenon DEF SelectAll, FoldLeft, MapThenFoldSet, IsSelectFold, Max, Greatest
<1> HIDE DEF fold
<1>7. /\ fold[{}] = selections
      /\ \A i \in 1 .. n : fold[1 .. i] = SelectScope(received, fold[1 .. (i - 1)], scopes[i])
  <2>1. \A s \in SUBSET (1 .. n) :
          fold[s] = IF s = {} THEN selections
                    ELSE SelectScope(received, fold[s \ {Greatest(s)}], scopes[Greatest(s)])
    BY <1>1, <1>5, Zenon DEF IsSelectFold
  <2>2. fold[{}] = selections
    BY <2>1
  <2>3. ASSUME NEW i \in 1 .. n
        PROVE  fold[1 .. i] = SelectScope(received, fold[1 .. (i - 1)], scopes[i])
    <3>1. /\ 1 .. i \in SUBSET (1 .. n) /\ 1 .. i # {}
          /\ Greatest(1 .. i) = i /\ (1 .. i) \ {i} = 1 .. (i - 1)
      BY GreatestOfInterval
    <3> QED
      BY <2>1, <3>1, Zenon
  <2> QED
    BY <2>2, <2>3
<1>8. TakesSteps(fold, n, SelectionTables, selections, step)
  <2>1. ASSUME NEW i \in 1 .. n, fold[1 .. (i - 1)] \in SelectionTables
        PROVE  fold[1 .. i] = step[<<i, fold[1 .. (i - 1)]>>]
    BY <1>7, <2>1
  <2> QED
    BY <1>7, <2>1 DEF TakesSteps
<1>9. HasWalk(n, SelectionTables, selections, step, fold[1 .. n])
  BY <1>2, <1>8, LoopWalk
<1>10. PICK walk : IsWalk(walk, n, SelectionTables, selections, step) /\ walk[n] = fold[1 .. n]
  BY <1>9 DEF HasWalk
<1>11. walk \in [0 .. n -> SelectionTables] /\ walk[0] = selections
  BY <1>10 DEF IsWalk
<1>12. ASSUME NEW i \in 1 .. n
       PROVE  walk[i] = SelectScope(received, walk[i - 1], scopes[i])
  <2>1. walk[i - 1] \in SelectionTables
    <3>1. i - 1 \in 0 .. n
      OBVIOUS
    <3> QED
      BY <1>11, <3>1
  <2>2. walk[i] = step[<<i, walk[i - 1]>>]
    BY <1>10 DEF IsWalk
  <2> QED
    BY <2>1, <2>2
<1> QED
  BY <1>1, <1>6, <1>10, <1>11, <1>12

(* Sources and times are of their kinds, and each scope selects among its  *)
(* own sources.                                                            *)
ArbitrationInv ==
  /\ active_sources \subseteq Sources
  /\ arbitration_now \in Nat
  /\ received_at \in [Sources -> [Objects -> Int]]
  /\ Reported(received_at, arbitration_now)
  /\ tab_players \in [Sources -> SUBSET Names]
  /\ selections \in SelectionTables

(* cleanup_timeouts, and the scopes of the recipients.                     *)
LEMMA TimelyReports ==
  ASSUME ArbitrationInv
  PROVE  Reported(Timely, arbitration_now) /\ Timely \in [Sources -> [Objects -> Int]]
<1>1. ASSUME NEW s \in Sources, NEW o \in Objects
      PROVE  Timely[s][o] \in NoTime .. arbitration_now
  BY DEF ArbitrationInv, Reported, Timely, NoTime
<1>2. \A s \in Sources, o \in Objects : Timely[s][o] \in Int
  BY <1>1 DEF NoTime, ArbitrationInv
<1>3. Timely = [s \in Sources |-> [o \in Objects |-> Timely[s][o]]]
  BY DEF Timely
<1> HIDE DEF Timely
<1> QED
  BY <1>1, <1>2, <1>3 DEF Reported

(* The scopes of recipients are finitely many sets of sources, none of     *)
(* which is all of them.                                                   *)
LEMMA AllowedAreSources ==
  ASSUME ArbitrationInv
  PROVE  /\ \A scope \in RecipientScopes : scope \in SUBSET Sources /\ scope # Sources
         /\ IsFiniteSet(RecipientScopes) /\ IsFiniteSet(SUBSET Sources)
<1>1. \A id : AllowedSourcesForPlayer(id) \subseteq active_sources
  BY DEF AllowedSourcesForPlayer
<1>2. \A scope \in RecipientScopes : scope \subseteq active_sources /\ scope # active_sources
  BY <1>1 DEF RecipientScopes
<1>3. \A scope \in RecipientScopes : scope \in SUBSET Sources /\ scope # Sources
  BY <1>2 DEF ArbitrationInv
<1>4. IsFiniteSet(SUBSET Sources)
  BY FS_SUBSET, ArbitrationAssumption
<1>5. RecipientScopes \in SUBSET SUBSET Sources
  BY <1>3
<1> QED
  BY <1>3, <1>4, <1>5, FS_Subset

(* The sequence of scopes of one broadcast.                                *)
LEMMA ScopesInTurn ==
  ASSUME ArbitrationInv, NEW order \in SetToSeqs(RecipientScopes)
  PROVE  /\ <<Sources>> \o order \in Seq(SUBSET Sources)
         /\ \A i \in 1 .. Len(<<Sources>> \o order) :
              (<<Sources>> \o order)[i] \in RecipientScopes \cup {Sources}
         /\ \A i, j \in 1 .. Len(<<Sources>> \o order) :
              i # j => (<<Sources>> \o order)[i] # (<<Sources>> \o order)[j]
<1> DEFINE n == Cardinality(RecipientScopes)
           scopes == <<Sources>> \o order
<1>1. n \in Nat
  BY AllowedAreSources, FS_CardinalityType
<1>2. order \in [1 .. n -> RecipientScopes] /\ \A i, j \in 1 .. n : i # j => order[i] # order[j]
  BY DEF SetToSeqs
<1> HIDE DEF n
<1>3. order \in Seq(SUBSET Sources) /\ Len(order) = n
  <2>1. order \in [1 .. n -> SUBSET Sources]
    BY <1>2, AllowedAreSources
  <2> QED
    BY <1>1, <2>1
<1>4. /\ scopes \in Seq(SUBSET Sources) /\ Len(scopes) = n + 1 /\ scopes[1] = Sources
      /\ \A i \in 1 .. n + 1 : i # 1 => i - 1 \in 1 .. n /\ scopes[i] = order[i - 1]
  BY <1>1, <1>3
<1> HIDE DEF scopes
<1>5. \A i \in 1 .. n + 1 : i # 1 => scopes[i] \in RecipientScopes
  BY <1>2, <1>4
<1>6. \A i \in 1 .. n + 1 : scopes[i] \in RecipientScopes \cup {Sources}
  BY <1>4, <1>5
<1>7. ASSUME NEW i \in 1 .. n + 1, NEW j \in 1 .. n + 1, i # j
      PROVE  scopes[i] # scopes[j]
  <2>1. CASE i = 1 \/ j = 1
    BY <1>4, <1>5, <1>7, <2>1, AllowedAreSources
  <2>2. CASE i # 1 /\ j # 1
    <3>1. i - 1 \in 1 .. n /\ j - 1 \in 1 .. n /\ i - 1 # j - 1
      BY <1>1, <1>4, <1>7, <2>2
    <3> QED
      BY <1>2, <1>4, <2>2, <3>1
  <2> QED
    BY <2>1, <2>2
<1> QED
  BY <1>4, <1>6, <1>7 DEF scopes

(* Why the selection of one scope changes.                                 *)
LEMMA SwitchReason ==
  ASSUME arbitration_now \in Nat, NEW received, Reported(received, arbitration_now),
         NEW scope \in SUBSET Sources, NEW found \in SelectionsOf(scope), NEW o \in Objects
  PROVE  LET built == BuildRoomSnapshot(received, scope, found)
             old == found.selected[o]
             new == built.selected[o]
         IN old \in {new, NoSource} \/ Reason(received, o, old, new, built.seen)
<1> DEFINE built == BuildRoomSnapshot(received, scope, found)
           S == CollectCandidates(received, scope, o)
           old == found.selected[o]
           new == built.selected[o]
           seen == SeenSince(S, found.seen[o])
<1> SUFFICES ASSUME old # new, old # NoSource
             PROVE  Reason(received, o, old, new, built.seen)
  OBVIOUS
<1>1. old \in scope
  BY DEF SelectionsOf
<1>2. old \notin S => received[old][o] = NoTime
  BY <1>1 DEF CollectCandidates
<1>3. S \in SUBSET Sources /\ S \subseteq scope
  BY DEF CollectCandidates
<1>4. CASE o \in PlayerObjects
  <2> DEFINE external == S \cap ExternalSources
             game == S \cap GameSources
             best == Best(received, o, game)
  <2> SUFFICES ASSUME old \in S PROVE Reason(received, o, old, new, built.seen)
    BY <1>2 DEF Reason
  <2>1. new = ResolvePlayerCandidate(received, o, S, old, seen) /\ built.seen[o] = seen
    BY <1>4 DEF BuildRoomSnapshot
  <2>2. game # {} => best \in game
    <3>1. game \in SUBSET Sources
      BY <1>3
    <3> QED
      BY <3>1, BestIsCandidate
  <2>3. old \in external \/ old \in game
    BY <1>3 DEF Sources
  <2> HIDE DEF seen, built, new
  <2>4. CASE old \in game
    <3>1. new = best /\ Priority(o, best) > Priority(o, old)
      BY <2>1, <2>4 DEF ResolvePlayerCandidate
    <3>2. o = best
      BY <1>4, <3>1, ArbitrationAssumption DEF Priority
    <3> QED
      BY <1>4, <2>2, <2>4, <3>1, <3>2 DEF Reason
  <2>5. CASE old \in external /\ old \notin game
    <3>1. game # {} /\ new = best /\ arbitration_now - seen[best] >= GameTakeoverDelay
      BY <2>1, <2>5 DEF ResolvePlayerCandidate
    <3>2. seen[best] # NoTime
      BY <2>2, <3>1 DEF seen, SeenSince, NoTime
    <3> QED
      BY <1>4, <2>1, <2>2, <2>5, <3>1, <3>2 DEF Reason
  <2> QED
    BY <2>3, <2>4, <2>5
<1>5. CASE o \notin PlayerObjects
  <2>1. new = ResolveCandidate(received, o, S, old) /\ o \in EntityObjects
    BY <1>5 DEF BuildRoomSnapshot, Objects
  <2> SUFFICES ASSUME old \in S PROVE Reason(received, o, old, new, built.seen)
    BY <1>2 DEF Reason
  <2>2. Best(received, o, S) \in S
    BY <1>3, BestIsCandidate
  <2> HIDE DEF built, new
  <2>3. new = Best(received, o, S) /\ ~(received[new][o] - received[old][o] <= SwitchThreshold)
    BY <2>1 DEF ResolveCandidate
  <2>4. received[new][o] \in Int /\ received[old][o] \in Int /\ SwitchThreshold \in Int
    <3>1. new \in Sources /\ old \in Sources
      BY <1>3, <2>2, <2>3
    <3>2. \A s \in Sources : received[s][o] \in Int
      BY DEF Reported, NoTime
    <3>3. SwitchThreshold \in Nat
      BY ArbitrationAssumption, Zenon
    <3> QED
      BY <3>1, <3>2, <3>3
  <2> QED
    BY <2>1, <2>3, <2>4 DEF Reason
<1> QED
  BY <1>4, <1>5

(* While the table of scopes does not overflow, one scope more leaves the  *)
(* others.                                                                 *)
LEMMA ScopeAdded ==
  ASSUME arbitration_now \in Nat, NEW received, Reported(received, arbitration_now),
         NEW table \in SelectionTables, NEW all, IsFiniteSet(all), DOMAIN table \subseteq all,
         Cardinality(all) <= ScopedLimit + 1, NEW scope \in all, scope \in SUBSET Sources
  PROVE  LET after == SelectScope(received, table, scope)
         IN /\ DOMAIN after = DOMAIN table \cup {scope}
            /\ \A key \in DOMAIN table : key # scope => after[key] = table[key]
            /\ scope \in DOMAIN table =>
                 after[scope] = BuildRoomSnapshot(received, scope, table[scope])
<1>1. MakeRoom(table, scope) = table
  <2>1. CASE scope \in DOMAIN table
    BY <2>1 DEF MakeRoom
  <2>2. CASE scope \notin DOMAIN table
    <3>1. Sources \in all /\ scope # Sources
      BY <2>2, TableFacts
    <3>2. /\ IsFiniteSet(all \ {Sources}) /\ Cardinality(all \ {Sources}) = Cardinality(all) - 1
          /\ Cardinality(all) \in Nat
      BY <3>1, FS_RemoveElement, FS_CardinalityType
    <3>3. scope \in all \ {Sources}
      BY <3>1
    <3>4. /\ IsFiniteSet((all \ {Sources}) \ {scope})
          /\ Cardinality((all \ {Sources}) \ {scope}) = Cardinality(all \ {Sources}) - 1
      BY <3>2, <3>3, FS_RemoveElement
    <3>5. DOMAIN table \ {Sources} \subseteq (all \ {Sources}) \ {scope}
      BY <2>2
    <3>6. /\ IsFiniteSet(DOMAIN table \ {Sources})
          /\ Cardinality(DOMAIN table \ {Sources}) <= Cardinality((all \ {Sources}) \ {scope})
      BY <3>4, <3>5, FS_Subset
    <3>7. Cardinality(DOMAIN table \ {Sources}) \in Nat
      BY <3>6, FS_CardinalityType
    <3>8. ~(Cardinality(DOMAIN table \ {Sources}) >= ScopedLimit)
      BY <3>2, <3>4, <3>6, <3>7, ArbitrationAssumption
    <3> QED
      BY <3>8 DEF MakeRoom
  <2> QED
    BY <2>1, <2>2
<1> QED
  BY <1>1 DEF SelectScope

(* A broadcast builds the snapshot of each scope once, whatever the order. *)
LEMMA BroadcastReasons ==
  ASSUME ArbitrationInv, BroadcastTick,
         Cardinality(DOMAIN selections \cup RecipientScopes) <= ScopedLimit + 1,
         NEW key \in DOMAIN selections
  PROVE  \/ selections'[key] = selections[key]
         \/ selections'[key] = BuildRoomSnapshot(received_at', key, selections[key])
<1> DEFINE all == DOMAIN selections \cup RecipientScopes
<1>1. PICK order \in SetToSeqs(RecipientScopes) :
        selections' = SelectAll(Timely, <<Sources>> \o order)
  BY DEF BroadcastTick, SelectAll
<1>2. PICK scopes \in Seq(SUBSET Sources) : scopes = <<Sources>> \o order
  BY ScopesInTurn
<1>3. /\ \A i \in 1 .. Len(scopes) : scopes[i] \in RecipientScopes \cup {Sources}
      /\ \A i, j \in 1 .. Len(scopes) : i # j => scopes[i] # scopes[j]
  BY <1>2, ScopesInTurn
<1>4. PICK received : received = Timely /\ received = received_at'
                      /\ Reported(received, arbitration_now) /\ arbitration_now \in Nat
  BY TimelyReports DEF BroadcastTick, ArbitrationInv
<1>5. PICK walk \in [0 .. Len(scopes) -> SelectionTables] :
        /\ walk[0] = selections /\ walk[Len(scopes)] = SelectAll(received, scopes)
        /\ \A i \in 1 .. Len(scopes) : walk[i] = SelectScope(received, walk[i - 1], scopes[i])
  <2>1. selections \in SelectionTables
    BY DEF ArbitrationInv
  <2> QED
    BY <1>4, <2>1, SelectWalk
<1>6. selections' = walk[Len(scopes)]
  BY <1>1, <1>2, <1>4, <1>5
<1>7. DOMAIN selections \in SUBSET SUBSET Sources /\ Sources \in DOMAIN selections
  BY TableFacts DEF ArbitrationInv
<1>8. /\ IsFiniteSet(all) /\ all \in SUBSET SUBSET Sources
      /\ \A i \in 1 .. Len(scopes) : scopes[i] \in all
      /\ Cardinality(all) <= ScopedLimit + 1
  <2>1. all \in SUBSET SUBSET Sources
    BY <1>7, AllowedAreSources
  <2>2. IsFiniteSet(all)
    BY <2>1, AllowedAreSources, FS_Subset
  <2> QED
    BY <1>3, <1>7, <2>1, <2>2
<1> HIDE DEF all
<1> DEFINE built == BuildRoomSnapshot(received, key, selections[key])
           Right(i) == /\ DOMAIN walk[i] \subseteq all /\ key \in DOMAIN walk[i]
                       /\ walk[i][key] = IF \E j \in 1 .. i : scopes[j] = key
                                         THEN built ELSE selections[key]
           T == {i \in Nat : i <= Len(scopes) => Right(i)}
<1>9. 0 \in T
  <2>1. \A j \in 1 .. 0 : FALSE
    OBVIOUS
  <2> QED
    BY <1>5, <2>1 DEF all
<1>10. ASSUME NEW i \in Nat, i \in T PROVE i + 1 \in T
  <2> SUFFICES ASSUME i + 1 <= Len(scopes) PROVE Right(i + 1)
    OBVIOUS
  <2>1. /\ i + 1 \in 1 .. Len(scopes) /\ (i + 1) - 1 = i /\ i \in 0 .. Len(scopes)
        /\ Len(scopes) \in Nat
    OBVIOUS
  <2>2. Right(i)
    BY <1>10, <2>1
  <2>3. PICK scope \in all : scope = scopes[i + 1] /\ scope \in SUBSET Sources
    BY <1>8, <2>1
  <2>4. walk[i] \in SelectionTables /\ walk[i + 1] = SelectScope(received, walk[i], scope)
    BY <1>5, <2>1, <2>3
  <2>5. /\ DOMAIN walk[i + 1] = DOMAIN walk[i] \cup {scope}
        /\ \A k \in DOMAIN walk[i] : k # scope => walk[i + 1][k] = walk[i][k]
        /\ scope \in DOMAIN walk[i] =>
             walk[i + 1][scope] = BuildRoomSnapshot(received, scope, walk[i][scope])
    BY <1>4, <1>8, <2>2, <2>3, <2>4, ScopeAdded
  <2>6. CASE scope = key
    <3>1. ~\E j \in 1 .. i : scopes[j] = key
      <4>1. \A j \in 1 .. i : j \in 1 .. Len(scopes) /\ j # i + 1
        BY <2>1
      <4> QED
        BY <1>3, <2>1, <2>3, <2>6, <4>1
    <3>2. walk[i + 1][key] = built
      BY <2>2, <2>5, <2>6, <3>1
    <3>3. \E j \in 1 .. (i + 1) : scopes[j] = key
      <4>1. i + 1 \in 1 .. (i + 1) /\ scopes[i + 1] = key
        BY <2>3, <2>6
      <4> QED
        BY <4>1, Zenon
    <3> HIDE DEF built
    <3> QED
      BY <2>2, <2>3, <2>5, <3>2, <3>3
  <2>7. CASE scope # key
    <3>1. (\E j \in 1 .. (i + 1) : scopes[j] = key) <=> (\E j \in 1 .. i : scopes[j] = key)
      <4>1. \A j \in 1 .. (i + 1) : j \in 1 .. i \/ j = i + 1
        OBVIOUS
      <4>2. \A j \in 1 .. i : j \in 1 .. (i + 1)
        OBVIOUS
      <4> QED
        BY <2>3, <2>7, <4>1, <4>2
    <3> HIDE DEF built
    <3> QED
      BY <2>2, <2>3, <2>5, <2>7, <3>1
  <2> QED
    BY <2>6, <2>7
<1>11. Len(scopes) \in T
  <2> HIDE DEF T
  <2>1. Nat \subseteq T
    BY <1>9, <1>10, SetInduction
  <2> QED
    BY <2>1
<1>12. Right(Len(scopes))
  BY <1>11
<1> QED
  BY <1>4, <1>6, <1>12

(* What SwitchesHaveReason says of one step.                               *)
SwitchHasReason ==
  \A key \in DOMAIN selections \cap DOMAIN selections' :
    Cardinality(DOMAIN selections \cup RecipientScopes) <= ScopedLimit + 1 =>
      \A o \in Objects :
        LET old == selections[key].selected[o]
            new == selections'[key].selected[o]
        IN \/ old \in {new, NoSource}
           \/ Reason(received_at', o, old, new, selections'[key].seen)

(* A selection that changes has a reason.                                  *)
LEMMA SwitchStep ==
  ASSUME ArbitrationInv, ArbitrationNext(Objects, Tabs, BOOLEAN), selections' # selections
  PROVE  SwitchHasReason
<1>1. BroadcastTick
  BY DEF ArbitrationNext, RegisterSource, Disconnect, ReportObjects, ReportTab,
         SetSameServerFilter, PassArbitrationTime
<1> SUFFICES ASSUME NEW key \in DOMAIN selections, NEW o \in Objects,
                    Cardinality(DOMAIN selections \cup RecipientScopes) <= ScopedLimit + 1
             PROVE  LET old == selections[key].selected[o]
                        new == selections'[key].selected[o]
                    IN \/ old \in {new, NoSource}
                       \/ Reason(received_at', o, old, new, selections'[key].seen)
  BY DEF SwitchHasReason
<1>2. /\ key \in SUBSET Sources /\ selections[key] \in SelectionsOf(key)
      /\ arbitration_now \in Nat /\ Reported(received_at', arbitration_now)
  BY <1>1, TableFacts, TimelyReports DEF ArbitrationInv, BroadcastTick
<1>3. CASE selections'[key] = selections[key]
  BY <1>3
<1>4. CASE selections'[key] = BuildRoomSnapshot(received_at', key, selections[key])
  <2>1. PICK received, found : received = received_at' /\ found = selections[key]
    OBVIOUS
  <2>2. LET built == BuildRoomSnapshot(received, key, found)
            old == found.selected[o]
            new == built.selected[o]
        IN old \in {new, NoSource} \/ Reason(received, o, old, new, built.seen)
    BY <1>2, <2>1, SwitchReason
  <2> QED
    BY <1>4, <2>1, <2>2
<1> QED
  BY <1>1, <1>3, <1>4, BroadcastReasons

(* The invariant: every step keeps it.                                     *)
LEMMA SelectionsHold ==
  ASSUME ArbitrationInv, BroadcastTick
  PROVE  selections' \in SelectionTables
<1>1. PICK order \in SetToSeqs(RecipientScopes) :
        selections' = SelectAll(Timely, <<Sources>> \o order)
  BY DEF BroadcastTick, SelectAll
<1>2. PICK scopes \in Seq(SUBSET Sources) : scopes = <<Sources>> \o order
  BY ScopesInTurn
<1>3. PICK received : received = Timely /\ Reported(received, arbitration_now)
  BY TimelyReports
<1>4. PICK walk \in [0 .. Len(scopes) -> SelectionTables] :
        walk[Len(scopes)] = SelectAll(received, scopes)
  BY <1>3, SelectWalk DEF ArbitrationInv
<1>5. Len(scopes) \in 0 .. Len(scopes)
  OBVIOUS
<1> QED
  BY <1>1, <1>2, <1>3, <1>4, <1>5

(* At first nothing has been reported.                                     *)
LEMMA ArbitrationInitInv == ArbitrationInit => ArbitrationInv
<1> SUFFICES ASSUME ArbitrationInit PROVE ArbitrationInv
  OBVIOUS
<1>1. received_at = [s \in Sources |-> [o \in Objects |-> -1]] /\ NoTime = -1
  BY DEF ArbitrationInit, NoTime
<1>2. received_at \in [Sources -> [Objects -> Int]] /\ Reported(received_at, 0)
  BY <1>1 DEF Reported
<1>3. /\ active_sources = {} /\ arbitration_now = 0
      /\ tab_players \in [Sources -> SUBSET Names]
  BY DEF ArbitrationInit
<1>4. selections \in SelectionTables
  <2> DEFINE table == [key \in {Sources} |-> NothingSelected]
  <2>1. /\ {Sources} \in SUBSET SUBSET Sources /\ Sources \in {Sources}
        /\ table \in [{Sources} -> SelectionsOf(Sources)]
        /\ \A scope \in {Sources} : table[scope] \in SelectionsOf(scope)
    BY NothingIsSelection
  <2> HIDE DEF table
  <2>2. table \in SelectionTables
    BY <2>1, TableFacts
  <2> QED
    BY <2>2 DEF ArbitrationInit, table
<1> QED
  BY <1>2, <1>3, <1>4 DEF ArbitrationInv

(* Every step keeps the invariant.                                         *)
LEMMA ArbitrationStepInv ==
  ASSUME ArbitrationInv, [ArbitrationNext(Objects, Tabs, BOOLEAN)]_arbitration_vars
  PROVE  ArbitrationInv'
<1>1. /\ active_sources \subseteq Sources /\ arbitration_now \in Nat
      /\ received_at \in [Sources -> [Objects -> Int]]
      /\ \A s \in Sources, o \in Objects : received_at[s][o] \in -1 .. arbitration_now
      /\ tab_players \in [Sources -> SUBSET Names] /\ selections \in SelectionTables
      /\ NoTime = -1
  BY DEF ArbitrationInv, Reported, NoTime
<1>2. ASSUME NEW s \in Sources, RegisterSource(s)
      PROVE  ArbitrationInv'
  BY <1>1, <1>2 DEF RegisterSource, ArbitrationInv, Reported
<1>3. ASSUME NEW s \in Sources, NEW held \in [Objects -> Int],
             received_at' = [received_at EXCEPT ![s] = held],
             \A o \in Objects : held[o] \in -1 .. arbitration_now,
             arbitration_now' = arbitration_now
      PROVE  received_at' \in [Sources -> [Objects -> Int]]
             /\ Reported(received_at', arbitration_now')
  <2>1. \A t \in Sources : received_at'[t] = IF t = s THEN held ELSE received_at[t]
    BY <1>1, <1>3
  <2>2. received_at' \in [Sources -> [Objects -> Int]]
    BY <1>1, <1>3
  <2> QED
    BY <1>1, <1>3, <2>1, <2>2 DEF Reported
<1>4. ASSUME NEW s \in Sources, Disconnect(s)
      PROVE  ArbitrationInv'
  <2> DEFINE held == [o \in Objects |-> NoTime]
  <2>1. held \in [Objects -> Int] /\ \A o \in Objects : held[o] \in -1 .. arbitration_now
    BY <1>1
  <2>2. received_at' = [received_at EXCEPT ![s] = held] /\ arbitration_now' = arbitration_now
    BY <1>4 DEF Disconnect
  <2> HIDE DEF held
  <2>3. received_at' \in [Sources -> [Objects -> Int]] /\ Reported(received_at', arbitration_now')
    BY <1>3, <2>1, <2>2
  <2>4. /\ active_sources' \subseteq Sources /\ selections' = selections
        /\ tab_players' \in [Sources -> SUBSET Names]
    BY <1>1, <1>4 DEF Disconnect
  <2> QED
    BY <1>1, <2>2, <2>3, <2>4 DEF ArbitrationInv
<1>5. ASSUME NEW s \in Sources, NEW named, NEW dropped, ReportObjects(s, named, dropped)
      PROVE  ArbitrationInv'
  <2> DEFINE held == [o \in Objects |-> IF o \in dropped THEN NoTime
                        ELSE IF o \in named THEN arbitration_now ELSE received_at[s][o]]
  <2>1. held \in [Objects -> Int] /\ \A o \in Objects : held[o] \in -1 .. arbitration_now
    BY <1>1
  <2>2. received_at' = [received_at EXCEPT ![s] = held] /\ arbitration_now' = arbitration_now
    BY <1>1, <1>5 DEF ReportObjects
  <2> HIDE DEF held
  <2>3. received_at' \in [Sources -> [Objects -> Int]] /\ Reported(received_at', arbitration_now')
    BY <1>3, <2>1, <2>2
  <2>4. /\ active_sources' \subseteq Sources /\ selections' = selections
        /\ tab_players' = tab_players
    BY <1>1, <1>5 DEF ReportObjects
  <2> QED
    BY <1>1, <2>2, <2>3, <2>4 DEF ArbitrationInv
<1>6. ASSUME NEW s \in Sources, NEW tab \in Tabs, ReportTab(s, tab)
      PROVE  ArbitrationInv'
  <2>1. tab \in SUBSET Names
    BY ArbitrationAssumption
  <2> QED
    BY <1>1, <1>6, <2>1 DEF ReportTab, ArbitrationInv, Reported
<1>7. ASSUME NEW enabled, SetSameServerFilter(enabled)
      PROVE  ArbitrationInv'
  BY <1>1, <1>7 DEF SetSameServerFilter, ArbitrationInv, Reported
<1>8. CASE PassArbitrationTime
  BY <1>1, <1>8 DEF PassArbitrationTime, ArbitrationInv, Reported
<1>9. CASE BroadcastTick
  <2>1. /\ received_at' = Timely /\ arbitration_now' = arbitration_now
        /\ active_sources' = active_sources /\ tab_players' = tab_players
    BY <1>9 DEF BroadcastTick
  <2>2. Reported(received_at', arbitration_now') /\ received_at' \in [Sources -> [Objects -> Int]]
    BY <2>1, TimelyReports
  <2> QED
    BY <1>1, <1>9, <2>1, <2>2, SelectionsHold DEF ArbitrationInv
<1>10. CASE UNCHANGED arbitration_vars
  BY <1>1, <1>10 DEF arbitration_vars, ArbitrationInv, Reported
<1> QED
  BY <1>2, <1>4, <1>5, <1>6, <1>7, <1>8, <1>9, <1>10 DEF ArbitrationNext

(* For any sources, objects and tab lists: reports carry times that have   *)
(* passed, and each scope selects among its own sources, however often the *)
(* table of scopes overflows (Relay::broadcast, build_room_snapshot).      *)
THEOREM ArbitrationInvariant == ArbitrationSpec => []ArbitrationInv
BY ArbitrationInitInv, ArbitrationStepInv, PTL DEF ArbitrationSpec

(* For any delay, threshold and timeout, the source that is believed about *)
(* an object changes only for a reason (resolve_candidates,                *)
(* resolve_player_candidates).                                             *)
THEOREM SwitchesAreJustified == ArbitrationSpec => SwitchesHaveReason
<1>1. ArbitrationInv /\ [ArbitrationNext(Objects, Tabs, BOOLEAN)]_arbitration_vars
        => [SwitchHasReason]_selections
  BY SwitchStep DEF arbitration_vars
<1>2. ArbitrationSpec => [][SwitchHasReason]_selections
  BY <1>1, ArbitrationInvariant, PTL DEF ArbitrationSpec
<1> QED
  BY <1>2 DEF SwitchesHaveReason, SwitchHasReason

-----------------------------------------------------------------------------
(* The sources in order: each of them has a place.                         *)
LEMMA OrderIsComplete ==
  ASSUME NEW S \in SUBSET Nat, IsFiniteSet(S)
  PROVE  /\ InOrder(S) \in Seq(S) /\ Len(InOrder(S)) \in Nat
         /\ DOMAIN InOrder(S) = 1 .. Len(InOrder(S))
         /\ \A s \in S : \E i \in 1 .. Len(InOrder(S)) : InOrder(S)[i] = s
<1>1. PICK n \in Nat : n = Cardinality(S)
  BY FS_CardinalityType
<1> DEFINE Before(s) == {t \in S : t < s}
           rank == [s \in S |-> Cardinality(Before(s)) + 1]
<1>2. ASSUME NEW s \in S
      PROVE  IsFiniteSet(Before(s)) /\ Cardinality(Before(s)) \in Nat /\ Cardinality(Before(s)) < n
  <2>1. Before(s) \in SUBSET S /\ s \notin Before(s)
    OBVIOUS
  <2> HIDE DEF Before
  <2>2. /\ IsFiniteSet(Before(s)) /\ Cardinality(Before(s)) <= n
        /\ n = Cardinality(Before(s)) => S = Before(s)
    BY <1>1, <2>1, FS_Subset
  <2>3. Cardinality(Before(s)) \in Nat
    BY <2>2, FS_CardinalityType
  <2> QED
    BY <2>1, <2>2, <2>3
<1>3. ASSUME NEW s \in S, NEW t \in S, s < t
      PROVE  Cardinality(Before(s)) < Cardinality(Before(t))
  <2>0. s \in Nat /\ t \in Nat /\ \A u \in S : u \in Nat /\ (u < s => u < t) /\ ~(s < s)
    BY <1>3
  <2>1. Before(s) \in SUBSET Before(t) /\ s \in Before(t) /\ s \notin Before(s)
    <3>1. Before(s) \in SUBSET Before(t)
      BY <2>0
    <3>2. s \in Before(t)
      BY <1>3
    <3>3. s \notin Before(s)
      BY <2>0
    <3> QED
      BY <3>1, <3>2, <3>3
  <2>2. IsFiniteSet(Before(t))
    BY <1>2
  <2>3. Cardinality(Before(s)) \in Nat /\ Cardinality(Before(t)) \in Nat
    BY <1>2
  <2> HIDE DEF Before
  <2>4. /\ Cardinality(Before(s)) <= Cardinality(Before(t))
        /\ Cardinality(Before(t)) = Cardinality(Before(s)) => Before(t) = Before(s)
    BY <2>1, <2>2, FS_Subset
  <2> QED
    BY <2>1, <2>3, <2>4
<1>4. rank \in [S -> 1 .. n]
  <2> HIDE DEF Before
  <2>1. \A s \in S : Cardinality(Before(s)) + 1 \in 1 .. n
    BY <1>2
  <2> QED
    BY <2>1
<1>5. \A s, t \in S : rank[s] = rank[t] => s = t
  <2> SUFFICES ASSUME NEW s \in S, NEW t \in S, s # t PROVE rank[s] # rank[t]
    OBVIOUS
  <2>1. rank[s] = Cardinality(Before(s)) + 1 /\ rank[t] = Cardinality(Before(t)) + 1
    OBVIOUS
  <2>2. s < t \/ t < s
    OBVIOUS
  <2>3. Cardinality(Before(s)) \in Nat /\ Cardinality(Before(t)) \in Nat
    BY <1>2
  <2>4. Cardinality(Before(s)) # Cardinality(Before(t))
    <3>1. CASE s < t
      <4>1. Cardinality(Before(s)) < Cardinality(Before(t))
        BY <1>3, <3>1
      <4> HIDE DEF Before
      <4> QED
        BY <2>3, <4>1
    <3>2. CASE t < s
      <4>1. Cardinality(Before(t)) < Cardinality(Before(s))
        BY <1>3, <3>2
      <4> HIDE DEF Before
      <4> QED
        BY <2>3, <4>1
    <3> QED
      BY <2>2, <3>1, <3>2
  <2> HIDE DEF Before, rank
  <2> QED
    BY <2>1, <2>3, <2>4
<1>6. rank \in Surjection(S, 1 .. n)
  <2> HIDE DEF rank
  <2>1. rank \in Injection(S, 1 .. n)
    BY <1>4, <1>5 DEF Injection, IsInjective
  <2>2. IsFiniteSet(1 .. n) /\ Cardinality(1 .. n) = n
    BY FS_Interval
  <2> QED
    BY <1>1, <2>1, <2>2, FS_Injection
<1>7. \A i \in 1 .. n : \E s \in S : rank[s] = i
  BY <1>6 DEF Surjection
<1>8. \A s \in S : \A i \in 1 .. n : rank[s] = i <=> Cardinality(Before(s)) = i - 1
  <2> SUFFICES ASSUME NEW s \in S, NEW i \in 1 .. n
               PROVE  rank[s] = i <=> Cardinality(Before(s)) = i - 1
    OBVIOUS
  <2>1. rank[s] = Cardinality(Before(s)) + 1 /\ Cardinality(Before(s)) \in Nat
    BY <1>2
  <2> HIDE DEF Before, rank
  <2> QED
    BY <2>1
<1> DEFINE order == InOrder(S)
<1>9. order = [i \in 1 .. n |-> CHOOSE s \in S : Cardinality(Before(s)) = i - 1]
  BY <1>1 DEF InOrder
<1> HIDE DEF Before, rank, order
<1>10. \A i \in 1 .. n : order[i] \in S /\ rank[order[i]] = i
  <2> SUFFICES ASSUME NEW i \in 1 .. n PROVE order[i] \in S /\ rank[order[i]] = i
    OBVIOUS
  <2>1. \E s \in S : Cardinality(Before(s)) = i - 1
    BY <1>7, <1>8
  <2>2. order[i] = CHOOSE s \in S : Cardinality(Before(s)) = i - 1
    BY <1>9
  <2>3. order[i] \in S /\ Cardinality(Before(order[i])) = i - 1
    BY <2>1, <2>2, Zenon
  <2> QED
    BY <1>8, <2>3
<1>11. \A s \in S : order[rank[s]] = s /\ rank[s] \in 1 .. n
  BY <1>4, <1>5, <1>10
<1>12. order \in Seq(S) /\ Len(order) = n /\ DOMAIN order = 1 .. n
  <2>1. DOMAIN order = 1 .. n /\ order = [i \in 1 .. n |-> order[i]]
    BY <1>9
  <2>2. order \in [1 .. n -> S]
    BY <1>10, <2>1
  <2> QED
    BY <2>1, <2>2
<1> QED
  BY <1>11, <1>12 DEF order

(* A forest over a set of numbers: parents come first.                     *)
Forests(A) == {parents \in [A -> A] : \A s \in A : parents[s] <= s}

(* What follow-the-parents comes to: the root, which is the first of its   *)
(* tree.                                                                   *)
LEMMA ForestFacts ==
  ASSUME NEW A \in SUBSET Nat, NEW parents \in Forests(A)
  PROVE  /\ parents \in [A -> A] /\ DOMAIN parents = A
         /\ \A s \in A : /\ s \in Nat /\ parents[s] \in A /\ parents[s] \in Nat
                         /\ parents[s] <= s
                         /\ parents[s] # s => parents[s] < s /\ ~(s <= parents[s])
<1>1. parents \in [A -> A] /\ \A s \in A : parents[s] <= s
  BY DEF Forests
<1>2. ASSUME NEW s \in A
      PROVE  /\ s \in Nat /\ parents[s] \in A /\ parents[s] \in Nat
             /\ parents[s] <= s
             /\ parents[s] # s => parents[s] < s /\ ~(s <= parents[s])
  <2>1. s \in Nat /\ parents[s] \in A /\ parents[s] \in Nat
    BY <1>1
  <2>2. parents[s] <= s
    BY <1>1
  <2> QED
    BY <2>1, <2>2
<1> QED
  BY <1>1, <1>2

(* The root of a source is its own or that of its parent.                  *)
LEMMA FindGroupRecurs ==
  ASSUME NEW A \in SUBSET Nat, NEW parents \in Forests(A)
  PROVE  \A s \in A : FindGroup(parents, s) =
           IF parents[s] = s THEN s ELSE FindGroup(parents, parents[s])
<1> DEFINE E(g) == [s \in DOMAIN parents |-> IF parents[s] = s THEN s ELSE g[parents[s]]]
           size == [s \in A |-> s]
           stop == {s \in A : parents[s] = s}
           combine == [p \in A \X A |-> p[2]]
<1>1. /\ parents \in [A -> A] /\ DOMAIN parents = A
      /\ \A s \in A : s \in Nat /\ parents[s] \in A /\ (parents[s] # s => parents[s] < s)
  BY ForestFacts
<1>2. IsRecursion(A, A, size, stop, size, parents, combine)
  <2>1. \A s \in A \ stop : parents[s] \in A /\ parents[s] < s /\ s \in Nat
    BY <1>1, Zenon
  <2>2. size \in [A -> Nat] /\ size \in [A -> A] /\ combine \in [A \X A -> A]
    OBVIOUS
  <2> QED
    BY <1>1, <2>1, <2>2 DEF IsRecursion
<1>3. PICK g \in [A -> A] : SolvesRecursion(g, A, stop, size, parents, combine)
  <2> HIDE DEF size, stop, combine
  <2> QED
    BY <1>2, Recursion
<1>4. g = E(g)
  <2>1. \A s \in A : g[s] = IF parents[s] = s THEN s ELSE g[parents[s]]
    BY <1>1, <1>3 DEF SolvesRecursion
  <2> QED
    BY <1>1, <2>1
<1> DEFINE root == CHOOSE g0 : g0 = E(g0)
<1>5. root = E(root)
  <2> HIDE DEF E
  <2> QED
    BY <1>4, Zenon
<1>6. \A s : FindGroup(parents, s) = root[s]
  BY Zenon DEF FindGroup
<1> HIDE DEF root
<1>7. \A s \in A : root[s] = IF parents[s] = s THEN s ELSE root[parents[s]]
  <2>1. DOMAIN parents = A
    BY <1>1
  <2>2. \A s \in A : E(root)[s] = IF parents[s] = s THEN s ELSE root[parents[s]]
    BY <2>1
  <2> HIDE DEF E
  <2> QED
    BY <1>5, <2>2, Zenon
<1> QED
  BY <1>6, <1>7

(* It is a root, and no greater.                                           *)
LEMMA FindGroupIsRoot ==
  ASSUME NEW A \in SUBSET Nat, NEW parents \in Forests(A), NEW s \in A
  PROVE  /\ FindGroup(parents, s) \in A /\ FindGroup(parents, s) <= s
         /\ parents[FindGroup(parents, s)] = FindGroup(parents, s)
<1> DEFINE Right(t) == /\ FindGroup(parents, t) \in A /\ FindGroup(parents, t) <= t
                       /\ parents[FindGroup(parents, t)] = FindGroup(parents, t)
           Wrong == {t \in A : ~Right(t)}
<1> SUFFICES ASSUME Wrong # {} PROVE FALSE
  OBVIOUS
<1>1. Wrong \in SUBSET Nat
  OBVIOUS
<1>2. PICK t \in Wrong : \A u \in Wrong : t <= u
  <2> HIDE DEF Wrong
  <2> QED
    BY <1>1, LeastNumber
<1>3. /\ t \in A /\ t \in Nat /\ parents[t] \in A /\ parents[t] \in Nat /\ parents[t] <= t
      /\ parents[t] # t => ~(t <= parents[t])
  BY <1>2, ForestFacts
<1>4. FindGroup(parents, t) = IF parents[t] = t THEN t ELSE FindGroup(parents, parents[t])
  BY <1>3, FindGroupRecurs
<1>5. CASE parents[t] = t
  BY <1>2, <1>3, <1>4, <1>5
<1>6. CASE parents[t] # t
  <2>1. Right(parents[t])
    BY <1>2, <1>3, <1>6
  <2>2. PICK root \in A : root = FindGroup(parents, parents[t])
    BY <2>1
  <2>3. root \in Nat /\ root <= parents[t] /\ parents[root] = root
    BY <2>1, <2>2
  <2>4. root = FindGroup(parents, t)
    BY <1>4, <1>6, <2>2
  <2>5. root <= t
    BY <1>3, <2>3
  <2>6. Right(t)
    BY <2>2, <2>3, <2>4, <2>5
  <2> QED
    BY <1>2, <2>6
<1> QED
  BY <1>5, <1>6

(* A root that is attached to an earlier root takes its tree along.        *)
Attached(joined, parents, A, low, high) ==
  /\ joined \in Forests(A)
  /\ \A s \in A : FindGroup(joined, s) =
       IF FindGroup(parents, s) = high THEN low ELSE FindGroup(parents, s)

(* To attach a root to a lesser one unites their trees and no others.      *)
LEMMA RootAttached ==
  ASSUME NEW A \in SUBSET Nat, NEW parents \in Forests(A), NEW low \in A, NEW high \in A,
         parents[low] = low, parents[high] = high, low < high
  PROVE  Attached([parents EXCEPT ![high] = low], parents, A, low, high)
<1> DEFINE joined == [parents EXCEPT ![high] = low]
           Right(t) == FindGroup(joined, t) =
                         IF FindGroup(parents, t) = high THEN low ELSE FindGroup(parents, t)
           Wrong == {t \in A : ~Right(t)}
<1>1. /\ parents \in [A -> A]
      /\ \A s \in A : /\ s \in Nat /\ parents[s] \in A /\ parents[s] <= s
                      /\ parents[s] # s => ~(s <= parents[s])
  BY ForestFacts
<1>2. \A s \in A : joined[s] = IF s = high THEN low ELSE parents[s]
  BY <1>1
<1>3. joined \in [A -> A] /\ \A s \in A : joined[s] <= s
  BY <1>1, <1>2
<1> HIDE DEF joined
<1>4. joined \in Forests(A)
  BY <1>3 DEF Forests
<1>5. /\ \A s \in A : FindGroup(joined, s) =
           IF joined[s] = s THEN s ELSE FindGroup(joined, joined[s])
      /\ \A s \in A : FindGroup(parents, s) =
           IF parents[s] = s THEN s ELSE FindGroup(parents, parents[s])
  BY <1>4, FindGroupRecurs
<1>6. ASSUME Wrong # {} PROVE FALSE
  <2>1. Wrong \in SUBSET Nat
    OBVIOUS
  <2>2. PICK t \in Wrong : \A u \in Wrong : t <= u
    <3> HIDE DEF Wrong
    <3> QED
      BY <1>6, <2>1, LeastNumber
  <2>3. t \in A /\ ~Right(t)
    BY <2>2
  <2>4. CASE t = high
    <3>1. FindGroup(parents, t) = high
      BY <1>5, <2>4
    <3>2. joined[t] = low /\ low # t /\ FindGroup(joined, t) = FindGroup(joined, low)
      BY <1>1, <1>2, <1>5, <2>4
    <3>3. joined[low] = low /\ FindGroup(joined, low) = low
      BY <1>1, <1>2, <1>5
    <3> QED
      BY <2>3, <3>1, <3>2, <3>3
  <2>5. CASE t # high /\ parents[t] = t
    <3>1. FindGroup(parents, t) = t /\ joined[t] = t
      BY <1>2, <1>5, <2>3, <2>5
    <3>2. FindGroup(joined, t) = t
      BY <1>5, <2>3, <3>1
    <3> QED
      BY <2>3, <2>5, <3>1, <3>2
  <2>6. CASE t # high /\ parents[t] # t
    <3>1. parents[t] \in A /\ joined[t] = parents[t]
      BY <1>1, <1>2, <2>3, <2>6
    <3>2. ~(t <= parents[t])
      BY <1>1, <2>3, <2>6
    <3>3. Right(parents[t])
      BY <2>2, <3>1, <3>2
    <3>4. FindGroup(joined, t) = FindGroup(joined, parents[t])
          /\ FindGroup(parents, t) = FindGroup(parents, parents[t])
      BY <1>5, <2>3, <2>6, <3>1
    <3> QED
      BY <2>3, <3>3, <3>4
  <2> QED
    BY <2>4, <2>5, <2>6
<1>7. \A t \in A : Right(t)
  BY <1>6
<1> QED
  BY <1>4, <1>7 DEF joined, Attached

(* find_group also lets a source point to its root at once; that changes   *)
(* the root of none, so that the model may leave it out.                   *)
LEMMA ShortcutKeepsRoots ==
  ASSUME NEW A \in SUBSET Nat, NEW parents \in Forests(A), NEW source \in A, NEW shorter,
         shorter = [parents EXCEPT ![source] = FindGroup(parents, source)]
  PROVE  /\ shorter \in Forests(A)
         /\ \A s \in A : FindGroup(shorter, s) = FindGroup(parents, s)
<1> DEFINE Wrong == {t \in A : FindGroup(shorter, t) # FindGroup(parents, t)}
<1>1. /\ parents \in [A -> A]
      /\ \A s \in A : /\ s \in Nat /\ parents[s] \in A /\ parents[s] <= s
                      /\ parents[s] # s => ~(s <= parents[s])
  BY ForestFacts
<1>2. PICK root \in A : /\ root = FindGroup(parents, source)
                       /\ parents[root] = root /\ root <= source
  BY FindGroupIsRoot
<1>3. \A s \in A : shorter[s] = IF s = source THEN root ELSE parents[s]
  BY <1>1, <1>2
<1>4. shorter \in Forests(A)
  <2>1. shorter \in [A -> A]
    BY <1>1, <1>2
  <2>2. \A s \in A : shorter[s] <= s
    BY <1>1, <1>2, <1>3
  <2> QED
    BY <2>1, <2>2 DEF Forests
<1>5. /\ \A s \in A : FindGroup(shorter, s) =
           IF shorter[s] = s THEN s ELSE FindGroup(shorter, shorter[s])
      /\ \A s \in A : FindGroup(parents, s) =
           IF parents[s] = s THEN s ELSE FindGroup(parents, parents[s])
  BY <1>4, FindGroupRecurs
<1>6. shorter[root] = root /\ FindGroup(shorter, root) = root /\ FindGroup(parents, root) = root
  BY <1>2, <1>3, <1>5
<1>7. ASSUME Wrong # {} PROVE FALSE
  <2>1. Wrong \in SUBSET Nat
    OBVIOUS
  <2>2. PICK t \in Wrong : \A u \in Wrong : t <= u
    <3> HIDE DEF Wrong
    <3> QED
      BY <1>7, <2>1, LeastNumber
  <2>3. t \in A /\ FindGroup(shorter, t) # FindGroup(parents, t)
    BY <2>2
  <2>4. CASE t = source
    <3>1. shorter[t] = root /\ FindGroup(parents, t) = root
      BY <1>2, <1>3, <2>3, <2>4
    <3>2. FindGroup(shorter, t) = IF root = t THEN t ELSE FindGroup(shorter, root)
      BY <1>5, <2>3, <3>1
    <3> QED
      BY <1>6, <2>3, <3>1, <3>2
  <2>5. CASE t # source /\ parents[t] = t
    BY <1>3, <1>5, <2>3, <2>5
  <2>6. CASE t # source /\ parents[t] # t
    <3>1. parents[t] \in A /\ shorter[t] = parents[t] /\ ~(t <= parents[t])
      BY <1>1, <1>3, <2>3, <2>6
    <3>2. FindGroup(shorter, parents[t]) = FindGroup(parents, parents[t])
      BY <2>2, <3>1
    <3> QED
      BY <1>5, <2>3, <2>6, <3>1, <3>2
  <2> QED
    BY <2>4, <2>5, <2>6
<1> QED
  BY <1>4, <1>7

(* Union: two groups become one, and no others do.                         *)
Same(parents, s, t) == FindGroup(parents, s) = FindGroup(parents, t)

Coarser(joined, parents, A) ==
  \A s, t \in A : Same(parents, s, t) => Same(joined, s, t)

NoOthers(joined, parents, A, left, right) ==
  \A s, t \in A : Same(joined, s, t) =>
    \/ Same(parents, s, t)
    \/ Same(parents, s, left) /\ Same(parents, right, t)
    \/ Same(parents, s, right) /\ Same(parents, left, t)

Union(joined, parents, A, left, right) ==
  /\ joined \in Forests(A) /\ Coarser(joined, parents, A)
  /\ Same(joined, left, right) /\ NoOthers(joined, parents, A, left, right)

(* union_groups: the two trees become one, named by the smaller root.      *)
LEMMA AttachedUnites ==
  ASSUME NEW A, NEW parents, NEW joined, NEW low, NEW high, NEW left \in A, NEW right \in A,
         Attached(joined, parents, A, low, high),
         \/ low = FindGroup(parents, left) /\ high = FindGroup(parents, right)
         \/ low = FindGroup(parents, right) /\ high = FindGroup(parents, left)
  PROVE  Union(joined, parents, A, left, right)
<1>1. /\ joined \in Forests(A)
      /\ \A s \in A : FindGroup(joined, s) =
           IF FindGroup(parents, s) = high THEN low ELSE FindGroup(parents, s)
  BY DEF Attached
<1>2. Coarser(joined, parents, A)
  BY <1>1 DEF Coarser, Same
<1>3. Same(joined, left, right)
  BY <1>1 DEF Same
<1>4. NoOthers(joined, parents, A, left, right)
  BY <1>1 DEF NoOthers, Same
<1> QED
  BY <1>1, <1>2, <1>3, <1>4 DEF Union

(* So does the union of two sources.                                       *)
LEMMA UnionUnites ==
  ASSUME NEW A \in SUBSET Nat, NEW parents \in Forests(A), NEW left \in A, NEW right \in A
  PROVE  Union(UnionGroups(parents, left, right), parents, A, left, right)
<1>1. PICK l \in A, r \in A : /\ l = FindGroup(parents, left) /\ r = FindGroup(parents, right)
                              /\ parents[l] = l /\ parents[r] = r /\ l \in Nat /\ r \in Nat
  <2>1. \A s \in A : s \in Nat
    OBVIOUS
  <2>2. /\ FindGroup(parents, left) \in A
        /\ parents[FindGroup(parents, left)] = FindGroup(parents, left)
    BY FindGroupIsRoot
  <2>3. /\ FindGroup(parents, right) \in A
        /\ parents[FindGroup(parents, right)] = FindGroup(parents, right)
    BY FindGroupIsRoot
  <2> QED
    BY <2>1, <2>2, <2>3
<1>2. UnionGroups(parents, left, right) =
        IF l < r THEN [parents EXCEPT ![r] = l] ELSE [parents EXCEPT ![l] = r]
  BY <1>1 DEF UnionGroups
<1>3. CASE l < r
  <2>1. PICK joined : joined = [parents EXCEPT ![r] = l]
    OBVIOUS
  <2>2. Attached([parents EXCEPT ![r] = l], parents, A, l, r)
    BY <1>1, <1>3, RootAttached
  <2>3. Attached(joined, parents, A, l, r)
    BY <2>1, <2>2
  <2>4. Union(joined, parents, A, left, right)
    BY <1>1, <2>3, AttachedUnites
  <2> QED
    BY <1>2, <1>3, <2>1, <2>4
<1>4. CASE r < l
  <2>1. PICK joined : joined = [parents EXCEPT ![l] = r]
    OBVIOUS
  <2>2. Attached([parents EXCEPT ![l] = r], parents, A, r, l)
    BY <1>1, <1>4, RootAttached
  <2>3. Attached(joined, parents, A, r, l)
    BY <2>1, <2>2
  <2>4. Union(joined, parents, A, left, right)
    BY <1>1, <2>3, AttachedUnites
  <2>5. ~(l < r)
    BY <1>1, <1>4
  <2> QED
    BY <1>2, <2>1, <2>4, <2>5
<1>5. CASE l = r
  <2>1. [parents EXCEPT ![l] = r] = parents /\ ~(l < r)
    BY <1>1, <1>5, ForestFacts
  <2>2. Union(parents, parents, A, left, right)
    BY <1>1, <1>5 DEF Union, Coarser, NoOthers, Same
  <2> QED
    BY <1>2, <2>1, <2>2
<1> QED
  BY <1>1, <1>3, <1>4, <1>5

(* The unions so far lead from no closed set to the outside.               *)
Inside(parents) ==
  \A C \in SUBSET active_sources : Closed(C) =>
    \A s, t \in active_sources : s \in C /\ Same(parents, s, t) => t \in C

Groupings == {parents \in Forests(active_sources) : Inside(parents)}

(* One turn of the inner loop.                                             *)
Join(parents, left, right) ==
  IF left < right /\ Linked(left, right) THEN UnionGroups(parents, left, right) ELSE parents

(* Such a turn joins the two sources, and keeps inside what was.           *)
LEMMA LinksAreMutual ==
  \A s, t : Linked(s, t) => Linked(t, s)
BY DEF Linked

(* Two sources that are linked are in one group afterwards.                *)
LEMMA JoinGroups ==
  ASSUME active_sources \in SUBSET Nat, NEW parents \in Groupings,
         NEW left \in active_sources, NEW right \in active_sources
  PROVE  /\ Join(parents, left, right) \in Groupings
         /\ Coarser(Join(parents, left, right), parents, active_sources)
         /\ left < right /\ Linked(left, right) => Same(Join(parents, left, right), left, right)
<1>1. parents \in Forests(active_sources) /\ Inside(parents)
  BY DEF Groupings
<1>2. CASE left < right /\ Linked(left, right)
  <2>1. PICK joined : joined = UnionGroups(parents, left, right)
    OBVIOUS
  <2>2. Union(joined, parents, active_sources, left, right)
    BY <1>1, <2>1, UnionUnites
  <2>3. /\ joined \in Forests(active_sources) /\ Coarser(joined, parents, active_sources)
        /\ Same(joined, left, right) /\ NoOthers(joined, parents, active_sources, left, right)
    BY <2>2 DEF Union
  <2>4. Linked(right, left)
    BY <1>2, LinksAreMutual
  <2>5. ASSUME NEW C \in SUBSET active_sources, Closed(C),
               NEW s \in active_sources, NEW t \in active_sources,
               s \in C, Same(joined, s, t)
        PROVE  t \in C
    <3>1. \/ Same(parents, s, t)
          \/ Same(parents, s, left) /\ Same(parents, right, t)
          \/ Same(parents, s, right) /\ Same(parents, left, t)
      BY <2>3, <2>5 DEF NoOthers
    <3>2. \A u, v \in active_sources : u \in C /\ Same(parents, u, v) => v \in C
      BY <1>1, <2>5 DEF Inside
    <3>3. left \in C <=> right \in C
      BY <1>2, <2>4, <2>5 DEF Closed
    <3> QED
      BY <2>5, <3>1, <3>2, <3>3
  <2>6. joined \in Groupings
    BY <2>3, <2>5 DEF Groupings, Inside
  <2> QED
    BY <1>2, <2>1, <2>3, <2>6 DEF Join
<1>3. CASE ~(left < right /\ Linked(left, right))
  <2>1. Join(parents, left, right) = parents
    BY <1>3 DEF Join
  <2>2. Coarser(parents, parents, active_sources)
    BY DEF Coarser
  <2> QED
    BY <1>3, <2>1, <2>2
<1> QED
  BY <1>2, <1>3

(* Along a walk through groupings, what is together stays together.        *)
LEMMA WalkCoarsens ==
  ASSUME NEW n \in Nat, NEW walk, NEW A,
         \A i \in 1 .. n : Coarser(walk[i], walk[i - 1], A)
  PROVE  \A i \in 0 .. n : Coarser(walk[n], walk[i], A)
<1> DEFINE T == {j \in Nat : j <= n => \A i \in 0 .. j : Coarser(walk[j], walk[i], A)}
<1>1. 0 \in T
  <2>1. \A i \in 0 .. 0 : i = 0
    OBVIOUS
  <2>2. Coarser(walk[0], walk[0], A)
    BY DEF Coarser
  <2> QED
    BY <2>1, <2>2
<1>2. ASSUME NEW j \in Nat, j \in T PROVE j + 1 \in T
  <2> SUFFICES ASSUME j + 1 <= n, NEW i \in 0 .. (j + 1)
               PROVE  Coarser(walk[j + 1], walk[i], A)
    OBVIOUS
  <2>1. CASE i = j + 1
    BY <2>1 DEF Coarser
  <2>2. CASE i # j + 1
    <3>1. i \in 0 .. j /\ j <= n /\ j + 1 \in 1 .. n /\ (j + 1) - 1 = j
      BY <2>2
    <3>2. Coarser(walk[j], walk[i], A) /\ Coarser(walk[j + 1], walk[j], A)
      BY <1>2, <3>1
    <3> QED
      BY <3>2 DEF Coarser
  <2> QED
    BY <2>1, <2>2
<1> HIDE DEF T
<1>3. Nat \subseteq T
  BY <1>1, <1>2, SetInduction
<1> USE DEF T
<1> QED
  BY <1>3

-----------------------------------------------------------------------------
(* The inner loop.                                                         *)
IsJoinFold(fold, parents, left, order) ==
  fold = [s \in SUBSET (DOMAIN order) |->
            IF s = {} THEN parents
            ELSE IF left < order[Greatest(s)] /\ Linked(left, order[Greatest(s)])
                 THEN UnionGroups(fold[s \ {Greatest(s)}], left, order[Greatest(s)])
                 ELSE fold[s \ {Greatest(s)}]]

IsJoinStep(step, left, order) ==
  /\ step \in [(1 .. Len(order)) \X Groupings -> Groupings]
  /\ \A i \in 1 .. Len(order), p \in Groupings : step[<<i, p>>] = Join(p, left, order[i])

(* The inner loop is a walk.                                               *)
LEMMA JoinWalk ==
  ASSUME active_sources \in SUBSET Nat, NEW parents \in Groupings, NEW left \in active_sources,
         NEW order \in Seq(active_sources)
  PROVE  \E walk, step :
           /\ IsWalk(walk, Len(order), Groupings, parents, step)
           /\ IsJoinStep(step, left, order)
           /\ walk[Len(order)] = JoinLinked(parents, left, order)
<1>1. PICK n \in Nat : n = Len(order) /\ DOMAIN order = 1 .. n
                       /\ \A i \in 1 .. n : order[i] \in active_sources
  OBVIOUS
<1>2. PICK step : step = [p \in (1 .. n) \X Groupings |-> Join(p[2], left, order[p[1]])]
  OBVIOUS
<1>3. /\ step \in [(1 .. n) \X Groupings -> Groupings]
      /\ \A i \in 1 .. n, p \in Groupings : step[<<i, p>>] = Join(p, left, order[i])
  <2>1. \A i \in 1 .. n, p \in Groupings : Join(p, left, order[i]) \in Groupings
    BY <1>1, JoinGroups
  <2> QED
    BY <1>2, <2>1
<1>4. PICK h \in [SUBSET (1 .. n) -> Groupings] : SolvesLoop(h, n, parents, step)
  BY <1>3, Loop
<1>5. IsJoinFold(h, parents, left, order)
  <2>1. ASSUME NEW s \in SUBSET (1 .. n)
        PROVE  h[s] = IF s = {} THEN parents
                      ELSE IF left < order[Greatest(s)] /\ Linked(left, order[Greatest(s)])
                           THEN UnionGroups(h[s \ {Greatest(s)}], left, order[Greatest(s)])
                           ELSE h[s \ {Greatest(s)}]
    <3>1. CASE s = {}
      BY <1>4, <3>1 DEF SolvesLoop
    <3>2. CASE s # {}
      <4>1. Greatest(s) \in 1 .. n /\ h[s \ {Greatest(s)}] \in Groupings
        BY <3>2, GreatestOf
      <4>2. h[s] = step[<<Greatest(s), h[s \ {Greatest(s)}]>>]
        BY <1>4, <3>2 DEF SolvesLoop
      <4>3. h[s] = Join(h[s \ {Greatest(s)}], left, order[Greatest(s)])
        BY <1>3, <4>1, <4>2
      <4> QED
        BY <3>2, <4>3 DEF Join
    <3> QED
      BY <3>1, <3>2
  <2>2. h = [s \in SUBSET (1 .. n) |-> h[s]]
    OBVIOUS
  <2> QED
    BY <1>1, <2>1, <2>2, Zenon DEF IsJoinFold
<1> DEFINE fold == CHOOSE f : IsJoinFold(f, parents, left, order)
<1>6. IsJoinFold(fold, parents, left, order)
  BY <1>5, Zenon
<1>7. JoinLinked(parents, left, order) = fold[1 .. n]
  BY <1>1, Zenon DEF JoinLinked, FoldLeft, MapThenFoldSet, IsJoinFold, Max, Greatest
<1> HIDE DEF fold
<1>8. \A s \in SUBSET (1 .. n) :
        fold[s] = IF s = {} THEN parents
                  ELSE IF left < order[Greatest(s)] /\ Linked(left, order[Greatest(s)])
                       THEN UnionGroups(fold[s \ {Greatest(s)}], left, order[Greatest(s)])
                       ELSE fold[s \ {Greatest(s)}]
  BY <1>1, <1>6, Zenon DEF IsJoinFold
<1>9. fold[{}] = parents
  BY <1>8
<1>10. ASSUME NEW i \in 1 .. n, fold[1 .. (i - 1)] \in Groupings
       PROVE  fold[1 .. i] = step[<<i, fold[1 .. (i - 1)]>>]
  <2>1. /\ 1 .. i \in SUBSET (1 .. n) /\ 1 .. i # {}
        /\ Greatest(1 .. i) = i /\ (1 .. i) \ {i} = 1 .. (i - 1)
    BY GreatestOfInterval
  <2>2. fold[1 .. i] = Join(fold[1 .. (i - 1)], left, order[i])
    BY <1>8, <2>1, Zenon DEF Join
  <2> QED
    BY <1>3, <1>10, <2>2
<1>11. TakesSteps(fold, n, Groupings, parents, step)
  BY <1>9, <1>10 DEF TakesSteps
<1>12. HasWalk(n, Groupings, parents, step, fold[1 .. n])
  BY <1>3, <1>11, LoopWalk
<1> QED
  BY <1>1, <1>3, <1>7, <1>12 DEF HasWalk, IsJoinStep

(* After it, a source is with all that it is linked with.                  *)
LEMMA InnerLoop ==
  ASSUME active_sources \in SUBSET Nat, NEW parents \in Groupings, NEW left \in active_sources,
         NEW order \in Seq(active_sources), NEW joined, joined = JoinLinked(parents, left, order)
  PROVE  /\ joined \in Groupings /\ Coarser(joined, parents, active_sources)
         /\ \A i \in 1 .. Len(order) :
              left < order[i] /\ Linked(left, order[i]) => Same(joined, left, order[i])
<1>1. PICK n \in Nat : n = Len(order) /\ \A i \in 1 .. n : order[i] \in active_sources
  OBVIOUS
<1>2. PICK walk, step : /\ IsWalk(walk, n, Groupings, parents, step)
                        /\ IsJoinStep(step, left, order)
                        /\ walk[n] = joined
  BY <1>1, JoinWalk
<1>3. /\ walk \in [0 .. n -> Groupings] /\ walk[0] = parents
      /\ \A i \in 1 .. n : /\ i \in 0 .. n /\ i - 1 \in 0 .. n
                          /\ walk[i - 1] \in Groupings
                          /\ walk[i] = Join(walk[i - 1], left, order[i])
  <2>1. walk \in [0 .. n -> Groupings] /\ walk[0] = parents
    BY <1>2 DEF IsWalk
  <2>2. ASSUME NEW i \in 1 .. n
        PROVE  /\ i \in 0 .. n /\ i - 1 \in 0 .. n /\ walk[i - 1] \in Groupings
               /\ walk[i] = Join(walk[i - 1], left, order[i])
    <3>1. i \in 0 .. n /\ i - 1 \in 0 .. n
      OBVIOUS
    <3>2. walk[i - 1] \in Groupings
      BY <2>1, <3>1
    <3>3. walk[i] = step[<<i, walk[i - 1]>>]
      BY <1>2 DEF IsWalk
    <3> QED
      BY <1>1, <1>2, <3>1, <3>2, <3>3 DEF IsJoinStep
  <2> QED
    BY <2>1, <2>2
<1>4. \A i \in 1 .. n :
        /\ Coarser(walk[i], walk[i - 1], active_sources)
        /\ left < order[i] /\ Linked(left, order[i]) => Same(walk[i], left, order[i])
  BY <1>1, <1>3, JoinGroups
<1>5. \A i \in 0 .. n : Coarser(walk[n], walk[i], active_sources)
  BY <1>4, WalkCoarsens
<1>6. ASSUME NEW i \in 1 .. n, left < order[i], Linked(left, order[i])
      PROVE  Same(joined, left, order[i])
  <2>1. Same(walk[i], left, order[i]) /\ Coarser(joined, walk[i], active_sources)
    BY <1>2, <1>3, <1>4, <1>5, <1>6
  <2> QED
    BY <1>1, <2>1 DEF Coarser
<1>7. joined \in Groupings /\ Coarser(joined, parents, active_sources)
  <2>1. 0 \in 0 .. n /\ n \in 0 .. n
    OBVIOUS
  <2> QED
    BY <1>2, <1>3, <1>5, <2>1
<1> QED
  BY <1>1, <1>6, <1>7

-----------------------------------------------------------------------------
(* The outer loop.                                                         *)
JoinAll(parents, order) ==
  FoldLeft(LAMBDA ps, left : JoinLinked(ps, left, order), parents, order)

IsGroupFold(fold, first, order) ==
  fold = [s \in SUBSET (DOMAIN order) |->
            IF s = {} THEN first
            ELSE JoinLinked(fold[s \ {Greatest(s)}], order[Greatest(s)], order)]

IsGroupStep(step, order) ==
  /\ step \in [(1 .. Len(order)) \X Groupings -> Groupings]
  /\ \A i \in 1 .. Len(order), p \in Groupings :
       step[<<i, p>>] = JoinLinked(p, order[i], order)

(* The outer loop is a walk.                                               *)
LEMMA GroupWalk ==
  ASSUME active_sources \in SUBSET Nat, NEW first \in Groupings,
         NEW order \in Seq(active_sources)
  PROVE  \E walk, step :
           /\ IsWalk(walk, Len(order), Groupings, first, step)
           /\ IsGroupStep(step, order)
           /\ walk[Len(order)] = JoinAll(first, order)
<1>1. PICK n \in Nat : n = Len(order) /\ DOMAIN order = 1 .. n
                       /\ \A i \in 1 .. n : order[i] \in active_sources
  OBVIOUS
<1>2. PICK step : step = [p \in (1 .. n) \X Groupings |-> JoinLinked(p[2], order[p[1]], order)]
  OBVIOUS
<1>3. /\ step \in [(1 .. n) \X Groupings -> Groupings]
      /\ \A i \in 1 .. n, p \in Groupings : step[<<i, p>>] = JoinLinked(p, order[i], order)
  <2>1. \A i \in 1 .. n, p \in Groupings : JoinLinked(p, order[i], order) \in Groupings
    BY <1>1, InnerLoop
  <2> QED
    BY <1>2, <2>1
<1>4. PICK h \in [SUBSET (1 .. n) -> Groupings] : SolvesLoop(h, n, first, step)
  BY <1>3, Loop
<1>5. IsGroupFold(h, first, order)
  <2>1. ASSUME NEW s \in SUBSET (1 .. n)
        PROVE  h[s] = IF s = {} THEN first
                      ELSE JoinLinked(h[s \ {Greatest(s)}], order[Greatest(s)], order)
    <3>1. CASE s = {}
      BY <1>4, <3>1 DEF SolvesLoop
    <3>2. CASE s # {}
      <4>1. Greatest(s) \in 1 .. n /\ h[s \ {Greatest(s)}] \in Groupings
        BY <3>2, GreatestOf
      <4>2. h[s] = step[<<Greatest(s), h[s \ {Greatest(s)}]>>]
        BY <1>4, <3>2 DEF SolvesLoop
      <4> QED
        BY <1>3, <3>2, <4>1, <4>2
    <3> QED
      BY <3>1, <3>2
  <2>2. h = [s \in SUBSET (1 .. n) |-> h[s]]
    OBVIOUS
  <2> QED
    BY <1>1, <2>1, <2>2, Zenon DEF IsGroupFold
<1> DEFINE fold == CHOOSE f : IsGroupFold(f, first, order)
<1>6. IsGroupFold(fold, first, order)
  BY <1>5, Zenon
<1>7. JoinAll(first, order) = fold[1 .. n]
  BY <1>1, Zenon DEF JoinAll, FoldLeft, MapThenFoldSet, IsGroupFold, Max, Greatest
<1> HIDE DEF fold
<1>8. \A s \in SUBSET (1 .. n) :
        fold[s] = IF s = {} THEN first
                  ELSE JoinLinked(fold[s \ {Greatest(s)}], order[Greatest(s)], order)
  BY <1>1, <1>6, Zenon DEF IsGroupFold
<1>9. fold[{}] = first
  BY <1>8
<1>10. ASSUME NEW i \in 1 .. n, fold[1 .. (i - 1)] \in Groupings
       PROVE  fold[1 .. i] = step[<<i, fold[1 .. (i - 1)]>>]
  <2>1. /\ 1 .. i \in SUBSET (1 .. n) /\ 1 .. i # {}
        /\ Greatest(1 .. i) = i /\ (1 .. i) \ {i} = 1 .. (i - 1)
    BY GreatestOfInterval
  <2>2. fold[1 .. i] = JoinLinked(fold[1 .. (i - 1)], order[i], order)
    BY <1>8, <2>1, Zenon
  <2> QED
    BY <1>3, <1>10, <2>2
<1>11. TakesSteps(fold, n, Groupings, first, step)
  BY <1>9, <1>10 DEF TakesSteps
<1>12. HasWalk(n, Groupings, first, step, fold[1 .. n])
  BY <1>3, <1>11, LoopWalk
<1> QED
  BY <1>1, <1>3, <1>7, <1>12 DEF HasWalk, IsGroupStep

(* After the loops every two linked sources are in one group.              *)
LEMMA OuterLoop ==
  ASSUME active_sources \in SUBSET Nat, IsFiniteSet(active_sources), NEW parents,
         parents = JoinAll([s \in active_sources |-> s], InOrder(active_sources))
  PROVE  /\ parents \in Groupings
         /\ \A s, t \in active_sources : s < t /\ Linked(s, t) => Same(parents, s, t)
<1>1. PICK order \in Seq(active_sources), n \in Nat :
        /\ order = InOrder(active_sources) /\ n = Len(order)
        /\ \A i \in 1 .. n : order[i] \in active_sources
        /\ \A s \in active_sources : \E i \in 1 .. n : order[i] = s
  <2>1. InOrder(active_sources) \in Seq(active_sources) /\ Len(InOrder(active_sources)) \in Nat
    BY OrderIsComplete
  <2>2. \A i \in 1 .. Len(InOrder(active_sources)) : InOrder(active_sources)[i] \in active_sources
    BY <2>1
  <2> QED
    BY <2>1, <2>2, OrderIsComplete
<1>2. PICK first : first = [s \in active_sources |-> s]
  OBVIOUS
<1>3. first \in Groupings
  <2>1. \A s \in active_sources : s <= s
    OBVIOUS
  <2>2. first \in Forests(active_sources)
    BY <1>2, <2>1 DEF Forests
  <2>3. \A s \in active_sources : FindGroup(first, s) = s
    BY <1>2, <2>2, FindGroupRecurs
  <2> QED
    BY <2>2, <2>3 DEF Groupings, Inside, Same
<1>4. PICK walk, step : /\ IsWalk(walk, n, Groupings, first, step)
                        /\ IsGroupStep(step, order)
                        /\ walk[n] = parents
  <2>1. \E walk, step : /\ IsWalk(walk, Len(order), Groupings, first, step)
                       /\ IsGroupStep(step, order)
                       /\ walk[Len(order)] = JoinAll(first, order)
    BY <1>3, GroupWalk
  <2> QED
    BY <1>1, <1>2, <2>1
<1>5. /\ walk \in [0 .. n -> Groupings]
      /\ \A i \in 1 .. n : /\ i \in 0 .. n /\ i - 1 \in 0 .. n
                          /\ walk[i - 1] \in Groupings
                          /\ walk[i] = JoinLinked(walk[i - 1], order[i], order)
  <2>1. walk \in [0 .. n -> Groupings]
    BY <1>4 DEF IsWalk
  <2>2. ASSUME NEW i \in 1 .. n
        PROVE  /\ i \in 0 .. n /\ i - 1 \in 0 .. n /\ walk[i - 1] \in Groupings
               /\ walk[i] = JoinLinked(walk[i - 1], order[i], order)
    <3>1. i \in 0 .. n /\ i - 1 \in 0 .. n
      OBVIOUS
    <3>2. walk[i - 1] \in Groupings
      BY <2>1, <3>1
    <3>3. walk[i] = step[<<i, walk[i - 1]>>]
      BY <1>4 DEF IsWalk
    <3> QED
      BY <1>1, <1>4, <3>1, <3>2, <3>3 DEF IsGroupStep
  <2> QED
    BY <2>1, <2>2
<1>6. ASSUME NEW i \in 1 .. n
      PROVE  /\ Coarser(walk[i], walk[i - 1], active_sources)
             /\ \A j \in 1 .. n : order[i] < order[j] /\ Linked(order[i], order[j])
                                   => Same(walk[i], order[i], order[j])
  <2>0. walk[i - 1] \in Groupings /\ order[i] \in active_sources
        /\ walk[i] = JoinLinked(walk[i - 1], order[i], order)
    BY <1>1, <1>5
  <2>1. PICK before \in Groupings, left \in active_sources, joined \in {walk[i]} :
          /\ before = walk[i - 1] /\ left = order[i] /\ joined = walk[i]
          /\ joined = JoinLinked(before, left, order)
    BY <2>0, Zenon
  <2>2. /\ Coarser(joined, before, active_sources)
        /\ \A j \in 1 .. n :
             left < order[j] /\ Linked(left, order[j]) => Same(joined, left, order[j])
    BY <1>1, <2>1, InnerLoop
  <2> QED
    BY <2>1, <2>2
<1>7. \A i \in 0 .. n : Coarser(walk[n], walk[i], active_sources)
  BY <1>6, WalkCoarsens
<1>8. ASSUME NEW s \in active_sources, NEW t \in active_sources, s < t, Linked(s, t)
      PROVE  Same(parents, s, t)
  <2>1. PICK i \in 1 .. n, j \in 1 .. n : order[i] = s /\ order[j] = t
    BY <1>1
  <2>2. Same(walk[i], s, t) /\ Coarser(walk[n], walk[i], active_sources)
    BY <1>5, <1>6, <1>7, <1>8, <2>1
  <2> QED
    BY <1>4, <2>2 DEF Coarser
<1>9. parents \in Groupings
  <2>1. n \in 0 .. n
    OBVIOUS
  <2> QED
    BY <1>4, <1>5, <2>1
<1> QED
  BY <1>8, <1>9

(* So groups are the connected components.                                 *)
LEMMA GroupsHold ==
  ASSUME active_sources \in SUBSET Nat, IsFiniteSet(active_sources)
  PROVE  GroupsAreComponents
<1> DEFINE A == active_sources
<1>1. PICK parents : 
        parents = JoinAll([s \in active_sources |-> s], InOrder(active_sources))
  OBVIOUS
<1>2. /\ parents \in Forests(A) /\ Inside(parents)
      /\ \A s, t \in A : s < t /\ Linked(s, t) => Same(parents, s, t)
  BY <1>1, OuterLoop DEF Groupings
<1>3. SameServerGrouping = [s \in A |-> FindGroup(parents, s)]
  BY <1>1, Zenon DEF SameServerGrouping, JoinAll
<1>4. \A s \in A : FindGroup(parents, s) <= s
  BY <1>2, FindGroupIsRoot
<1>5. \A s, t \in A : Linked(s, t) => Same(parents, s, t)
  <2> SUFFICES ASSUME NEW s \in A, NEW t \in A, Linked(s, t) PROVE Same(parents, s, t)
    OBVIOUS
  <2>1. s < t \/ t < s \/ s = t
    OBVIOUS
  <2>2. Linked(t, s)
    BY LinksAreMutual
  <2> QED
    BY <1>2, <2>1, <2>2 DEF Same
<1>6. ASSUME NEW s \in A, NEW t \in A
      PROVE  Same(parents, s, t) <=>
               \A C \in {D \in SUBSET A : Closed(D)} : s \in C => t \in C
  <2>1. ASSUME Same(parents, s, t), NEW C \in SUBSET A, Closed(C), s \in C PROVE t \in C
    BY <1>2, <2>1 DEF Inside
  <2>2. ASSUME \A C \in {D \in SUBSET A : Closed(D)} : s \in C => t \in C
        PROVE  Same(parents, s, t)
    <3> DEFINE group == {u \in A : Same(parents, s, u)}
    <3>1. Closed(group)
      BY <1>5 DEF Closed, Same
    <3>2. s \in group
      BY DEF Same
    <3>3. t \in group
      BY <2>2, <3>1, <3>2
    <3> QED
      BY <3>3
  <2> QED
    BY <2>1, <2>2
<1> QED
  BY <1>3, <1>4, <1>6 DEF GroupsAreComponents, Same

(* For any sources and tab lists, two sources are in one group if and only *)
(* if a chain of shared identities leads from one to the other             *)
(* (same_server_grouping).                                                 *)
THEOREM GroupsAreServers == ArbitrationSpec => []GroupsAreComponents
<1>1. ArbitrationInv => GroupsAreComponents
  <2> SUFFICES ASSUME ArbitrationInv PROVE GroupsAreComponents
    OBVIOUS
  <2>1. Sources \in SUBSET Nat /\ IsFiniteSet(Sources)
    BY ArbitrationAssumption
  <2>2. active_sources \in SUBSET Sources
    BY DEF ArbitrationInv
  <2>3. active_sources \in SUBSET Nat /\ IsFiniteSet(active_sources)
    BY <2>1, <2>2, FS_Subset
  <2> QED
    BY <2>3, GroupsHold
<1> QED
  BY <1>1, ArbitrationInvariant, PTL

=============================================================================
