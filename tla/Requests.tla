------------------------------ MODULE Requests ------------------------------
(***************************************************************************)
(* What a session's reader does with a message: handle_envelope and the    *)
(* answers in chunks of src/src/web.rs, with the relay's part in telling   *)
(* subscribers of the tab history's head (src/src/relay.rs).               *)
(*                                                                         *)
(* A reader handles a message at a time, a list of things to do; between   *)
(* any two of them other sessions, the relay and the writers go on.  It    *)
(* waits for room in the channel to the relay and in its own control       *)
(* channel; the relay waits for nobody, and what it finds no room for is   *)
(* dropped.  One room; the store's head is a number.                       *)
(***************************************************************************)
EXTENDS Integers, Sequences, FiniteSets, SequencesExt

CONSTANTS
  Readers,          \* sessions, each with a reader and a writer
  Answers,          \* results of queries: sequences of the sizes of items
  Limits,           \* chunk_limit
  MaxChunkBytes,    \* MAX_CHUNK_BYTES
  RelayCapacity,    \* EVENT_CAPACITY
  ControlPlaces,    \* CONTROL_CAPACITY
  MaxHead           \* bound: changes of the tab history

ASSUME RequestsAssumption ==
  /\ RelayCapacity \in Nat \ {0} /\ ControlPlaces \in Nat \ {0}
  /\ Limits \subseteq Nat \ {0} /\ MaxHead \in Nat /\ Answers \subseteq Seq(Nat)

VARIABLES
  store_head,   \* the revision of the tab history
  todo,         \* per reader: what is left of the message in hand
  read_head,    \* per reader: the head it has read
  events,       \* to the relay
  head_subscribers, \* tab_history_subscribed, as the relay knows it
  writer_control, \* per session: to its writer
  told,         \* per session: the heads it was told (history)
  missed,       \* sessions that a head was dropped for (history)
  received,     \* per session: the chunks of the last answer (history)
  expected      \* per session: the result that answer carries (history)

requests_vars == <<store_head, todo, read_head, events, head_subscribers, writer_control, told, missed,
                   received, expected>>

NoChunk == [items |-> <<>>, index |-> 0, count |-> 0, final |-> FALSE, error |-> FALSE]
Digest(revision) == [kind |-> "digest", head |-> revision, chunk |-> NoChunk]
ChunkOf(chunk) == [kind |-> "chunk", head |-> 0, chunk |-> chunk]
Reply(kind) == [kind |-> kind, head |-> 0, chunk |-> NoChunk]

(* Steps of a message: read the head, send to the relay, send to control.  *)
ReadHead == [do |-> "read", kind |-> "head", message |-> Reply("none")]
SendEvent(kind) == [do |-> "event", kind |-> kind, message |-> Reply("none")]
PushControl(message) == [do |-> "control", kind |-> message.kind, message |-> message]

RequestsInit ==
  /\ store_head = 0 /\ events = <<>> /\ head_subscribers = {} /\ missed = {}
  /\ todo = [s \in Readers |-> <<>>] /\ read_head = [s \in Readers |-> 0]
  /\ writer_control = [s \in Readers |-> <<>>] /\ told = [s \in Readers |-> {}]
  /\ received = [s \in Readers |-> <<>>] /\ expected = [s \in Readers |-> <<>>]

-----------------------------------------------------------------------------
(* Answers in chunks.                                                      *)
BytesOf(items) == FoldLeft(+, 0, items)

(* Halved, rounding up, until it fits or is one item.                      *)
Fit[items \in Seq(Nat)] ==
  IF Len(items) > 1 /\ BytesOf(items) > MaxChunkBytes
  THEN Fit[SubSeq(items, 1, (Len(items) + 1) \div 2)] ELSE items

(* Mutant: the next group begins where this one would have ended unhalved. *)
SplitSizedSkipping(items, limit) ==
  LET Groups[rest \in Seq(Nat)] ==
        IF rest = <<>> THEN <<>>
        ELSE LET end == IF limit < Len(rest) THEN limit ELSE Len(rest)
                 group == Fit[SubSeq(rest, 1, end)]
             IN <<group>> \o Groups[SubSeq(rest, end + 1, Len(rest))]
  IN IF items = <<>> THEN << <<>> >> ELSE Groups[items]

SplitSized(items, limit) ==
  LET Groups[rest \in Seq(Nat)] ==
        IF rest = <<>> THEN <<>>
        ELSE LET end == IF limit < Len(rest) THEN limit ELSE Len(rest)
                 group == Fit[SubSeq(rest, 1, end)]
             IN <<group>> \o Groups[SubSeq(rest, Len(group) + 1, Len(rest))]
  IN IF items = <<>> THEN << <<>> >> ELSE Groups[items]

(* The directory's answers are cut by number alone, at least one chunk.    *)
SplitByCount(items, limit) ==
  LET count == IF items = <<>> THEN 1 ELSE (Len(items) + limit - 1) \div limit
      end(i) == IF i * limit < Len(items) THEN i * limit ELSE Len(items)
  IN [i \in 1 .. count |-> SubSeq(items, (i - 1) * limit + 1, end(i))]

ChunkMessages(groups) ==
  [i \in DOMAIN groups |->
     PushControl(ChunkOf([items |-> groups[i], index |-> i - 1, count |-> Len(groups),
                          final |-> i = Len(groups), error |-> FALSE]))]

(* send_tab_sync_error, send_tab_lookup_error                              *)
ErrorChunk ==
  <<PushControl(ChunkOf([items |-> <<>>, index |-> 0, count |-> 1, final |-> TRUE, error |-> TRUE]))>>

-----------------------------------------------------------------------------
(* Messages, each when the one before is done.                             *)
Begin(s, steps) ==
  /\ todo[s] = <<>> /\ todo' = [todo EXCEPT ![s] = steps]

(* The store is written before the relay is told anything; a head is read  *)
(* only after a change.  Of an external source's publication the players   *)
(* of a compatibility list go the same way, and it is acknowledged.        *)
ReportSteps(changed) ==
  (IF changed THEN <<ReadHead>> ELSE <<>>) \o <<SendEvent("report")>> \o
  (IF changed THEN <<SendEvent("changed")>> ELSE <<>>)

PublishSteps(changed) ==
  (IF changed THEN <<ReadHead, SendEvent("changed")>> ELSE <<>>) \o <<PushControl(Reply("ack"))>>

Upsert(changed) ==
  IF changed THEN store_head < MaxHead /\ store_head' = store_head + 1 ELSE UNCHANGED store_head

PlayerReportBundle(s, changed) ==
  /\ Begin(s, ReportSteps(changed)) /\ Upsert(changed)
  /\ UNCHANGED <<read_head, events, head_subscribers, writer_control, told, missed, received, expected>>

ExternalDatasetPublish(s, changed) ==
  /\ Begin(s, PublishSteps(changed)) /\ Upsert(changed)
  /\ UNCHANGED <<read_head, events, head_subscribers, writer_control, told, missed, received, expected>>

(* Mutant: the head is read before the relay knows the subscriber.         *)
SubscribeStepsReadFirst(enabled) ==
  IF enabled THEN <<ReadHead, SendEvent("subscribe"), PushControl(Digest(0))>>
  ELSE <<SendEvent("unsubscribe")>>

SubscribeSteps(enabled) ==
  IF enabled THEN <<SendEvent("subscribe"), ReadHead, PushControl(Digest(0))>>
  ELSE <<SendEvent("unsubscribe")>>

TabHistorySubscribe(s, enabled) ==
  /\ Begin(s, SubscribeSteps(enabled))
  /\ UNCHANGED <<store_head, read_head, events, head_subscribers, writer_control, told, missed, received, expected>>

RespondTo(s, result, steps) ==
  /\ writer_control[s] = <<>>  \* the client asks again when it has been answered
  /\ Begin(s, steps)
  /\ received' = [received EXCEPT ![s] = <<>>] /\ expected' = [expected EXCEPT ![s] = result]
  /\ UNCHANGED <<store_head, read_head, events, head_subscribers, writer_control, told, missed>>

TabHistorySync(s, result, limit) == RespondTo(s, result, ChunkMessages(SplitSized(result, limit)))
DirectoryQuery(s, result, limit) == RespondTo(s, result, ChunkMessages(SplitByCount(result, limit)))
InvalidQuery(s) == RespondTo(s, <<>>, ErrorChunk)

Ping(s) ==
  /\ Begin(s, <<PushControl(Reply("pong"))>>)
  /\ UNCHANGED <<store_head, read_head, events, head_subscribers, writer_control, told, missed, received, expected>>

(* Resync, commands and requests for battle chunks are the relay's alone.  *)
ForRelay(s) ==
  /\ Begin(s, <<SendEvent("other")>>)
  /\ UNCHANGED <<store_head, read_head, events, head_subscribers, writer_control, told, missed, received, expected>>

Step(s, do) == /\ todo[s] # <<>> /\ todo[s][1].do = do /\ todo' = [todo EXCEPT ![s] = Tail(@)]

DoRead(s) ==
  /\ Step(s, "read") /\ read_head' = [read_head EXCEPT ![s] = store_head]
  /\ UNCHANGED <<store_head, events, head_subscribers, writer_control, told, missed, received, expected>>

DoEvent(s) ==
  /\ Step(s, "event") /\ Len(events) < RelayCapacity
  /\ events' = Append(events, [kind |-> todo[s][1].kind, session |-> s, head |-> read_head[s]])
  /\ UNCHANGED <<store_head, read_head, head_subscribers, writer_control, told, missed, received, expected>>

DoControl(s) ==
  /\ Step(s, "control") /\ Len(writer_control[s]) < ControlPlaces
  /\ LET message == todo[s][1].message IN
     writer_control' = [writer_control EXCEPT ![s] = Append(@,
       IF message.kind = "digest" THEN Digest(read_head[s]) ELSE message)]
  /\ UNCHANGED <<store_head, read_head, events, head_subscribers, told, missed, received, expected>>

(* The relay takes an event: TabHistorySubscription, TabHistoryChanged or  *)
(* another.                                                                *)
HandleEvent ==
  /\ events # <<>> /\ events' = Tail(events)
  /\ LET event == events[1]
         full == {s \in head_subscribers : Len(writer_control[s]) >= ControlPlaces}
     IN /\ head_subscribers' = CASE event.kind = "subscribe"   -> head_subscribers \cup {event.session}
                           [] event.kind = "unsubscribe" -> head_subscribers \ {event.session}
                           [] OTHER                      -> head_subscribers
        /\ IF event.kind = "changed"
           THEN /\ writer_control' = [s \in Readers |->
                     IF s \in head_subscribers \ full THEN Append(writer_control[s], Digest(event.head)) ELSE writer_control[s]]
                /\ missed' = missed \cup full
           ELSE UNCHANGED <<writer_control, missed>>
  /\ UNCHANGED <<store_head, todo, read_head, told, received, expected>>

(* A session's writer sends what is in its control channel.                *)
Write(s) ==
  /\ writer_control[s] # <<>> /\ writer_control' = [writer_control EXCEPT ![s] = Tail(@)]
  /\ LET message == writer_control[s][1] IN
     /\ told' = IF message.kind = "digest" THEN [told EXCEPT ![s] = @ \cup {message.head}] ELSE told
     /\ received' = IF message.kind = "chunk" THEN [received EXCEPT ![s] = Append(@, message.chunk)]
                    ELSE received
  /\ UNCHANGED <<store_head, todo, read_head, events, head_subscribers, missed, expected>>

SendingNext ==
  \/ \E s \in Readers : DoRead(s) \/ DoEvent(s) \/ DoControl(s) \/ Write(s)
  \/ HandleEvent

HeadsNext(reporters, subscribers) ==
  \/ \E s \in reporters, changed \in BOOLEAN : PlayerReportBundle(s, changed)
  \/ \E s \in subscribers, enabled \in BOOLEAN : TabHistorySubscribe(s, enabled)
  \/ SendingNext

AnswersNext(sessions) ==
  \/ \E s \in sessions, result \in Answers, limit \in Limits :
       TabHistorySync(s, result, limit) \/ DirectoryQuery(s, result, limit)
  \/ \E s \in sessions : InvalidQuery(s) \/ Ping(s) \/ ForRelay(s) \/ TabHistorySubscribe(s, TRUE)
  \/ \E s \in sessions, changed \in BOOLEAN : ExternalDatasetPublish(s, changed)
  \/ SendingNext

RequestsNext == HeadsNext(Readers, Readers) \/ AnswersNext(Readers)

RequestsSpec == RequestsInit /\ [][RequestsNext]_requests_vars

-----------------------------------------------------------------------------
(* Once everything sent has arrived, a subscriber for whom nothing was     *)
(* dropped has been told the newest head: a change that is committed while *)
(* a session subscribes, or while another's head is under way, is not      *)
(* lost between the reader's digest and the relay's.                       *)
NewestHeadIsTold ==
  (events = <<>> /\ \A s \in Readers : todo[s] = <<>> /\ writer_control[s] = <<>>)
    => \A s \in head_subscribers \ missed : store_head \in told[s]

(* The chunks among messages, in their order.                              *)
ChunksIn(messages) ==
  FlattenSeq([i \in DOMAIN messages |->
    IF messages[i].kind = "chunk" THEN <<messages[i].chunk>> ELSE <<>>])

(* Those that were sent, those that wait, and those to come.               *)
ChunkStream(s) ==
  received[s] \o ChunksIn(writer_control[s])
              \o ChunksIn([i \in DOMAIN todo[s] |-> todo[s][i].message])

(* The chunks of an answer, however far it has come, are its result cut in *)
(* order, numbered, and the last one final; nothing that the relay sends   *)
(* meanwhile takes the place of one.                                       *)
AnswersAreWhole ==
  \A s \in Readers :
    LET stream == ChunkStream(s)
    IN /\ FlattenSeq([i \in DOMAIN stream |-> stream[i].items]) = expected[s]
       /\ \A i \in DOMAIN stream :
            /\ stream[i].index = i - 1 /\ stream[i].count = Len(stream)
            /\ stream[i].final = (i = Len(stream))
=============================================================================
