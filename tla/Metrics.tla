------------------------------ MODULE Metrics ------------------------------
(***************************************************************************)
(* The accounting of traffic: src/src/metrics.rs, the loop of              *)
(* src/src/main.rs that moves it to the tables, and the counter of the     *)
(* bytes of a TCP connection (src/src/transport.rs) that the pump of a     *)
(* WebSocket session samples (src/src/web.rs).                             *)
(*                                                                         *)
(* Byte counts do not saturate here.  A process that stops, for whatever   *)
(* reason, does not flush: shutdown and crash are one action.              *)
(***************************************************************************)
EXTENDS Integers, Sequences, FiniteSets, FiniteSetsExt, Functions

CONSTANTS
  Series,         \* layer, channel and direction
  WireSeries,     \* the one of the sampled WebSocket connection
  Actors,         \* ids of connections
  MessageTypes,
  WindowSeconds,  \* WINDOW_SECONDS
  Periods,        \* the tables: seconds of a minute, an hour and a day
  BucketSizes,    \* seconds of the buckets of a history: 1m, 5m, ... 1d
  LastSecond, MaxBytes, MaxRestarts   \* bounds of the model

ASSUME MetricsAssumption ==
  /\ WireSeries \in Series
  /\ IsFiniteSet(Actors) /\ IsFiniteSet(MessageTypes)
  /\ WindowSeconds \in Nat \ {0}
  /\ Periods \subseteq Nat \ {0} /\ BucketSizes \subseteq Nat \ {0}
  /\ LastSecond \in Nat /\ MaxBytes \in Nat /\ MaxRestarts \in Nat

(* The buckets of a history are made of whole periods of its table.        *)
ASSUME BucketAssumption ==
  \A bucket \in BucketSizes :
    /\ \E t \in Periods : t <= bucket
    /\ \A t \in Periods : t <= bucket => bucket % t = 0

Seconds == 0 .. LastSecond
Keys == Series \X Seconds
NoBytes == [key \in Keys |-> 0]
Empty == [messages |-> 0, bytes |-> 0, max_bytes |-> 0]
SumOf(f, S) == FoldFunctionOnSet(+, 0, f, S)

VARIABLES
  second,       \* the clock
  buckets,      \* live traffic, a bucket per second, in order of arrival
  pending_rows,      \* not yet taken by the flush
  flush,        \* the increments taken, those still to be inserted, the transaction
  stored,       \* the committed tables: bytes per period, place and series
  by_type,      \* totals per message type
  connections,  \* registered: per message type, by actor
  wire,         \* WireCounter, the sampler and the pump
  restarts,
  recorded, lost, sent  \* history: bytes, bytes lost, packets of this process

metrics_vars == <<second, buckets, pending_rows, flush, stored, by_type, connections, wire,
                  restarts, recorded, lost, sent>>

Cells == {t \in [seconds : Periods, place : Seconds, series : Series] :
            t.seconds * t.place <= LastSecond}
Idle == [running |-> FALSE, taken |-> NoBytes, rest |-> {}, tables |-> [t \in Cells |-> 0]]
NoWire == [active |-> FALSE, total |-> 0, last |-> 0, read |-> {}, pump |-> FALSE, counted |-> 0, final |-> 0]
Places(t) == t.seconds * t.place .. t.seconds * t.place + t.seconds - 1

MetricsInit ==
  /\ second = 0 /\ buckets = <<>> /\ pending_rows = NoBytes /\ flush = Idle
  /\ stored = [t \in Cells |-> 0]
  /\ by_type = [m \in MessageTypes |-> Empty] /\ connections = [a \in {} |-> by_type]
  /\ wire = NoWire /\ restarts = 0
  /\ recorded = NoBytes /\ lost = NoBytes /\ sent = {}

Tick == /\ second < LastSecond /\ second' = second + 1
        /\ UNCHANGED <<buckets, pending_rows, flush, stored, by_type, connections, wire, restarts,
                       recorded, lost, sent>>

-----------------------------------------------------------------------------
(* A recorder reads the clock before it takes the lock: what it writes may *)
(* be of the second before.                                                *)
Read == {at \in Seconds : at \in {second - 1, second}}

(* From the front, and two seconds longer than needed.                     *)
Prune(seq, at) ==
  LET old == {i \in DOMAIN seq : \A j \in 1 .. i : seq[j].second < at - WindowSeconds - 2}
  IN SubSeq(seq, Cardinality(old) + 1, Len(seq))

NewBucket(at) == [second |-> at, traffic |-> [s \in Series |-> 0],
                  protobuf |-> [k \in Actors \X MessageTypes |-> <<0, 0>>]]

(* Mutant: a bucket that is newer is taken as well.                        *)
CurrentBucketOrNewer(at) ==
  LET kept == Prune(buckets, at)
  IN IF kept # <<>> /\ kept[Len(kept)].second >= at THEN kept ELSE Append(kept, NewBucket(at))

CurrentBucket(at) ==
  LET kept == Prune(buckets, at)
  IN IF kept # <<>> /\ kept[Len(kept)].second = at THEN kept ELSE Append(kept, NewBucket(at))

RecordBytes(series, amount, at) ==
  LET current == CurrentBucket(at)
  IN /\ buckets' = [current EXCEPT ![Len(current)].traffic[series] = @ + amount]
     /\ pending_rows' = [pending_rows EXCEPT ![<<series, at>>] = @ + amount]
     /\ recorded' = [recorded EXCEPT ![<<series, at>>] = @ + amount]

(* Nothing is recorded of an amount of zero.                               *)
RecordOrSkip(series, amount, at) ==
  IF amount > 0 THEN RecordBytes(series, amount, at) ELSE UNCHANGED <<buckets, pending_rows, recorded>>

Record(series) ==
  /\ SumOf(recorded, Keys) < MaxBytes
  /\ \E at \in Read : RecordBytes(series, 1, at)
  /\ UNCHANGED <<second, flush, stored, by_type, connections, wire, restarts, lost, sent>>

RegisterConnection(actor) ==
  /\ connections' = [a \in DOMAIN connections \cup {actor} |->
                       IF a = actor THEN [m \in MessageTypes |-> Empty] ELSE connections[a]]
  /\ UNCHANGED <<second, buckets, pending_rows, flush, stored, by_type, wire, restarts, recorded, lost, sent>>

Unregister(actor) ==
  /\ connections' = [a \in DOMAIN connections \ {actor} |-> connections[a]]
  /\ UNCHANGED <<second, buckets, pending_rows, flush, stored, by_type, wire, restarts, recorded, lost, sent>>

AddPacket(totals, bytes) ==
  [messages |-> totals.messages + 1, bytes |-> totals.bytes + bytes,
   max_bytes |-> IF totals.max_bytes < bytes THEN bytes ELSE totals.max_bytes]

(* A packet counts for its type whether or not its connection is still     *)
(* registered: the writer of a session may outlive it.                     *)
RecordProtobuf(actor, type, bytes) ==
  /\ Cardinality(sent) < MaxBytes
  /\ \E at \in Read :
       LET current == CurrentBucket(at) IN
       /\ buckets' = [current EXCEPT ![Len(current)].protobuf[<<actor, type>>] =
                        <<@[1] + 1, @[2] + bytes>>]
       /\ sent' = sent \cup {[nr |-> Cardinality(sent), actor |-> actor, type |-> type,
                             bytes |-> bytes, at |-> at]}
  /\ by_type' = [by_type EXCEPT ![type] = AddPacket(@, bytes)]
  /\ connections' = [a \in DOMAIN connections |->
       IF a = actor THEN [connections[a] EXCEPT ![type] = AddPacket(@, bytes)] ELSE connections[a]]
  /\ UNCHANGED <<second, pending_rows, flush, stored, wire, restarts, recorded, lost>>

-----------------------------------------------------------------------------
(* What the admin API shows.                                               *)
Live == {i \in DOMAIN buckets : buckets[i].second > second - WindowSeconds}

LiveTraffic(series) == SumOf([i \in Live |-> buckets[i].traffic[series]], Live)

LiveOf(actor, type) ==
  <<SumOf([i \in Live |-> buckets[i].protobuf[<<actor, type>>][1]], Live),
    SumOf([i \in Live |-> buckets[i].protobuf[<<actor, type>>][2]], Live)>>

(* The live traffic of a type is summed over the actors of the buckets,    *)
(* registered or not.                                                      *)
LiveOfType(type) ==
  <<SumOf([a \in Actors |-> LiveOf(a, type)[1]], Actors),
    SumOf([a \in Actors |-> LiveOf(a, type)[2]], Actors)>>

CombineSession(totals) ==
  LET types == DOMAIN totals IN
  [messages |-> SumOf([m \in types |-> totals[m].messages], types),
   bytes |-> SumOf([m \in types |-> totals[m].bytes], types),
   max_bytes |-> Max({totals[m].max_bytes : m \in types} \cup {0})]

(* The history of a range: from the table of the longest period that is no *)
(* longer than a bucket, with the start moved back to one of its buckets.  *)
TableFor(bucket) == Max({t \in Periods : t <= bucket})

AlignDatetime(at, bucket) == at - (at % bucket)

(* Rows before the start or past the last bucket are left out.             *)
TrafficSeries(series, from, count, bucket) ==
  LET start == AlignDatetime(from, bucket)
      rows(i) == {t \in Cells : /\ t.seconds = TableFor(bucket) /\ t.series = series
                               /\ t.seconds * t.place >= start
                               /\ (t.seconds * t.place - start) \div bucket = i}
  IN [i \in 0 .. count - 1 |-> SumOf(stored, rows(i))]

-----------------------------------------------------------------------------
(* flush_traffic_loop.                                                     *)
DrainPending ==
  /\ ~flush.running /\ pending_rows # NoBytes
  /\ flush' = [running |-> TRUE, taken |-> pending_rows, rest |-> {key \in Keys : pending_rows[key] > 0}, tables |-> stored]
  /\ pending_rows' = NoBytes
  /\ UNCHANGED <<second, buckets, stored, by_type, connections, wire, restarts, recorded, lost, sent>>

(* An increment goes into each of the three tables of its layer.           *)
InsertIncrement(key) ==
  /\ flush.running /\ key \in flush.rest
  /\ flush' = [flush EXCEPT
       !.rest = @ \ {key},
       !.tables = [t \in Cells |-> IF t.series = key[1] /\ key[2] \in Places(t)
                                   THEN @[t] + flush.taken[key] ELSE @[t]]]
  /\ UNCHANGED <<second, buckets, pending_rows, stored, by_type, connections, wire, restarts,
                 recorded, lost, sent>>

CommitFlush ==
  /\ flush.running /\ flush.rest = {}
  /\ stored' = flush.tables /\ flush' = Idle
  /\ UNCHANGED <<second, buckets, pending_rows, by_type, connections, wire, restarts, recorded, lost, sent>>

(* Mutant: what is requeued takes the place of what came since.            *)
RequeueOver(taken) == [key \in Keys |-> IF taken[key] > 0 THEN taken[key] ELSE pending_rows[key]]

Requeue(taken) == [key \in Keys |-> pending_rows[key] + taken[key]]

(* Any statement, or the commit, fails: the transaction is rolled back.    *)
FailFlush ==
  /\ flush.running
  /\ pending_rows' = Requeue(flush.taken) /\ flush' = Idle
  /\ UNCHANGED <<second, buckets, stored, by_type, connections, wire, restarts, recorded, lost, sent>>

Restart ==
  /\ restarts < MaxRestarts /\ restarts' = restarts + 1
  /\ lost' = [key \in Keys |-> lost[key] + pending_rows[key] + flush.taken[key]]
  /\ buckets' = <<>> /\ pending_rows' = NoBytes /\ flush' = Idle /\ wire' = NoWire
  /\ by_type' = [m \in MessageTypes |-> Empty] /\ connections' = [a \in {} |-> by_type] /\ sent' = {}
  /\ UNCHANGED <<second, stored, recorded>>

-----------------------------------------------------------------------------
(* The bytes of a TCP connection, counted below the WebSocket frames from  *)
(* the upgrade on, and the pump whose sampler moves them here.             *)
ActivateSession ==
  /\ ~wire.active /\ ~wire.pump /\ wire.read = {} /\ wire.total = 0
  /\ wire' = [NoWire EXCEPT !.active = TRUE, !.pump = TRUE]
  /\ UNCHANGED <<second, buckets, pending_rows, flush, stored, by_type, connections, restarts,
                 recorded, lost, sent>>

Transfer ==
  /\ wire.active /\ wire.total < MaxBytes
  /\ wire' = [wire EXCEPT !.total = @ + 1]
  /\ UNCHANGED <<second, buckets, pending_rows, flush, stored, by_type, connections, restarts,
                 recorded, lost, sent>>

(* The session has ended; its pump may still be writing.                   *)
Deactivate ==
  /\ wire.active /\ wire' = [wire EXCEPT !.active = FALSE]
  /\ UNCHANGED <<second, buckets, pending_rows, flush, stored, by_type, connections, restarts,
                 recorded, lost, sent>>

SamplerReads ==
  /\ wire.pump /\ wire.read = {} /\ wire' = [wire EXCEPT !.read = {wire.total}]
  /\ UNCHANGED <<second, buckets, pending_rows, flush, stored, by_type, connections, restarts,
                 recorded, lost, sent>>

SamplerRecords ==
  /\ wire.read # {}
  /\ \E total \in wire.read, at \in Read :
       LET amount == IF total > wire.last THEN total - wire.last ELSE 0 IN
       /\ wire' = [wire EXCEPT !.read = {}, !.last = total, !.counted = @ + amount]
       /\ RecordOrSkip(WireSeries, amount, at)
  /\ UNCHANGED <<second, flush, stored, by_type, connections, restarts, lost, sent>>

(* The pump ends: it asks the sampler to stop, which it does at its next   *)
(* await, and records what has not been sampled.                           *)
PumpEnds ==
  /\ wire.pump
  /\ \E at \in Read :
       LET amount == IF wire.total > wire.last THEN wire.total - wire.last ELSE 0 IN
       /\ wire' = [wire EXCEPT !.pump = FALSE, !.counted = @ + amount, !.final = wire.total]
       /\ RecordOrSkip(WireSeries, amount, at)
  /\ UNCHANGED <<second, flush, stored, by_type, connections, restarts, lost, sent>>

-----------------------------------------------------------------------------
TrafficNext ==
  \/ Tick \/ DrainPending \/ CommitFlush \/ FailFlush \/ Restart
  \/ \E series \in Series : Record(series)
  \/ \E key \in Keys : InsertIncrement(key)

ProtobufNext ==
  \/ Tick \/ Restart
  \/ \E actor \in Actors : RegisterConnection(actor) \/ Unregister(actor)
  \/ \E actor \in Actors, type \in MessageTypes, bytes \in {1, 2} : RecordProtobuf(actor, type, bytes)

WireNext ==
  \/ Tick \/ ActivateSession \/ Transfer \/ Deactivate \/ SamplerReads \/ SamplerRecords \/ PumpEnds

MetricsNext == TrafficNext \/ ProtobufNext \/ WireNext

MetricsSpec == MetricsInit /\ [][MetricsNext]_metrics_vars

-----------------------------------------------------------------------------
(* What the connection's counter holds when its pump ends is recorded.     *)
WireIsRecorded == wire.counted >= wire.final

(* Every byte recorded is, once, in each of the tables or on its way to    *)
(* them, or went with a process that stopped: whatever fails between the   *)
(* drain and the commit, and whatever is recorded meanwhile.  The sampler  *)
(* and the end of the pump leave no byte of the wire to neither of them.   *)
TrafficAccounted ==
  /\ WireIsRecorded
  /\ \A t \in Cells :
       LET keys == {key \in Keys : key[1] = t.series /\ key[2] \in Places(t)}
       IN stored[t] + SumOf(pending_rows, keys) + SumOf(flush.taken, keys) + SumOf(lost, keys)
            = SumOf(recorded, keys)

(* What the admin API shows of the last seconds is what was sent in them,  *)
(* although recorders append and prune with clocks that differ, and the    *)
(* totals of the registered connections never exceed those of the types.   *)
WindowIsExact ==
  /\ restarts = 0 => \A series \in Series : LiveTraffic(series) =
       SumOf(recorded, {key \in Keys : key[1] = series /\ key[2] > second - WindowSeconds})
  /\ \A type \in MessageTypes :
       LET recent == {packet \in sent : packet.type = type /\ packet.at > second - WindowSeconds}
           listed == DOMAIN connections
       IN /\ LiveOfType(type) = <<Cardinality(recent), SumOf([packet \in recent |-> packet.bytes], recent)>>
          /\ SumOf([a \in listed |-> connections[a][type].bytes], listed) <= by_type[type].bytes
          /\ by_type[type].bytes <= CombineSession(by_type).bytes

(* However a history is cut, its buckets add up to what was stored of the  *)
(* seconds from the start of the first one to the end of the last.         *)
HistoryAddsUp ==
  \A series \in {t.series : t \in {c \in Cells : stored[c] > 0}}, bucket \in BucketSizes, from \in Seconds, count \in 1 .. 2 :
    LET shown == TrafficSeries(series, from, count, bucket)
        start == from - (from % bucket)
        finest == {t \in Cells : /\ t.seconds = Min(Periods) /\ t.series = series
                                /\ t.seconds * t.place \in start .. start + count * bucket - 1}
    IN SumOf(shown, 0 .. count - 1) = SumOf(stored, finest)

(* What the admin API shows adds up, of the last seconds and of the past.   *)
ViewsAreExact == WindowIsExact /\ HistoryAddsUp
=============================================================================
