---------------------------- MODULE BattleCache ----------------------------
(***************************************************************************)
(* The per-room cache of battle-map chunks kept by the relay               *)
(* (src/src/relay.rs, struct BattleRoomCache).                             *)
(*                                                                         *)
(* The cache stores the last value heard for every chunk.  Two indexes go  *)
(* with it: a queue that says which chunk is oldest, for expiry and for    *)
(* eviction at the capacity limit, and a bounded log of the keys that      *)
(* changed at each revision, from which an incremental patch is built for  *)
(* a client that still is at an earlier revision.                          *)
(*                                                                         *)
(* The code keeps the expiry queue as a deque of batches, one per report.  *)
(* Generations only grow, so the place of a key in the deque is given by   *)
(* its generation and then by its slot in the report; `expiry' is the set  *)
(* of the items still queued.  Empty batches never stay in the deque, so   *)
(* the set determines it.                                                  *)
(***************************************************************************)
EXTENDS Integers, Sequences, FiniteSets, Functions

CONSTANTS
  Keys,             \* chunk coordinates
  Shown,            \* the part of a chunk's value that is sent to clients
  Meta,             \* its provenance (reporter, observed_at, ...), never sent
  MaxEntries,       \* config.battle_chunk_cache_max_entries
  Retention,        \* config.battle_chunk_cache_retention_sec
  MaxChangeBatches, \* MAX_CHANGE_BATCHES (256 in the code)
  MaxChangeOps,     \* MAX_CHANGE_OPERATIONS (65536 in the code)
  PruneEvery,       \* generations between two prunes of the index (64)
  MaxReport,        \* bound: chunks in one report
  MaxGeneration,    \* bound: reports in a behaviour
  MaxNow            \* bound: the clock

ASSUME LimitsAssumption ==
  /\ MaxEntries \in Nat \ {0}
  /\ Retention \in Nat
  /\ MaxChangeBatches \in Nat
  /\ MaxChangeOps \in Nat
  /\ PruneEvery \in Nat \ {0}
  /\ MaxReport \in Nat
  /\ MaxGeneration \in Nat
  /\ MaxNow \in Nat

VARIABLES
  entries,           \* key -> [value, generation]
  expiry,            \* the expiry queue, as the set of its items
  changes,           \* the change log, oldest batch first
  change_operations, \* keys in the change log
  revision,          \* bumped by every visible change
  next_generation,   \* bumped by every report
  now,               \* the clock the caller reads
  history,           \* ghost: what clients should see at each revision
  heard              \* ghost: when each key was last reported

log_vars == <<changes, change_operations, revision, history>>
cache_vars ==
  <<entries, expiry, changes, change_operations, revision, next_generation,
    now, history, heard>>

Values == [shown : Shown, meta : Meta]
CachedBattleChunk == [value : Values, generation : Nat]
BattleChunkEntry == [key : Keys, value : Values]
Reports == UNION {[1..n -> BattleChunkEntry] : n \in 0..MaxReport}
ExpiryItem ==
  [generation : Nat, slot : Nat, key : Keys, received_at : Nat]
BattleChangeBatch == [revision : Nat, keys : SUBSET Keys]

-----------------------------------------------------------------------------
(* What a client may see of a cache: proto_entry removes the provenance.   *)

ProtoEntry(chunk) == chunk.value.shown
Empty == [k \in {} |-> k]

FullEntries(store) == [k \in DOMAIN store |-> ProtoEntry(store[k])]

-----------------------------------------------------------------------------
(* The expiry queue.                                                       *)

(* e is popped no later than f.                                            *)
NotAfter(e, f) ==
  \/ e.generation < f.generation
  \/ e.generation = f.generation /\ e.slot <= f.slot

Heads(queue) ==
  {{}} \cup {{f \in queue : NotAfter(f, e)} : e \in queue}

(* Mutant of Removed: the generation of the item is not compared.          *)
RemovedByKey(store, popped) ==
  {k \in DOMAIN store : \E e \in popped : e.key = k}

(* Popping an item removes its chunk only if no later report refreshed it. *)
Removed(store, popped) ==
  {k \in DOMAIN store :
     \E e \in popped : e.key = k /\ e.generation = store[k].generation}

Remaining(store, popped) ==
  Restrict(store, DOMAIN store \ Removed(store, popped))

(* Mutant of Fits: one chunk too many.                                     *)
FitsOneOver(store, popped) ==
  Cardinality(DOMAIN Remaining(store, popped)) <= MaxEntries + 1

Fits(store, popped) ==
  Cardinality(DOMAIN Remaining(store, popped)) <= MaxEntries

(* `popped' is the head of the queue that evict_to_limit removes: it stops *)
(* as soon as the cache fits, or when the queue is empty.                  *)
EvictToLimit(store, queue, popped) ==
  /\ Fits(store, popped) \/ popped = queue
  /\ \A fewer \in Heads(queue) :
       fewer \subseteq popped /\ fewer # popped => ~Fits(store, fewer)

(* Mutant of ExpiredItems: only the front batch is looked at.              *)
ExpiredFrontBatch ==
  {e \in expiry :
     \A f \in expiry :
       e.generation <= f.generation /\ now - e.received_at > Retention}

(* The batches at the front of the queue that are past the retention.      *)
ExpiredItems ==
  {e \in expiry :
     \A f \in expiry : NotAfter(f, e) => now - f.received_at > Retention}

PruneStaleIndexes(store, queue) ==
  {e \in queue :
     e.key \in DOMAIN store /\ store[e.key].generation = e.generation}

-----------------------------------------------------------------------------
(* The change log.                                                         *)

Operations(log) ==
  FoldFunction(LAMBDA batch, n : n + Cardinality(batch.keys), 0, log)

(* Mutant of LogWithinLimits: the batch limit is off by one.               *)
LogOneBatchOver(log, total, dropped) ==
  /\ Len(log) - dropped <= MaxChangeBatches + 1
  /\ total - Operations(SubSeq(log, 1, dropped)) <= MaxChangeOps

(* The loop of record_changes stops once `dropped' batches are gone.       *)
LogWithinLimits(log, total, dropped) ==
  /\ Len(log) - dropped <= MaxChangeBatches
  /\ total - Operations(SubSeq(log, 1, dropped)) <= MaxChangeOps

RecordChanges(changed) ==
  IF changed = {}
  THEN UNCHANGED log_vars
  ELSE
    LET log == Append(changes, [revision |-> revision + 1, keys |-> changed])
        total == change_operations + Cardinality(changed)
    IN  /\ revision' = revision + 1
        /\ \E dropped \in 0..Len(log) :
             /\ LogWithinLimits(log, total, dropped) \/ dropped = Len(log)
             /\ \A fewer \in 0..(dropped - 1) :
                  ~LogWithinLimits(log, total, fewer)
             /\ changes' = SubSeq(log, dropped + 1, Len(log))
             /\ change_operations' =
                  total - Operations(SubSeq(log, 1, dropped))
        /\ history' = [r \in 0..(revision + 1) |->
                         IF r <= revision THEN history[r]
                                          ELSE FullEntries(entries')]

(* Mutant of RequiresFull: the log may start one revision too late.        *)
RequiresFullLate(delivered_revision) ==
  /\ delivered_revision # revision
  /\ \/ delivered_revision > revision
     \/ changes = <<>>
     \/ Head(changes).revision > delivered_revision + 2

(* patch_since returns None, and the caller sends everything.              *)
RequiresFull(delivered_revision) ==
  /\ delivered_revision # revision
  /\ \/ delivered_revision > revision
     \/ changes = <<>>
     \/ Head(changes).revision > delivered_revision + 1

ChangedSince(delivered_revision) ==
  UNION {changes[i].keys :
           i \in {j \in DOMAIN changes :
                    changes[j].revision > delivered_revision}}

PatchSince(delivered_revision) ==
  LET keys == ChangedSince(delivered_revision) IN
  [upsert |-> [k \in keys \cap DOMAIN entries |-> ProtoEntry(entries[k])],
   delete |-> keys \ DOMAIN entries]

(* What a client does with a patch (docs/battle-chunk-state-protocol).     *)
ApplyPatch(view, patch) ==
  [k \in (DOMAIN view \cup DOMAIN patch.upsert) \ patch.delete |->
     IF k \in DOMAIN patch.upsert THEN patch.upsert[k] ELSE view[k]]

-----------------------------------------------------------------------------
(* One report stored in the cache.                                         *)

ReportKeys(report) == {report[i].key : i \in DOMAIN report}

(* A later entry of the report overwrites an earlier one of the same key.  *)
LastFor(report, k) ==
  CHOOSE i \in DOMAIN report :
    /\ report[i].key = k
    /\ \A j \in DOMAIN report : report[j].key = k => j <= i

Insert(store, report, generation) ==
  [k \in DOMAIN store \cup ReportKeys(report) |->
     IF k \in ReportKeys(report)
     THEN [value |-> report[LastFor(report, k)].value,
           generation |-> generation]
     ELSE store[k]]

(* Mutant of VisiblyChanged: a chunk that was not cached is not a change.  *)
OverwritesChanged(store, report) ==
  {k \in ReportKeys(report) \cap DOMAIN store :
     \E i \in DOMAIN report :
       report[i].key = k /\ report[i].value # store[k].value}

(* The keys whose stored value changes at some point of the report: a key  *)
(* escapes only if every entry for it repeats the value it had before.     *)
VisiblyChanged(store, report) ==
  {k \in ReportKeys(report) :
     \/ k \notin DOMAIN store
     \/ \E i \in DOMAIN report :
          report[i].key = k /\ report[i].value # store[k].value}

(* Mutant of Queued: a report that repeats a value is not queued.          *)
QueuedIfChanged(report, generation) ==
  {[generation |-> generation, slot |-> i, key |-> report[i].key,
    received_at |-> now] :
      i \in {j \in DOMAIN report :
               report[j].key \in VisiblyChanged(entries, report)}}

Queued(report, generation) ==
  {[generation |-> generation, slot |-> i, key |-> report[i].key,
    received_at |-> now] : i \in DOMAIN report}

Upsert(report) ==
  LET generation == next_generation + 1
      inserted == Insert(entries, report, generation)
      queue == expiry \cup Queued(report, generation)
  IN  /\ next_generation < MaxGeneration
      /\ next_generation' = generation
      /\ \E popped \in Heads(queue) :
           /\ EvictToLimit(inserted, queue, popped)
           /\ entries' = Remaining(inserted, popped)
           /\ RecordChanges(VisiblyChanged(entries, report)
                              \cup Removed(inserted, popped))
           /\ expiry' = IF generation % PruneEvery = 0
                        THEN PruneStaleIndexes(entries', queue \ popped)
                        ELSE queue \ popped
      /\ heard' = [k \in Keys |-> IF k \in ReportKeys(report)
                                  THEN now ELSE heard[k]]
      /\ UNCHANGED now

Cleanup ==
  LET expired == ExpiredItems
      kept == Remaining(entries, expired)
      queue == expiry \ expired
  IN  /\ \E popped \in Heads(queue) :
           /\ EvictToLimit(kept, queue, popped)
           /\ entries' = Remaining(kept, popped)
           /\ expiry' = queue \ popped
           /\ RecordChanges(Removed(entries, expired)
                              \cup Removed(kept, popped))
      /\ UNCHANGED <<next_generation, now, heard>>

(* Mutant of Purge: the change log survives.                               *)
PurgeKeepsLog ==
  /\ entries' = Empty
  /\ expiry' = {}
  /\ revision' = 0
  /\ next_generation' = 0
  /\ history' = [r \in {0} |-> Empty]
  /\ UNCHANGED <<changes, change_operations, now, heard>>

(* RelayEvent::PurgeRoom drops the cache; the next report of the room      *)
(* starts a new one from Default.                                          *)
Purge ==
  /\ entries' = Empty
  /\ expiry' = {}
  /\ changes' = <<>>
  /\ change_operations' = 0
  /\ revision' = 0
  /\ next_generation' = 0
  /\ history' = [r \in {0} |-> Empty]
  /\ UNCHANGED <<now, heard>>

Tick ==
  /\ now < MaxNow
  /\ now' = now + 1
  /\ UNCHANGED <<entries, expiry, changes, change_operations, revision,
                 next_generation, history, heard>>

CacheInit ==
  /\ entries = Empty
  /\ expiry = {}
  /\ changes = <<>>
  /\ change_operations = 0
  /\ revision = 0
  /\ next_generation = 0
  /\ now = 0
  /\ history = [r \in {0} |-> Empty]
  /\ heard = [k \in Keys |-> 0]

CacheNext ==
  \/ \E report \in Reports : Upsert(report)
  \/ Cleanup
  \/ Purge
  \/ Tick

CacheSpec == CacheInit /\ [][CacheNext]_cache_vars

-----------------------------------------------------------------------------
(* Properties.                                                             *)

(* Every variable has its type, and the log holds only past revisions.     *)
TypeOK ==
  /\ DOMAIN entries \subseteq Keys
  /\ entries \in [DOMAIN entries -> CachedBattleChunk]
  /\ expiry \subseteq ExpiryItem
  /\ changes \in Seq(BattleChangeBatch)
  /\ \A i \in DOMAIN changes : changes[i].revision <= revision
  /\ revision \in Nat
  /\ next_generation \in Nat
  /\ now \in Nat
  /\ DOMAIN history = 0..revision
  /\ heard \in [Keys -> Nat]

(* A client at any revision the log still covers ends up with exactly the  *)
(* current contents when it applies patch_since of that revision: nothing  *)
(* evicted, expired or overwritten in between is missed.                   *)
PatchReproducesCache ==
  \A r \in 0..revision :
    ~RequiresFull(r) =>
      ApplyPatch(history[r], PatchSince(r)) = FullEntries(entries)

(* Stronger: the patch computed from revision r is right for a client that *)
(* has moved on to any later revision by the time it arrives.  This is     *)
(* what makes an outdated battle baseline harmless.                        *)
PatchSurvivesLag ==
  \A r \in 0..revision : \A s \in r..revision :
    ~RequiresFull(r) =>
      ApplyPatch(history[s], PatchSince(r)) = FullEntries(entries)

(* Every cached chunk still has its own item in the expiry queue, so that  *)
(* no chunk becomes immortal when stale items are popped or pruned.        *)
EveryChunkIndexed ==
  \A k \in DOMAIN entries :
    \E e \in expiry : e.key = k /\ e.generation = entries[k].generation

(* The cache never holds more chunks than configured, because popping the  *)
(* queue, stale items included, always frees room.                         *)
CapacityRespected == Cardinality(DOMAIN entries) <= MaxEntries

(* The log is within its two limits and its operation count is the number  *)
(* of keys it holds: a drift would trim the log for ever or never.         *)
ChangeLogBounded ==
  /\ Len(changes) <= MaxChangeBatches
  /\ change_operations <= MaxChangeOps
  /\ change_operations = Operations(changes)

(* After a cleanup nothing is left that was last heard of longer ago than  *)
(* the retention.                                                          *)
CleanupExpiresEverything ==
  [][Cleanup => \A k \in DOMAIN entries' : now - heard[k] <= Retention]_cache_vars

(* A chunk disappears only if it is past the retention, or the cache is    *)
(* full of chunks that are at least as recent; in particular the expiry of *)
(* an old report does not remove what a newer report overwrote.            *)
OnlyStaleOrOldestRemoved ==
  [][\A k \in DOMAIN entries \ DOMAIN entries' :
       \/ Purge
       \/ now - heard[k] > Retention
       \/ /\ Cardinality(DOMAIN entries') = MaxEntries
          /\ \A other \in DOMAIN entries' :
               entries'[other].generation >= entries[k].generation]_cache_vars
=============================================================================
