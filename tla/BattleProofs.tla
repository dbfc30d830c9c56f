---------------------------- MODULE BattleProofs ----------------------------
(***************************************************************************)
(* Proofs about the battle cache, for any set of chunks and any limits,    *)
(* and about its delivery to a client.                                     *)
(*                                                                         *)
(* The inductive invariant of the cache says three things besides the      *)
(* types: the change log is a contiguous suffix of the revisions, and at   *)
(* every revision it still covers the recorded contents differ from the    *)
(* current ones only at keys logged since (LogInv); every cached chunk has *)
(* its own item in the expiry queue (EveryChunkIndexed); and the queue is  *)
(* in the order of arrival (QueueInv), so that what is stale is at its     *)
(* front.  Two more conjuncts make the limits inductive: the operation     *)
(* count is the sum of the sizes of the logged batches (LogCounted), and   *)
(* the queue is finite with one item per slot (OneItemPerSlot), so that    *)
(* evict_to_limit pops one item at a time.                                 *)
(*                                                                         *)
(* That of the delivery says what a frame under way is good for: whatever  *)
(* frames are overwritten and however late their Delivered events are      *)
(* handled, a patch frame turns every revision from the one the client     *)
(* shows to its own into its own (FrameGood): it was computed from an      *)
(* acknowledged revision no later than the client's, and by                *)
(* PatchSurvivesLag the log keys since then cover all the client may still *)
(* be missing.                                                             *)
(*                                                                         *)
(* The last part is about one reporting session: what is shown of it is of *)
(* one observation, whatever was lost or came late.                        *)
(***************************************************************************)
EXTENDS BattleDelivery, BattleObservation, DataInduction, FiniteSetTheorems,
        WellFoundedInduction, TLAPS

(* f and g agree on whether they hold k, and on what they hold for it.     *)
SameAt(f, g, k) ==
  /\ k \in DOMAIN f <=> k \in DOMAIN g
  /\ k \in DOMAIN f => f[k] = g[k]

LogInv ==
  /\ Len(changes) <= revision
  /\ \A i \in 1..Len(changes) :
       changes[i].revision = revision - Len(changes) + i
  /\ \A r \in 0..revision :
       /\ DOMAIN history[r] \subseteq Keys
       /\ history[r] \in [DOMAIN history[r] -> Shown]
  /\ history[revision] = FullEntries(entries)
  /\ \A r \in (revision - Len(changes))..revision :
       \A k \in Keys \ ChangedSince(r) :
         SameAt(history[r], history[revision], k)

QueueInv ==
  /\ \A e \in expiry : e.generation <= next_generation /\ e.received_at <= now
  /\ \A e, f \in expiry : NotAfter(f, e) => f.received_at <= e.received_at
  /\ \A k \in DOMAIN entries : entries[k].generation <= next_generation
  /\ \A e \in expiry :
       /\ e.key \in DOMAIN entries
       /\ entries[e.key].generation = e.generation
       => e.received_at = heard[e.key]

CacheInv == TypeOK /\ LogInv /\ EveryChunkIndexed /\ QueueInv

-----------------------------------------------------------------------------
(* Lemmas about the operators.                                             *)

(* A nonempty set of naturals with an upper bound has a greatest element.  *)
LEMMA GreatestExists ==
  ASSUME NEW n \in Nat, NEW S, S \subseteq 0..n, S # {}
  PROVE  \E m \in S : \A i \in S : i <= m
<1> DEFINE T == {n - i : i \in S}
<1>1. T \subseteq Nat /\ T # {}
  <2>1. \A i \in S : i \in Int /\ i <= n
    OBVIOUS
  <2>2. \A i \in S : n - i \in Nat
    BY <2>1
  <2>3. T \subseteq Nat
    BY <2>2
  <2>4. PICK i \in S : TRUE
    OBVIOUS
  <2>5. n - i \in T
    BY <2>4
  <2> QED BY <2>3, <2>5
<1>2. PICK x \in T : \A y \in T : ~(<<y, x>> \in OpToRel(<, Nat))
  BY <1>1, NatLessThanWellFounded, WFMin
<1>3. \A y \in T : x <= y
  <2> TAKE y \in T
  <2>1. x \in Nat /\ y \in Nat
    BY <1>1
  <2>2. <<y, x>> \in Nat \X Nat
    BY <2>1
  <2>3. ~(y < x)
    BY <1>2, <2>2 DEF OpToRel
  <2> QED BY <2>1, <2>3
<1>4. PICK m \in S : x = n - m
  OBVIOUS
<1>5. \A i \in S : i <= m
  <2> TAKE i \in S
  <2>1. n - m <= n - i
    BY <1>3, <1>4
  <2>2. i \in Int /\ m \in Int
    OBVIOUS
  <2> QED BY <2>1, <2>2
<1> QED BY <1>5

(* A report's last entry for a key it holds is one of its entries.         *)
LEMMA LastForType ==
  ASSUME NEW report \in Reports, NEW k \in ReportKeys(report)
  PROVE  /\ LastFor(report, k) \in DOMAIN report
         /\ report[LastFor(report, k)].key = k
         /\ report[LastFor(report, k)] \in BattleChunkEntry
<1> DEFINE S == {i \in DOMAIN report : report[i].key = k}
<1>1. PICK n \in 0..MaxReport : report \in [1..n -> BattleChunkEntry]
  BY DEF Reports
<1>2. n \in Nat
  BY <1>1, LimitsAssumption
<1>3. S \subseteq 0..n /\ S # {}
  BY <1>1, <1>2 DEF ReportKeys
<1>4. PICK m \in S : \A i \in S : i <= m
  <2> HIDE DEF S
  <2> QED BY <1>2, <1>3, GreatestExists
<1>5. \E i \in DOMAIN report :
        report[i].key = k /\ \A j \in DOMAIN report : report[j].key = k => j <= i
  BY <1>4
<1>6. /\ LastFor(report, k) \in DOMAIN report
      /\ report[LastFor(report, k)].key = k
  BY <1>5 DEF LastFor
<1> QED BY <1>1, <1>6

IsStore(store) ==
  /\ DOMAIN store \subseteq Keys
  /\ store \in [DOMAIN store -> CachedBattleChunk]

(* Storing a report.                                                       *)
LEMMA InsertStore ==
  ASSUME NEW store, IsStore(store), NEW report \in Reports,
         NEW generation \in Nat
  PROVE  /\ IsStore(Insert(store, report, generation))
         /\ DOMAIN Insert(store, report, generation)
              = DOMAIN store \cup ReportKeys(report)
         /\ ReportKeys(report) \subseteq Keys
         /\ \A k \in ReportKeys(report) :
              Insert(store, report, generation)[k].generation = generation
         /\ \A k \in DOMAIN store \ ReportKeys(report) :
              Insert(store, report, generation)[k] = store[k]
<1>1. ReportKeys(report) \subseteq Keys
  BY DEF Reports, ReportKeys, BattleChunkEntry
<1>2. \A k \in ReportKeys(report) :
        report[LastFor(report, k)].value \in Values
  BY LastForType DEF BattleChunkEntry
<1>3. \A k \in DOMAIN Insert(store, report, generation) :
        Insert(store, report, generation)[k] \in CachedBattleChunk
  BY <1>2 DEF Insert, IsStore, CachedBattleChunk
<1> QED BY <1>1, <1>3 DEF Insert, IsStore

(* Popping items leaves a store, with fewer chunks.                        *)
LEMMA RemainingStore ==
  ASSUME NEW store, IsStore(store), NEW popped
  PROVE  /\ IsStore(Remaining(store, popped))
         /\ DOMAIN Remaining(store, popped)
              = DOMAIN store \ Removed(store, popped)
         /\ \A k \in DOMAIN Remaining(store, popped) :
              Remaining(store, popped)[k] = store[k]
         /\ Removed(store, popped) \subseteq DOMAIN store
BY DEF Remaining, Restrict, Removed, IsStore

(* What clients see of a store.                                            *)
LEMMA FullEntriesType ==
  ASSUME NEW store, IsStore(store)
  PROVE  /\ DOMAIN FullEntries(store) = DOMAIN store
         /\ FullEntries(store) \in [DOMAIN FullEntries(store) -> Shown]
         /\ \A k \in DOMAIN store : FullEntries(store)[k] = store[k].value.shown
BY DEF FullEntries, ProtoEntry, IsStore, CachedBattleChunk, Values

(* A key that a report does not visibly change and that is not removed     *)
(* afterwards looks to clients as it did before.                           *)
LEMMA UpsertUnchanged ==
  ASSUME NEW store, IsStore(store), NEW report \in Reports,
         NEW generation \in Nat, NEW popped,
         NEW k \in Keys \ (VisiblyChanged(store, report)
                \cup Removed(Insert(store, report, generation), popped))
  PROVE  SameAt(FullEntries(store),
                FullEntries(Remaining(Insert(store, report, generation),
                                      popped)), k)
<1> DEFINE inserted == Insert(store, report, generation)
           left == Remaining(inserted, popped)
<1>1. /\ IsStore(inserted)
      /\ DOMAIN inserted = DOMAIN store \cup ReportKeys(report)
      /\ \A j \in DOMAIN store \ ReportKeys(report) : inserted[j] = store[j]
  <2>1. IsStore(inserted)
    BY InsertStore
  <2>2. DOMAIN inserted = DOMAIN store \cup ReportKeys(report)
    BY InsertStore
  <2>3. \A j \in DOMAIN store \ ReportKeys(report) : inserted[j] = store[j]
    BY DEF Insert
  <2> QED BY <2>1, <2>2, <2>3
<1>2. /\ IsStore(left)
      /\ DOMAIN left = DOMAIN inserted \ Removed(inserted, popped)
      /\ \A j \in DOMAIN left : left[j] = inserted[j]
  BY <1>1, RemainingStore
<1>3. k \in DOMAIN store <=> k \in DOMAIN left
  BY <1>1, <1>2 DEF VisiblyChanged
<1>4. k \in DOMAIN store => left[k].value = store[k].value
  <2>1. CASE k \in ReportKeys(report)
    <3>1. report[LastFor(report, k)].key = k
          /\ LastFor(report, k) \in DOMAIN report
      BY <2>1, LastForType
    <3>2. k \in DOMAIN store => report[LastFor(report, k)].value = store[k].value
      BY <2>1, <3>1 DEF VisiblyChanged
    <3>3. inserted[k].value = report[LastFor(report, k)].value
      BY <2>1, <1>1 DEF Insert
    <3> QED BY <3>2, <3>3, <1>2, <1>3
  <2>2. CASE k \notin ReportKeys(report)
    BY <2>2, <1>1, <1>2, <1>3
  <2> QED BY <2>1, <2>2
<1> HIDE DEF inserted, left
<1>5. FullEntries(store) = [j \in DOMAIN store |-> store[j].value.shown]
      /\ FullEntries(left) = [j \in DOMAIN left |-> left[j].value.shown]
  BY DEF FullEntries, ProtoEntry
<1>6. SameAt(FullEntries(store), FullEntries(left), k)
  BY <1>3, <1>4, <1>5 DEF SameAt
<1> QED BY <1>6 DEF left, inserted

(* Two stores on which clients see the same for every key look the same.   *)
LEMMA SameEverywhere ==
  ASSUME NEW store, IsStore(store), NEW other, IsStore(other),
         \A k \in Keys : SameAt(FullEntries(store), FullEntries(other), k)
  PROVE  FullEntries(store) = FullEntries(other)
<1>1. /\ FullEntries(store) = [j \in DOMAIN store |-> store[j].value.shown]
      /\ FullEntries(other) = [j \in DOMAIN other |-> other[j].value.shown]
      /\ DOMAIN store \subseteq Keys
      /\ DOMAIN other \subseteq Keys
  BY DEF FullEntries, ProtoEntry, IsStore
<1>2. DOMAIN store = DOMAIN other
  BY <1>1 DEF SameAt
<1>3. \A j \in DOMAIN store : store[j].value.shown = other[j].value.shown
  BY <1>1, <1>2 DEF SameAt
<1> QED BY <1>1, <1>2, <1>3

(* Dropping a sequence's first d elements.                                 *)
LEMMA SuffixProperties ==
  ASSUME NEW S, NEW s \in Seq(S), NEW d \in 0..Len(s)
  PROVE  /\ SubSeq(s, d + 1, Len(s)) \in Seq(S)
         /\ Len(SubSeq(s, d + 1, Len(s))) = Len(s) - d
         /\ \A i \in 1..(Len(s) - d) :
              /\ i + d \in 1..Len(s)
              /\ SubSeq(s, d + 1, Len(s))[i] = s[i + d]
<1>1. Len(s) \in Nat /\ d \in Nat /\ d <= Len(s)
  OBVIOUS
<1>2. \A i \in 1..(Len(s) - d) : i + d \in 1..Len(s)
  BY <1>1
<1>3. SubSeq(s, d + 1, Len(s)) \in Seq(S)
  BY <1>1
<1>4. Len(SubSeq(s, d + 1, Len(s))) = Len(s) - d
  BY <1>1
<1>5. \A i \in 1..(Len(s) - d) : SubSeq(s, d + 1, Len(s))[i] = s[i + d]
  BY <1>1
<1> QED BY <1>2, <1>3, <1>4, <1>5

(* The change log stays right when a step logs every key it changes.       *)
LEMMA RecordKeepsLog ==
  ASSUME TypeOK, LogInv, NEW changed \in SUBSET Keys, RecordChanges(changed),
         IsStore(entries'),
         \A k \in Keys \ changed :
           SameAt(FullEntries(entries), FullEntries(entries'), k)
  PROVE  /\ LogInv'
         /\ changes' \in Seq(BattleChangeBatch)
         /\ \A i \in DOMAIN changes' : changes'[i].revision <= revision'
         /\ revision' \in Nat
         /\ DOMAIN history' = 0..revision'
<1> USE DEF TypeOK
<1>0. IsStore(entries)
  BY DEF IsStore
<1>1. CASE changed = {}
  <2>1. UNCHANGED log_vars
    BY <1>1 DEF RecordChanges
  <2>2. FullEntries(entries) = FullEntries(entries')
    BY <1>0, <1>1, SameEverywhere
  <2>3. \A r : ChangedSince(r)' = ChangedSince(r)
    BY <2>1 DEF ChangedSince, log_vars
  <2> QED BY <2>1, <2>2, <2>3 DEF LogInv, log_vars
<1>2. CASE changed # {}
  <2> DEFINE log == Append(changes,
                           [revision |-> revision + 1, keys |-> changed])
             total == change_operations + Cardinality(changed)
  <2>1. PICK dropped \in 0..Len(log) :
          changes' = SubSeq(log, dropped + 1, Len(log))
    BY <1>2 DEF RecordChanges
  <2>2. /\ revision' = revision + 1
        /\ history' = [r \in 0..(revision + 1) |->
                         IF r <= revision THEN history[r]
                                          ELSE FullEntries(entries')]
    BY <1>2 DEF RecordChanges
  <2>3. /\ log \in Seq(BattleChangeBatch)
        /\ Len(log) = Len(changes) + 1
        /\ \A i \in 1..Len(changes) : log[i] = changes[i]
        /\ log[Len(changes) + 1] = [revision |-> revision + 1, keys |-> changed]
    BY DEF BattleChangeBatch
  <2> HIDE DEF log
  <2>num. /\ Len(changes) \in Nat /\ Len(log) \in Nat /\ dropped \in Nat
          /\ dropped <= Len(log) /\ revision \in Nat
          /\ DOMAIN changes = 1..Len(changes)
    BY <2>1, <2>3
  <2>4. \A i \in 1..Len(log) : log[i].revision = revision + 1 - Len(log) + i
    <3> SUFFICES ASSUME NEW i \in 1..Len(log)
                 PROVE  log[i].revision = revision + 1 - Len(log) + i
      OBVIOUS
    <3>1. CASE i \in 1..Len(changes)
      BY <3>1, <2>3, <2>num DEF LogInv
    <3>2. CASE i = Len(changes) + 1
      BY <3>2, <2>3, <2>num
    <3> QED BY <3>1, <3>2, <2>3, <2>num
  <2>5. /\ changes' \in Seq(BattleChangeBatch)
        /\ Len(changes') = Len(log) - dropped
        /\ \A i \in 1..Len(changes') : changes'[i] = log[i + dropped]
    <3>1. log \in Seq(BattleChangeBatch) /\ dropped \in 0..Len(log)
      BY <2>3
    <3>2. changes' \in Seq(BattleChangeBatch)
      BY <2>1, <3>1, SuffixProperties
    <3>3. Len(changes') = Len(log) - dropped
      BY <2>1, <3>1, SuffixProperties
    <3>4. \A i \in 1..(Len(log) - dropped) : changes'[i] = log[i + dropped]
      BY <2>1, <3>1, SuffixProperties
    <3> QED BY <3>2, <3>3, <3>4
  <2>shift. \A i \in 1..Len(changes') : i + dropped \in 1..Len(log)
    BY <2>5, <2>num
  <2>6. \A i \in 1..Len(changes') :
          changes'[i].revision = revision' - Len(changes') + i
    <3> TAKE i \in 1..Len(changes')
    <3>1. i + dropped \in 1..Len(log) /\ changes'[i] = log[i + dropped]
      BY <2>5, <2>shift
    <3>2. log[i + dropped].revision = revision + 1 - Len(log) + (i + dropped)
      BY <3>1, <2>4
    <3>3. i \in Int
      OBVIOUS
    <3> QED BY <2>2, <2>5, <2>num, <3>1, <3>2, <3>3
  <2>7. Len(changes') <= revision'
    BY <2>2, <2>3, <2>5 DEF LogInv
  <2>8. \A i \in DOMAIN changes' : changes'[i].revision <= revision'
    BY <2>2, <2>3, <2>5, <2>6
  <2>9. \A r \in 0..revision' :
          /\ DOMAIN history'[r] \subseteq Keys
          /\ history'[r] \in [DOMAIN history'[r] -> Shown]
    <3> TAKE r \in 0..revision'
    <3>1. CASE r <= revision
      BY <3>1, <2>2 DEF LogInv
    <3>2. CASE r = revision + 1
      <4>1. history'[r] = FullEntries(entries')
        BY <3>2, <2>2
      <4>2. /\ DOMAIN FullEntries(entries') = DOMAIN entries'
            /\ FullEntries(entries') \in [DOMAIN FullEntries(entries') -> Shown]
        BY FullEntriesType
      <4> QED BY <4>1, <4>2 DEF IsStore
    <3> QED BY <3>1, <3>2, <2>2
  <2>10. history'[revision'] = FullEntries(entries')
    BY <2>2
  <2>11. \A r \in (revision' - Len(changes'))..revision' :
           \A k \in Keys \ ChangedSince(r)' :
             SameAt(history'[r], history'[revision'], k)
    <3> TAKE r \in (revision' - Len(changes'))..revision'
    <3> TAKE k \in Keys \ ChangedSince(r)'
    <3>1. CASE r = revision'
      BY <3>1 DEF SameAt
    <3>2. CASE r <= revision
      <4>1. \A i \in 1..Len(log) : log[i].revision > r => k \notin log[i].keys
        <5> SUFFICES ASSUME NEW i \in 1..Len(log), log[i].revision > r
                     PROVE  k \notin log[i].keys
          OBVIOUS
        <5>1. i > dropped
          BY <2>2, <2>3, <2>4, <2>5, <2>num, SMTT(30)
        <5>2. /\ i - dropped \in 1..Len(changes')
              /\ changes'[i - dropped] = log[i]
          <6>1. i \in Int /\ 1 <= i - dropped /\ i - dropped <= Len(changes')
            BY <2>5, <2>num, <5>1
          <6>2. i - dropped \in 1..Len(changes') /\ (i - dropped) + dropped = i
            BY <6>1, <2>num
          <6> QED BY <6>2, <2>5
        <5>3. changes'[i - dropped].revision > r
          BY <5>2
        <5>4. DOMAIN changes' = 1..Len(changes')
          BY <2>5
        <5> QED BY <5>2, <5>3, <5>4 DEF ChangedSince
      <4>2. k \notin changed
        BY <4>1, <2>3, <3>2, SMTT(30)
      <4>3. k \notin ChangedSince(r)
        BY <4>1, <2>3, <2>num DEF ChangedSince
      <4>4. r \in (revision - Len(changes))..revision
        BY <2>2, <2>3, <2>5, <3>2
      <4>5. SameAt(history[r], FullEntries(entries), k)
        BY <4>3, <4>4 DEF LogInv
      <4>6. SameAt(FullEntries(entries), FullEntries(entries'), k)
        BY <4>2
      <4>7. history'[r] = history[r]
        BY <2>2, <2>7, <3>2
      <4> QED BY <4>5, <4>6, <4>7, <2>10 DEF SameAt
    <3> QED BY <3>1, <3>2, <2>2, <2>7, <2>5
  <2> QED BY <2>2, <2>5, <2>6, <2>7, <2>8, <2>9, <2>10, <2>11 DEF LogInv
<1> QED BY <1>1, <1>2

(* A chunk that popping leaves alone still looks the same.                 *)
LEMMA RemainingUnchanged ==
  ASSUME NEW store, IsStore(store), NEW popped,
         NEW k, k \notin Removed(store, popped)
  PROVE  SameAt(FullEntries(store), FullEntries(Remaining(store, popped)), k)
<1> DEFINE left == Remaining(store, popped)
<1>1. /\ DOMAIN left = DOMAIN store \ Removed(store, popped)
      /\ \A j \in DOMAIN left : left[j] = store[j]
  BY DEF Remaining, Restrict, Removed
<1>2. k \in DOMAIN store <=> k \in DOMAIN left
  BY <1>1
<1> HIDE DEF left
<1>3. SameAt(FullEntries(store), FullEntries(left), k)
  BY <1>1, <1>2 DEF SameAt, FullEntries, ProtoEntry
<1> QED BY <1>3 DEF left

IndexedBy(store, queue) ==
  \A k \in DOMAIN store :
    \E e \in queue : e.key = k /\ e.generation = store[k].generation

(* What remains after popping is indexed by what remains of the queue.     *)
LEMMA RemainingIndexed ==
  ASSUME NEW store, NEW queue, IndexedBy(store, queue), NEW popped
  PROVE  IndexedBy(Remaining(store, popped), queue \ popped)
BY DEF IndexedBy, Remaining, Restrict, Removed

(* Popping a whole queue that indexes the store empties it, so eviction    *)
(* always gets the cache within its limit.                                 *)
LEMMA EvictionFits ==
  ASSUME NEW store, NEW queue, IndexedBy(store, queue),
         NEW popped, EvictToLimit(store, queue, popped)
  PROVE  Cardinality(DOMAIN Remaining(store, popped)) <= MaxEntries
<1>1. CASE Fits(store, popped)
  BY <1>1 DEF Fits
<1>2. CASE popped = queue
  <2>1. DOMAIN Remaining(store, popped) = {}
    BY <1>2 DEF IndexedBy, Remaining, Restrict, Removed
  <2> QED BY <2>1, FS_EmptySet, LimitsAssumption
<1> QED BY <1>1, <1>2 DEF EvictToLimit

-----------------------------------------------------------------------------
(* The invariant is inductive.                                             *)

(* The cache begins empty.                                                 *)
LEMMA CacheInitInv == CacheInit => CacheInv
<1> SUFFICES ASSUME CacheInit PROVE CacheInv
  OBVIOUS
<1> USE DEF CacheInit, Empty
<1>1. TypeOK
  BY DEF TypeOK
<1>2. FullEntries(entries) = [k \in {} |-> k]
  BY DEF FullEntries
<1>3. LogInv
  BY <1>2 DEF LogInv, SameAt
<1>4. EveryChunkIndexed /\ QueueInv
  BY DEF EveryChunkIndexed, QueueInv
<1> QED BY <1>1, <1>3, <1>4 DEF CacheInv

(* A report: the facts about its intermediate stores that both the         *)
(* invariant and the capacity limit need.                                  *)
LEMMA UpsertFacts ==
  ASSUME CacheInv, NEW report \in Reports
  PROVE  LET generation == next_generation + 1
             inserted == Insert(entries, report, generation)
             queue == expiry \cup Queued(report, generation)
         IN  /\ generation \in Nat
             /\ IsStore(entries)
             /\ IsStore(inserted)
             /\ queue \subseteq ExpiryItem
             /\ IndexedBy(inserted, queue)
<1> DEFINE generation == next_generation + 1
           inserted == Insert(entries, report, generation)
           queue == expiry \cup Queued(report, generation)
<1>1. generation \in Nat
  BY DEF CacheInv, TypeOK
<1>2. IsStore(entries)
  BY DEF CacheInv, TypeOK, IsStore
<1>3. IsStore(inserted)
  BY <1>1, <1>2, InsertStore
<1>4. queue \subseteq ExpiryItem
  <2>1. Queued(report, generation) \subseteq ExpiryItem
    <3>1. PICK n \in 0..MaxReport : report \in [1..n -> BattleChunkEntry]
      BY DEF Reports
    <3>2. \A i \in DOMAIN report : i \in Nat /\ report[i].key \in Keys
      BY <3>1, LimitsAssumption DEF BattleChunkEntry
    <3>3. now \in Nat
      BY DEF CacheInv, TypeOK
    <3> QED BY <1>1, <3>2, <3>3 DEF Queued, ExpiryItem
  <2> QED BY <2>1 DEF CacheInv, TypeOK
<1>5. IndexedBy(inserted, queue)
  <2> SUFFICES ASSUME NEW k \in DOMAIN inserted
               PROVE  \E e \in queue :
                        e.key = k /\ e.generation = inserted[k].generation
    BY DEF IndexedBy
  <2>1. CASE k \in ReportKeys(report)
    <3>1. PICK i \in DOMAIN report : report[i].key = k
      BY <2>1 DEF ReportKeys
    <3>2. inserted[k].generation = generation
      BY <2>1 DEF Insert
    <3>3. [generation |-> generation, slot |-> i, key |-> report[i].key,
           received_at |-> now] \in queue
      BY DEF Queued
    <3> QED BY <3>1, <3>2, <3>3
  <2>2. CASE k \notin ReportKeys(report)
    <3>1. k \in DOMAIN entries /\ inserted[k] = entries[k]
      BY <2>2 DEF Insert
    <3> QED BY <3>1 DEF CacheInv, EveryChunkIndexed
  <2> QED BY <2>1, <2>2
<1> QED BY <1>1, <1>2, <1>3, <1>4, <1>5

(* A report is stored (upsert).                                            *)
LEMMA UpsertInv ==
  ASSUME CacheInv, NEW report \in Reports, Upsert(report)
  PROVE  CacheInv'
<1> DEFINE generation == next_generation + 1
           inserted == Insert(entries, report, generation)
           queue == expiry \cup Queued(report, generation)
<1>1. /\ generation \in Nat
      /\ IsStore(entries)
      /\ IsStore(inserted)
      /\ queue \subseteq ExpiryItem
      /\ IndexedBy(inserted, queue)
  BY UpsertFacts
<1>2. PICK popped \in Heads(queue) :
        /\ entries' = Remaining(inserted, popped)
        /\ RecordChanges(VisiblyChanged(entries, report)
                           \cup Removed(inserted, popped))
        /\ expiry' = IF generation % PruneEvery = 0
                     THEN PruneStaleIndexes(entries', queue \ popped)
                     ELSE queue \ popped
  BY DEF Upsert
<1>3. /\ next_generation' = generation
      /\ now' = now
      /\ heard' = [k \in Keys |-> IF k \in ReportKeys(report)
                                  THEN now ELSE heard[k]]
  BY DEF Upsert
<1>4. /\ IsStore(entries')
      /\ DOMAIN entries' = DOMAIN inserted \ Removed(inserted, popped)
      /\ \A k \in DOMAIN entries' : entries'[k] = inserted[k]
      /\ Removed(inserted, popped) \subseteq Keys
  BY <1>1, <1>2, RemainingStore DEF IsStore
<1>5. /\ DOMAIN inserted = DOMAIN entries \cup ReportKeys(report)
      /\ ReportKeys(report) \subseteq Keys
      /\ \A k \in ReportKeys(report) : inserted[k].generation = generation
      /\ \A k \in DOMAIN entries \ ReportKeys(report) :
           inserted[k] = entries[k]
  BY <1>1, InsertStore DEF Insert
<1>6. /\ LogInv'
      /\ changes' \in Seq(BattleChangeBatch)
      /\ \A i \in DOMAIN changes' : changes'[i].revision <= revision'
      /\ revision' \in Nat
      /\ DOMAIN history' = 0..revision'
  <2>1. VisiblyChanged(entries, report) \cup Removed(inserted, popped)
          \in SUBSET Keys
    BY <1>4, <1>5 DEF VisiblyChanged
  <2>2. \A k \in Keys \ (VisiblyChanged(entries, report)
                           \cup Removed(inserted, popped)) :
          SameAt(FullEntries(entries), FullEntries(entries'), k)
    BY <1>1, <1>2, UpsertUnchanged
  <2> QED BY <1>2, <1>4, <2>1, <2>2, RecordKeepsLog DEF CacheInv
<1>7. expiry' \subseteq queue /\ expiry' \subseteq ExpiryItem
  BY <1>1, <1>2 DEF PruneStaleIndexes
<1>8. TypeOK'
  BY <1>1, <1>3, <1>4, <1>6, <1>7 DEF TypeOK, CacheInv, IsStore
<1>9. EveryChunkIndexed'
  <2>1. IndexedBy(entries', queue \ popped)
    BY <1>1, <1>2, RemainingIndexed
  <2> QED BY <1>2, <2>1 DEF EveryChunkIndexed, IndexedBy, PruneStaleIndexes
<1>10. QueueInv'
  <2> USE DEF CacheInv, TypeOK, QueueInv
  <2>1. \A e \in queue :
          \/ e \in expiry /\ e.generation <= next_generation
          \/ /\ e.generation = generation /\ e.received_at = now
             /\ e.key \in ReportKeys(report)
    BY DEF Queued, ReportKeys
  <2>2. \A e \in queue : e.generation <= generation /\ e.received_at <= now
    BY <1>1, <2>1 DEF ExpiryItem
  <2>3. \A e, f \in queue : NotAfter(f, e) => f.received_at <= e.received_at
    <3> SUFFICES ASSUME NEW e \in queue, NEW f \in queue, NotAfter(f, e)
                 PROVE  f.received_at <= e.received_at
      OBVIOUS
    <3>1. /\ e.generation \in Nat /\ f.generation \in Nat
          /\ e.received_at \in Nat /\ f.received_at \in Nat
      BY <1>1 DEF ExpiryItem
    <3>2. f.generation <= e.generation
      BY <3>1 DEF NotAfter
    <3>3. CASE e \in expiry /\ f \in expiry
      BY <3>3
    <3>4. CASE e.generation = generation /\ e.received_at = now
      BY <3>4, <2>2
    <3>5. CASE /\ e \in expiry /\ e.generation <= next_generation
               /\ f.generation = generation
      BY <3>1, <3>2, <3>5
    <3> QED BY <2>1, <3>3, <3>4, <3>5
  <2>4. \A k \in DOMAIN entries' : entries'[k].generation <= generation
    <3> SUFFICES ASSUME NEW k \in DOMAIN entries'
                 PROVE  entries'[k].generation <= generation
      OBVIOUS
    <3>1. CASE k \in ReportKeys(report)
      BY <3>1, <1>1, <1>4, <1>5
    <3>2. CASE k \notin ReportKeys(report)
      <4>1. entries'[k] = entries[k] /\ k \in DOMAIN entries
        BY <3>2, <1>4, <1>5
      <4>2. entries[k].generation \in Nat
        BY <4>1 DEF CachedBattleChunk
      <4> QED BY <4>1, <4>2
    <3> QED BY <3>1, <3>2
  <2>5. \A e \in queue :
          e.key \in DOMAIN entries' /\ entries'[e.key].generation = e.generation
          => e.received_at = heard'[e.key]
    <3> SUFFICES ASSUME NEW e \in queue, e.key \in DOMAIN entries',
                        entries'[e.key].generation = e.generation
                 PROVE  e.received_at = heard'[e.key]
      OBVIOUS
    <3>1. e.key \in Keys
      BY <1>4 DEF IsStore
    <3>2. CASE e.generation = generation /\ e.received_at = now
               /\ e.key \in ReportKeys(report)
      BY <3>1, <3>2, <1>3
    <3>3. CASE e \in expiry /\ e.generation <= next_generation
      <4>1. e.key \notin ReportKeys(report)
        BY <3>3, <1>4, <1>5
      <4>2. e.key \in DOMAIN entries /\ entries'[e.key] = entries[e.key]
        BY <4>1, <1>4, <1>5
      <4> QED BY <3>1, <3>3, <4>1, <4>2, <1>3
    <3> QED BY <2>1, <3>2, <3>3
  <2> HIDE DEF queue
  <2> QED BY <1>3, <1>7, <2>2, <2>3, <2>4, <2>5
<1> QED BY <1>6, <1>8, <1>9, <1>10 DEF CacheInv

(* A cleanup: what it leaves after expiry, and then after eviction.        *)
LEMMA CleanupFacts ==
  ASSUME CacheInv
  PROVE  LET kept == Remaining(entries, ExpiredItems)
             queue == expiry \ ExpiredItems
         IN  /\ IsStore(entries)
             /\ IsStore(kept)
             /\ IndexedBy(kept, queue)
             /\ DOMAIN kept = DOMAIN entries \ Removed(entries, ExpiredItems)
             /\ \A k \in DOMAIN kept : kept[k] = entries[k]
             /\ Removed(entries, ExpiredItems) \subseteq Keys
<1>1. IsStore(entries)
  BY DEF CacheInv, TypeOK, IsStore
<1>2. IndexedBy(entries, expiry)
  BY DEF CacheInv, EveryChunkIndexed, IndexedBy
<1> QED BY <1>1, <1>2, RemainingStore, RemainingIndexed DEF IsStore

(* Chunks that are too old are removed (cleanup).                          *)
LEMMA CleanupInv ==
  ASSUME CacheInv, Cleanup
  PROVE  CacheInv'
<1> DEFINE kept == Remaining(entries, ExpiredItems)
           queue == expiry \ ExpiredItems
<1>1. /\ IsStore(entries)
      /\ IsStore(kept)
      /\ IndexedBy(kept, queue)
      /\ DOMAIN kept = DOMAIN entries \ Removed(entries, ExpiredItems)
      /\ \A k \in DOMAIN kept : kept[k] = entries[k]
      /\ Removed(entries, ExpiredItems) \subseteq Keys
  BY CleanupFacts
<1>2. PICK popped \in Heads(queue) :
        /\ entries' = Remaining(kept, popped)
        /\ expiry' = queue \ popped
        /\ RecordChanges(Removed(entries, ExpiredItems)
                           \cup Removed(kept, popped))
  BY DEF Cleanup
<1>3. UNCHANGED <<next_generation, now, heard>>
  BY DEF Cleanup
<1>4. /\ IsStore(entries')
      /\ DOMAIN entries' = DOMAIN kept \ Removed(kept, popped)
      /\ \A k \in DOMAIN entries' : entries'[k] = kept[k]
      /\ Removed(kept, popped) \subseteq Keys
  BY <1>1, <1>2, RemainingStore, ZenonT(30) DEF IsStore
<1>5. /\ LogInv'
      /\ changes' \in Seq(BattleChangeBatch)
      /\ \A i \in DOMAIN changes' : changes'[i].revision <= revision'
      /\ revision' \in Nat
      /\ DOMAIN history' = 0..revision'
  <2> DEFINE changed == Removed(entries, ExpiredItems) \cup Removed(kept, popped)
  <2>1. changed \in SUBSET Keys
    BY <1>1, <1>4
  <2>2. \A k \in Keys \ changed :
          SameAt(FullEntries(entries), FullEntries(entries'), k)
    <3> SUFFICES ASSUME NEW k \in Keys \ changed
                 PROVE  SameAt(FullEntries(entries), FullEntries(entries'), k)
      OBVIOUS
    <3>1. SameAt(FullEntries(entries), FullEntries(kept), k)
      BY <1>1, RemainingUnchanged
    <3>2. SameAt(FullEntries(kept), FullEntries(entries'), k)
      BY <1>1, <1>2, RemainingUnchanged
    <3> QED BY <3>1, <3>2 DEF SameAt
  <2>3. RecordChanges(changed)
    BY <1>2
  <2> HIDE DEF changed
  <2> QED BY <1>4, <2>1, <2>2, <2>3, RecordKeepsLog DEF CacheInv
<1>6. expiry' \subseteq expiry
  BY <1>2
<1>7. \A k \in DOMAIN entries' : k \in DOMAIN entries /\ entries'[k] = entries[k]
  BY <1>1, <1>4
<1>8. TypeOK'
  BY <1>3, <1>4, <1>5, <1>6 DEF TypeOK, CacheInv, IsStore
<1>9. EveryChunkIndexed'
  <2>1. IndexedBy(entries', queue \ popped)
    BY <1>1, <1>2, RemainingIndexed
  <2> QED BY <1>2, <2>1 DEF EveryChunkIndexed, IndexedBy
<1>10. QueueInv'
  BY <1>3, <1>6, <1>7 DEF CacheInv, QueueInv
<1> QED BY <1>5, <1>8, <1>9, <1>10 DEF CacheInv

(* A purge empties the cache and goes on with the revision.                *)
LEMMA PurgeInv == CacheInv /\ Purge => CacheInv'
<1> SUFFICES ASSUME CacheInv, Purge PROVE CacheInv'
  OBVIOUS
<1> USE DEF Purge, Empty
<1>1. TypeOK'
  BY DEF TypeOK, CacheInv
<1>2. FullEntries(entries)' = [k \in {} |-> k]
  BY DEF FullEntries
<1>3. LogInv'
  BY <1>2 DEF LogInv, SameAt
<1>4. EveryChunkIndexed' /\ QueueInv'
  BY DEF EveryChunkIndexed, QueueInv
<1> QED BY <1>1, <1>3, <1>4 DEF CacheInv

(* Time passes.                                                            *)
LEMMA TickInv == CacheInv /\ Tick => CacheInv'
<1> SUFFICES ASSUME CacheInv, Tick PROVE CacheInv'
  OBVIOUS
<1> USE DEF Tick
<1>1. TypeOK'
  BY DEF TypeOK, CacheInv
<1>2. LogInv'
  <2>1. \A r : ChangedSince(r)' = ChangedSince(r)
    BY DEF ChangedSince
  <2>2. FullEntries(entries)' = FullEntries(entries)
    BY DEF FullEntries
  <2> QED BY <2>1, <2>2 DEF LogInv, CacheInv
<1>3. EveryChunkIndexed'
  BY DEF EveryChunkIndexed, CacheInv
<1>4. QueueInv'
  <2>1. \A e \in expiry : e.received_at \in Nat
    BY DEF CacheInv, TypeOK, ExpiryItem
  <2>2. now \in Nat
    BY DEF CacheInv, TypeOK
  <2> QED BY <2>1, <2>2 DEF QueueInv, CacheInv
<1> QED BY <1>1, <1>2, <1>3, <1>4 DEF CacheInv

(* Nothing happens.                                                        *)
LEMMA CacheStutterInv == CacheInv /\ UNCHANGED cache_vars => CacheInv'
<1> SUFFICES ASSUME CacheInv, UNCHANGED cache_vars PROVE CacheInv'
  OBVIOUS
<1> USE DEF cache_vars
<1>1. \A r : ChangedSince(r)' = ChangedSince(r)
  BY DEF ChangedSince
<1>2. FullEntries(entries)' = FullEntries(entries)
  BY DEF FullEntries
<1>3. LogInv'
  BY <1>1, <1>2 DEF LogInv, CacheInv
<1>4. TypeOK' /\ EveryChunkIndexed' /\ QueueInv'
  BY DEF TypeOK, EveryChunkIndexed, QueueInv, CacheInv
<1> QED BY <1>3, <1>4 DEF CacheInv

(* Every step of the cache keeps its invariant.                            *)
LEMMA CacheStepInv == CacheInv /\ [CacheNext]_cache_vars => CacheInv'
BY UpsertInv, CleanupInv, PurgeInv, TickInv, CacheStutterInv DEF CacheNext

(* The inductive invariant holds of the cache for every set of chunks,     *)
(* every limit and every report.                                           *)
THEOREM CacheInvariant == CacheSpec => []CacheInv
BY CacheInitInv, CacheStepInv, PTL DEF CacheSpec

(* Every variable of the cache keeps its type.                             *)
THEOREM TypeCorrect == CacheSpec => []TypeOK
<1>1. CacheInv => TypeOK
  BY DEF CacheInv
<1> QED BY <1>1, CacheInvariant, PTL

(* No cached chunk ever loses its place in the expiry queue, whatever is   *)
(* popped or pruned: no chunk becomes immortal.                            *)
THEOREM ChunksStayIndexed == CacheSpec => []EveryChunkIndexed
<1>1. CacheInv => EveryChunkIndexed
  BY DEF CacheInv
<1> QED BY <1>1, CacheInvariant, PTL

-----------------------------------------------------------------------------
(* Patches.                                                                *)

(* Outside the keys of the patch, a client at any revision from r on       *)
(* already shows what the cache holds; at those keys the patch says it.    *)
LEMMA PatchCorrect ==
  ASSUME CacheInv, NEW r \in 0..revision, NEW s \in r..revision,
         ~RequiresFull(r)
  PROVE  ApplyPatch(history[s], PatchSince(r)) = FullEntries(entries)
<1> DEFINE patch == PatchSince(r)
           keys == ChangedSince(r)
           shown == history[s]
           result == ApplyPatch(shown, patch)
<1>1. /\ Len(changes) \in Nat
      /\ DOMAIN changes = 1..Len(changes)
      /\ revision \in Nat
      /\ r \in Nat /\ s \in Nat /\ r <= s /\ s <= revision
      /\ DOMAIN entries \subseteq Keys
  BY DEF CacheInv, TypeOK
<1>2. s \in (revision - Len(changes))..revision
  <2>1. CASE r = revision
    BY <2>1, <1>1
  <2>2. CASE r # revision
    <3>1. changes # <<>> /\ Head(changes).revision <= r + 1
      <4>1. changes # <<>> /\ ~(Head(changes).revision > r + 1)
        BY <2>2 DEF RequiresFull
      <4>2. changes[1] \in BattleChangeBatch /\ Head(changes) = changes[1]
        BY <4>1, <1>1 DEF CacheInv, TypeOK
      <4>3. Head(changes).revision \in Nat
        BY <4>2 DEF BattleChangeBatch
      <4> QED BY <4>1, <4>3, <1>1
    <3>2. Head(changes) = changes[1] /\ 1 \in 1..Len(changes)
      BY <3>1, <1>1 DEF CacheInv, TypeOK
    <3>3. changes[1].revision = revision - Len(changes) + 1
      BY <3>2 DEF CacheInv, LogInv
    <3> QED BY <1>1, <3>1, <3>2, <3>3
  <2> QED BY <2>1, <2>2
<1>3. \A k \in Keys \ keys : SameAt(shown, FullEntries(entries), k)
  <2> SUFFICES ASSUME NEW k \in Keys \ keys
               PROVE  SameAt(shown, FullEntries(entries), k)
    OBVIOUS
  <2>1. \A i \in DOMAIN changes : changes[i].revision \in Nat
    <3>1. \A i \in 1..Len(changes) : changes[i] \in BattleChangeBatch
      BY DEF CacheInv, TypeOK
    <3> QED BY <1>1, <3>1 DEF BattleChangeBatch
  <2>2. k \notin ChangedSince(s)
    BY <1>1, <2>1 DEF ChangedSince
  <2> QED BY <1>2, <2>2 DEF CacheInv, LogInv
<1>4. DOMAIN shown \subseteq Keys
  BY <1>1 DEF CacheInv, LogInv
<1>5. /\ FullEntries(entries) = [k \in DOMAIN entries |-> ProtoEntry(entries[k])]
      /\ DOMAIN FullEntries(entries) = DOMAIN entries
  BY DEF FullEntries
<1>6. /\ patch.upsert = [k \in keys \cap DOMAIN entries |-> ProtoEntry(entries[k])]
      /\ patch.delete = keys \ DOMAIN entries
      /\ DOMAIN patch.upsert = keys \cap DOMAIN entries
  BY DEF PatchSince
<1>7. result = [k \in (DOMAIN shown \cup DOMAIN patch.upsert) \ patch.delete |->
                  IF k \in DOMAIN patch.upsert THEN patch.upsert[k]
                                               ELSE shown[k]]
  BY DEF ApplyPatch
<1> HIDE DEF patch, keys, shown, result
<1>8. (DOMAIN shown \cup DOMAIN patch.upsert) \ patch.delete = DOMAIN entries
  <2>1. \A k : k \in (DOMAIN shown \cup DOMAIN patch.upsert) \ patch.delete
                 => k \in DOMAIN entries
    BY <1>3, <1>4, <1>5, <1>6 DEF SameAt
  <2>2. \A k \in DOMAIN entries :
          k \in (DOMAIN shown \cup DOMAIN patch.upsert) \ patch.delete
    BY <1>1, <1>3, <1>5, <1>6 DEF SameAt
  <2> QED BY <2>1, <2>2
<1>9. \A k \in DOMAIN entries :
        (IF k \in DOMAIN patch.upsert THEN patch.upsert[k] ELSE shown[k])
          = ProtoEntry(entries[k])
  <2> SUFFICES ASSUME NEW k \in DOMAIN entries
               PROVE (IF k \in DOMAIN patch.upsert THEN patch.upsert[k]
                                                   ELSE shown[k])
                       = ProtoEntry(entries[k])
    OBVIOUS
  <2>1. CASE k \in keys
    BY <2>1, <1>6
  <2>2. CASE k \notin keys
    BY <2>2, <1>1, <1>3, <1>5, <1>6 DEF SameAt
  <2> QED BY <2>1, <2>2
<1>10. result = FullEntries(entries)
  BY <1>5, <1>7, <1>8, <1>9
<1> QED BY <1>10 DEF result, shown, patch

(* A patch from the log leads to the present contents.                     *)
LEMMA InvariantSurvivesLag == CacheInv => PatchSurvivesLag
BY PatchCorrect DEF PatchSurvivesLag

(* A patch computed from an outdated acknowledgement is right for whatever *)
(* later revision the client has reached when it applies the patch.        *)
THEOREM LagIsHarmless == CacheSpec => []PatchSurvivesLag
<1> QED BY InvariantSurvivesLag, CacheInvariant, PTL

(* patch_since misses no insertion, overwrite, expiry or eviction.         *)
THEOREM PatchesAreExact == CacheSpec => []PatchReproducesCache
<1>1. CacheInv => PatchReproducesCache
  <2> SUFFICES ASSUME CacheInv, NEW r \in 0..revision, ~RequiresFull(r)
               PROVE  ApplyPatch(history[r], PatchSince(r)) = FullEntries(entries)
    BY DEF PatchReproducesCache
  <2>1. r \in r..revision
    BY DEF CacheInv, TypeOK
  <2> QED BY <2>1, PatchCorrect
<1> QED BY <1>1, CacheInvariant, PTL

-----------------------------------------------------------------------------
(* The limits.                                                             *)

(* The cache never outgrows its configured capacity.                       *)
THEOREM CapacityHolds == CacheSpec => []CapacityRespected
<1>1. CacheInit => CapacityRespected
  <2> SUFFICES ASSUME CacheInit PROVE CapacityRespected
    OBVIOUS
  <2>1. DOMAIN entries = {}
    BY DEF CacheInit, Empty
  <2> QED BY <2>1, FS_EmptySet, LimitsAssumption DEF CapacityRespected
<1>2. CacheInv /\ CapacityRespected /\ [CacheNext]_cache_vars
        => CapacityRespected'
  <2> SUFFICES ASSUME CacheInv, CapacityRespected, [CacheNext]_cache_vars
               PROVE  CapacityRespected'
    OBVIOUS
  <2>1. ASSUME NEW report \in Reports, Upsert(report)
        PROVE  CapacityRespected'
    BY <2>1, UpsertFacts, EvictionFits DEF Upsert, CapacityRespected
  <2>2. CASE Cleanup
    BY <2>2, CleanupFacts, EvictionFits DEF Cleanup, CapacityRespected
  <2>3. CASE Purge
    <3>1. DOMAIN entries' = {}
      BY <2>3 DEF Purge, Empty
    <3> QED BY <3>1, FS_EmptySet, LimitsAssumption DEF CapacityRespected
  <2>4. CASE Tick
    BY <2>4 DEF Tick, CapacityRespected
  <2>5. CASE UNCHANGED cache_vars
    BY <2>5 DEF cache_vars, CapacityRespected
  <2> QED BY <2>1, <2>2, <2>3, <2>4, <2>5 DEF CacheNext
<1> QED BY <1>1, <1>2, CacheInvariant, PTL DEF CacheSpec

(* After a cleanup no chunk is left that was last reported longer ago than *)
(* the retention: its item would have been at the front of the queue.      *)
THEOREM CleanupIsComplete == CacheSpec => CleanupExpiresEverything
<1>1. ASSUME CacheInv, Cleanup, NEW k \in DOMAIN entries'
      PROVE  now - heard[k] <= Retention
  <2> DEFINE kept == Remaining(entries, ExpiredItems)
  <2>1. PICK popped : entries' = Remaining(kept, popped)
    BY <1>1 DEF Cleanup
  <2>2. k \in DOMAIN entries /\ k \notin Removed(entries, ExpiredItems)
    BY <1>1, <2>1, CleanupFacts DEF Remaining, Restrict
  <2>3. PICK e \in expiry : e.key = k /\ e.generation = entries[k].generation
    BY <1>1, <2>2 DEF CacheInv, EveryChunkIndexed
  <2>4. e \notin ExpiredItems
    BY <2>2, <2>3 DEF Removed
  <2>5. PICK f \in expiry : NotAfter(f, e) /\ ~(now - f.received_at > Retention)
    BY <2>3, <2>4 DEF ExpiredItems
  <2>6. f.received_at <= e.received_at /\ e.received_at = heard[k]
    BY <1>1, <2>2, <2>3, <2>5 DEF CacheInv, QueueInv
  <2>7. /\ now \in Nat /\ f.received_at \in Nat /\ heard[k] \in Nat
        /\ Retention \in Nat
    BY <1>1, <2>2, <2>3, <2>5, LimitsAssumption DEF CacheInv, TypeOK, ExpiryItem
  <2> QED BY <2>5, <2>6, <2>7
<1>2. CacheInv /\ [CacheNext]_cache_vars =>
        [Cleanup => \A k \in DOMAIN entries' : now - heard[k] <= Retention]_cache_vars
  BY <1>1
<1> QED BY <1>2, CacheInvariant, PTL DEF CacheSpec, CleanupExpiresEverything

FrameGood(frame) ==
  /\ frame.battle_revision \in 0..revision
  /\ view_revision <= frame.battle_revision
  /\ frame.full => frame.upsert = history[frame.battle_revision]
  /\ ~frame.full =>
       /\ view_revision \in Nat
       /\ \A s \in view_revision..frame.battle_revision :
            ApplyPatch(history[s], frame) = history[frame.battle_revision]

TransitInv ==
  /\ \A frame : state_watch = <<frame>> => FrameGood(frame)
  /\ \A frame : writing = <<frame>> =>
       IF written THEN view_revision = frame.battle_revision
                  ELSE FrameGood(frame)
  /\ \A frame, next : writing = <<frame>> /\ state_watch = <<next>> =>
       frame.battle_revision <= next.battle_revision
  /\ ~connected =>
       /\ state_watch = NoFrame /\ writing = NoFrame
       /\ events = <<>> /\ view_revision = -1

DeliveryInv ==
  CacheInv /\ DeliveryTypeOK /\ ViewIsSomeRevision /\ BaselineNotAhead
    /\ TransitInv

(* Revisions are only added, and what was recorded for one stays.          *)
HistoryGrows ==
  \/ revision' = revision /\ history' = history
  \/ /\ revision' = revision + 1
     /\ \A r \in 0..revision : history'[r] = history[r]

(* What is recorded adds the present contents to the history.              *)
LEMMA RecordGrows ==
  ASSUME CacheInv, NEW changed, RecordChanges(changed)
  PROVE  HistoryGrows
<1>1. revision \in Nat
  BY DEF CacheInv, TypeOK
<1>2. CASE changed = {}
  BY <1>2 DEF RecordChanges, HistoryGrows, log_vars
<1>3. CASE changed # {}
  <2>1. /\ revision' = revision + 1
        /\ history' = [r \in 0..(revision + 1) |->
                         IF r <= revision THEN history[r]
                                          ELSE FullEntries(entries')]
    BY <1>3 DEF RecordChanges
  <2> QED BY <1>1, <2>1 DEF HistoryGrows
<1> QED BY <1>2, <1>3

(* So do a report and a cleanup.                                           *)
LEMMA CacheGrows ==
  ASSUME CacheInv, (\E report \in Reports : Upsert(report)) \/ Cleanup
  PROVE  HistoryGrows
<1>1. ASSUME NEW report \in Reports, Upsert(report) PROVE HistoryGrows
  BY <1>1, RecordGrows DEF Upsert
<1>2. ASSUME Cleanup PROVE HistoryGrows
  BY <1>2, RecordGrows DEF Cleanup
<1> QED BY <1>1, <1>2

(* While revisions are only added, good frames stay good.                  *)
LEMMA FrameStaysGood ==
  ASSUME CacheInv, HistoryGrows, view_revision' = view_revision,
         view_revision \in Nat \cup {-1}, NEW frame, FrameGood(frame)
  PROVE  FrameGood(frame)'
<1>1. revision \in Nat
  BY DEF CacheInv, TypeOK
<1>2. /\ frame.battle_revision \in 0..revision'
      /\ history'[frame.battle_revision] = history[frame.battle_revision]
  BY <1>1 DEF HistoryGrows, FrameGood
<1>3. ASSUME ~frame.full, NEW s \in view_revision..frame.battle_revision
      PROVE  /\ view_revision \in Nat
             /\ history'[s] = history[s]
  <2>1. view_revision \in Nat
    BY <1>3 DEF FrameGood
  <2>2. s \in 0..revision
    BY <1>1, <1>2, <1>3, <2>1 DEF FrameGood
  <2> QED BY <2>1, <2>2 DEF HistoryGrows
<1>4. ASSUME NEW s, history'[s] = history[s]
      PROVE  ApplyPatch(history[s], frame)' = ApplyPatch(history[s], frame)
  BY <1>4 DEF ApplyPatch
<1> QED BY <1>2, <1>3, <1>4 DEF FrameGood

(* A frame built in a tick is good for the client it is sent to.           *)
LEMMA TickFrameGood ==
  ASSUME DeliveryInv, connected, Cleanup,
         UNCHANGED <<delivered_battle_revision, view_revision>>,
         NEW frame, frame = BattleFrame
  PROVE  /\ frame \in Frames
         /\ FrameGood(frame)'
         /\ frame.battle_revision = revision'
<1>1. CacheInv' /\ HistoryGrows
  BY CleanupInv, CacheGrows DEF DeliveryInv
<1>2. /\ revision' \in Nat /\ revision \in Nat
      /\ revision <= revision'
      /\ IsStore(entries')
      /\ history'[revision'] = FullEntries(entries')
  BY <1>1 DEF CacheInv, TypeOK, LogInv, IsStore, HistoryGrows, DeliveryInv
<1>3. /\ view_revision \in Nat \cup {-1}
      /\ view_revision <= revision'
  BY <1>2 DEF DeliveryInv, DeliveryTypeOK, ViewIsSomeRevision
<1>4. CASE SendsFull
  <2>1. frame = [full |-> TRUE, upsert |-> FullEntries(entries'),
                 delete |-> {}, battle_revision |-> revision']
    BY <1>4 DEF BattleFrame
  <2>2. FullEntries(entries') \in UNION {[D -> Shown] : D \in SUBSET Keys}
    <3>1. /\ DOMAIN FullEntries(entries') = DOMAIN entries'
          /\ FullEntries(entries') \in [DOMAIN FullEntries(entries') -> Shown]
      BY <1>2, FullEntriesType
    <3> QED BY <1>2, <3>1 DEF IsStore
  <2>3. frame \in Frames
    BY <1>2, <2>1, <2>2 DEF Frames
  <2>4. /\ frame.full /\ frame.upsert = FullEntries(entries')
        /\ frame.battle_revision = revision'
    BY <2>1
  <2>5. FrameGood(frame)'
    BY <1>2, <1>3, <2>4 DEF FrameGood
  <2> QED BY <2>3, <2>4, <2>5
<1>5. CASE ~SendsFull
  <2> DEFINE d == delivered_battle_revision
             patch == PatchSince(d)'
  <2>1. frame = [full |-> FALSE, upsert |-> patch.upsert,
                 delete |-> patch.delete, battle_revision |-> revision']
    BY <1>5 DEF BattleFrame
  <2>2. has_delivered /\ ~RequiresFull(d)'
    BY <1>5 DEF SendsFull
  <2>3. d \in Nat /\ d <= view_revision /\ d' = d
    BY <2>2 DEF DeliveryInv, DeliveryTypeOK, BaselineNotAhead
  <2>4. PatchSurvivesLag'
    BY <1>1, InvariantSurvivesLag, PTL
  <2>5. ASSUME NEW s \in d..revision'
        PROVE  ApplyPatch(history[s], PatchSince(d))' = FullEntries(entries')
    <3>1. \A r \in 0..revision' : \A t \in r..revision' :
            ~RequiresFull(r)' =>
              ApplyPatch(history'[t], PatchSince(r)') = FullEntries(entries')
      BY <2>4 DEF PatchSurvivesLag
    <3> QED BY <1>2, <1>3, <2>2, <2>3, <2>5, <3>1
              DEF RequiresFull, PatchSince, ChangedSince
  <2>6. patch = [upsert |-> [k \in ChangedSince(d)' \cap DOMAIN entries' |->
                               ProtoEntry(entries'[k])],
                 delete |-> ChangedSince(d)' \ DOMAIN entries']
    BY DEF PatchSince
  <2>7. /\ patch.upsert \in UNION {[D -> Shown] : D \in SUBSET Keys}
        /\ patch.delete \subseteq Keys
    <3>1. \A k \in DOMAIN entries' : k \in Keys /\ ProtoEntry(entries'[k]) \in Shown
      BY <1>2 DEF IsStore, ProtoEntry, CachedBattleChunk, Values
    <3>2. ChangedSince(d)' \subseteq Keys
      <4>1. \A i \in DOMAIN changes' : changes'[i] \in BattleChangeBatch
        BY <1>1 DEF CacheInv, TypeOK
      <4> QED BY <4>1 DEF ChangedSince, BattleChangeBatch
    <3>3. ChangedSince(d)' \cap DOMAIN entries' \in SUBSET Keys
      BY <3>2
    <3>4. patch.upsert \in [ChangedSince(d)' \cap DOMAIN entries' -> Shown]
      BY <2>6, <3>1
    <3> QED BY <2>6, <3>2, <3>3, <3>4
  <2> HIDE DEF patch
  <2>8. frame \in Frames
    BY <1>2, <2>1, <2>7 DEF Frames
  <2>9. /\ ~frame.full /\ frame.battle_revision = revision'
        /\ frame.upsert = patch.upsert /\ frame.delete = patch.delete
    BY <2>1
  <2>10. ASSUME NEW s \in view_revision..revision'
         PROVE  ApplyPatch(history'[s], frame) = history'[revision']
    <3>1. s \in d..revision'
      BY <2>3, <1>2, <1>3
    <3>2. ApplyPatch(history'[s], frame) = ApplyPatch(history'[s], patch)
      BY <2>9 DEF ApplyPatch
    <3> QED BY <1>2, <2>5, <3>1, <3>2 DEF patch
  <2>11. FrameGood(frame)'
    BY <1>2, <1>3, <2>3, <2>9, <2>10 DEF FrameGood
  <2> QED BY <2>8, <2>9, <2>11
<1> QED BY <1>4, <1>5

(* The change log as a sum: how many keys each batch holds, and the        *)
(* recursion by which Operations adds them up.                             *)
Sizes(log) == [i \in DOMAIN log |-> Cardinality(log[i].keys)]

IsCount(count, log, S) ==
  count = [s \in SUBSET S |->
             IF s = {} THEN 0
             ELSE count[s \ {CHOOSE x \in s : TRUE}]
                    + Cardinality(log[CHOOSE x \in s : TRUE].keys)]

(* Only a finite batch can be counted.                                     *)
IsLog(log) == log \in Seq(BattleChangeBatch) /\ \A i \in DOMAIN log : IsFiniteSet(log[i].keys)

(* The sizes of the batches are numbers.                                   *)
LEMMA SizesOfLog ==
  ASSUME NEW log, IsLog(log)
  PROVE  /\ DOMAIN log = 1 .. Len(log) /\ Len(log) \in Nat /\ IsFiniteSet(DOMAIN log)
         /\ Numbers(Sizes(log), DOMAIN log)
         /\ \A i \in DOMAIN log : Sizes(log)[i] = Cardinality(log[i].keys)
<1>1. DOMAIN log = 1 .. Len(log) /\ Len(log) \in Nat
  BY DEF IsLog
<1>2. IsFiniteSet(DOMAIN log)
  BY <1>1, FS_Interval
<1>3. \A i \in DOMAIN log : Cardinality(log[i].keys) \in Int
  BY FS_CardinalityType DEF IsLog
<1> QED
  BY <1>1, <1>2, <1>3 DEF Sizes, Numbers

(* Operations is the sum of the sizes: the recursion has one solution.     *)
LEMMA OperationsIsTotal ==
  ASSUME NEW log, IsLog(log)
  PROVE  Operations(log) = Total(Sizes(log), DOMAIN log)
<1> DEFINE S == DOMAIN log
           count == CHOOSE c : IsCount(c, log, S)
<1>1. Operations(log) = count[S]
  BY Zenon DEF Operations, FoldFunction, FoldFunctionOnSet, MapThenFoldSet, IsCount
<1>2. IsFiniteSet(S) /\ Numbers(Sizes(log), S)
      /\ \A i \in S : Sizes(log)[i] = Cardinality(log[i].keys)
  BY SizesOfLog
<1> HIDE DEF S
<1>3. PICK sum : Sums(sum, Sizes(log), S) /\ IsFold(sum, Sizes(log), S)
  BY <1>2, SumsExist
<1>4. \A s \in SUBSET S : s # {} =>
        /\ (CHOOSE x \in s : TRUE) \in s
        /\ sum[s] = Sizes(log)[CHOOSE x \in s : TRUE] + sum[s \ {CHOOSE x \in s : TRUE}]
  BY <1>3, Zenon DEF IsFold
<1>5. sum \in [SUBSET S -> Int] /\ sum[{}] = 0
  BY <1>3 DEF Sums
<1>6. IsCount(sum, log, S)
  <2>1. ASSUME NEW s \in SUBSET S, s # {}, NEW x \in s,
               sum[s] = Sizes(log)[x] + sum[s \ {x}]
        PROVE  sum[s] = sum[s \ {x}] + Cardinality(log[x].keys)
    <3>1. Sizes(log)[x] \in Int /\ sum[s \ {x}] \in Int
      BY <1>2, <1>5 DEF Numbers
    <3> QED
      BY <1>2, <2>1, <3>1
  <2>2. sum = [s \in SUBSET S |-> sum[s]]
    BY <1>5
  <2>3. \A s \in SUBSET S : sum[s] =
          IF s = {} THEN 0
          ELSE sum[s \ {CHOOSE x \in s : TRUE}]
                 + Cardinality(log[CHOOSE x \in s : TRUE].keys)
    BY <1>4, <1>5, <2>1, Zenon
  <2> QED
    BY <2>2, <2>3, Zenon DEF IsCount
<1>7. IsCount(count, log, S)
  BY <1>6, Zenon DEF count
<1> HIDE DEF count
<1>8. \A s \in SUBSET S : count[s] = sum[s]
  <2> DEFINE T == {s \in SUBSET S : count[s] # sum[s]}
  <2> SUFFICES ASSUME T # {} PROVE FALSE
    OBVIOUS
  <2>1. PICK s \in T : \A t \in SUBSET S : Cardinality(t) < Cardinality(s) => t \notin T
    <3>1. T \subseteq SUBSET S
      OBVIOUS
    <3> HIDE DEF T
    <3> QED
      BY <1>2, <3>1, SmallestSet
  <2>2. count[s] = IF s = {} THEN 0
                   ELSE count[s \ {CHOOSE x \in s : TRUE}]
                          + Cardinality(log[CHOOSE x \in s : TRUE].keys)
    BY <1>7, Zenon DEF IsCount
  <2>3. sum[s] = IF s = {} THEN 0
                 ELSE sum[s \ {CHOOSE x \in s : TRUE}]
                        + Cardinality(log[CHOOSE x \in s : TRUE].keys)
    BY <1>6, Zenon DEF IsCount
  <2>4. s # {}
    BY <2>1, <2>2, <2>3
  <2>5. (CHOOSE x \in s : TRUE) \in s
    BY <2>4
  <2>6. s \ {CHOOSE x \in s : TRUE} \in SUBSET S
        /\ Cardinality(s \ {CHOOSE x \in s : TRUE}) < Cardinality(s)
    BY <1>2, <2>5, SmallerSets
  <2>7. count[s \ {CHOOSE x \in s : TRUE}] = sum[s \ {CHOOSE x \in s : TRUE}]
    BY <2>1, <2>6
  <2> QED
    BY <2>1, <2>2, <2>3, <2>7
<1>9. Total(Sizes(log), S) = sum[S]
  <2>1. \A s \in SUBSET S : Total(Sizes(log), s) = sum[s] /\ sum[s] \in Int
    BY <1>2, <1>3, TotalIsAny
  <2> QED
    BY <2>1
<1> QED
  BY <1>1, <1>8, <1>9 DEF S

(* What is dropped from the front of a log, and what is left of it.        *)
LEMMA OperationsOfRest ==
  ASSUME NEW log, IsLog(log), NEW d \in 0 .. Len(log)
  PROVE  /\ IsLog(SubSeq(log, d + 1, Len(log)))
         /\ Operations(log) \in Int
         /\ Operations(SubSeq(log, d + 1, Len(log)))
              = Operations(log) - Operations(SubSeq(log, 1, d))
<1> DEFINE rest == SubSeq(log, d + 1, Len(log))
           front == SubSeq(log, 1, d)
           n == Len(log)
<1>1. /\ log \in Seq(BattleChangeBatch) /\ n \in Nat /\ d \in Nat /\ d <= n
      /\ DOMAIN log = 1 .. n /\ \A i \in 1 .. n : IsFiniteSet(log[i].keys)
  BY DEF IsLog
<1>2. /\ rest \in Seq(BattleChangeBatch) /\ Len(rest) = n - d
      /\ \A i \in 1 .. (n - d) : i + d \in 1 .. n /\ rest[i] = log[i + d]
  BY <1>1, SuffixProperties
<1>3. front \in Seq(BattleChangeBatch) /\ Len(front) = d /\ \A i \in 1 .. d : front[i] = log[i]
  BY <1>1
<1> HIDE DEF rest, front, n
<1>4. DOMAIN rest = 1 .. (n - d) /\ DOMAIN front = 1 .. d
  BY <1>1, <1>2, <1>3
<1>5. IsLog(rest) /\ IsLog(front)
  BY <1>1, <1>2, <1>3, <1>4 DEF IsLog
<1>6. /\ Operations(log) = Total(Sizes(log), 1 .. n)
      /\ Operations(rest) = Total(Sizes(rest), 1 .. (n - d))
      /\ Operations(front) = Total(Sizes(front), 1 .. d)
  BY <1>1, <1>4, <1>5, OperationsIsTotal
<1>7. /\ Numbers(Sizes(log), 1 .. n) /\ Numbers(Sizes(front), 1 .. d)
      /\ \A i \in 1 .. n : Sizes(log)[i] = Cardinality(log[i].keys)
      /\ \A i \in 1 .. d : Sizes(front)[i] = Cardinality(front[i].keys)
      /\ \A i \in 1 .. (n - d) : Sizes(rest)[i] = Cardinality(rest[i].keys)
  BY <1>1, <1>4, <1>5, SizesOfLog
<1>8. \A i \in 1 .. (n - d) : Sizes(rest)[i] = Sizes(log)[i + d]
  BY <1>2, <1>7
<1>9. \A i \in 1 .. d : i \in 1 .. n /\ Sizes(front)[i] = Sizes(log)[i]
  BY <1>1, <1>3, <1>7
<1>10. IsFiniteSet(1 .. n) /\ IsFiniteSet(1 .. d)
  BY <1>1, FS_Interval
<1>11. Total(Sizes(front), 1 .. d) = Total(Sizes(log), 1 .. d)
  BY <1>7, <1>9, <1>10, TotalIsSame
<1>12. Total(Sizes(rest), 1 .. (n - d)) = Total(Sizes(log), 1 .. n) - Total(Sizes(log), 1 .. d)
  BY <1>1, <1>7, <1>8, TotalShift
<1>13. Total(Sizes(log), 1 .. n) \in Int
  BY <1>7, <1>10, TotalIsNumber
<1>14. Operations(log) \in Int /\ Operations(rest) = Operations(log) - Operations(front)
  BY <1>6, <1>11, <1>12, <1>13
<1> QED
  BY <1>5, <1>14 DEF rest, front, n

(* A batch that is appended adds its keys.                                 *)
LEMMA OperationsOfAppend ==
  ASSUME NEW log, IsLog(log), NEW batch \in BattleChangeBatch, IsFiniteSet(batch.keys)
  PROVE  /\ IsLog(Append(log, batch))
         /\ Operations(Append(log, batch)) = Operations(log) + Cardinality(batch.keys)
<1> DEFINE longer == Append(log, batch)
<1>0. PICK n \in Nat : n = Len(log)
  BY DEF IsLog
<1>1. /\ n \in Nat /\ DOMAIN log = 1 .. n
      /\ \A i \in 1 .. n : IsFiniteSet(log[i].keys)
      /\ longer \in Seq(BattleChangeBatch) /\ DOMAIN longer = 1 .. (n + 1)
      /\ \A i \in 1 .. n : longer[i] = log[i]
      /\ longer[n + 1] = batch
  BY <1>0 DEF IsLog
<1> HIDE DEF longer
<1>2. IsLog(longer)
  <2>1. ASSUME NEW i \in 1 .. (n + 1) PROVE IsFiniteSet(longer[i].keys)
    <3>1. i \in 1 .. n \/ i = n + 1
      BY <1>1
    <3> QED
      BY <1>1, <3>1
  <2> QED
    BY <1>1, <2>1 DEF IsLog
<1>3. /\ Operations(log) = Total(Sizes(log), 1 .. n)
      /\ Operations(longer) = Total(Sizes(longer), 1 .. (n + 1))
  BY <1>1, <1>2, OperationsIsTotal
<1>4. /\ Numbers(Sizes(log), 1 .. n) /\ Numbers(Sizes(longer), 1 .. (n + 1))
      /\ \A i \in 1 .. n : Sizes(log)[i] = Cardinality(log[i].keys)
      /\ \A i \in 1 .. (n + 1) : Sizes(longer)[i] = Cardinality(longer[i].keys)
  BY <1>1, <1>2, SizesOfLog
<1>5. /\ \A i \in 1 .. n : Sizes(log)[i] = Sizes(longer)[i]
      /\ Sizes(longer)[n + 1] = Cardinality(batch.keys)
  BY <1>1, <1>4
<1>6. IsFiniteSet(1 .. n) /\ IsFiniteSet(1 .. (n + 1))
  <2>1. \A m \in Nat : IsFiniteSet(1 .. m)
    BY FS_Interval
  <2> QED
    BY <2>1
<1>7. (1 .. (n + 1)) \ {n + 1} = 1 .. n /\ n + 1 \in 1 .. (n + 1)
  BY <1>1
<1>8. Total(Sizes(longer), 1 .. (n + 1)) = Sizes(longer)[n + 1] + Total(Sizes(longer), 1 .. n)
  BY <1>4, <1>6, <1>7, TotalWithout
<1>9. Total(Sizes(log), 1 .. n) = Total(Sizes(longer), 1 .. n)
  BY <1>4, <1>5, <1>6, TotalIsSame
<1>10. Total(Sizes(log), 1 .. n) \in Int /\ Cardinality(batch.keys) \in Int
  BY <1>4, <1>6, TotalIsNumber, FS_CardinalityType
<1>11. Operations(longer) = Operations(log) + Cardinality(batch.keys)
  BY <1>3, <1>5, <1>8, <1>9, <1>10
<1> QED
  BY <1>2, <1>11 DEF longer

(* The log is counted right, and nothing infinite gets into it.            *)
LogCounted == ChangeLogBounded /\ IsLog(changes) /\ IsFiniteSet(DOMAIN entries)

(* record_changes: what is trimmed is subtracted, whether the limits hold  *)
(* or the log is empty.                                                    *)
LEMMA RecordKeepsCount ==
  ASSUME LogCounted, revision \in Nat, NEW changed \in SUBSET Keys, IsFiniteSet(changed),
         RecordChanges(changed)
  PROVE  ChangeLogBounded' /\ IsLog(changes')
<1>1. CASE changed = {}
  BY <1>1 DEF RecordChanges, LogCounted, ChangeLogBounded, log_vars
<1>2. CASE changed # {}
  <2> DEFINE batch == [revision |-> revision + 1, keys |-> changed]
             log == Append(changes, batch)
             total == change_operations + Cardinality(changed)
  <2>1. PICK d \in 0 .. Len(log) :
          /\ LogWithinLimits(log, total, d) \/ d = Len(log)
          /\ changes' = SubSeq(log, d + 1, Len(log))
          /\ change_operations' = total - Operations(SubSeq(log, 1, d))
    BY <1>2 DEF RecordChanges
  <2>2. batch \in BattleChangeBatch /\ batch.keys = changed
    BY DEF BattleChangeBatch
  <2> HIDE DEF batch
  <2>3. IsLog(log) /\ Operations(log) = Operations(changes) + Cardinality(changed)
    BY <2>2, OperationsOfAppend DEF LogCounted
  <2>4. total = Operations(log)
    BY <2>3 DEF LogCounted, ChangeLogBounded
  <2> HIDE DEF log, total
  <2>5. /\ IsLog(SubSeq(log, d + 1, Len(log)))
        /\ Operations(SubSeq(log, d + 1, Len(log)))
             = Operations(log) - Operations(SubSeq(log, 1, d))
    BY <2>3, OperationsOfRest
  <2>6. /\ Len(log) \in Nat /\ Len(SubSeq(log, d + 1, Len(log))) = Len(log) - d
    BY <2>3, SuffixProperties DEF IsLog
  <2>7. IsLog(changes') /\ change_operations' = Operations(changes')
        /\ Len(changes') = Len(log) - d
    BY <2>1, <2>4, <2>5, <2>6
  <2>8. CASE LogWithinLimits(log, total, d)
    BY <2>1, <2>7, <2>8 DEF LogWithinLimits, ChangeLogBounded
  <2>9. CASE d = Len(log)
    <3>1. DOMAIN changes' = {} /\ Len(changes') = 0
      BY <2>6, <2>7, <2>9, SizesOfLog
    <3>2. Operations(changes') = 0
      BY <2>7, <3>1, OperationsIsTotal, TotalOfNothing
    <3> QED
      BY <2>7, <3>1, <3>2, LimitsAssumption DEF ChangeLogBounded
  <2> QED
    BY <2>1, <2>7, <2>8, <2>9
<1> QED
  BY <1>1, <1>2

(* A report names finitely many chunks.                                    *)
LEMMA ReportIsFinite ==
  ASSUME NEW report \in Reports
  PROVE  ReportKeys(report) \subseteq Keys /\ IsFiniteSet(ReportKeys(report))
<1>1. PICK n \in 0 .. MaxReport : report \in [1 .. n -> BattleChunkEntry]
  BY DEF Reports
<1>2. IsFiniteSet(1 .. n) /\ DOMAIN report = 1 .. n
  BY <1>1, FS_Interval, LimitsAssumption
<1>3. ReportKeys(report) = {report[i].key : i \in 1 .. n}
  BY <1>2 DEF ReportKeys
<1>4. IsFiniteSet({report[i].key : i \in 1 .. n})
  <2> DEFINE T == {report[i].key : i \in 1 .. n}
             key == [i \in 1 .. n |-> report[i].key]
  <2>1. key \in Surjection(1 .. n, T)
    <3>1. key \in [1 .. n -> T] /\ \A t \in T : \E i \in 1 .. n : key[i] = t
      OBVIOUS
    <3> QED
      BY <3>1, Zenon DEF Surjection
  <2> HIDE DEF T, key
  <2>2. IsFiniteSet(T)
    BY <1>2, <2>1, FS_Surjection
  <2> QED
    BY <2>2 DEF T
<1>5. \A i \in 1 .. n : report[i].key \in Keys
  BY <1>1 DEF BattleChunkEntry
<1> QED
  BY <1>3, <1>4, <1>5

(* Every step keeps the count: an infinite batch never reaches the log.    *)
LEMMA LogCountedStep ==
  ASSUME CacheInv, LogCounted, [CacheNext]_cache_vars
  PROVE  LogCounted'
<1>1. revision \in Nat /\ DOMAIN entries \subseteq Keys /\ IsFiniteSet(DOMAIN entries)
  BY DEF CacheInv, TypeOK, LogCounted
<1>2. ASSUME NEW report \in Reports, Upsert(report)
      PROVE  LogCounted'
  <2> DEFINE generation == next_generation + 1
             inserted == Insert(entries, report, generation)
  <2>1. PICK popped :
          /\ entries' = Remaining(inserted, popped)
          /\ RecordChanges(VisiblyChanged(entries, report) \cup Removed(inserted, popped))
    BY <1>2 DEF Upsert
  <2>2. DOMAIN inserted = DOMAIN entries \cup ReportKeys(report)
    BY DEF Insert
  <2>3. IsFiniteSet(DOMAIN inserted) /\ DOMAIN inserted \subseteq Keys
    BY <1>1, <2>2, ReportIsFinite, FS_Union
  <2> HIDE DEF inserted
  <2>4. /\ DOMAIN entries' \subseteq DOMAIN inserted
        /\ Removed(inserted, popped) \subseteq DOMAIN inserted
    BY <2>1 DEF Remaining, Restrict, Removed
  <2>5. VisiblyChanged(entries, report) \subseteq ReportKeys(report)
    BY DEF VisiblyChanged
  <2>6. /\ IsFiniteSet(DOMAIN entries') /\ IsFiniteSet(Removed(inserted, popped))
        /\ IsFiniteSet(VisiblyChanged(entries, report))
    BY <2>3, <2>4, <2>5, ReportIsFinite, FS_Subset
  <2>7. IsFiniteSet(VisiblyChanged(entries, report) \cup Removed(inserted, popped))
    BY <2>6, FS_Union
  <2>8. VisiblyChanged(entries, report) \cup Removed(inserted, popped) \in SUBSET Keys
    BY <2>3, <2>4, <2>5, ReportIsFinite
  <2> QED
    BY <1>1, <2>1, <2>6, <2>7, <2>8, RecordKeepsCount DEF LogCounted
<1>3. CASE Cleanup
  <2> DEFINE kept == Remaining(entries, ExpiredItems)
  <2>1. PICK popped :
          /\ entries' = Remaining(kept, popped)
          /\ RecordChanges(Removed(entries, ExpiredItems) \cup Removed(kept, popped))
    BY <1>3 DEF Cleanup
  <2>2. /\ DOMAIN kept \subseteq DOMAIN entries
        /\ Removed(entries, ExpiredItems) \subseteq DOMAIN entries
    BY DEF Remaining, Restrict, Removed
  <2> HIDE DEF kept
  <2>3. DOMAIN entries' \subseteq DOMAIN kept /\ Removed(kept, popped) \subseteq DOMAIN kept
    BY <2>1 DEF Remaining, Restrict, Removed
  <2>4. IsFiniteSet(DOMAIN entries')
    BY <1>1, <2>2, <2>3, FS_Subset
  <2>5. Removed(entries, ExpiredItems) \cup Removed(kept, popped) \subseteq DOMAIN entries
    BY <2>2, <2>3
  <2>6. /\ IsFiniteSet(Removed(entries, ExpiredItems) \cup Removed(kept, popped))
        /\ Removed(entries, ExpiredItems) \cup Removed(kept, popped) \in SUBSET Keys
    BY <1>1, <2>5, FS_Subset
  <2> QED
    BY <1>1, <2>1, <2>4, <2>6, RecordKeepsCount DEF LogCounted
<1>4. ASSUME changes' = <<>>, change_operations' = 0, DOMAIN entries' = {}
      PROVE  LogCounted'
  <2>1. IsLog(<<>>) /\ Len(<<>>) = 0 /\ DOMAIN <<>> = {}
    BY DEF IsLog
  <2>2. Operations(<<>>) = 0
    BY <2>1, OperationsIsTotal, TotalOfNothing
  <2> QED
    BY <1>4, <2>1, <2>2, FS_EmptySet, LimitsAssumption DEF LogCounted, ChangeLogBounded
<1>5. CASE Purge
  <2>1. DOMAIN entries' = {}
    BY <1>5 DEF Purge, Empty
  <2> QED
    BY <1>4, <1>5, <2>1 DEF Purge
<1>6. ASSUME UNCHANGED <<changes, change_operations, entries>>
      PROVE  LogCounted'
  BY <1>6 DEF LogCounted, ChangeLogBounded
<1>7. CASE Tick
  BY <1>6, <1>7 DEF Tick
<1>8. CASE UNCHANGED cache_vars
  BY <1>6, <1>8 DEF cache_vars
<1> QED
  BY <1>2, <1>3, <1>5, <1>7, <1>8 DEF CacheNext

(* The count is right in every state.                                      *)
LEMMA LogIsCounted == CacheSpec => []LogCounted
<1>1. CacheInit => LogCounted
  <2> SUFFICES ASSUME CacheInit PROVE LogCounted
    OBVIOUS
  <2>1. changes = <<>> /\ change_operations = 0 /\ DOMAIN entries = {}
    BY DEF CacheInit, Empty
  <2>2. IsLog(<<>>) /\ Len(<<>>) = 0 /\ DOMAIN <<>> = {}
    BY DEF IsLog
  <2>3. Operations(<<>>) = 0
    BY <2>2, OperationsIsTotal, TotalOfNothing
  <2> QED
    BY <2>1, <2>2, <2>3, FS_EmptySet, LimitsAssumption DEF LogCounted, ChangeLogBounded
<1>2. CacheInv /\ LogCounted /\ [CacheNext]_cache_vars => LogCounted'
  BY LogCountedStep
<1> QED
  BY <1>1, <1>2, CacheInvariant, PTL DEF CacheSpec

(* The change log of record_changes stays within both of its limits, and   *)
(* change_operations is the number of keys it holds: no drift makes the    *)
(* cache trim the log for ever, or never.                                  *)
THEOREM LogHolds == CacheSpec => []ChangeLogBounded
<1>1. LogCounted => ChangeLogBounded
  BY DEF LogCounted
<1> QED
  BY <1>1, LogIsCounted, PTL

(* The queue is finite, and an item is known by its generation and slot.   *)
OneItemPerSlot(queue) ==
  /\ IsFiniteSet(queue)
  /\ queue \subseteq ExpiryItem
  /\ \A e, f \in queue : e.generation = f.generation /\ e.slot = f.slot => e = f

(* Between a head of the queue and the head before it lies one item.       *)
LEMMA OneItemAtATime ==
  ASSUME NEW queue, OneItemPerSlot(queue), NEW popped \in Heads(queue), popped # {}
  PROVE  \E fewer \in Heads(queue), last \in popped :
           fewer \subseteq popped /\ fewer # popped /\ popped \ fewer = {last}
<1>1. PICK last \in queue : popped = {f \in queue : NotAfter(f, last)}
  BY DEF Heads
<1>2. \A e \in queue : e.generation \in Nat /\ e.slot \in Nat
  BY DEF OneItemPerSlot, ExpiryItem
<1>3. last \in popped
  BY <1>1, <1>2 DEF NotAfter
<1>4. IsFiniteSet(popped)
  BY <1>1, FS_Subset DEF OneItemPerSlot
<1> DEFINE T == {popped \ h : h \in {g \in Heads(queue) : g \subseteq popped /\ g # popped}}
<1>5. T # {}
  <2>1. {} \in Heads(queue)
    BY DEF Heads
  <2> QED
    BY <2>1
<1>6. T \subseteq SUBSET popped
  OBVIOUS
<1> HIDE DEF T
<1>7. PICK s \in T : \A t \in SUBSET popped : Cardinality(t) < Cardinality(s) => t \notin T
  BY <1>4, <1>5, <1>6, SmallestSet
<1> USE DEF T
<1>8. PICK fewer \in Heads(queue) : fewer \subseteq popped /\ fewer # popped /\ s = popped \ fewer
  BY <1>7
<1>9. ASSUME NEW g \in popped \ fewer, g # last
      PROVE  FALSE
  <2> DEFINE h == {f \in queue : NotAfter(f, g)}
  <2>1. g \in queue /\ NotAfter(g, last) /\ h \in Heads(queue)
    BY <1>1, <1>9 DEF Heads
  <2>2. ~NotAfter(last, g)
    <3>1. NotAfter(last, g) => g.generation = last.generation /\ g.slot = last.slot
      BY <1>2, <2>1 DEF NotAfter
    <3> QED
      BY <1>9, <2>1, <3>1 DEF OneItemPerSlot
  <2>3. h \subseteq popped /\ last \notin h /\ g \in h
    BY <1>1, <1>2, <2>1, <2>2 DEF NotAfter
  <2>4. fewer \subseteq h
    <3>1. CASE fewer = {}
      BY <3>1
    <3>2. ASSUME NEW e \in queue, fewer = {f \in queue : NotAfter(f, e)}
          PROVE  fewer \subseteq h
      <4>1. ~NotAfter(g, e)
        BY <1>9, <2>1, <3>2
      <4> QED
        BY <1>2, <2>1, <3>2, <4>1 DEF NotAfter
    <3> QED
      BY <3>1, <3>2 DEF Heads
  <2> HIDE DEF h
  <2>5. popped \ h \in T /\ popped \ h \in SUBSET popped
    BY <1>3, <2>1, <2>3
  <2>6. /\ popped \ h \subseteq s /\ popped \ h # s /\ IsFiniteSet(s)
    BY <1>4, <1>8, <1>9, <2>3, <2>4, FS_Subset
  <2>7. Cardinality(popped \ h) < Cardinality(s)
    <3>1. Cardinality(popped \ h) <= Cardinality(s) /\ IsFiniteSet(popped \ h)
          /\ Cardinality(popped \ h) # Cardinality(s)
      BY <2>6, FS_Subset
    <3>2. Cardinality(popped \ h) \in Nat /\ Cardinality(s) \in Nat
      BY <2>6, <3>1, FS_CardinalityType
    <3> QED
      BY <3>1, <3>2
  <2> QED
    BY <1>7, <2>5, <2>7
<1>10. popped \ fewer = {last}
  BY <1>3, <1>8, <1>9
<1> QED
  BY <1>3, <1>8, <1>10

(* What eviction removes is no newer than what it leaves, and it leaves    *)
(* the cache full.                                                         *)
LEMMA EvictionTakesTheOldest ==
  ASSUME NEW store, IsFiniteSet(DOMAIN store), NEW queue, OneItemPerSlot(queue),
         IndexedBy(store, queue), NEW popped \in Heads(queue),
         EvictToLimit(store, queue, popped), NEW k \in Removed(store, popped)
  PROVE  /\ Cardinality(DOMAIN Remaining(store, popped)) = MaxEntries
         /\ \A other \in DOMAIN Remaining(store, popped) :
              Remaining(store, popped)[other].generation >= store[k].generation
<1>1. PICK e \in popped : e.key = k /\ e.generation = store[k].generation
  BY DEF Removed
<1>2. PICK fewer \in Heads(queue), last \in popped :
        fewer \subseteq popped /\ fewer # popped /\ popped \ fewer = {last}
  BY <1>1, OneItemAtATime
<1>3. ~Fits(store, fewer)
  BY <1>2 DEF EvictToLimit
<1>4. DOMAIN Remaining(store, fewer) \subseteq DOMAIN Remaining(store, popped) \cup {last.key}
  BY <1>2 DEF Remaining, Restrict, Removed
<1>5. IsFiniteSet(DOMAIN Remaining(store, popped)) /\ IsFiniteSet(DOMAIN Remaining(store, fewer))
  <2>1. /\ DOMAIN Remaining(store, popped) \subseteq DOMAIN store
        /\ DOMAIN Remaining(store, fewer) \subseteq DOMAIN store
    BY DEF Remaining, Restrict
  <2> QED
    BY <2>1, FS_Subset
<1>6. Cardinality(DOMAIN Remaining(store, fewer))
        <= Cardinality(DOMAIN Remaining(store, popped)) + 1
  <2>1. /\ IsFiniteSet(DOMAIN Remaining(store, popped) \cup {last.key})
        /\ Cardinality(DOMAIN Remaining(store, popped) \cup {last.key})
             <= Cardinality(DOMAIN Remaining(store, popped)) + 1
    <3>1. ASSUME NEW S, NEW x, IsFiniteSet(S)
          PROVE  IsFiniteSet(S \cup {x}) /\ Cardinality(S \cup {x}) <= Cardinality(S) + 1
      <4>1. Cardinality(S) \in Nat
        BY <3>1, FS_CardinalityType
      <4>2. /\ IsFiniteSet(S \cup {x})
            /\ Cardinality(S \cup {x}) = IF x \in S THEN Cardinality(S) ELSE Cardinality(S) + 1
        BY <3>1, FS_AddElement
      <4> QED
        BY <4>1, <4>2
    <3>2. \A S, x : IsFiniteSet(S) =>
            IsFiniteSet(S \cup {x}) /\ Cardinality(S \cup {x}) <= Cardinality(S) + 1
      BY <3>1
    <3> QED
      BY <1>5, <3>2, Zenon
  <2>2. Cardinality(DOMAIN Remaining(store, fewer))
          <= Cardinality(DOMAIN Remaining(store, popped) \cup {last.key})
    BY <1>4, <2>1, FS_Subset
  <2> QED
    BY <1>5, <2>1, <2>2, FS_CardinalityType
<1>7. Cardinality(DOMAIN Remaining(store, popped)) = MaxEntries
  <2>1. Cardinality(DOMAIN Remaining(store, popped)) <= MaxEntries
    BY EvictionFits
  <2> QED
    BY <1>3, <1>5, <1>6, <2>1, FS_CardinalityType, LimitsAssumption DEF Fits
<1>8. ASSUME NEW other \in DOMAIN Remaining(store, popped)
      PROVE  Remaining(store, popped)[other].generation >= store[k].generation
  <2>1. PICK f \in queue \ popped :
          f.key = other /\ f.generation = Remaining(store, popped)[other].generation
    BY <1>8, RemainingIndexed DEF IndexedBy
  <2>2. PICK top \in queue : popped = {g \in queue : NotAfter(g, top)}
    BY <1>1 DEF Heads
  <2>3. \A g \in queue : g.generation \in Nat /\ g.slot \in Nat
    BY DEF OneItemPerSlot, ExpiryItem
  <2>4. NotAfter(e, top) /\ ~NotAfter(f, top) /\ e \in queue
    BY <2>1, <2>2
  <2>5. f.generation >= e.generation
    BY <2>1, <2>2, <2>3, <2>4 DEF NotAfter
  <2> QED
    BY <1>1, <2>1, <2>5
<1> QED
  BY <1>7, <1>8

(* The items of a report have slots of their own in a new generation.      *)
LEMMA QueuedItems ==
  ASSUME CacheInv, OneItemPerSlot(expiry), NEW report \in Reports
  PROVE  OneItemPerSlot(expiry \cup Queued(report, next_generation + 1))
<1> DEFINE generation == next_generation + 1
           new == Queued(report, generation)
<1>1. PICK n \in 0 .. MaxReport : report \in [1 .. n -> BattleChunkEntry]
  BY DEF Reports
<1>2. next_generation \in Nat /\ now \in Nat
  BY DEF CacheInv, TypeOK
<1>3. new = {[generation |-> generation, slot |-> i, key |-> report[i].key,
              received_at |-> now] : i \in 1 .. n}
  BY <1>1 DEF Queued
<1>4. new \subseteq ExpiryItem /\ \A e \in new : e.generation = generation
  <2>1. expiry \cup new \subseteq ExpiryItem
    BY UpsertFacts
  <2> QED
    BY <1>3, <2>1
<1>5. \A e, f \in new : e.slot = f.slot => e = f
  BY <1>3
<1>6. IsFiniteSet(new)
  <2> DEFINE item == [i \in 1 .. n |->
                        [generation |-> generation, slot |-> i, key |-> report[i].key,
                         received_at |-> now]]
  <2>1. item \in Surjection(1 .. n, new)
    <3>1. item \in [1 .. n -> new] /\ \A t \in new : \E i \in 1 .. n : item[i] = t
      BY <1>3
    <3> QED
      BY <3>1, Zenon DEF Surjection
  <2>2. IsFiniteSet(1 .. n)
    BY <1>1, FS_Interval, LimitsAssumption
  <2> HIDE DEF item, new
  <2> QED
    BY <2>1, <2>2, FS_Surjection
<1> HIDE DEF new
<1>7. \A e \in expiry : e.generation \in Nat /\ e.generation <= next_generation
  BY DEF CacheInv, TypeOK, QueueInv, ExpiryItem
<1>8. ASSUME NEW e \in expiry \cup new, NEW f \in expiry \cup new,
             e.generation = f.generation, e.slot = f.slot
      PROVE  e = f
  <2>1. e \in new <=> f \in new
    BY <1>2, <1>4, <1>7, <1>8
  <2> QED
    BY <1>5, <1>8, <2>1 DEF OneItemPerSlot
<1>9. IsFiniteSet(expiry \cup new) /\ expiry \cup new \subseteq ExpiryItem
  BY <1>4, <1>6, FS_Union DEF OneItemPerSlot
<1> QED
  BY <1>8, <1>9 DEF OneItemPerSlot, new

(* What is left of a queue is a queue.                                     *)
LEMMA FewerItems ==
  ASSUME NEW queue, OneItemPerSlot(queue), NEW left \in SUBSET queue
  PROVE  OneItemPerSlot(left)
BY FS_Subset DEF OneItemPerSlot

(* Every step keeps the slots apart.                                       *)
LEMMA SlotsStep ==
  ASSUME CacheInv, OneItemPerSlot(expiry), [CacheNext]_cache_vars
  PROVE  OneItemPerSlot(expiry')
<1>1. ASSUME NEW report \in Reports, Upsert(report)
      PROVE  OneItemPerSlot(expiry')
  <2>1. expiry' \subseteq expiry \cup Queued(report, next_generation + 1)
    BY <1>1 DEF Upsert, PruneStaleIndexes
  <2> QED
    BY <2>1, QueuedItems, FewerItems
<1>2. CASE Cleanup
  BY <1>2, FewerItems DEF Cleanup
<1>3. CASE Purge
  BY <1>3, FewerItems DEF Purge
<1>4. CASE Tick
  BY <1>4 DEF Tick
<1>5. CASE UNCHANGED cache_vars
  BY <1>5 DEF cache_vars
<1> QED
  BY <1>1, <1>2, <1>3, <1>4, <1>5 DEF CacheNext

(* What OnlyStaleOrOldestRemoved says of one step.                         *)
RemovalHasReason ==
  \A k \in DOMAIN entries \ DOMAIN entries' :
    \/ Purge
    \/ now - heard[k] > Retention
    \/ /\ Cardinality(DOMAIN entries') = MaxEntries
       /\ \A other \in DOMAIN entries' : entries'[other].generation >= entries[k].generation

(* A report evicts, a cleanup expires and then evicts; a tick removes none. *)
LEMMA RemovalStep ==
  ASSUME CacheInv, LogCounted, OneItemPerSlot(expiry), CacheNext
  PROVE  RemovalHasReason
<1> SUFFICES ASSUME NEW k \in DOMAIN entries \ DOMAIN entries'
             PROVE  \/ Purge
                    \/ now - heard[k] > Retention
                    \/ /\ Cardinality(DOMAIN entries') = MaxEntries
                       /\ \A other \in DOMAIN entries' :
                            entries'[other].generation >= entries[k].generation
  BY DEF RemovalHasReason
<1>0. /\ IsFiniteSet(DOMAIN entries) /\ DOMAIN entries \subseteq Keys /\ next_generation \in Nat
      /\ \A j \in DOMAIN entries : entries[j].generation \in Nat
                                   /\ entries[j].generation <= next_generation
  BY DEF CacheInv, TypeOK, LogCounted, QueueInv, CachedBattleChunk
<1>1. ASSUME NEW report \in Reports, Upsert(report)
      PROVE  /\ Cardinality(DOMAIN entries') = MaxEntries
             /\ \A other \in DOMAIN entries' :
                  entries'[other].generation >= entries[k].generation
  <2> DEFINE generation == next_generation + 1
             inserted == Insert(entries, report, generation)
             queue == expiry \cup Queued(report, generation)
  <2>1. PICK popped \in Heads(queue) :
          EvictToLimit(inserted, queue, popped) /\ entries' = Remaining(inserted, popped)
    BY <1>1 DEF Upsert
  <2>2. DOMAIN inserted = DOMAIN entries \cup ReportKeys(report)
    BY DEF Insert
  <2>3. IsFiniteSet(DOMAIN inserted)
    BY <1>0, <2>2, ReportIsFinite, FS_Union
  <2>4. IndexedBy(inserted, queue) /\ OneItemPerSlot(queue)
    BY UpsertFacts, QueuedItems
  <2>5. inserted[k].generation >= entries[k].generation /\ inserted[k].generation \in Nat
    BY <1>0 DEF Insert
  <2>6. \A j \in DOMAIN inserted : inserted[j].generation \in Nat
    BY <1>0 DEF Insert
  <2> HIDE DEF inserted, queue
  <2>7. k \in Removed(inserted, popped)
    BY <2>1, <2>2 DEF Remaining, Restrict
  <2>8. /\ Cardinality(DOMAIN entries') = MaxEntries
        /\ \A other \in DOMAIN entries' :
             entries'[other].generation >= inserted[k].generation
    BY <2>1, <2>3, <2>4, <2>7, EvictionTakesTheOldest
  <2>9. \A other \in DOMAIN entries' : entries'[other].generation \in Nat
    BY <2>1, <2>6 DEF Remaining, Restrict
  <2> QED
    BY <1>0, <2>5, <2>8, <2>9
<1>2. ASSUME Cleanup, ~(now - heard[k] > Retention)
      PROVE  /\ Cardinality(DOMAIN entries') = MaxEntries
             /\ \A other \in DOMAIN entries' :
                  entries'[other].generation >= entries[k].generation
  <2> DEFINE kept == Remaining(entries, ExpiredItems)
             queue == expiry \ ExpiredItems
  <2>1. PICK popped \in Heads(queue) :
          EvictToLimit(kept, queue, popped) /\ entries' = Remaining(kept, popped)
    BY <1>2 DEF Cleanup
  <2>2. k \notin Removed(entries, ExpiredItems)
    <3> SUFFICES ASSUME NEW e \in ExpiredItems, e.key = k,
                        e.generation = entries[k].generation
                 PROVE  FALSE
      BY DEF Removed
    <3>1. e \in expiry /\ (NotAfter(e, e) => now - e.received_at > Retention)
      BY DEF ExpiredItems
    <3>2. NotAfter(e, e)
      BY <3>1 DEF NotAfter, CacheInv, TypeOK, ExpiryItem
    <3>3. e.received_at = heard[k]
      BY <3>1 DEF CacheInv, QueueInv
    <3> QED
      BY <1>2, <3>1, <3>2, <3>3
  <2>3. /\ k \in DOMAIN kept /\ kept[k] = entries[k] /\ DOMAIN kept \subseteq DOMAIN entries
    BY <2>2 DEF Remaining, Restrict
  <2>4. IndexedBy(kept, queue) /\ OneItemPerSlot(queue) /\ IsFiniteSet(DOMAIN kept)
    BY <1>0, <2>3, CleanupFacts, FewerItems, FS_Subset
  <2> HIDE DEF kept, queue
  <2>5. k \in Removed(kept, popped)
    BY <2>1, <2>3 DEF Remaining, Restrict
  <2> QED
    BY <2>1, <2>3, <2>4, <2>5, EvictionTakesTheOldest
<1>3. CASE Tick
  BY <1>3 DEF Tick
<1> QED
  BY <1>1, <1>2, <1>3 DEF CacheNext

(* A chunk goes only when it is past the retention, or when the cache is   *)
(* full of chunks that are at least as recent: popping the stale item of a *)
(* chunk that was reported again does not remove it, and evict_to_limit    *)
(* removes no chunk more than it has to.                                   *)
THEOREM RemovalIsJustified == CacheSpec => OnlyStaleOrOldestRemoved
<1>1. CacheInit => OneItemPerSlot(expiry)
  BY FS_EmptySet DEF CacheInit, OneItemPerSlot
<1>2. CacheInv /\ OneItemPerSlot(expiry) /\ [CacheNext]_cache_vars => OneItemPerSlot(expiry)'
  BY SlotsStep
<1>3. CacheInv /\ LogCounted /\ OneItemPerSlot(expiry) /\ [CacheNext]_cache_vars
        => [RemovalHasReason]_cache_vars
  BY RemovalStep
<1>4. CacheSpec => [][RemovalHasReason]_cache_vars
  BY <1>1, <1>2, <1>3, LogIsCounted, CacheInvariant, PTL DEF CacheSpec
<1> QED
  BY <1>4 DEF OnlyStaleOrOldestRemoved, RemovalHasReason

-----------------------------------------------------------------------------
(* The invariant is inductive.                                             *)

(* A queue of at most one frame is empty or holds a frame.                 *)
LEMMA OneFrame ==
  ASSUME NEW queue \in Seq(Frames), AtMostOne(queue)
  PROVE  \/ queue = <<>>
         \/ \E frame \in Frames : queue = <<frame>>
<1>1. CASE Len(queue) = 0
  BY <1>1
<1>2. CASE Len(queue) = 1
  <2>1. queue[1] \in Frames /\ queue = <<queue[1]>>
    BY <1>2
  <2> QED BY <2>1
<1>3. Len(queue) \in Nat /\ Len(queue) <= 1
  BY DEF AtMostOne
<1> QED BY <1>1, <1>2, <1>3

(* No session is registered and nothing is under way.                      *)
LEMMA DeliveryInitInv == Init => DeliveryInv
<1> SUFFICES ASSUME Init PROVE DeliveryInv
  OBVIOUS
<1>1. CacheInv
  BY CacheInitInv DEF Init
<1>2. DeliveryTypeOK
  <2>1. <<>> \in Seq(Frames) /\ Len(<<>>) = 0 /\ <<>> \in Seq(Nat)
    OBVIOUS
  <2>2. 0 <= EventCapacity
    BY CapacityAssumption
  <2>3. /\ connected \in BOOLEAN /\ dirty \in BOOLEAN /\ force_full \in BOOLEAN
        /\ has_delivered \in BOOLEAN /\ written \in BOOLEAN
    BY DEF Init
  <2>4. /\ delivered_battle_revision \in Nat
        /\ view_revision \in Nat \cup {-1}
    BY DEF Init
  <2>5. state_watch = <<>> /\ writing = <<>> /\ events = <<>>
    BY DEF Init, NoFrame
  <2> QED BY <2>1, <2>2, <2>3, <2>4, <2>5 DEF DeliveryTypeOK, AtMostOne
<1>3. ViewIsSomeRevision /\ BaselineNotAhead /\ TransitInv
  BY DEF Init, ViewIsSomeRevision, BaselineNotAhead, TransitInv, NoFrame
<1> QED BY <1>1, <1>2, <1>3 DEF DeliveryInv

(* A step that only adds revisions leaves what the client shows, and what  *)
(* is under way to it, as good as it was.                                  *)
LEMMA GrowthKeepsDelivery ==
  ASSUME DeliveryInv, CacheInv', HistoryGrows,
         UNCHANGED <<view, view_revision>>
  PROVE  /\ ViewIsSomeRevision'
         /\ \A frame : FrameGood(frame) => FrameGood(frame)'
<1>1. revision \in Nat /\ revision' \in Nat /\ revision <= revision'
  BY DEF DeliveryInv, CacheInv, TypeOK, HistoryGrows
<1>2. ViewIsSomeRevision'
  BY <1>1 DEF DeliveryInv, ViewIsSomeRevision, DeliveryTypeOK, HistoryGrows
<1>3. ASSUME NEW frame, FrameGood(frame) PROVE FrameGood(frame)'
  BY <1>3, FrameStaysGood DEF DeliveryInv, DeliveryTypeOK
<1> QED BY <1>2, <1>3

(* A report changes the cache only.                                        *)
LEMMA ReportInv == DeliveryInv /\ Report => DeliveryInv'
<1> SUFFICES ASSUME DeliveryInv, Report PROVE DeliveryInv'
  OBVIOUS
<1>1. CacheInv' /\ HistoryGrows
  BY UpsertInv, CacheGrows DEF Report, DeliveryInv
<1>2. /\ UNCHANGED <<connection_vars, transit_vars, client_vars>>
      /\ dirty' \in BOOLEAN
  BY DEF Report
<1> USE <1>2 DEF connection_vars, transit_vars, client_vars
<1>3. /\ ViewIsSomeRevision'
      /\ \A frame : FrameGood(frame) => FrameGood(frame)'
  BY <1>1, GrowthKeepsDelivery
<1>4. DeliveryTypeOK' /\ BaselineNotAhead'
  BY DEF DeliveryInv, DeliveryTypeOK, BaselineNotAhead
<1>5. TransitInv'
  BY <1>3 DEF DeliveryInv, TransitInv
<1> QED BY <1>1, <1>3, <1>4, <1>5 DEF DeliveryInv

(* Time passes and chunks expire.                                          *)
LEMMA TimeInv == DeliveryInv /\ PassTime => DeliveryInv'
<1> SUFFICES ASSUME DeliveryInv, PassTime PROVE DeliveryInv'
  OBVIOUS
<1> USE DEF PassTime, Tick, delivery_vars, connection_vars, transit_vars,
            client_vars
<1>1. CacheInv'
  BY TickInv DEF DeliveryInv
<1>2. \A frame : FrameGood(frame) => FrameGood(frame)'
  BY DEF FrameGood, ApplyPatch
<1>3. DeliveryTypeOK' /\ ViewIsSomeRevision' /\ BaselineNotAhead'
  BY DEF DeliveryInv, DeliveryTypeOK, ViewIsSomeRevision, BaselineNotAhead
<1>4. TransitInv'
  BY <1>2 DEF DeliveryInv, TransitInv
<1> QED BY <1>1, <1>3, <1>4 DEF DeliveryInv

(* The relay sends a frame for what the session's state has not seen.      *)
LEMMA RelayTickInv == DeliveryInv /\ RelayTick => DeliveryInv'
<1> SUFFICES ASSUME DeliveryInv, RelayTick PROVE DeliveryInv'
  OBVIOUS
<1>1. Cleanup
  BY DEF RelayTick, TickWith
<1>2. CacheInv' /\ HistoryGrows
  BY <1>1, CleanupInv, CacheGrows DEF DeliveryInv
<1>3. UNCHANGED <<connected, has_delivered, delivered_battle_revision,
                  writing, written, events, view, view_revision>>
  BY DEF RelayTick, TickWith, client_vars
<1>4. /\ force_full' \in BOOLEAN /\ dirty' \in BOOLEAN
      /\ \/ state_watch' = state_watch
         \/ connected /\ state_watch' = <<BattleFrame>>
  BY DEF RelayTick, TickWith
<1>5. /\ ViewIsSomeRevision'
      /\ \A frame : FrameGood(frame) => FrameGood(frame)'
  BY <1>2, <1>3, GrowthKeepsDelivery
<1>6. CASE state_watch' = state_watch
  <2>1. DeliveryTypeOK' /\ BaselineNotAhead'
    BY <1>3, <1>4, <1>6 DEF DeliveryInv, DeliveryTypeOK, BaselineNotAhead
  <2>2. TransitInv'
    BY <1>3, <1>5, <1>6 DEF DeliveryInv, TransitInv
  <2> QED BY <1>2, <1>5, <2>1, <2>2 DEF DeliveryInv
<1>7. CASE connected /\ state_watch' = <<BattleFrame>>
  <2>1. PICK frame : frame = BattleFrame
    OBVIOUS
  <2>2. /\ frame \in Frames
        /\ FrameGood(frame)'
        /\ frame.battle_revision = revision'
    BY <1>1, <1>3, <1>7, <2>1, TickFrameGood
  <2>3. state_watch' = <<frame>>
    BY <1>7, <2>1
  <2>4. state_watch' \in Seq(Frames) /\ Len(state_watch') = 1
        /\ DOMAIN state_watch' = {1} /\ state_watch'[1] = frame
    BY <2>2, <2>3
  <2>5. DeliveryTypeOK'
    BY <1>3, <1>4, <2>4 DEF DeliveryInv, DeliveryTypeOK, AtMostOne
  <2>6. BaselineNotAhead'
    BY <1>3, <2>2, <2>4 DEF DeliveryInv, BaselineNotAhead, FrameGood
  <2>7. \A other : writing = <<other>> => other.battle_revision <= revision'
    <3> SUFFICES ASSUME NEW other, writing = <<other>>
                 PROVE  other.battle_revision <= revision'
      OBVIOUS
    <3>1. revision \in Nat /\ revision' \in Nat /\ revision <= revision'
      BY <1>2 DEF DeliveryInv, CacheInv, TypeOK, HistoryGrows
    <3>2. CASE written
      <4>1. view_revision = other.battle_revision
        BY <3>2 DEF DeliveryInv, TransitInv
      <4> QED BY <4>1, <3>1 DEF DeliveryInv, ViewIsSomeRevision
    <3>3. CASE ~written
      <4>1. other.battle_revision \in 0..revision
        BY <3>3 DEF DeliveryInv, TransitInv, FrameGood
      <4> QED BY <4>1, <3>1
    <3> QED BY <3>2, <3>3 DEF DeliveryInv, DeliveryTypeOK
  <2>8. TransitInv'
    <3>1. \A f : state_watch' = <<f>> => f = frame
      BY <2>3
    <3>2. \A f : state_watch' = <<f>> => FrameGood(f)'
      BY <2>2, <3>1
    <3>3. \A f : writing' = <<f>> =>
            IF written' THEN view_revision' = f.battle_revision
                        ELSE FrameGood(f)'
      BY <1>3, <1>5 DEF DeliveryInv, TransitInv
    <3>4. \A f, g : writing' = <<f>> /\ state_watch' = <<g>> =>
            f.battle_revision <= g.battle_revision
      BY <1>3, <2>2, <2>7, <3>1
    <3> QED BY <1>3, <1>7, <3>2, <3>3, <3>4 DEF TransitInv
  <2> QED BY <1>2, <1>5, <2>5, <2>6, <2>8 DEF DeliveryInv
<1> QED BY <1>4, <1>6, <1>7

(* Steps that leave the cache alone keep its part of the invariant, and    *)
(* the frames that were good for what the client still shows.              *)
LEMMA CacheAlone ==
  ASSUME DeliveryInv, UNCHANGED cache_vars
  PROVE  /\ CacheInv'
         /\ view_revision' = view_revision =>
              \A frame : FrameGood(frame) => FrameGood(frame)'
         /\ UNCHANGED <<view, view_revision>> => ViewIsSomeRevision'
<1>1. CacheInv'
  BY CacheStutterInv DEF DeliveryInv
<1>2. view_revision' = view_revision =>
        \A frame : FrameGood(frame) => FrameGood(frame)'
  BY DEF FrameGood, ApplyPatch, cache_vars
<1>3. UNCHANGED <<view, view_revision>> => ViewIsSomeRevision'
  BY DEF DeliveryInv, ViewIsSomeRevision, cache_vars
<1> QED BY <1>1, <1>2, <1>3

(* The relay's queue holds revisions the client already shows.             *)
LEMMA QueueTail ==
  ASSUME NEW queue \in Seq(Nat), queue # <<>>
  PROVE  /\ Head(queue) = queue[1] /\ 1 \in DOMAIN queue
         /\ Head(queue) \in Nat
         /\ Tail(queue) \in Seq(Nat)
         /\ Len(Tail(queue)) = Len(queue) - 1 /\ Len(queue) \in Nat
         /\ \A i \in DOMAIN Tail(queue) :
              i + 1 \in DOMAIN queue /\ Tail(queue)[i] = queue[i + 1]
OBVIOUS

(* A confirmation of the writer is handled, or comes late.                 *)
LEMMA HandleDeliveredInv == DeliveryInv /\ HandleDelivered => DeliveryInv'
<1> SUFFICES ASSUME DeliveryInv, HandleDelivered PROVE DeliveryInv'
  OBVIOUS
<1> USE DEF HandleDelivered, client_vars
<1>1. /\ CacheInv' /\ ViewIsSomeRevision'
      /\ \A frame : FrameGood(frame) => FrameGood(frame)'
  BY CacheAlone
<1>2. events \in Seq(Nat) /\ events # <<>>
  BY DEF DeliveryInv, DeliveryTypeOK
<1>3. DeliveryTypeOK'
  <2>1. delivered_battle_revision' \in Nat /\ events' \in Seq(Nat)
    BY <1>2, QueueTail
  <2>2. Len(events) \in Nat /\ Len(events') = Len(events) - 1
    BY <1>2, QueueTail
  <2>3. Len(events') <= EventCapacity
    BY <2>2, CapacityAssumption DEF DeliveryInv, DeliveryTypeOK
  <2> QED BY <2>1, <2>3 DEF DeliveryInv, DeliveryTypeOK
<1>4. BaselineNotAhead'
  BY <1>2, QueueTail DEF DeliveryInv, BaselineNotAhead
<1>5. TransitInv'
  BY <1>1 DEF DeliveryInv, TransitInv
<1> QED BY <1>1, <1>3, <1>4, <1>5 DEF DeliveryInv

(* A resync begins anew with a full state.                                 *)
LEMMA ResyncInv == DeliveryInv /\ HandleResync => DeliveryInv'
<1> SUFFICES ASSUME DeliveryInv, HandleResync PROVE DeliveryInv'
  OBVIOUS
<1> USE DEF HandleResync, client_vars, transit_vars
<1>1. /\ CacheInv' /\ ViewIsSomeRevision'
      /\ \A frame : FrameGood(frame) => FrameGood(frame)'
  BY CacheAlone
<1>2. DeliveryTypeOK' /\ BaselineNotAhead'
  BY DEF DeliveryInv, DeliveryTypeOK, BaselineNotAhead
<1>3. TransitInv'
  BY <1>1 DEF DeliveryInv, TransitInv
<1> QED BY <1>1, <1>2, <1>3 DEF DeliveryInv

(* A session registers.                                                    *)
LEMMA RegisterInv == DeliveryInv /\ Register => DeliveryInv'
<1> SUFFICES ASSUME DeliveryInv, Register PROVE DeliveryInv'
  OBVIOUS
<1> USE DEF Register, client_vars, transit_vars
<1>1. /\ CacheInv' /\ ViewIsSomeRevision'
  BY CacheAlone
<1>2. state_watch = <<>> /\ writing = <<>> /\ events = <<>>
  BY DEF DeliveryInv, TransitInv, NoFrame
<1>3. DeliveryTypeOK'
  BY DEF DeliveryInv, DeliveryTypeOK
<1>4. BaselineNotAhead'
  BY <1>2 DEF BaselineNotAhead
<1>5. TransitInv'
  BY <1>2 DEF TransitInv
<1> QED BY <1>1, <1>3, <1>4, <1>5 DEF DeliveryInv

(* The session is gone, with what was under way to it.                     *)
LEMMA DisconnectInv == DeliveryInv /\ Disconnect => DeliveryInv'
<1> SUFFICES ASSUME DeliveryInv, Disconnect PROVE DeliveryInv'
  OBVIOUS
<1> USE DEF Disconnect
<1>1. CacheInv'
  BY CacheAlone
<1>2. DeliveryTypeOK'
  <2>1. connected' \in BOOLEAN /\ written' \in BOOLEAN
    OBVIOUS
  <2>2. /\ dirty' \in BOOLEAN /\ force_full' \in BOOLEAN
        /\ has_delivered' \in BOOLEAN /\ delivered_battle_revision' \in Nat
    BY DEF DeliveryInv, DeliveryTypeOK
  <2>3. state_watch' = <<>> /\ writing' = <<>> /\ events' = <<>>
        /\ view_revision' = -1
    BY DEF NoFrame
  <2>4. /\ state_watch' \in Seq(Frames) /\ AtMostOne(state_watch')
        /\ writing' \in Seq(Frames) /\ AtMostOne(writing')
    BY <2>3 DEF AtMostOne
  <2>5. events' \in Seq(Nat) /\ Len(events') <= EventCapacity
    BY <2>3, CapacityAssumption
  <2>6. view_revision' \in Nat \cup {-1}
    BY <2>3
  <2> QED BY <2>1, <2>2, <2>4, <2>5, <2>6 DEF DeliveryTypeOK, AtMostOne
<1>3. ViewIsSomeRevision' /\ BaselineNotAhead' /\ TransitInv'
  BY DEF ViewIsSomeRevision, BaselineNotAhead, TransitInv, NoFrame
<1> QED BY <1>1, <1>2, <1>3 DEF DeliveryInv

(* The room is purged.                                                     *)
LEMMA PurgeRoomInv == DeliveryInv /\ PurgeRoom => DeliveryInv'
<1> SUFFICES ASSUME DeliveryInv, PurgeRoom PROVE DeliveryInv'
  OBVIOUS
<1> USE DEF PurgeRoom, delivery_vars, connection_vars, client_vars, transit_vars
<1>1. CacheInv'
  BY PurgeInv DEF DeliveryInv
<1>2. state_watch = <<>> /\ writing = <<>> /\ events = <<>> /\ view_revision = -1
  BY DEF DeliveryInv, TransitInv, NoFrame
<1>3. DeliveryTypeOK'
  BY DEF DeliveryInv, DeliveryTypeOK
<1>4. ViewIsSomeRevision' /\ BaselineNotAhead' /\ TransitInv'
  BY <1>2 DEF DeliveryInv, ViewIsSomeRevision, BaselineNotAhead, TransitInv,
              NoFrame
<1> QED BY <1>1, <1>3, <1>4 DEF DeliveryInv

(* The writer takes a frame.                                               *)
LEMMA TakeFrameInv == DeliveryInv /\ TakeFrame => DeliveryInv'
<1> SUFFICES ASSUME DeliveryInv, TakeFrame PROVE DeliveryInv'
  OBVIOUS
<1> USE DEF TakeFrame, connection_vars, client_vars
<1>1. /\ CacheInv' /\ ViewIsSomeRevision'
      /\ \A frame : FrameGood(frame) => FrameGood(frame)'
  BY CacheAlone
<1>2. DeliveryTypeOK'
  <2>1. <<>> \in Seq(Frames) /\ Len(<<>>) = 0
    OBVIOUS
  <2> QED BY <2>1 DEF DeliveryInv, DeliveryTypeOK, NoFrame, AtMostOne
<1>3. BaselineNotAhead'
  BY DEF DeliveryInv, BaselineNotAhead, NoFrame
<1>4. TransitInv'
  <2>1. connected
    BY DEF DeliveryInv, TransitInv
  <2>2. ~written' /\ connected'
    BY <2>1
  <2>3. state_watch' = <<>> /\ writing' = state_watch
    BY DEF NoFrame
  <2> QED BY <1>1, <2>2, <2>3 DEF DeliveryInv, TransitInv
<1> QED BY <1>1, <1>2, <1>3, <1>4 DEF DeliveryInv

(* The writer writes it to the client.                                     *)
LEMMA WriteFrameInv == DeliveryInv /\ WriteFrame => DeliveryInv'
<1> SUFFICES ASSUME DeliveryInv, WriteFrame PROVE DeliveryInv'
  OBVIOUS
<1> USE DEF WriteFrame, connection_vars
<1>1. CacheInv'
  BY CacheAlone
<1>2. PICK frame \in Frames : writing = <<frame>>
  BY OneFrame DEF DeliveryInv, DeliveryTypeOK, NoFrame
<1>3. /\ FrameGood(frame)
      /\ Head(writing) = frame
      /\ view_revision' = frame.battle_revision
      /\ view' = Received(view, frame)
  BY <1>2 DEF DeliveryInv, TransitInv
<1>4. view' = history[frame.battle_revision]
  <2>1. CASE frame.full
    BY <1>3, <2>1 DEF Received, FrameGood
  <2>2. CASE ~frame.full
    <3>1. view_revision \in Nat /\ view = history[view_revision]
      BY <1>3, <2>2 DEF FrameGood, DeliveryInv, ViewIsSomeRevision
    <3>2. view_revision \in view_revision..frame.battle_revision
      BY <1>3, <3>1 DEF FrameGood
    <3> QED BY <1>3, <2>2, <3>1, <3>2 DEF Received, FrameGood
  <2> QED BY <2>1, <2>2
<1>5. view_revision' \in Nat /\ view_revision <= view_revision'
  BY <1>3 DEF FrameGood
<1>6. ViewIsSomeRevision'
  BY <1>3, <1>4, <1>5 DEF ViewIsSomeRevision, FrameGood, cache_vars
<1>7. DeliveryTypeOK'
  BY <1>5 DEF DeliveryInv, DeliveryTypeOK
<1>8. \A next : state_watch = <<next>> =>
        frame.battle_revision <= next.battle_revision
  BY <1>2 DEF DeliveryInv, TransitInv
<1>9. state_watch = <<>> \/ \E next \in Frames : state_watch = <<next>>
  BY OneFrame DEF DeliveryInv, DeliveryTypeOK
<1>10. BaselineNotAhead'
  <2>1. \A i \in DOMAIN state_watch :
          view_revision' <= state_watch[i].battle_revision
    BY <1>3, <1>8, <1>9
  <2>2. \A i \in DOMAIN writing : writing[i] = frame
    BY <1>2
  <2>3. \A i \in DOMAIN writing : view_revision' <= writing[i].battle_revision
    BY <1>3, <1>5, <2>2
  <2>4. connected => \A i \in DOMAIN events : events[i] <= view_revision'
    <3>1. \A i \in DOMAIN events : events[i] \in Nat
      BY DEF DeliveryInv, DeliveryTypeOK
    <3> QED BY <1>5, <3>1 DEF DeliveryInv, BaselineNotAhead, DeliveryTypeOK
  <2>5. connected /\ has_delivered =>
          delivered_battle_revision <= view_revision'
    BY <1>5 DEF DeliveryInv, BaselineNotAhead, DeliveryTypeOK
  <2> QED BY <2>1, <2>3, <2>4, <2>5 DEF BaselineNotAhead
<1>11. TransitInv'
  <2>1. ASSUME NEW next, state_watch = <<next>>
        PROVE  FrameGood(next)'
    <3>1. FrameGood(next)
      BY <2>1 DEF DeliveryInv, TransitInv
    <3>2. view_revision' <= next.battle_revision
      BY <1>3, <1>8, <2>1
    <3>3. ASSUME NEW s \in view_revision'..next.battle_revision, ~next.full
          PROVE  ApplyPatch(history[s], next) = history[next.battle_revision]
      <4>1. view_revision \in Nat
        BY <3>1, <3>3 DEF FrameGood
      <4>2. s \in view_revision..next.battle_revision
        BY <1>5, <3>1, <3>3, <4>1 DEF FrameGood
      <4> QED BY <3>1, <3>3, <4>2 DEF FrameGood
    <3> QED BY <1>5, <3>1, <3>2, <3>3 DEF FrameGood, ApplyPatch, cache_vars
  <2>2. connected
    BY <1>2 DEF DeliveryInv, TransitInv, NoFrame
  <2>3. /\ written' /\ state_watch' = state_watch /\ writing' = writing
        /\ connected'
    BY <2>2
  <2>4. \A f : writing' = <<f>> => f = frame
    BY <1>2
  <2> QED BY <1>3, <1>8, <2>1, <2>3, <2>4 DEF TransitInv
<1> QED BY <1>1, <1>6, <1>7, <1>10, <1>11 DEF DeliveryInv

(* The writer confirms it.                                                 *)
LEMMA SendDeliveredInv == DeliveryInv /\ SendDelivered => DeliveryInv'
<1> SUFFICES ASSUME DeliveryInv, SendDelivered PROVE DeliveryInv'
  OBVIOUS
<1> USE DEF SendDelivered, connection_vars, client_vars
<1>1. /\ CacheInv' /\ ViewIsSomeRevision'
      /\ \A frame : FrameGood(frame) => FrameGood(frame)'
  BY CacheAlone
<1>2. PICK frame \in Frames : writing = <<frame>>
  BY OneFrame DEF DeliveryInv, DeliveryTypeOK, NoFrame
<1>3. /\ Head(writing) = frame
      /\ frame.battle_revision \in Nat
      /\ view_revision = frame.battle_revision
  BY <1>2 DEF DeliveryInv, TransitInv, Frames
<1>4. /\ events' = Append(events, frame.battle_revision)
      /\ events \in Seq(Nat)
      /\ Len(events) < EventCapacity /\ EventCapacity \in Nat
  BY <1>3, CapacityAssumption DEF DeliveryInv, DeliveryTypeOK
<1>5. /\ events' \in Seq(Nat) /\ Len(events') <= EventCapacity
      /\ \A i \in DOMAIN events' :
           \/ i \in DOMAIN events /\ events'[i] = events[i]
           \/ events'[i] = frame.battle_revision
  BY <1>3, <1>4
<1>6. DeliveryTypeOK'
  <2>1. writing' = <<>> /\ written' = FALSE
    BY DEF NoFrame
  <2>2. writing' \in Seq(Frames) /\ AtMostOne(writing') /\ written' \in BOOLEAN
    <3>1. \A queue : queue = <<>> => queue \in Seq(Frames) /\ AtMostOne(queue)
      BY DEF AtMostOne
    <3> QED BY <2>1, <3>1
  <2> QED BY <1>5, <2>2 DEF DeliveryInv, DeliveryTypeOK
<1>7. BaselineNotAhead'
  BY <1>3, <1>5 DEF DeliveryInv, BaselineNotAhead, NoFrame
<1>8. TransitInv'
  <2>1. connected
    BY <1>2 DEF DeliveryInv, TransitInv, NoFrame
  <2>2. writing' = <<>> /\ ~written' /\ state_watch' = state_watch /\ connected'
    BY <2>1 DEF NoFrame
  <2> QED BY <1>1, <2>2 DEF DeliveryInv, TransitInv
<1> QED BY <1>1, <1>6, <1>7, <1>8 DEF DeliveryInv

(* Nothing happens.                                                        *)
LEMMA DeliveryStutterInv == DeliveryInv /\ UNCHANGED vars => DeliveryInv'
<1> SUFFICES ASSUME DeliveryInv, UNCHANGED vars PROVE DeliveryInv'
  OBVIOUS
<1> USE DEF vars, delivery_vars, connection_vars, transit_vars, client_vars
<1>1. /\ CacheInv' /\ ViewIsSomeRevision'
      /\ \A frame : FrameGood(frame) => FrameGood(frame)'
  BY CacheAlone
<1>2. DeliveryTypeOK' /\ BaselineNotAhead'
  BY DEF DeliveryInv, DeliveryTypeOK, BaselineNotAhead
<1>3. TransitInv'
  BY <1>1 DEF DeliveryInv, TransitInv
<1> QED BY <1>1, <1>2, <1>3 DEF DeliveryInv

(* The inductive invariant holds whatever the interleaving of the relay,   *)
(* the writer and the client.                                              *)
THEOREM DeliveryInvariant == Spec => []DeliveryInv
<1>1. DeliveryInv /\ [Next]_vars => DeliveryInv'
  BY ReportInv, TimeInv, RelayTickInv, HandleDeliveredInv, ResyncInv,
     RegisterInv, DisconnectInv, PurgeRoomInv, TakeFrameInv, WriteFrameInv,
     SendDeliveredInv, DeliveryStutterInv DEF Next
<1> QED BY <1>1, DeliveryInitInv, PTL DEF Spec

(* Every variable of the delivery keeps its type; the relay's queue stays  *)
(* within its capacity.                                                    *)
THEOREM DeliveryTypeCorrect == Spec => []DeliveryTypeOK
<1>1. DeliveryInv => DeliveryTypeOK
  BY DEF DeliveryInv
<1> QED BY <1>1, DeliveryInvariant, PTL

(* The client never shows a mixture of two revisions of the battle map.    *)
THEOREM ViewIsNeverMixed == Spec => []ViewIsSomeRevision
<1>1. DeliveryInv => ViewIsSomeRevision
  BY DEF DeliveryInv
<1> QED BY <1>1, DeliveryInvariant, PTL

(* The relay never takes the client to be further than it is.              *)
THEOREM BaselineIsSafe == Spec => []BaselineNotAhead
<1>1. DeliveryInv => BaselineNotAhead
  BY DEF DeliveryInv
<1> QED BY <1>1, DeliveryInvariant, PTL

-----------------------------------------------------------------------------
(* The protocol implements BattleFeed.  Every change of the cache is a     *)
(* Publish, every frame the client receives an Advance; a disconnection is *)
(* a Restart and a purge a Forget; everything else is invisible.           *)

(* A step of the cache publishes a state or is invisible.                  *)
LEMMA CacheStepPublishes ==
  ASSUME CacheInv, CacheInv', HistoryGrows,
         UNCHANGED <<view, view_revision>>
  PROVE  [Feed!FeedNext]_(Feed!feed_vars)
<1>1. CASE revision' = revision /\ history' = history
  BY <1>1 DEF Feed!feed_vars
<1>2. CASE /\ revision' = revision + 1
           /\ \A r \in 0..revision : history'[r] = history[r]
  <2>1. DOMAIN history' = 0..revision'
    BY DEF CacheInv, TypeOK
  <2> QED BY <1>2, <2>1 DEF Feed!FeedNext, Feed!Publish
<1> QED BY <1>1, <1>2 DEF HistoryGrows

(* A write moves the client's view on to a state that was published.       *)
LEMMA WriteAdvances ==
  ASSUME DeliveryInv, WriteFrame, DeliveryInv'
  PROVE  Feed!Advance
<1>1. PICK frame \in Frames : writing = <<frame>>
  BY OneFrame DEF WriteFrame, DeliveryInv, DeliveryTypeOK, NoFrame
<1>2. FrameGood(frame) /\ view_revision' = frame.battle_revision
  BY <1>1 DEF WriteFrame, DeliveryInv, TransitInv
<1>3. frame.battle_revision \in 0..revision
  BY <1>2 DEF FrameGood
<1>4. view_revision <= view_revision'
  BY <1>2 DEF FrameGood
<1>5. UNCHANGED <<history, revision>>
  BY DEF WriteFrame, cache_vars
<1>6. view' = history[view_revision']
  BY <1>2, <1>3, <1>5 DEF DeliveryInv, ViewIsSomeRevision
<1> QED BY <1>2, <1>3, <1>4, <1>5, <1>6 DEF Feed!Advance

(* Every step is one of the feed or a stutter.                             *)
LEMMA StepImplementsFeed ==
  ASSUME DeliveryInv, DeliveryInv', [Next]_vars
  PROVE  [Feed!FeedNext]_(Feed!feed_vars)
<1>1. CacheInv /\ CacheInv'
  BY DEF DeliveryInv
<1>2. CASE Report
  <2>1. HistoryGrows /\ UNCHANGED <<view, view_revision>>
    BY <1>1, <1>2, CacheGrows DEF Report, client_vars
  <2> QED BY <1>1, <2>1, CacheStepPublishes
<1>3. CASE RelayTick
  <2>1. HistoryGrows /\ UNCHANGED <<view, view_revision>>
    BY <1>1, <1>3, CacheGrows DEF RelayTick, TickWith, client_vars
  <2> QED BY <1>1, <2>1, CacheStepPublishes
<1>4. CASE WriteFrame
  BY <1>4, WriteAdvances DEF Feed!FeedNext
<1>5. CASE Disconnect
  BY <1>5 DEF Disconnect, cache_vars, Feed!FeedNext, Feed!Restart
<1>6. CASE PurgeRoom
  <2>1. view_revision = -1 /\ UNCHANGED <<view, view_revision>>
    BY <1>6 DEF PurgeRoom, DeliveryInv, TransitInv, delivery_vars, client_vars
  <2>2. revision' = 0 /\ DOMAIN history' = {0}
    BY <1>6 DEF PurgeRoom, Purge
  <2> QED BY <2>1, <2>2 DEF Feed!FeedNext, Feed!Forget
<1>7. CASE \/ PassTime \/ HandleDelivered \/ HandleResync \/ Register
           \/ TakeFrame \/ SendDelivered \/ UNCHANGED vars
  BY <1>7 DEF PassTime, Tick, HandleDelivered, HandleResync, Register,
              TakeFrame, SendDelivered, vars, cache_vars, delivery_vars,
              client_vars, log_vars, Feed!feed_vars
<1> QED BY <1>2, <1>3, <1>4, <1>5, <1>6, <1>7 DEF Next

(* Refinement: whatever is overwritten, delayed or resent, a client sees   *)
(* the battle map as the feed it is promised.                              *)
THEOREM ImplementsFeed == Spec => FeedImplemented
<1>1. Init => Feed!FeedInit
  BY DEF Init, CacheInit, Feed!FeedInit
<1>2. DeliveryInv /\ DeliveryInv' /\ [Next]_vars
        => [Feed!FeedNext]_(Feed!feed_vars)
  BY StepImplementsFeed
<1> QED BY <1>1, <1>2, DeliveryInvariant, PTL
        DEF Spec, FeedImplemented, Feed!FeedSpec

-----------------------------------------------------------------------------
(***************************************************************************)
(* One observation: BattleObservation.                                     *)
(***************************************************************************)

(* What is shown is of the last accepted observation, and each variable    *)
(* says something of every chunk.                                          *)
OneObservation ==
  /\ DOMAIN battle_chunks = ObservedChunks
  /\ battle_chunks = [key \in ObservedChunks |-> battle_chunks[key]]
  /\ battle_projection # NoProjection => 1 \in DOMAIN battle_projection
  /\ ChunksOfOneObservation

(* Of cells at one place one is the last.                                  *)
LEMMA LastOfCells ==
  ASSUME NEW cells, NEW C, cells \in Seq(C), NEW at, at \subseteq DOMAIN cells, at # {}
  PROVE  (CHOOSE i \in at : \A j \in at : j <= i) \in at
<1>1. at \in SUBSET Nat /\ Len(cells) \in Nat /\ \A i \in at : i <= Len(cells)
  OBVIOUS
<1>2. \E i \in at : \A j \in at : j <= i
  BY <1>1, GreatestNumber
<1> QED
  BY <1>2

(* An accepted observation replaces what the source showed: its own chunks *)
(* get its cells, and the chunks it does not have keep only what it was    *)
(* based on (apply_battle_observation).                                    *)
LEMMA AcceptedIsShown ==
  ASSUME OneObservation, NEW seen \in Observations, NEW base, Accept(seen, base)
  PROVE  OneObservation'
<1> DEFINE at(key) == {i \in DOMAIN seen.cells :
                         KeyOf(seen.dimension, base, seen.cells[i][1]) = key}
           color(key) == seen.cells[CHOOSE i \in at(key) : \A j \in at(key) : j <= i][2]
           previous == UNION {battle_projection[j].chunk_ids : j \in DOMAIN battle_projection}
           projection == [dimension |-> seen.dimension, base |-> base, at |-> seen.at,
                          chunk_ids |-> {key \in ObservedChunks : at(key) # {}}]
<1>1. /\ battle_chunks' = [key \in ObservedChunks |->
           IF at(key) # {} THEN color(key)
           ELSE IF key \in previous THEN NoColor ELSE battle_chunks[key]]
      /\ battle_projection' = <<projection>>
      /\ last_cells' = [key \in ObservedChunks |-> {seen.cells[i][2] : i \in at(key)}]
  BY Zenon DEF Accept
<1>2. /\ battle_projection' # NoProjection
      /\ battle_projection'[1] = projection /\ 1 \in DOMAIN battle_projection'
  <2> HIDE DEF projection
  <2> QED
    BY <1>1 DEF NoProjection
<1>3. ASSUME NEW key \in ObservedChunks, at(key) # {}
      PROVE  color(key) \in last_cells'[key] /\ key \in projection.chunk_ids
  <2>1. seen.cells \in Seq(Nat \X Colors)
    BY ObservationAssumption
  <2>2. at(key) \subseteq DOMAIN seen.cells
    OBVIOUS
  <2>3. (CHOOSE i \in at(key) : \A j \in at(key) : j <= i) \in at(key)
    <3> HIDE DEF at
    <3> QED
      BY <1>3, <2>1, <2>2, LastOfCells
  <2>4. color(key) \in {seen.cells[i][2] : i \in at(key)}
    <3> HIDE DEF at
    <3> QED
      BY <2>3, Zenon
  <2>5. last_cells'[key] = {seen.cells[i][2] : i \in at(key)}
    <3> HIDE DEF at, color, previous, projection
    <3> QED
      BY <1>1
  <2>6. key \in projection.chunk_ids
    <3> HIDE DEF at
    <3> QED
      BY <1>3
  <2> QED
    BY <2>4, <2>5, <2>6, Zenon
<1>4. ASSUME NEW key \in ObservedChunks, at(key) = {}, battle_chunks[key] # NoColor
      PROVE  key \in previous
  BY <1>4 DEF OneObservation, ChunksOfOneObservation
<1> HIDE DEF at, color, previous, projection
<1>5. ASSUME NEW key \in ObservedChunks, battle_chunks'[key] # NoColor
      PROVE  key \in projection.chunk_ids /\ battle_chunks'[key] \in last_cells'[key]
  <2>1. at(key) # {}
    BY <1>1, <1>4, <1>5
  <2>2. battle_chunks'[key] = color(key)
    BY <1>1, <2>1
  <2> QED
    BY <1>3, <2>1, <2>2
<1>6. DOMAIN battle_chunks' = ObservedChunks
  BY <1>1
<1>7. battle_chunks' = [key \in ObservedChunks |-> battle_chunks'[key]]
  BY <1>1, Zenon
<1> QED
  BY <1>2, <1>5, <1>6, <1>7, Zenon DEF OneObservation, ChunksOfOneObservation

(* Whatever expires or is cleared takes chunks away and changes none.      *)
LEMMA OthersShowLess ==
  ASSUME OneObservation,
         \/ \E key \in ObservedChunks : ExpireChunk(key)
         \/ ClearChunks
         \/ UNCHANGED observation_vars
  PROVE  OneObservation'
<1>1. ASSUME NEW key \in ObservedChunks, ExpireChunk(key) PROVE OneObservation'
  BY <1>1 DEF ExpireChunk, OneObservation, ChunksOfOneObservation
<1>2. CASE ClearChunks
  BY <1>2 DEF ClearChunks, OneObservation, ChunksOfOneObservation
<1>3. CASE UNCHANGED observation_vars
  BY <1>3, Zenon DEF observation_vars, OneObservation, ChunksOfOneObservation
<1> QED
  BY <1>1, <1>2, <1>3

(* The chunks that a source shows are all of its last accepted observation *)
(* (apply_battle_observation), in whatever order chunks expire, sources    *)
(* are cleared and observations are accepted.                              *)
THEOREM NoMixture == ObservationSpec => []ChunksOfOneObservation
<1>1. ObservationInit => OneObservation
  BY DEF ObservationInit, OneObservation, ChunksOfOneObservation, NoProjection
<1>2. OneObservation /\ [ObservationNext]_observation_vars => OneObservation'
  <2> SUFFICES ASSUME OneObservation, [ObservationNext]_observation_vars
               PROVE  OneObservation'
    OBVIOUS
  <2>1. ASSUME NEW seen \in Observations, ApplyBattleObservation(seen) PROVE OneObservation'
    BY <2>1, AcceptedIsShown DEF ApplyBattleObservation
  <2> QED
    BY <2>1, OthersShowLess DEF ObservationNext
<1>3. OneObservation => ChunksOfOneObservation
  BY DEF OneObservation
<1> QED
  BY <1>1, <1>2, <1>3, PTL DEF ObservationSpec

=============================================================================
