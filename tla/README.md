# TeamViewRelay Backend: a TLA+ model

The repository is a relay for Minecraft clients: it collects what the players
of a room report, keeps the state of each room in memory, and sends it as full
snapshots and patches to the other players and to web maps. This directory
holds TLA+ models of its core, TLC runs that check them on small instances, and
proofs that the TLA+ proof system checks.

Paths below are relative to the repository (`src/relay.rs` is
`src/src/relay.rs` from the directory above this one).

## The system

| Part | Where | State | Operations | Hard because |
|---|---|---|---|---|
| Relay | `relay.rs`, `Relay` | `connections`, `sources`, `battle_caches`, `rooms`, selections | one task: handles one `RelayEvent` at a time, ticks | its picture of a client comes from events that arrive late |
| Battle cache | `relay.rs`, `BattleRoomCache` | chunks, expiry queue, change log, revision | `upsert`, `cleanup`, `patch_since`, purge | two indexes with stale items, a log trimmed at two limits |
| Delivery | `relay.rs` `broadcast`, `web.rs` `door_writer_loop` | per connection: `delivered_snapshot`, `delivered_battle_revision`, `force_full`, `next_digest_at`; a watch channel of one frame | compute frame, overwrite, take, write, report `Delivered`, `Resync` | frames are overwritten, acknowledgements lag, positions go another way |
| Session | `web.rs` `serve_web_map_session`, `handle_envelope` | phase, reader and writer tasks, control channel | handshake, Register, reports, queries answered in chunks, subscriptions, Disconnect, audit rows | tasks end in any order; two sessions may share an id; a message is handled in steps beside everything else |
| Room removal | `admin.rs` `delete_room_data`, `room_data_maintenance` | `maintenance_rooms`, a database transaction, a page put together from many statements | gate, count, delete, `PurgeRoom`; announce | sessions join, leave and report meanwhile; page and removal count by different queries |
| Administration | `admin.rs` | login sessions, audit log, deletions of tab history | login, refresh, logout, pages, deletion room after room | a request is several statements, and several run at once |
| Sources | `relay.rs` `SourceState` | players, entities, waypoints, tab lists, battle chunks, last seen players with their ages; marks | `apply_report`, web-map commands, `cleanup_timeouts`, refresh requests, observations of the battle map | many handlers, each of which must mark the state dirty; observations replace each other chunk by chunk |
| Arbitration | `relay.rs` `build_room_snapshot`, `same_server_grouping` | selected sources per room and per scope of allowed sources | candidates, priorities, takeover, groups by tab lists | must be stable, and recipients have scopes of their own |
| Tab history | `tab_history.rs` | rows, revisions and deltas per room, in SQLite | upsert, administrator's deletion, purge, sync | sync in several statements beside writers |
| Relationships | `relationship_store.rs`, `web.rs` | datasets in SQLite, in-memory health | import in chunks, queries | several publishers of one store, chunks that fail |
| Door control | `door_control.rs`, `quic_transport.rs`, `web_transport.rs`, `bulk.rs` | the encoder's current, previous and pending dictionary; a channel of door frames | train, offer, acknowledge, activate, announce a bulk transfer | four tasks and a client, whose streams have no order among each other |
| Doors | `quic_transport.rs`, `web_transport.rs`, `transport.rs`, `frame.rs`, `bulk.rs` | sockets | bridge frames and datagrams to a `DoorSession` | |
| Compatibility | `protocol_compat.rs`, `relay.rs` `broadcast` | the negotiated profile of each session | negotiation, projection to older epochs, patches and digests shared among recipients | what is shared must depend on all that it is made from |
| Metrics | `metrics.rs`, `main.rs`, `transport.rs` | counters per second, rows not yet flushed, tables | record, drain, put back, show | recorders with clocks that differ; a flush that fails half way |
| Certificates, configuration | `cert.rs`, `config.rs` | files | | |

The parts meet in three places. Sessions send `RelayEvent`s into one bounded
queue and wait when it is full; the relay sends frames to a session through a
watch channel, which keeps the latest only, and control messages through a
bounded channel, which drops when full; the administrator's requests go through
the same event queue and wait for a reply.

What each part must guarantee:

* the cache forgets exactly what is too old or too much, keeps within its
  limits, and its patches lead from an old revision to the present one;
* a client never shows a mixture of revisions of the battle map, ends up with
  the present one, and, for the rest of the snapshot, shows what was sent if
  nothing overtook it and is repaired by digests otherwise;
* a connection does not outlive its session, and a session not its connection;
* a room is removed whole or not at all, and is not closed for ever;
* a client that syncs the tab history holds rows that the room really had, and
  the log of changes leads to the present;
* the server compresses with a dictionary only while the client holds it, and
  opens its streams in the order by which the client tells them apart;
* the source believed about an object changes only for a reason, sources are
  grouped by connected components, and every change reaches a broadcast;
* clients of every version get what their version may see, and nothing of an
  answer, of a head of the tab history or of the accounting of traffic is lost
  between steps;
* an ended login is left as it is and let in no more, a walk over the audit log
  misses no row, and a removal is listed at most once, by the request that made it.

## Modules

| Module | Models | Composes |
|---|---|---|
| `BattleCache` | `BattleRoomCache` | |
| `BattleFeed` | what a client is promised about the battle map (abstract) | |
| `BattleDelivery` | delivery of the battle map to one client | extends `BattleCache`, implements `BattleFeed` |
| `Delivery` | delivery of players, entities, waypoints to one client: what is late, lost or stripped | |
| `PatchCodec` | the handshake, versions, projections, patches, digests, and what recipients share | |
| `Sources` | what the relay holds of each source, and the handlers that change it | |
| `BattleObservation` | how an observation becomes battle chunks of its source | |
| `Arbitration` | grouping, candidates, selection of sources per scope | |
| `Movement` | the batches of positions that go out as datagrams | |
| `Session` | sessions, the relay's connections and sources, room removal | |
| `Requests` | what a reader does with a message, and the heads that subscribers are told | |
| `Admin` | login sessions, audit log, deletion of tab history | |
| `RoomData` | the page of room data beside the removal it announces | |
| `Metrics` | accounting of traffic, up to the tables and what is shown of them | |
| `Relationships` | the directory of players and relations | |
| `TabHistory` | one room's tab history, its writers and one client that syncs | |
| `DoorControl` | the door-control stream of one connection, with bulk transfers | |
| `BattleProofs` | theorems about `BattleCache`, `BattleDelivery`, `BattleObservation` | extends them |
| `SessionProofs` | theorems about `Session` | extends it |
| `BroadcastProofs` | theorems about `Sources`, `Delivery` | extends them |
| `StoreProofs` | theorems about `TabHistory`, `Relationships` | extends them |
| `RequestsProofs` | theorems about `Requests` | extends it |
| `AdminProofs` | theorems about `Admin`, `RoomData`, `Metrics` | extends them |
| `PartsProofs` | theorems about `DoorControl`, `PatchCodec`, `Arbitration` | extends them |
| `DataInduction` | lemmas: induction over numbers and finite sets, recursive functions, sums, loops | |
| `MCBattleCache`, `MCBattleDelivery`, `MCDelivery`, `MCSession`, `MCDoorControl`, `MCRefresh`, `MCMovement` | instances of one module | |
| `MCState` | instances of `Sources`, `Delivery`, `TabHistory` | extends them |
| `MCSessions` | instances of `Session`, `Requests`, `Admin`, `RoomData` | extends them |
| `MCParts` | instances of `DoorControl`, `Arbitration`, `BattleObservation`, `PatchCodec`, `Metrics`, `Relationships` | extends them |
| `MCProgress` | instances of `DoorControl`, `Delivery`, `Session`, for liveness | extends or instantiates them |

### BattleCache

`entries`, `changes`, `change_operations`, `revision`, `next_generation` are
the fields of the struct. The deque of expiry batches is the set `expiry` of
its items: generation and slot determine the order, and empty batches do not
stay. A loop that pops the front of the queue is stated by what it leaves: the
shortest head of the queue after which the loop's condition is false
(`EvictToLimit`, `RecordChanges`). A chunk's value has a part that is sent and a
part that is not (`proto_entry` removes it): a report that changes only the
latter bumps the revision all the same. Interning and statistics are left out.
`history` (what a client at each revision should show) and `heard` are ghosts.
The clock's subtraction cannot go negative since the clock is monotone, and the
64-bit counters do not wrap in a server's life; both are plain integers.

### BattleDelivery

One client and the cache of its room. `TickWith` is one turn of the timer
branch in `Relay::run`: `cleanup_timeouts`, then `broadcast`, whose payload is
computed from the cleaned cache. `state_watch` is the watch channel, as a
sequence of at most one frame; `writing` is the frame that the writer has
taken, until its `Delivered` event is in the queue. The writer prefers the
watch channel to control messages (`biased`) and control messages carry no
state, so they are left out. A frame may also be sent for the sake of the rest of
the snapshot (`other`), and then carries the battle revision along.

### Delivery

The same path for the rest of the snapshot. `target` is what
`build_room_snapshot` computes; it changes in arbitrary ways. `StatePayload`,
`BuildPatch`, `StripPlayerPositions` follow the functions of these names. The
time of the next digest and of the next position refresh is left to chance. The
client merges the fields of an upsert into what it has, and drops an upsert of
an object it does not have if the position is missing, as the comment on
`strip_player_positions` says. Datagrams may be lost; in this model all are.

### Session

Sessions choose an id and a room. `phase` is how far `serve_web_map_session`
has come, `reader` the task that passes reports on, `queue` the relay's events.
What a source holds is reduced to whether it has live objects or last seen
players, a battle cache to the rooms that its chunks were reported in. The gate
is a reader-writer lock: a handshake holds it for reading from the check to the
moment Register is queued, and the removal takes it for writing, so `StartPurge`
waits until nobody is between. The rows that the transaction deletes are the
subject of `RoomData` and `TabHistory`; here it succeeds or, by `FailDelete`,
which covers every early return before the commit, does not.

### Requests

A message is a list of steps, `todo`: read the head of the tab history, send to
the relay, send to the own control channel. Between two steps other readers, the
relay and the writers go on. The reader waits for room in both channels, the
relay drops what it finds no room for (`missed` remembers for whom). One room,
whose head is a number. `SplitSized` halves a group of items until it fits, as
`split_sized` does, over the sizes of the items. `AnswersAreWhole` is said of a
session's `ChunkStream` (the chunks that were sent, then those in its control
channel, then those still to be pushed), which is its result in order at any time.

### Sources and BattleObservation

`held` has the age of each report, per source, scope and object, and
`player_marks`, waypoints, subscriptions and control messages are there as in
`Relay`. A handler is one action. `Turn` is a turn of the timer: cleanup, refresh
requests, and a broadcast if the state is dirty, after which `shown` is what
clients were given. A room is also the id of the source that holds its tactical
waypoints. `BattleObservation` has one coordinate for two: candidates, the match
with the last accepted base, and the choice by overlap are as in
`apply_battle_observation`; bases saturate at the end of the range.

### Arbitration

`received_at` is what `collect_candidates` needs of a report. `selections` holds
what rooms keep for the unscoped snapshot and `scoped_selections` for each scope
of allowed sources. `SameServerGrouping` is two nested folds over the sorted
sources, as the two loops of the code; `find_group` without the shortcuts it leaves
in the parents, which change no root (`ShortcutKeepsRoots`). `BroadcastTick` builds the room's snapshot and then those of the
scopes in any order, since the order of a hash map is none.

### PatchCodec

A version is a number, an object a function from the fields it has to values.
`Accepted` is what the handshake comes to. `BroadcastPatches` chooses for each
group of recipients that share a projection, a payload or a digest one of them as
the maker, since which comes first depends on a hash map. A digest is the value
it is computed from: hashes do not collide, and the canonical writer writes equal
values alike. Entities and waypoints go as players do and are left out.

### Metrics

A recorder reads the clock before it takes the lock (`Read`), so buckets arrive
out of order; `Prune` and `CurrentBucket` are as in the code. The flush takes what
is pending, inserts row by row in a transaction, and commits or puts back. A
process that stops does not flush, and what it had is `lost`. `wire` is the byte
counter of a TCP connection, the sampler that records its differences every
second, and the end of the pump, which records the rest.

### Relationships, Admin, RoomData, Movement

`Relationships`: a publisher's first chunk empties the store, each chunk is
upserted in a transaction of its own, and the health is set afterwards. `Admin`:
every statement is a step, and those whose failure the code ignores may change
nothing: the two UPDATEs of `authenticate`, and the INSERT of `record_audit` at the
end of a deletion, so that a removal may be `unaudited` although the request
answered as ever (`AuditDeletion`). It is so too if a later room fails
(`DeletionFails`). That a handler is dropped half way is not modelled. A token stands
for its session's row; an expiry or a refresh is a statement of its own after the
row was read, so a slow request may end a session that another has just renewed, but
neither touches one that has ended. `RoomData`: a
row is a table, a room and a player; whatever is written makes the page stale
(`Written`), and a stale page promises nothing. `Movement`: a player's entry has a
length, chunks are cut where the next entry does not fit.

### TabHistory

`entries`, the head and the deltas are the rows of one room. `Observe` is one
upsert with a label and a priority (an ordinary tab list, or the authoritative
directory), a transaction of its own; so are `AdminDelete` and `Purge`. A sync
(`Request`, then `ReadHead`, `ReadOldest`, `ReadDigest`, and `ReadEntries` or
`ReadDeltas`) reads outside the writers' lock, so writers commit between its
statements; `Reset` is its fallback to all rows, `Abort` a session that ends.
The digest is the set of rows that it is computed from. There is no trimming:
nothing in the code enforces `tabHistory.retentionDays`.
`tainted` marks a client that got rows and a head of two different moments, as
the separate statements allow; `RowsWereReal` speaks of the others, and
`QuietSyncIsExact` of a sync that no writer disturbed. A client sends the digest
of its base. A purge and the writing of as many revisions as before take more
than the millisecond in which two digests could agree.

### DoorControl

A dictionary stands for its content and its id, a movement batch for the number of
its samples; `Observe` leaves open whether they have the bytes to train from and
whether training succeeds. `door_frames` is the channel of door frames: an offer is
dropped when it is full (`HasRoom`), an announcement of a bulk transfer waits. `pump`
is the task that writes them, started once the state stream is open (if that fails,
the channel and the oneshot are dropped, `OpenStateStream`); `door_ready` is the
oneshot by which it tells the bulk task that the second stream is taken. Datagrams
are not variables: the properties speak of what the encoder compresses with and what
the client holds at each moment. The client, which is not in the repository, keeps
the last two dictionaries and acknowledges an offer once installed. `stream_bridge`
of `quic_transport.rs` is the source; the bridge of `web_transport.rs` is the same
line by line.

## Runs

Six runs pass, six are expected to fail. The runs `state`, `sessions`, `parts`
and `progress` hold several small instances each: a variable `part`, chosen in the
first state, says which module runs, and the others keep their initial state.
The instances do not interact; each is explored completely, and an invariant of
a module is evaluated in its own states and, trivially, in those of the others.

| Run | Shows |
|---|---|
| `battle_cache` | all invariants of the cache, in every order of reports, ticks, cleanups and purges |
| `battle_delivery` | no mixture of revisions (`ViewIsSomeRevision`), safe baselines, the refinement of `BattleFeed`, and that a client that stays connected catches up (`ClientCatchesUp`) |
| `state` | every handler marks what it changes (`ChangesAreBroadcast`); diff, strip and digests are exact as long as no patch overtakes a frame (`InOrderIsExact`); the tab history's log leads to the present rows (`DeltasReplay`), a client's rows were real (`RowsWereReal`), an undisturbed sync is exact (`QuietSyncIsExact`) |
| `sessions` | removal is whole, removed rooms stay empty in the relay, no leaked connections; subscribers learn the newest head, answers in chunks are whole; ended logins stay as they are and are refused, a walk over the audit log misses no row and a removal is listed at most once, by its own request; the page of room data announces what the removal takes |
| `parts` | the dictionaries' barrier and grace and the order of streams; groups are connected components (`GroupsAreComponents`), a selection changes for a reason only (`SwitchesHaveReason`); chunks of one observation; clients of every version end up with their projection and a digest that fits it (`PatchesLeadToProjection`); every byte is accounted for once (`TrafficAccounted`), live views and histories add up (`ViewsAreExact`); a directory answers out of one snapshot (`DirectoryIsSound`) |
| `progress` | a queued dictionary is taken up, digests and resyncs repair a player's client, a session that lost its connection ends, the gate opens again |
| `delivery_lag` | *violation*: a patch against an outdated baseline |
| `delivery_refresh` | *violation*: the position refresh does not bring positions |
| `session_rooms` | *violation*: a late report lands in the room `default` |
| `door_bulk` | *violation*: the second bulk transfer panics |
| `refresh` | *violation*: an object expires although its source was never asked in its window |
| `movement` | *violation*: players beyond the datagrams of one turn are left out of the next too |

Deadlock is not checked, but in `movement`: reports, clock, generations and
sessions are bounded, so every behaviour stops at its bounds.

### Bounds

*Cache*: three chunks with room for two force evictions; two visible values and
two provenances tell visible from invisible changes; three reports with up to
two entries allow duplicate keys in a report, refreshes and stale items; a prune
every second generation and a log of two batches and three operations make both
limits of the log and the prune bite; a retention of one and a clock up to two
make expiry of some and not of others possible. *Delivery of the battle map*:
two chunks, capacity one, and a queue of one event, so that the
writer waits and frames are overwritten; three reports, with which the log is
trimmed under a client that lags. Chunks have one value here: that an overwritten
value reaches a lagging client is `PatchSurvivesLag` of the cache. *Delivery*: two objects (one with all values of
position and info for liveness), two changes after the first snapshot; three for
the lag. The kind of connection is chosen in the initial state.
*Session*: two sessions, two ids (one for liveness), a room besides the default one,
a queue of two events and one report; each session is used once, which gives a reconnect of the
same id with two. *Tab history*: two players, so that
one can be deleted and seen again while the other stays, and labels of two
qualities; three revisions let a client be one or two behind, or hold a base of a
removed history with the same number; reports name one player, deletions both.
*Door control*: three
dictionaries (two for liveness), since the client keeps two; a threshold of one
sample and batches of two; a door channel of one place, so that offers are dropped
and announcements wait; two requests, so that one is a second (one for liveness,
as the second panics).
*Sources*: a client, an external source and a web map, one object, ages of two
turns; one scope at a time in one room, all events in two rooms, and a control
channel of one place. Scopes are changed by separate statements of `apply_report`
and meet only in the flag `dirty`. *Arbitration*: two clients and an external
source; a player of one of the clients, then another object with the filter of the
server groups, which makes scopes of single sources, of which the table holds one;
then tab lists alone, over four names, so that a chain of three sources can be
joined late. *Observations*: four coordinates, two dimensions, up to three cells, one of
them beyond the range. *Patches*: ten handshakes on either side of every version
that a rule depends on, two recipients, one object in one scope at a time.
*Metrics*: five seconds and a window of one; periods of one and four seconds for
minute and day, buckets between them; one restart; traffic, messages and the
wire each by themselves, as they share the pending rows only. *Relationships*: two
publishers of one store, two snapshots in two chunks that overlap in a player.
*Requests*: three sessions, two changes of the history, every channel of one
place; answers of up to five items with a limit of two and four. *Administration*:
two requests under way, a session that lives two ticks, four audit rows of two
types and pages of one and two, two rooms. *Room data*: two rooms, three tables of
the kinds there are (rows without a room, with a player, without one), two rows.

### Fairness

The relay is one task whose loop never waits but for its events and its timer,
so weak fairness of the tick and of handling events is what the runtime gives.
Events are handled in the order of the queue. The writer waits for the watch
channel, for the socket (two seconds at most, then the session ends) and for
the queue. `ClientCatchesUp` demands nothing of the rest of the room: the tick
alone must bring the client up to date. `PlayerConverges` assumes
(`WriterGetsFulls`) that if full snapshots are put into the watch channel for
ever, the writer takes some of them: without it, a client whose writer is
always slower than a digest interval could lose each of them to the digest that
follows. In `DroppedSessionsEnd` the tasks of a session run, and clients need not ever
leave; only a dropped connection is certain to be noticed, through the writer
whose channels closed. In `OffersTakenUp` the tasks of the connection and the client
run; no training, bulk transfer or failure need happen. The properties of `progress`
have the form fairness implies progress, with the fairness that the module of the
part states (`Fairness` of `DoorControl`, `Delivery` and `Session`), since one run
holds all three. The relay's queue has two places there: with one, the weak fairness
of sending to it would be void as others may always come first, which tokio's
queue of waiting senders excludes and strong fairness stands for.

### Findings

Six runs are expected to fail, each quoting a statement of the repository:

* `delivery_lag`: `CHANGELOG.md` (1.1.2) says wrong baselines after lagging
  delivery are fixed. For the battle map they are, by the theorem
  `LagIsHarmless`: its patches list keys that changed and give the value at
  present. `build_patch` compares two snapshots, and what was added in a frame
  on its way and removed before the next tick is in neither. The client of a
  player is repaired by the next digest; a web map gets none.
* `delivery_refresh`: the comment in `broadcast` says that a refresh carries all
  positions. It carries those that differ from the acknowledged snapshot, which
  counts stripped positions as delivered.
* `session_rooms`: `apply_report` files a report of an id without a connection
  under `default`. This happens to reports that are handled after the
  `Disconnect`, for instance when the writer fails first.
* `door_bulk`: the comment in `stream_bridge` says that the oneshot is emptied
  after the first bulk transfer. It is not, and awaiting it again panics.
* `refresh`: `server_state_config.toml` says that a request is triggered when an
  object's remaining time is at most `leadSec`. By default the cooldown between two
  requests is longer than that, so the window of an object may pass while its
  source, asked for another one, is not asked again.
* `movement`: the comment on `MOVEMENT_MAX_CHUNKS_PER_TICK` says that the excess
  goes out in the next tick. The ids are sorted and cut at the same place each
  time. (The comment on `movement_batch` itself says otherwise: the refresh of the
  reliable stream covers them, which `delivery_refresh` is about.) The chunk that is
  open when the limit is reached is sent as well, so up to 17 may go out.

Two more were met and have no run. A session's audit row is written after the
relay was told of its end, so a room that is removed in between gets a row again,
although `README.md` says that the audit rows of the room are removed (`RecordEnded`
of `Session`). And a report of the authoritative directory that repeats the stored
label within the refresh interval is skipped with its priority (`Accepts` of
`TabHistory`): if the label came from an ordinary tab list, the next one of these
may replace it, which the test
`authoritative_directory_label_cannot_be_overwritten_by_normal_tab` does not try.

## Proofs

Every safety property and action property that a passing run checks is also a
theorem, for every value of the constants that the named assumptions allow: any
number of chunks, clients, rooms, revisions, messages, any limits and capacities.
A run shows that a property holds on an instance whose interesting cases happen; the
theorem, that the size of the instance did not matter. Below, by module, what was
needed beyond the property: few of them are inductive.

### BattleProofs

*The cache*: `TypeCorrect`, `ChunksStayIndexed`, `LagIsHarmless`, `PatchesAreExact`,
`CapacityHolds`, `CleanupIsComplete`, `LogHolds`, `RemovalIsJustified`. All rest on
`CacheInvariant`. `EveryChunkIndexed` and `PatchReproducesCache` are not inductive
as they stand; the invariant `CacheInv` adds that the generations and times of
the expiry queue are consistent with `heard` and the clock (items of a later
generation are not older), that the log's revisions are consecutive and end at
the present one, and that between a revision of the log's reach and now, `history`
differs only in keys the log names. From the last the exactness of a patch
follows for the client of every later revision too, which is what makes an
outdated baseline harmless.

`LogHolds` (`ChangeLogBounded`) adds that the running count of operations is the sum
of the batches' sizes (`LogCounted`), a sum over a sequence of which a head is cut
off. `RemovalIsJustified` (`OnlyStaleOrOldestRemoved`) adds that the queue is finite
and has one item for each generation and slot (`OneItemPerSlot`), so that between a
head of the queue and the next longer one lies a single item, of a single chunk: what
`evict_to_limit` pops leaves the cache at its capacity, never below it.

*Its delivery*: `DeliveryInv` adds that every frame on its
way is either a full snapshot of one revision, or a patch that leads from
*each* revision the client may have reached to its own, and that what the
relay believes was delivered is ordered below what is on its way. It yields
`ViewIsNeverMixed`, `BaselineIsSafe` and `ImplementsFeed`, the refinement of
`BattleFeed`: writing a frame is `Advance`, a change of the cache `Publish`, a
disconnect `Restart`, a purge `Forget`, all other steps stutter.

*Observations*: `NoMixture` (`ChunksOfOneObservation`) holds since an accepted
observation takes back the chunks of the projection before, and a chunk that is shown
is always in the present projection.

### PartsProofs

*Door control*: `TypeCorrect`, `BarrierHolds`, `GraceHolds` and
`OrderHolds`, for any dictionaries, thresholds and capacities. The barrier is not
inductive: it needs to be known where the offer is. `Handover` says that at any
time there is no offer on its way, or one in the channel, or one on the stream, or
its answer, and what each end holds in each of these four cases; one lemma for
each action shows that it passes from one to the next. It rests on `observe` not
training while an offer is pending. For the order of streams, `StreamsOpened`
adds what has been opened when the oneshot is answered. A dropped offer stays
pending (`Silent` allows it), which is why nothing is proved of its being taken
up.

*Patches for every version*: `PatchesAreUnderstood` (`PatchesLeadToProjection`). The
invariant `CodecInv` says that a session's version and features are what its
handshake came to, and that what a client shows is a fixed point of its own
projection, so that a patch between two projections leads it to the projection of
the new world. That recipients share a projection, a payload or a digest is harmless
because whoever has the same key has the same projection, patch and digest, which is
a lemma about every pair of versions.

*Arbitration*: `SwitchesAreJustified` (`SwitchesHaveReason`), an action property, since
each scope's selection is made once per turn, whatever the order of the scopes, of
reports whose times have passed (`ArbitrationInv`). `GroupsAreServers`
(`GroupsAreComponents`): the parents are a forest that points to smaller sources;
`find_group` gives the root (by induction over the sources, as `FindGroup` is a
recursive function); a union joins exactly two groups, so that no union leaves a set
of sources that is closed under shared tab names, and after the nested loops any two
linked sources have one root. `ShortcutKeepsRoots` shows of the path compression,
which the model leaves out, that it changes no root.

### SessionProofs

`RemovalIsWhole`, `RemovedStaysRemoved` and
`ConnectionsEnd`, for any sessions, ids, rooms and length of the queue. None of the
three properties is inductive: each is about what is still in the queue, and in
which order. `SessionInv` adds that the gate stays closed from the count to the end
of a request and that nobody between the gate and its Register is in a closed room
(`Lifecycle`, `GateHolds`), that every Register for the room is in front of the
administrator's question (`Asked`), so that when the relay answers none is left
(`Vacant`), and that behind each Register whose session has ended comes its
Disconnect (`ComesAndGoes`). That ended readers still report does not harm, because
their reports are filed by connections, and a vacant room has none; the room
`default` is exempt for the reason the run `session_rooms` shows.

### BroadcastProofs

`NoChangeIsForgotten` (`ChangesAreBroadcast`): besides its types the property is
inductive as it stands. The work is in the handlers: each either leaves the content of
every room's snapshot as it is, or sets the dirty flag.

`InOrderDeliveryIsExact` (`InOrderIsExact`): as long as no patch was made before the
last frame was acknowledged, exactly one frame is under way and at one place (watch
channel, writer, `Delivered` event), and wherever it is, receiving it leads the
client to the frame's snapshot (`OneAtATime`). What a position-stripped patch leaves
out is what unreliable positions are exempt from.

### StoreProofs

*Tab history*: `LogLeadsToPresent` (`DeltasReplay`), `ClientHoldsOneMoment`
(`RowsWereReal`), `QuietSyncsAreExact` (`QuietSyncIsExact`). The invariant `TabInv` says
that each player's last delta tells what the room holds of him now, that since a
revision without a later delta of a player nothing has changed of him (`LogIsExact`),
that kept digests are those of what the room held, and of the syncing client
(`ClientIsSound`) that its rows are of one moment not before its head, or older than
everything that the room holds: the latter is what a removal of the room between two
syncs leaves, whose revisions start from zero again. Only the difference of times then
keeps an old base from being taken for a usable one.

*Relationships*: `DirectoryHolds` (`DirectoryIsSound`), from the invariant that a store
holds exactly the rows of the chunks upserted since it was emptied, one row per player
(`DirectoryIsFull`); complete means that these chunks are all of some graph.

### RequestsProofs

`NothingTakesAChunksPlace` (`AnswersAreWhole`): what was sent, what waits in the
control channel and what is still to come are together a whole answer at every step
(`StreamsAreWhole`); only the message that begins an answer changes this stream. That
`SplitSized` and `SplitByCount` cut each result into parts that join to it, for every
list of sizes and every limit, is proved by induction over the recursive functions that
cut and join them.

`NoHeadIsLost` (`NewestHeadIsTold`): the property speaks of quiet states only. The
invariant `HeadsAreCarried` says where the newest head is at every other moment: told;
in the subscriber's control channel; read or still to be read by its own subscription;
still to be announced by some reader; or in the relay's queue. And for each
`subscribe` in the queue, the same *behind* it, since the relay will tell the head only
to those it knows by then.

### AdminProofs

`EndedIsEnded` (`EndedSessionsAreRefused`) is an action property: each step leaves the
rows that have ended with their expiry (`RowsGoOn`), by the guard that both UPDATEs
have (`RowsAreWritten`); and a request that began after the end has read such a row
(`LateRowsAreOver`), whence it is not let in. `AuditTellsOnce` (`AuditIsSound`): a walk
has been shown all that was due from its last page upwards (`WalkIsUnderWay`), and a
page that is not full is the last. What a running deletion holds was removed by it and
by no other (`DeletionInv`); it is listed when that deletion ends, or is counted as
missing, if its row was not written.
`AnnouncedIsRemoved` (`RemovalIsAnnounced`): what the statements so far have put on the
page is still so (`PageSteps`).

`NoByteIsForgotten` (`TrafficAccounted`): each cell of the tables, with what is pending
and taken for it and what went with a process that stopped, sums up to what was recorded
(`BytesAccounted`); during a flush the transaction holds what was stored and the
part of the taken rows that it has inserted (`FlushIsWhole`).

`ShownIsExact` (`ViewsAreExact`): after *every* second that the window has not left,
not only the one at its edge, the buckets count exactly what was recorded after it
(`TrafficWindow`, `PacketWindow`). The stronger form is needed because recorders read the
clock before the lock: a bucket may be added behind one with a later second, and a
recorder with an older clock prunes less. A history adds up however it is cut, since
each of its buckets is made of whole cells of the table it is read from.

### DataInduction

The library's induction theorems take an operator as a parameter, which none of the
provers here can instantiate. `DataInduction` restates what is needed with sets and
functions, from the one theorem that has no such parameter, that the natural numbers are
well-founded: a set of numbers has a least member; a set of finite sets that contains
the empty one and with each its extensions contains all; a function that calls itself on
smaller arguments exists and satisfies its equation (`Recursion`); so for the folds of
the community modules, which are such functions; sums over finite sets and how they change
at a point, over unions and parts; a loop as a walk of states (`Loop`, `LoopWalk`). An
induction is then a counterexample of least size.

### Assumptions

They are those that the modules name on their constants, and nothing else:

* *Numbers and sets* (`LimitsAssumption`, `CapacityAssumption`, `DoorAssumption`,
  `SessionAssumption`, `RequestsAssumption`, `TabHistoryAssumption`, `AdminAssumption`,
  `RoomDataAssumption`, `DeliveryAssumption`, `MetricsAssumption`): limits are natural
  numbers, capacities positive, and the values for nobody, no room and nothing are none of
  the sessions, rooms and values.
* `SourcesAssumption`: connections are of one kind each, an id is no room, an object's
  timeout is below the bound on ages, and refresh lead and cooldown are positive.
* `ObservationAssumption`: an observation's candidates are coordinates, its cells colours.
* `RelationshipAssumption`: what is published has at least one chunk, and of the rows of
  one player in a chunk the last counts, so the model has one.
* `CodecAssumption`: the versions that a handshake claims are numbers.
* `ArbitrationAssumption`: sources are finitely many and ordered, of one kind each, and
  the table of scopes has room for one.
* `BucketAssumption`: the buckets of a history are whole periods of the table it is read
  from, as 1, 5, 15 minutes, an hour and a day are of the tables of minutes, hours and
  days in `admin.rs`.

### Only model-checked

The liveness properties `ClientCatchesUp`, `OffersTakenUp`, `PlayerConverges`,
`DroppedSessionsEnd` and `GateOpensAgain`: fairness speaks of ENABLED, which is beyond
the provers. The counterexamples of the six expected violations are TLC's. And the
bounds of the models (a last second, so many reports) are part of the specifications:
the theorems hold for every value of them.

## Not modelled, and what is left

* The parts are checked apart. `Delivery` loses, delays and strips what
  `PatchCodec` makes and shares; `Sources` feeds `Arbitration`, whose snapshots
  both carry. Their composition is far beyond TLC; each relies on the other's
  property only where the README says so.
* The table of bulk sessions (`bulk.rs`), used by the diagnostics of a debug build,
  whose ids may collide after an eviction; a removal request that is cancelled
  half way and leaves the gate closed; a web-map query of several statements that
  a publication interrupts.
* The page of room data counts identities that only relationships name; the
  removal keeps these. `RemovalIsAnnounced` exempts them. A departure of a source
  that held nothing does not mark the state dirty (`ChangesAreBroadcast` leaves the
  list of clients out). A lookup of more than 256 selectors is never answered.
* No theorem composes two of the parts, as no module does. `Movement` and the instance
  `MCRefresh` are there for what they refute, and have no theorem.

Left out for good: sockets, framing, TLS and certificates, configuration, those
of the administrator's queries and pages that only read, resource diagnostics, the
admin UI, scripts. They are I/O around the core, or have no state of their own.
