----------------------------- MODULE TabHistory -----------------------------
(***************************************************************************)
(* The tab history of one room (src/src/tab_history.rs, TabHistoryStore):  *)
(* the last label seen of every player, the log of changes that clients    *)
(* catch up from, and a client that does.                                  *)
(*                                                                         *)
(* Writers hold a lock and write in one transaction.  A sync takes no lock *)
(* and reads in up to four statements, between which writers may commit.   *)
(*                                                                         *)
(* A digest is what it is computed from: the etags of all entries.  An     *)
(* etag covers label and times, not the revision.                          *)
(***************************************************************************)
EXTENDS Integers, FiniteSets, Functions

CONSTANTS
  Players,          \* player_uuid
  Labels,           \* what a tab list says of a player
  Quality,          \* display_label_quality
  UpdateInterval,   \* 300 000 ms in the code
  MaxNow,           \* bound: the clock
  MaxReport,        \* bound: players of a report
  MaxRevision       \* bound: revisions of the room

ASSUME TabHistoryAssumption ==
  /\ Quality \in [Labels -> 0..2]
  /\ UpdateInterval \in Nat
  /\ MaxNow \in Nat
  /\ MaxReport \in Nat \ {0}
  /\ MaxRevision \in Nat

VARIABLES
  entries,          \* tab_history_entries
  deltas,           \* tab_history_deltas
  revisions,        \* tab_history_revisions: revision -> digest
  head,             \* tab_history_heads; NoHead if there is no row
  now,              \* unix_millis
  sync,             \* the sync under way
  rows,             \* what the client holds
  base,             \* the head it got with them, or nothing
  history,          \* ghost: what the room held at each revision
  tainted           \* ghost: the room was removed under a torn client

store_vars == <<entries, deltas, revisions, head>>
client_vars == <<sync, rows, base, tainted>>
tab_vars == <<store_vars, client_vars, now, history>>

(* upsert_players, upsert_authoritative_players                            *)
Priorities == {0, 100}

(* An entry is shown as [label, first_at, last_at, revision], and stored   *)
(* with its priority.  A delta [revision, player, entry] without an entry  *)
(* is a deletion.                                                          *)
Nothing == [p \in {} |-> p]
NoHead == [revision |-> 0, digest |-> Nothing]
Idle == [step |-> "idle"]

Digest(shown) ==
  [p \in DOMAIN shown |-> [label |-> shown[p].label,
                           first_at |-> shown[p].first_at,
                           last_at |-> shown[p].last_at]]

(* entry_from_row: the priority is not sent.                               *)
EntryRows(store) == [p \in DOMAIN store |-> store[p].shown]

-----------------------------------------------------------------------------
(* Writers.                                                                *)

(* write_head, at the end of a transaction that changed something.         *)
WriteHead ==
  LET revision == head.revision + 1
      digest == Digest(EntryRows(entries'))
  IN  /\ head' = [revision |-> revision, digest |-> digest]
      /\ revisions' = [r \in DOMAIN revisions \cup {revision} |->
                         IF r = revision THEN digest ELSE revisions[r]]
      /\ history' = [r \in 0..revision |->
                       IF r = revision THEN EntryRows(entries') ELSE history[r]]

(* Whether a report of `label' is stored: not over a source of higher      *)
(* priority, not over a better label, and, if it repeats the label, only   *)
(* from time to time.                                                      *)
Accepts(p, label, priority) ==
  p \in DOMAIN entries =>
    LET entry == entries[p]
    IN  /\ entry.priority <= priority
        /\ Quality[label] >= Quality[entry.shown.label]
        /\ \/ label # entry.shown.label
           \/ now - entry.shown.last_at >= UpdateInterval

NewEntry(p, label, priority) ==
  [shown |->
     [label |-> label,
      first_at |-> IF p \in DOMAIN entries /\ entries[p].shown.label = label
                   THEN entries[p].shown.first_at ELSE now,
      last_at |-> now,
      revision |-> head.revision + 1],
   priority |-> priority]

(* upsert_players_with_priority.                                           *)
Upsert(report, priority) ==
  LET changed == {p \in DOMAIN report : Accepts(p, report[p], priority)}
      stored == [p \in DOMAIN entries \cup changed |->
                   IF p \in changed THEN NewEntry(p, report[p], priority)
                                    ELSE entries[p]]
  IN  /\ head.revision < MaxRevision
      /\ entries' = stored
      /\ IF changed = {}
         THEN UNCHANGED <<deltas, revisions, head, history>>
         ELSE /\ deltas' = deltas \cup
                   {[revision |-> head.revision + 1, player |-> p,
                     entry |-> stored[p].shown] : p \in changed}
              /\ WriteHead
      /\ UNCHANGED <<client_vars, now>>

Reports ==
  UNION {[D -> Labels] : D \in {D \in SUBSET Players :
                                  Cardinality(D) \in 1..MaxReport}}

Observe ==
  \E report \in Reports, priority \in Priorities : Upsert(report, priority)

(* Mutant: a deletion leaves no delta.                                     *)
AdminDeleteSilently(players) ==
  LET deleted == players \cap DOMAIN entries
  IN  /\ head.revision < MaxRevision
      /\ deleted # {}
      /\ entries' = Restrict(entries, DOMAIN entries \ deleted)
      /\ WriteHead
      /\ UNCHANGED <<deltas, client_vars, now>>

(* admin_delete; it changes nothing if no player has an entry.             *)
AdminDelete(players) ==
  LET deleted == players \cap DOMAIN entries
  IN  /\ head.revision < MaxRevision
      /\ deleted # {}
      /\ entries' = Restrict(entries, DOMAIN entries \ deleted)
      /\ deltas' = deltas \cup
           {[revision |-> head.revision + 1, player |-> p] : p \in deleted}
      /\ WriteHead
      /\ UNCHANGED <<client_vars, now>>

(* delete_room_data, which is refused while the client is connected.  It   *)
(* does not happen in the millisecond of an earlier report.                *)
Purge ==
  /\ sync = Idle
  /\ now < MaxNow
  /\ now' = now + 1
  /\ entries' = Nothing
  /\ deltas' = {}
  /\ revisions' = Nothing
  /\ head' = NoHead
  /\ history' = [r \in {0} |-> Nothing]
  /\ tainted' = (tainted \/ (base # <<>> /\ Digest(rows) # base[1].digest))
  /\ UNCHANGED <<sync, rows, base>>

Tick ==
  /\ now < MaxNow
  /\ now' = now + 1
  /\ UNCHANGED <<store_vars, client_vars, history>>

-----------------------------------------------------------------------------
(* A sync: TabHistoryStore::sync, statement by statement.                  *)

(* The client asks for a delta from its base, or for everything.           *)
Request ==
  /\ sync = Idle
  /\ \E delta, allow_full_fallback \in BOOLEAN :
       sync' = [step |-> "head", delta |-> delta,
                allow_full_fallback |-> allow_full_fallback]
  /\ UNCHANGED <<store_vars, rows, base, tainted, now, history>>

(* read_head, its first statement.                                         *)
ReadHead ==
  /\ sync.step = "head"
  /\ sync' = [step |-> "oldest", delta |-> sync.delta, head |-> head,
              allow_full_fallback |-> sync.allow_full_fallback]
  /\ UNCHANGED <<store_vars, rows, base, tainted, now, history>>

(* read_head, its second statement: oldest_available_delta_revision.       *)
OldestDelta(head_read) ==
  IF head_read = NoHead THEN 0
  ELSE IF deltas = {} THEN head_read.revision
  ELSE (CHOOSE r \in {d.revision : d \in deltas} :
          \A d \in deltas : r <= d.revision) - 1

ReadOldest ==
  /\ sync.step = "oldest"
  /\ sync' = [step |-> "digest", delta |-> sync.delta, head |-> sync.head,
              allow_full_fallback |-> sync.allow_full_fallback,
              oldest |-> OldestDelta(sync.head)]
  /\ UNCHANGED <<store_vars, rows, base, tainted, now, history>>

(* Mutant: the base's digest is not compared.                              *)
BaseUnusableByRevision(oldest) ==
  \/ base = <<>>
  \/ base[1].revision # 0 /\ base[1].revision \notin DOMAIN revisions
  \/ base[1].revision < oldest

KnownDigest(revision) == IF revision = 0 THEN Nothing ELSE revisions[revision]

(* A reason to reset: base unknown, digest mismatch, delta expired.        *)
BaseUnusable(oldest) ==
  \/ base = <<>>
  \/ base[1].revision # 0 /\ base[1].revision \notin DOMAIN revisions
  \/ KnownDigest(base[1].revision) # base[1].digest
  \/ base[1].revision < oldest

(* The digest of the base is looked up, and the mode is settled.           *)
ReadDigest ==
  /\ sync.step = "digest"
  /\ LET reset == sync.delta /\ BaseUnusable(sync.oldest)
         full == ~sync.delta \/ (reset /\ sync.allow_full_fallback)
     IN  sync' = [step |-> IF full THEN "entries"
                           ELSE IF reset THEN "reset" ELSE "deltas",
                  head |-> sync.head]
  /\ UNCHANGED <<store_vars, rows, base, tainted, now, history>>

(* Mutant: the first delta of each player after `revision'.                *)
FirstDeltas(revision) ==
  {d \in deltas :
     /\ d.revision > revision
     /\ \A e \in deltas : e.player = d.player /\ e.revision > revision =>
                            d.revision <= e.revision}

(* The last delta of each player after `revision'.                         *)
LatestDeltas(revision) ==
  {d \in deltas :
     /\ d.revision > revision
     /\ \A e \in deltas : e.player = d.player => e.revision <= d.revision}

(* What the client makes of upserts and deletes.                           *)
Replayed(shown, latest) ==
  LET kept == {d \in latest : "entry" \in DOMAIN d}
      gone == {d.player : d \in latest \ kept}
  IN  [p \in (DOMAIN shown \cup {d.player : d \in kept}) \ gone |->
         IF \E d \in kept : d.player = p
         THEN (CHOOSE d \in kept : d.player = p).entry
         ELSE shown[p]]

(* The last statement; the client puts the chunks it gets together.        *)
ReadEntries ==
  /\ sync.step = "entries"
  /\ rows' = EntryRows(entries)
  /\ base' = <<sync.head>>
  /\ tainted' = FALSE
  /\ sync' = Idle
  /\ UNCHANGED <<store_vars, now, history>>

ReadDeltas ==
  /\ sync.step = "deltas"
  /\ rows' = Replayed(rows, LatestDeltas(base[1].revision))
  /\ base' = <<sync.head>>
  /\ sync' = Idle
  /\ UNCHANGED <<store_vars, tainted, now, history>>

(* The client is told to reset.                                            *)
Reset ==
  /\ sync.step = "reset"
  /\ base' = <<>>
  /\ sync' = Idle
  /\ UNCHANGED <<store_vars, rows, tainted, now, history>>

(* The session ends; the client keeps what it has.                         *)
Abort ==
  /\ sync # Idle
  /\ sync' = Idle
  /\ UNCHANGED <<store_vars, rows, base, tainted, now, history>>

-----------------------------------------------------------------------------
TabInit ==
  /\ entries = Nothing
  /\ deltas = {}
  /\ revisions = Nothing
  /\ head = NoHead
  /\ now = 0
  /\ sync = Idle
  /\ rows = Nothing
  /\ base = <<>>
  /\ history = [r \in {0} |-> Nothing]
  /\ tainted = FALSE

Sync ==
  \/ Request
  \/ ReadHead
  \/ ReadOldest
  \/ ReadDigest
  \/ ReadEntries
  \/ ReadDeltas
  \/ Reset
  \/ Abort

Write ==
  \/ Observe
  \/ \E players \in SUBSET Players : AdminDelete(players)
  \/ Purge
  \/ Tick

TabNext == Write \/ Sync

TabSpec == TabInit /\ [][TabNext]_tab_vars

-----------------------------------------------------------------------------
(* Properties.                                                             *)

(* From every revision of the room the log leads to its present contents,  *)
(* however often a player was overwritten, deleted and seen again.         *)
DeltasReplay ==
  \A r \in 0..head.revision :
    Replayed(history[r], LatestDeltas(r)) = EntryRows(entries)

(* A client holds what the room held at one moment, not before the head it *)
(* was given, although writers commit between the statements of a sync.    *)
(* After a removal of the room its old base is refused or still right,     *)
(* unless the client held more than its base says.                         *)
RowsWereReal ==
  base # <<>> /\ ~tainted =>
    \/ base[1].revision > head.revision
    \/ KnownDigest(base[1].revision) # base[1].digest
    \/ \E r \in base[1].revision..head.revision :
         Digest(rows) = Digest(history[r])

(* A sync during which nobody writes leaves the client with exactly what   *)
(* the room holds, even if an earlier one was torn by writers.             *)
QuietSyncIsExact ==
  [][(ReadEntries \/ ReadDeltas) /\ sync.head = head /\ ~tainted' =>
       rows' = EntryRows(entries)]_tab_vars
=============================================================================
