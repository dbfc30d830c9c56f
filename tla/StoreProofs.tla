--------------------------- MODULE StoreProofs ----------------------------
(***************************************************************************)
(* Proofs about TabHistory: for any players, labels and reports, the log   *)
(* leads from every revision to the present, and a client that catches up  *)
(* while writers commit, or after the room was removed, holds what the     *)
(* room held at one moment.  And about Relationships: for any publishers,  *)
(* realms and graphs, the directory holds what was upserted since it was   *)
(* emptied, and tells both of two players the same of their relation.      *)
(***************************************************************************)
EXTENDS TabHistory, Relationships, FiniteSetTheorems, TLAPS

Shown == [label : Labels, first_at : Nat, last_at : Nat, revision : Nat]
RowSets == UNION {[D -> Shown] : D \in SUBSET Players}
Tables == UNION {[D -> [shown : Shown, priority : Priorities]] : D \in SUBSET Players}

TabTypes ==
  /\ now \in Nat
  /\ head.revision \in Nat
  /\ entries \in Tables
  /\ history \in [0 .. head.revision -> RowSets]
  /\ rows \in RowSets
  /\ base # <<>> => base[1].revision \in Nat
  /\ \A d \in deltas : d.player \in Players /\ d.revision \in 1 .. head.revision

(* The digests that are kept are those of what the room held, and nothing  *)
(* is from later than now.                                                 *)
RevisionsAreExact ==
  /\ history[0] = Nothing
  /\ history[head.revision] = EntryRows(entries)
  /\ revisions = [r \in 1 .. head.revision |-> Digest(history[r])]
  /\ \A r \in 0 .. head.revision : \A p \in DOMAIN history[r] : history[r][p].last_at <= now
  /\ \A p \in DOMAIN rows : rows[p].last_at <= now

(* Two sets of rows say the same of a player.                              *)
Same(f, g, p) ==
  /\ p \in DOMAIN f <=> p \in DOMAIN g
  /\ p \in DOMAIN f => f[p] = g[p]

(* A delta says what the room now holds of its player.                     *)
Tells(d) ==
  IF "entry" \in DOMAIN d
  THEN d.player \in DOMAIN entries /\ entries[d.player].shown = d.entry
  ELSE d.player \notin DOMAIN entries

(* There is no delta of the player after the revision.                     *)
QuietSince(p, r) == \A d \in deltas : d.player = p => d.revision <= r

(* A player with deltas has a last one, it tells what the room holds of    *)
(* him, and since a revision without a later delta nothing has changed.    *)
LogIsExact ==
  /\ \A d \in deltas : \E e \in deltas :
       e.player = d.player /\ QuietSince(e.player, e.revision)
  /\ \A d \in deltas : QuietSince(d.player, d.revision) => Tells(d)
  /\ \A p \in Players, r \in 0 .. head.revision :
       QuietSince(p, r) => Same(history[r], EntryRows(entries), p)

(* The client's rows are what the room held at one moment, not before the  *)
(* head it was given ...                                                   *)
RowsAreReal == \E k \in base[1].revision .. head.revision : rows = history[k]

(* ... or are of before a removal of the room, older than all it holds.    *)
RowsAreOutdated ==
  /\ Digest(rows) = base[1].digest
  /\ \A p \in DOMAIN rows :
       /\ rows[p].last_at < now
       /\ \A r \in 0 .. head.revision : \A q \in DOMAIN history[r] :
            rows[p].last_at < history[r][q].last_at

(* Between the statements of a sync the head it has read stays one of the  *)
(* room, and a base that was found usable stays so.                        *)
ClientIsSound ==
  /\ base # <<>> /\ ~tainted => RowsAreReal \/ RowsAreOutdated
  /\ sync.step \in {"oldest", "digest", "entries", "reset", "deltas"} =>
       sync.head.revision \in 0 .. head.revision
  /\ sync.step = "deltas" =>
       /\ base # <<>> /\ base[1].revision <= head.revision
       /\ ~tainted => RowsAreReal

TabInv == TabTypes /\ RevisionsAreExact /\ LogIsExact /\ ClientIsSound

-----------------------------------------------------------------------------
(* Rows.                                                                   *)

(* A set of rows is a function of players.                                 *)
LEMMA RowsAreFunctions ==
  ASSUME NEW f \in RowSets
  PROVE  /\ f = [p \in DOMAIN f |-> f[p]]
         /\ DOMAIN f \subseteq Players
         /\ \A p \in DOMAIN f : f[p] \in Shown
BY DEF RowSets

(* So is the empty one.                                                    *)
LEMMA NothingIsRows ==
  Nothing \in RowSets /\ Nothing \in Tables /\ DOMAIN Nothing = {} /\ EntryRows(Nothing) = Nothing
BY SMTT(30) DEF Nothing, RowSets, Tables, EntryRows

(* The rows that a table shows, and its entries.                           *)
LEMMA EntriesAreRows ==
  ASSUME NEW store \in Tables
  PROVE  /\ EntryRows(store) \in RowSets
         /\ DOMAIN EntryRows(store) = DOMAIN store
         /\ DOMAIN store \subseteq Players
         /\ store = [p \in DOMAIN store |-> store[p]]
         /\ \A p \in DOMAIN store : /\ EntryRows(store)[p] = store[p].shown
                                    /\ store[p] \in [shown : Shown, priority : Priorities]
BY DEF EntryRows, Tables, RowSets

(* Sets of rows are equal when they agree on every player.                 *)
LEMMA SameRows ==
  ASSUME NEW f \in RowSets, NEW g \in RowSets, \A p \in Players : Same(f, g, p)
  PROVE  f = g
<1>1. DOMAIN f = DOMAIN g /\ \A p \in DOMAIN f : f[p] = g[p]
  BY RowsAreFunctions DEF Same
<1> QED
  BY <1>1, RowsAreFunctions

(* An etag covers the time of the last report.                             *)
LEMMA EqualDigests ==
  ASSUME NEW f, NEW g, Digest(f) = Digest(g)
  PROVE  DOMAIN f = DOMAIN g /\ \A p \in DOMAIN f : f[p].last_at = g[p].last_at
<1>1. DOMAIN Digest(f) = DOMAIN f /\ DOMAIN Digest(g) = DOMAIN g
  BY DEF Digest
<1>2. /\ \A p \in DOMAIN f : Digest(f)[p].last_at = f[p].last_at
      /\ \A p \in DOMAIN g : Digest(g)[p].last_at = g[p].last_at
  BY DEF Digest
<1> QED
  BY <1>1, <1>2

(* The digest of nothing is nothing.                                       *)
LEMMA NothingHasNoDigest == Digest(Nothing) = Nothing
BY DEF Digest, Nothing

-----------------------------------------------------------------------------
(* Replaying the log.                                                      *)

(* Rows of any revision, brought up to date from an earlier one, are what  *)
(* the room holds.                                                         *)
LEMMA ReplayLeads ==
  ASSUME TabTypes, LogIsExact, RevisionsAreExact,
         NEW r \in 0 .. head.revision, NEW k \in 0 .. head.revision, r <= k
  PROVE  Replayed(history[k], LatestDeltas(r)) = EntryRows(entries)
<1> DEFINE old == history[k]
           latest == LatestDeltas(r)
           kept == {d \in latest : "entry" \in DOMAIN d}
           gone == {d.player : d \in latest \ kept}
           new == Replayed(old, latest)
<1>1. old \in RowSets
  BY DEF TabTypes
<1>2. ASSUME NEW d \in latest
      PROVE  d \in deltas /\ d.player \in Players /\ Tells(d)
  <2>1. d \in deltas /\ QuietSince(d.player, d.revision)
    BY DEF LatestDeltas, QuietSince
  <2> QED
    BY <2>1 DEF LogIsExact, TabTypes
<1>3. ASSUME NEW p \in Players, \A d \in latest : d.player # p
      PROVE  Same(old, EntryRows(entries), p)
  <2>1. QuietSince(p, k)
    <3> SUFFICES ASSUME ~QuietSince(p, k) PROVE FALSE
      OBVIOUS
    <3>1. PICK e \in deltas : e.player = p /\ ~(e.revision <= k)
      BY DEF QuietSince
    <3>2. PICK d \in deltas : d.player = p /\ QuietSince(p, d.revision)
      BY <3>1 DEF LogIsExact
    <3>3. d.revision > r
      BY <3>1, <3>2 DEF QuietSince, TabTypes
    <3>4. d \in latest
      BY <3>2, <3>3 DEF LatestDeltas, QuietSince
    <3> QED
      BY <1>3, <3>2, <3>4
  <2> QED
    BY <2>1 DEF LogIsExact
<1>4. new = [p \in (DOMAIN old \cup {d.player : d \in kept}) \ gone |->
               IF \E d \in kept : d.player = p
               THEN (CHOOSE d \in kept : d.player = p).entry ELSE old[p]]
  BY DEF Replayed
<1> HIDE DEF new, latest
<1>5. ASSUME NEW p \in Players
      PROVE  Same(new, EntryRows(entries), p)
  <2>1. CASE \A d \in latest : d.player # p
    BY <1>3, <1>4, <2>1 DEF Same
  <2>2. CASE \E d \in kept : d.player = p
    <3> DEFINE c == CHOOSE d \in kept : d.player = p
    <3>1. c \in kept /\ c.player = p
      BY <2>2
    <3>2. p \in DOMAIN entries /\ entries[p].shown = c.entry
      BY <1>2, <3>1 DEF Tells
    <3>3. p \notin gone
      BY <1>2, <3>2 DEF Tells
    <3>4. p \in DOMAIN new /\ new[p] = c.entry
      BY <1>4, <2>2, <3>3
    <3> QED
      BY <3>2, <3>4 DEF Same, EntryRows
  <2>3. CASE p \in gone
    <3>1. p \notin DOMAIN entries
      BY <1>2, <2>3 DEF Tells
    <3> QED
      BY <1>4, <2>3, <3>1 DEF Same, EntryRows
  <2> QED
    BY <2>1, <2>2, <2>3
<1>6. new = EntryRows(entries)
  <2>1. DOMAIN new \subseteq Players
    BY <1>1, <1>2, <1>4, RowsAreFunctions
  <2>2. /\ DOMAIN new = DOMAIN EntryRows(entries)
        /\ \A p \in DOMAIN new : new[p] = EntryRows(entries)[p]
    BY <1>5, <2>1, EntriesAreRows DEF Same, TabTypes
  <2>3. new = [p \in DOMAIN new |-> new[p]]
    BY <1>4
  <2>4. EntryRows(entries) = [p \in DOMAIN EntryRows(entries) |-> EntryRows(entries)[p]]
    BY DEF EntryRows
  <2> QED
    BY <2>2, <2>3, <2>4
<1> QED
  BY <1>6 DEF new, latest

-----------------------------------------------------------------------------
(* Writers.                                                                *)

(* What a transaction that changed the given players does.                 *)
Commits(changed) ==
  /\ head' = [revision |-> head.revision + 1, digest |-> Digest(EntryRows(entries'))]
  /\ revisions' = [r \in DOMAIN revisions \cup {head.revision + 1} |->
       IF r = head.revision + 1 THEN Digest(EntryRows(entries')) ELSE revisions[r]]
  /\ history' = [r \in 0 .. head.revision + 1 |->
       IF r = head.revision + 1 THEN EntryRows(entries') ELSE history[r]]
  /\ entries' \in Tables
  /\ changed # {} /\ changed \subseteq Players
  /\ \A p \in Players \ changed : Same(EntryRows(entries'), EntryRows(entries), p)
  /\ \A p \in DOMAIN entries' :
       \/ entries'[p].shown.last_at = now
       \/ p \in DOMAIN entries /\ entries'[p].shown.last_at = entries[p].shown.last_at
  /\ deltas \subseteq deltas'
  /\ \A d \in deltas' \ deltas :
       d.revision = head.revision + 1 /\ d.player \in changed /\ Tells(d)'
  /\ \A p \in changed : \E d \in deltas' : d.player = p /\ d.revision = head.revision + 1
  /\ UNCHANGED <<client_vars, now>>

(* A transaction adds a revision and leaves the earlier ones.              *)
LEMMA CommitExtends ==
  ASSUME TabTypes, RevisionsAreExact, NEW changed, Commits(changed)
  PROVE  /\ TabTypes'
         /\ head'.revision = head.revision + 1
         /\ \A r \in 0 .. head.revision : r \in 0 .. head'.revision /\ history'[r] = history[r]
         /\ history'[head'.revision] = EntryRows(entries')
<1>1. head.revision \in Nat /\ head'.revision = head.revision + 1
  BY DEF TabTypes, Commits
<1>2. EntryRows(entries') \in RowSets
  BY EntriesAreRows DEF Commits
<1>3. history' \in [0 .. head'.revision -> RowSets]
  BY <1>1, <1>2 DEF TabTypes, Commits
<1>4. \A d \in deltas' : d.player \in Players /\ d.revision \in 1 .. head'.revision
  BY <1>1 DEF TabTypes, Commits
<1>5. TabTypes'
  BY <1>1, <1>3, <1>4 DEF TabTypes, Commits, client_vars
<1> QED
  BY <1>1, <1>5 DEF Commits

(* A commit takes the next revision.                                       *)
LEMMA CommitKeepsRevisions ==
  ASSUME TabTypes, RevisionsAreExact, NEW changed, Commits(changed)
  PROVE  RevisionsAreExact'
<1>1. /\ head.revision \in Nat /\ head'.revision = head.revision + 1
      /\ \A r \in 0 .. head.revision : history'[r] = history[r]
      /\ history'[head'.revision] = EntryRows(entries')
  BY CommitExtends DEF TabTypes
<1>2. history'[0] = Nothing
  BY <1>1 DEF RevisionsAreExact
<1>3. revisions' = [r \in 1 .. head'.revision |-> Digest(history'[r])]
  <2>1. DOMAIN revisions = 1 .. head.revision
    BY DEF RevisionsAreExact
  <2>2. DOMAIN revisions \cup {head.revision + 1} = 1 .. head'.revision
    BY <1>1, <2>1
  <2>3. ASSUME NEW r \in 1 .. head'.revision
        PROVE  revisions'[r] = Digest(history'[r])
    <3>1. CASE r = head.revision + 1
      BY <1>1, <2>2, <3>1 DEF Commits
    <3>2. CASE r # head.revision + 1
      <4>1. r \in 1 .. head.revision
        BY <1>1, <3>2
      <4> QED
        BY <1>1, <2>2, <3>2, <4>1 DEF Commits, RevisionsAreExact
    <3> QED
      BY <3>1, <3>2
  <2> QED
    BY <2>2, <2>3, ZenonT(30) DEF Commits
<1>4. ASSUME NEW r \in 0 .. head'.revision, NEW p \in DOMAIN history'[r]
      PROVE  history'[r][p].last_at <= now'
  <2>1. CASE r \in 0 .. head.revision
    BY <1>1, <2>1 DEF RevisionsAreExact, Commits
  <2>2. CASE r = head'.revision
    <3>1. p \in DOMAIN entries' /\ history'[r][p] = entries'[p].shown
      BY <1>1, <2>2 DEF EntryRows
    <3>2. CASE entries'[p].shown.last_at = now
      BY <3>1, <3>2 DEF Commits, TabTypes
    <3>3. CASE p \in DOMAIN entries /\ entries'[p].shown.last_at = entries[p].shown.last_at
      <4>1. /\ p \in DOMAIN history[head.revision]
            /\ history[head.revision][p] = entries[p].shown
        BY <3>3 DEF EntryRows, RevisionsAreExact
      <4>2. entries[p].shown.last_at <= now
        BY <1>1, <4>1 DEF RevisionsAreExact
      <4> QED
        BY <3>1, <3>3, <4>2 DEF Commits
    <3> QED
      BY <3>1, <3>2, <3>3 DEF Commits
  <2> QED
    BY <1>1, <2>1, <2>2
<1>5. \A p \in DOMAIN rows' : rows'[p].last_at <= now'
  BY DEF RevisionsAreExact, Commits, client_vars
<1> QED
  BY <1>1, <1>2, <1>3, <1>4, <1>5 DEF RevisionsAreExact

(* What it changes is logged, so that the log leads on to the present      *)
(* rows.                                                                   *)
LEMMA CommitKeepsLog ==
  ASSUME TabTypes, RevisionsAreExact, LogIsExact, NEW changed, Commits(changed)
  PROVE  LogIsExact'
<1>1. /\ head.revision \in Nat /\ head'.revision = head.revision + 1
      /\ \A r \in 0 .. head.revision : history'[r] = history[r]
      /\ history'[head'.revision] = EntryRows(entries')
      /\ \A d \in deltas' : d.revision \in 1 .. head'.revision /\ d.player \in Players
  BY CommitExtends DEF TabTypes
<1>2. ASSUME NEW p \in changed, NEW r \in Nat, QuietSince(p, r)'
      PROVE  r >= head'.revision
  BY <1>1, <1>2 DEF Commits, QuietSince
<1>3. ASSUME NEW p \in Players \ changed, NEW r
      PROVE  QuietSince(p, r)' <=> QuietSince(p, r)
  BY <1>3 DEF Commits, QuietSince
<1>4. ASSUME NEW d \in deltas'
      PROVE  \E e \in deltas' : e.player = d.player /\ QuietSince(e.player, e.revision)'
  <2>1. CASE d.player \in changed
    <3>1. PICK e \in deltas' : e.player = d.player /\ e.revision = head.revision + 1
      BY <2>1 DEF Commits
    <3> QED
      BY <1>1, <3>1 DEF QuietSince
  <2>2. CASE d.player \notin changed
    <3>1. d \in deltas
      BY <2>2 DEF Commits
    <3>2. PICK e \in deltas : e.player = d.player /\ QuietSince(e.player, e.revision)
      BY <3>1 DEF LogIsExact
    <3> QED
      BY <1>1, <1>3, <2>2, <3>2 DEF Commits
  <2> QED
    BY <2>1, <2>2
<1>5. ASSUME NEW d \in deltas', QuietSince(d.player, d.revision)'
      PROVE  Tells(d)'
  <2>1. CASE d \notin deltas
    BY <2>1 DEF Commits
  <2>2. CASE d \in deltas
    <3>1. d.player \in Players /\ d.revision \in Nat /\ d.revision <= head.revision
      BY <2>2 DEF TabTypes
    <3>2. d.player \notin changed
      BY <1>1, <1>2, <1>5, <3>1
    <3>3. Tells(d)
      BY <1>3, <1>5, <2>2, <3>1, <3>2 DEF LogIsExact
    <3>4. Same(EntryRows(entries'), EntryRows(entries), d.player)
      BY <3>1, <3>2 DEF Commits
    <3> QED
      BY <3>3, <3>4 DEF Tells, Same, EntryRows
  <2> QED
    BY <2>1, <2>2
<1>6. ASSUME NEW p \in Players, NEW r \in 0 .. head'.revision, QuietSince(p, r)'
      PROVE  Same(history'[r], EntryRows(entries'), p)
  <2>1. CASE r = head'.revision
    BY <1>1, <2>1 DEF Same
  <2>2. CASE r # head'.revision
    <3>1. r \in 0 .. head.revision
      BY <1>1, <2>2
    <3>2. p \notin changed
      BY <1>1, <1>2, <1>6, <3>1
    <3>3. Same(history[r], EntryRows(entries), p)
      BY <1>3, <1>6, <3>1, <3>2 DEF LogIsExact
    <3>4. Same(EntryRows(entries'), EntryRows(entries), p)
      BY <3>2 DEF Commits
    <3> QED
      BY <1>1, <3>1, <3>3, <3>4 DEF Same
  <2> QED
    BY <2>1, <2>2
<1> QED
  BY <1>4, <1>5, <1>6 DEF LogIsExact

(* What is added is from now, later than the rows of before a removal.     *)
LEMMA CommitKeepsClient ==
  ASSUME TabTypes, RevisionsAreExact, ClientIsSound, NEW changed, Commits(changed)
  PROVE  ClientIsSound'
<1>1. /\ head.revision \in Nat /\ head'.revision = head.revision + 1
      /\ \A r \in 0 .. head.revision : history'[r] = history[r]
      /\ history'[head'.revision] = EntryRows(entries')
  BY CommitExtends DEF TabTypes
<1>2. UNCHANGED <<sync, rows, base, tainted, now>>
  BY DEF Commits, client_vars
<1>3. ASSUME base # <<>>, RowsAreReal PROVE RowsAreReal'
  BY <1>1, <1>2, <1>3 DEF RowsAreReal, TabTypes
<1>4. ASSUME RowsAreOutdated PROVE RowsAreOutdated'
  <2> SUFFICES ASSUME NEW p \in DOMAIN rows, NEW r \in 0 .. head'.revision,
                      NEW q \in DOMAIN history'[r]
               PROVE  rows[p].last_at < history'[r][q].last_at
    BY <1>2, <1>4 DEF RowsAreOutdated
  <2>1. CASE r \in 0 .. head.revision
    BY <1>1, <1>4, <2>1 DEF RowsAreOutdated
  <2>2. CASE r = head'.revision
    <3>1. q \in DOMAIN entries' /\ history'[r][q] = entries'[q].shown
      BY <1>1, <2>2 DEF EntryRows
    <3>2. CASE entries'[q].shown.last_at = now
      BY <1>4, <3>1, <3>2 DEF RowsAreOutdated
    <3>3. CASE q \in DOMAIN entries /\ entries'[q].shown.last_at = entries[q].shown.last_at
      <4>1. /\ q \in DOMAIN history[head.revision]
            /\ history[head.revision][q] = entries[q].shown
        BY <3>3 DEF EntryRows, RevisionsAreExact
      <4> QED
        BY <1>1, <1>4, <3>1, <3>3, <4>1 DEF RowsAreOutdated
    <3> QED
      BY <3>1, <3>2, <3>3 DEF Commits
  <2> QED
    BY <1>1, <2>1, <2>2
<1> QED
  BY <1>1, <1>2, <1>3, <1>4 DEF ClientIsSound, TabTypes

(* A commit keeps the invariant.                                           *)
LEMMA CommitKeeps ==
  ASSUME TabInv, NEW changed, Commits(changed)
  PROVE  TabInv'
BY CommitExtends, CommitKeepsRevisions, CommitKeepsLog, CommitKeepsClient DEF TabInv

(* A report is a transaction, or changes nothing                           *)
(* (upsert_players_with_priority).                                         *)
LEMMA UpsertCommits ==
  ASSUME TabTypes, NEW D \in SUBSET Players, NEW report \in [D -> Labels],
         NEW priority \in Priorities, Upsert(report, priority)
  PROVE  (\E changed : Commits(changed)) \/ UNCHANGED tab_vars
<1> DEFINE changed == {p \in DOMAIN report : Accepts(p, report[p], priority)}
           stored == [p \in DOMAIN entries \cup changed |->
                        IF p \in changed THEN NewEntry(p, report[p], priority)
                                         ELSE entries[p]]
<1>1. /\ entries' = stored
      /\ IF changed = {}
         THEN UNCHANGED <<deltas, revisions, head, history>>
         ELSE /\ deltas' = deltas \cup {[revision |-> head.revision + 1, player |-> p,
                                         entry |-> stored[p].shown] : p \in changed}
              /\ WriteHead
      /\ UNCHANGED <<client_vars, now>>
  BY DEF Upsert
<1>2. changed \subseteq Players /\ \A p \in changed : report[p] \in Labels
  OBVIOUS
<1>3. /\ DOMAIN entries \subseteq Players /\ entries = [p \in DOMAIN entries |-> entries[p]]
      /\ \A p \in DOMAIN entries : entries[p] \in [shown : Shown, priority : Priorities]
  BY EntriesAreRows DEF TabTypes
<1> HIDE DEF changed
<1>4. CASE changed = {}
  <2>1. entries' = entries
    BY <1>1, <1>3, <1>4
  <2> QED
    BY <1>1, <1>4, <2>1 DEF tab_vars, store_vars
<1>5. CASE changed # {}
  <2>1. ASSUME NEW p \in changed
        PROVE  /\ NewEntry(p, report[p], priority) \in [shown : Shown, priority : Priorities]
               /\ NewEntry(p, report[p], priority).shown.last_at = now
    <3>1. (IF p \in DOMAIN entries /\ entries[p].shown.label = report[p]
           THEN entries[p].shown.first_at ELSE now) \in Nat
      BY <1>3 DEF Shown, TabTypes
    <3>2. head.revision + 1 \in Nat /\ now \in Nat
      BY DEF TabTypes
    <3> QED
      BY <1>2, <3>1, <3>2 DEF NewEntry, Shown
  <2>2. /\ DOMAIN stored = DOMAIN entries \cup changed
        /\ \A p \in changed : stored[p] = NewEntry(p, report[p], priority)
        /\ \A p \in DOMAIN entries \ changed : stored[p] = entries[p]
        /\ stored \in [DOMAIN entries \cup changed -> [shown : Shown, priority : Priorities]]
    BY <1>3, <2>1
  <2> HIDE DEF stored
  <2>3. entries' \in Tables
    BY <1>1, <1>2, <1>3, <2>2 DEF Tables
  <2>4. \A p \in Players \ changed : Same(EntryRows(entries'), EntryRows(entries), p)
    BY <1>1, <2>2 DEF Same, EntryRows
  <2>5. \A p \in DOMAIN entries' :
          \/ entries'[p].shown.last_at = now
          \/ p \in DOMAIN entries /\ entries'[p].shown.last_at = entries[p].shown.last_at
    BY <1>1, <2>1, <2>2
  <2>6. ASSUME NEW d \in deltas' \ deltas
        PROVE  d.revision = head.revision + 1 /\ d.player \in changed /\ Tells(d)'
    <3>1. PICK p \in changed : d = [revision |-> head.revision + 1, player |-> p,
                                    entry |-> stored[p].shown]
      BY <1>1, <1>5
    <3>2. "entry" \in DOMAIN d /\ d.player = p /\ d.entry = stored[p].shown
      BY <3>1
    <3> QED
      BY <1>1, <2>2, <3>1, <3>2 DEF Tells
  <2>7. ASSUME NEW p \in changed
        PROVE  \E d \in deltas' : d.player = p /\ d.revision = head.revision + 1
    <3>1. [revision |-> head.revision + 1, player |-> p, entry |-> stored[p].shown] \in deltas'
      BY <1>1, <1>5
    <3> QED
      BY <3>1
  <2>8. deltas \subseteq deltas'
    BY <1>1, <1>5
  <2>9. Commits(changed)
    BY <1>1, <1>2, <1>5, <2>3, <2>4, <2>5, <2>6, <2>7, <2>8 DEF Commits, WriteHead
  <2> QED
    BY <2>9
<1> QED
  BY <1>4, <1>5

(* So is a deletion by an administrator (admin_delete).                    *)
LEMMA AdminDeleteCommits ==
  ASSUME TabTypes, NEW chosen \in SUBSET Players, AdminDelete(chosen)
  PROVE  \E changed : Commits(changed)
<1> DEFINE deleted == chosen \cap DOMAIN entries
<1>1. /\ deleted # {} /\ deleted \subseteq Players
      /\ entries' = [p \in DOMAIN entries \ deleted |-> entries[p]]
      /\ deltas' = deltas \cup {[revision |-> head.revision + 1, player |-> p] : p \in deleted}
      /\ WriteHead
      /\ UNCHANGED <<client_vars, now>>
  BY DEF AdminDelete, Restrict
<1>2. /\ DOMAIN entries \subseteq Players
      /\ \A p \in DOMAIN entries : entries[p] \in [shown : Shown, priority : Priorities]
  BY EntriesAreRows DEF TabTypes
<1> HIDE DEF deleted
<1>3. entries' \in Tables
  BY <1>1, <1>2 DEF Tables
<1>4. \A p \in Players \ deleted : Same(EntryRows(entries'), EntryRows(entries), p)
  BY <1>1 DEF Same, EntryRows
<1>5. ASSUME NEW d \in deltas' \ deltas
      PROVE  d.revision = head.revision + 1 /\ d.player \in deleted /\ Tells(d)'
  <2>1. PICK p \in deleted : d = [revision |-> head.revision + 1, player |-> p]
    BY <1>1
  <2>2. "entry" \notin DOMAIN d
    BY <2>1
  <2> QED
    BY <1>1, <2>1, <2>2 DEF Tells
<1>6. ASSUME NEW p \in deleted
      PROVE  \E d \in deltas' : d.player = p /\ d.revision = head.revision + 1
  <2>1. [revision |-> head.revision + 1, player |-> p] \in deltas'
    BY <1>1
  <2> QED
    BY <2>1
<1>7. Commits(deleted)
  BY <1>1, <1>3, <1>4, <1>5, <1>6 DEF Commits, WriteHead
<1> QED
  BY <1>7

(* Whatever the room held, it holds nothing now, and what a client has     *)
(* kept of it is older than all that follows (delete_room_data).           *)
LEMMA PurgeKeeps ==
  ASSUME TabInv, Purge
  PROVE  TabInv'
<1>1. /\ now \in Nat /\ now' = now + 1 /\ sync = Idle /\ sync' = Idle
      /\ entries' = Nothing /\ deltas' = {} /\ revisions' = Nothing
      /\ head'.revision = 0 /\ history' = [r \in {0} |-> Nothing]
      /\ rows' = rows /\ base' = base
  BY DEF Purge, TabInv, TabTypes, NoHead
<1>2. 0 .. head'.revision = {0} /\ 1 .. head'.revision = {}
  BY <1>1
<1>3. TabTypes'
  BY <1>1, <1>2, NothingIsRows DEF TabInv, TabTypes
<1>4. RevisionsAreExact'
  <2>1. revisions' = [r \in 1 .. head'.revision |-> Digest(history'[r])]
    BY <1>1, <1>2 DEF Nothing
  <2>2. \A p \in DOMAIN rows' : rows'[p].last_at <= now'
    BY <1>1, RowsAreFunctions DEF TabInv, TabTypes, RevisionsAreExact, Shown
  <2> QED
    BY <1>1, <1>2, <2>1, <2>2, NothingIsRows DEF RevisionsAreExact
<1>5. LogIsExact'
  BY <1>1, <1>2, NothingIsRows DEF LogIsExact, Same
<1>6. ASSUME base' # <<>>, ~tainted'
      PROVE  RowsAreOutdated'
  <2>1. Digest(rows) = base[1].digest
    BY <1>1, <1>6 DEF Purge
  <2>2. \A p \in DOMAIN rows : rows[p].last_at < now'
    BY <1>1, RowsAreFunctions DEF TabInv, TabTypes, RevisionsAreExact, Shown
  <2> QED
    BY <1>1, <1>2, <2>1, <2>2, NothingIsRows DEF RowsAreOutdated
<1>7. ClientIsSound'
  BY <1>1, <1>6 DEF ClientIsSound, Idle
<1> QED
  BY <1>3, <1>4, <1>5, <1>7 DEF TabInv

(* Time passes.                                                            *)
LEMMA TickKeeps ==
  ASSUME TabInv, Tick
  PROVE  TabInv'
<1>1. /\ now \in Nat /\ now' = now + 1
      /\ UNCHANGED <<entries, deltas, revisions, head, history, sync, rows, base, tainted>>
  BY DEF Tick, TabInv, TabTypes, store_vars, client_vars
<1>2. TabTypes'
  BY <1>1 DEF TabInv, TabTypes
<1>3. RevisionsAreExact'
  <2>1. ASSUME NEW f \in RowSets, NEW p \in DOMAIN f, f[p].last_at <= now
        PROVE  f[p].last_at <= now'
    BY <1>1, <2>1, RowsAreFunctions DEF Shown
  <2>2. rows \in RowSets /\ \A r \in 0 .. head.revision : history[r] \in RowSets
    BY DEF TabInv, TabTypes
  <2> QED
    BY <1>1, <2>1, <2>2 DEF TabInv, RevisionsAreExact
<1>4. LogIsExact'
  BY <1>1 DEF TabInv, LogIsExact, QuietSince, Tells
<1>5. RowsAreOutdated => RowsAreOutdated'
  <2>1. rows \in RowSets
    BY DEF TabInv, TabTypes
  <2> QED
    BY <1>1, <2>1, RowsAreFunctions DEF RowsAreOutdated, Shown
<1>6. ClientIsSound'
  BY <1>1, <1>5 DEF TabInv, ClientIsSound, RowsAreReal
<1> QED
  BY <1>2, <1>3, <1>4, <1>6 DEF TabInv

-----------------------------------------------------------------------------
(* The statements of a sync.                                               *)

(* They leave the store alone.                                             *)
LEMMA StoreKept ==
  ASSUME TabInv, UNCHANGED <<store_vars, now, history>>,
         rows' \in RowSets, base' # <<>> => base'[1].revision \in Nat,
         \A p \in DOMAIN rows' : rows'[p].last_at <= now
  PROVE  TabTypes' /\ RevisionsAreExact' /\ LogIsExact'
<1>1. UNCHANGED <<entries, deltas, revisions, head, history, now>>
  BY DEF store_vars
<1>2. TabTypes'
  BY <1>1 DEF TabInv, TabTypes
<1>3. RevisionsAreExact'
  BY <1>1 DEF TabInv, RevisionsAreExact
<1>4. LogIsExact'
  BY <1>1 DEF TabInv, LogIsExact, QuietSince, Tells
<1> QED
  BY <1>2, <1>3, <1>4

(* A base that is found usable is of this room: rows of before a removal   *)
(* do not have the digest of anything it has held, unless both are empty   *)
(* (TabHistoryStore::sync).                                                *)
LEMMA UsableIsReal ==
  ASSUME TabInv, NEW oldest, ~BaseUnusable(oldest)
  PROVE  /\ base # <<>> /\ base[1].revision \in 0 .. head.revision
         /\ ~tainted => RowsAreReal
<1> DEFINE r == base[1].revision
<1>1. base # <<>> /\ r \in Nat /\ head.revision \in Nat
  BY DEF BaseUnusable, TabInv, TabTypes
<1>2. DOMAIN revisions = 1 .. head.revision
  BY DEF TabInv, RevisionsAreExact
<1>3. r \in 0 .. head.revision
  BY <1>1, <1>2 DEF BaseUnusable
<1>4. Digest(history[r]) = base[1].digest
  <2>1. KnownDigest(r) = base[1].digest
    BY DEF BaseUnusable
  <2>2. CASE r = 0
    BY <2>1, <2>2, NothingHasNoDigest DEF KnownDigest, TabInv, RevisionsAreExact
  <2>3. CASE r # 0
    <3>1. r \in 1 .. head.revision
      BY <1>1, <1>3, <2>3
    <3> QED
      BY <2>1, <2>3, <3>1 DEF KnownDigest, TabInv, RevisionsAreExact
  <2> QED
    BY <2>2, <2>3
<1>5. ASSUME RowsAreOutdated
      PROVE  RowsAreReal
  <2>1. Digest(rows) = Digest(history[r])
    BY <1>4, <1>5 DEF RowsAreOutdated
  <2>2. /\ DOMAIN rows = DOMAIN history[r]
        /\ \A p \in DOMAIN rows : rows[p].last_at = history[r][p].last_at
    BY <2>1, EqualDigests
  <2>3. rows \in RowSets /\ history[r] \in RowSets
    BY <1>3 DEF TabInv, TabTypes
  <2>4. DOMAIN rows = {}
    <3> SUFFICES ASSUME NEW p \in DOMAIN rows PROVE FALSE
      OBVIOUS
    <3>1. rows[p].last_at < history[r][p].last_at
      BY <1>3, <1>5, <2>2 DEF RowsAreOutdated
    <3>2. rows[p].last_at \in Nat
      BY <2>3, RowsAreFunctions DEF Shown
    <3> QED
      BY <2>2, <3>1, <3>2
  <2>5. rows = history[r]
    BY <2>2, <2>3, <2>4, RowsAreFunctions
  <2> QED
    BY <1>1, <1>3, <2>5 DEF RowsAreReal
<1> QED
  BY <1>1, <1>3, <1>5 DEF TabInv, ClientIsSound

(* So do the statements of a sync that read no rows.                       *)
LEMMA StatementsKeep ==
  ASSUME TabInv, Request \/ ReadHead \/ ReadOldest \/ Reset \/ Abort
  PROVE  TabInv'
<1>1. /\ UNCHANGED <<store_vars, rows, tainted, now, history>>
      /\ base' \in {base, <<>>}
      /\ sync'.step # "deltas"
  BY DEF Request, ReadHead, ReadOldest, Reset, Abort, Idle
<1>2. UNCHANGED <<head, history, rows, now>>
  BY <1>1 DEF store_vars
<1>3. TabTypes' /\ RevisionsAreExact' /\ LogIsExact'
  BY <1>1, StoreKept DEF TabInv, TabTypes, RevisionsAreExact
<1>4. \/ sync'.step \notin {"oldest", "digest", "entries", "reset", "deltas"}
      \/ sync'.head.revision \in 0 .. head.revision
  <2>1. CASE Request \/ Reset \/ Abort
    BY <2>1 DEF Request, Reset, Abort, Idle
  <2>2. CASE ReadHead
    BY <2>2 DEF ReadHead, TabInv, TabTypes
  <2>3. CASE ReadOldest
    BY <2>3 DEF ReadOldest, TabInv, ClientIsSound
  <2> QED
    BY <2>1, <2>2, <2>3
<1>5. ClientIsSound'
  BY <1>1, <1>2, <1>4 DEF TabInv, ClientIsSound, RowsAreReal, RowsAreOutdated
<1> QED
  BY <1>3, <1>5 DEF TabInv

(* The digest is read.                                                     *)
LEMMA ReadDigestKeeps ==
  ASSUME TabInv, ReadDigest
  PROVE  TabInv'
<1>1. /\ UNCHANGED <<store_vars, rows, base, tainted, now, history>>
      /\ sync'.head.revision \in 0 .. head.revision
      /\ sync'.step = "deltas" => ~BaseUnusable(sync.oldest)
  BY DEF ReadDigest, TabInv, ClientIsSound
<1>2. UNCHANGED <<head, history, rows, now>>
  BY <1>1 DEF store_vars
<1>3. TabTypes' /\ RevisionsAreExact' /\ LogIsExact'
  BY <1>1, StoreKept DEF TabInv, TabTypes, RevisionsAreExact
<1>4. sync'.step = "deltas" => /\ base # <<>> /\ base[1].revision <= head.revision
                               /\ ~tainted => RowsAreReal
  BY <1>1, UsableIsReal DEF TabInv, TabTypes
<1>5. ClientIsSound'
  BY <1>1, <1>2, <1>4 DEF TabInv, ClientIsSound, RowsAreReal, RowsAreOutdated
<1> QED
  BY <1>3, <1>5 DEF TabInv

(* The last statement of a sync leaves the client with what the room       *)
(* holds, whatever was committed since the first.                          *)
LEMMA SyncIsExact ==
  ASSUME TabInv, ReadEntries \/ ReadDeltas
  PROVE  /\ ~tainted' => rows' = EntryRows(entries)
         /\ base' # <<>> /\ base'[1].revision \in 0 .. head.revision
<1>1. base' = <<sync.head>> /\ sync.head.revision \in 0 .. head.revision
  BY DEF ReadEntries, ReadDeltas, TabInv, ClientIsSound
<1>2. CASE ReadEntries
  BY <1>1, <1>2 DEF ReadEntries
<1>3. CASE ReadDeltas /\ ~tainted'
  <2>1. RowsAreReal /\ base[1].revision \in Nat /\ base[1].revision <= head.revision
    BY <1>3 DEF ReadDeltas, TabInv, TabTypes, ClientIsSound
  <2>2. PICK k \in base[1].revision .. head.revision : rows = history[k]
    BY <2>1 DEF RowsAreReal
  <2>3. /\ base[1].revision \in 0 .. head.revision /\ k \in 0 .. head.revision
        /\ base[1].revision <= k
    BY <2>1, <2>2 DEF TabInv, TabTypes
  <2>4. Replayed(history[k], LatestDeltas(base[1].revision)) = EntryRows(entries)
    BY <2>3, ReplayLeads DEF TabInv
  <2> QED
    BY <1>1, <1>3, <2>2, <2>4 DEF ReadDeltas
<1> QED
  BY <1>1, <1>2, <1>3

(* Rows that a torn client puts together are rows nevertheless.            *)
LEMMA ReplayedRows ==
  ASSUME TabTypes, RevisionsAreExact, LogIsExact, NEW r
  PROVE  /\ Replayed(rows, LatestDeltas(r)) \in RowSets
         /\ \A p \in DOMAIN Replayed(rows, LatestDeltas(r)) :
              Replayed(rows, LatestDeltas(r))[p].last_at <= now
<1> DEFINE latest == LatestDeltas(r)
           kept == {d \in latest : "entry" \in DOMAIN d}
           gone == {d.player : d \in latest \ kept}
           new == Replayed(rows, latest)
<1>1. new = [p \in (DOMAIN rows \cup {d.player : d \in kept}) \ gone |->
               IF \E d \in kept : d.player = p
               THEN (CHOOSE d \in kept : d.player = p).entry ELSE rows[p]]
  BY DEF Replayed
<1>2. ASSUME NEW d \in kept
      PROVE  /\ d.player \in Players
             /\ d.entry \in Shown /\ d.entry.last_at <= now
  <2>1. d \in deltas /\ QuietSince(d.player, d.revision)
    BY DEF LatestDeltas, QuietSince
  <2>2. d.player \in DOMAIN entries /\ entries[d.player].shown = d.entry
    BY <2>1 DEF LogIsExact, Tells
  <2>3. /\ d.player \in DOMAIN history[head.revision]
        /\ history[head.revision][d.player] = d.entry
    BY <2>2 DEF RevisionsAreExact, EntryRows
  <2>4. history[head.revision] \in RowSets /\ head.revision \in 0 .. head.revision
    BY DEF TabTypes
  <2> QED
    BY <2>1, <2>3, <2>4, RowsAreFunctions DEF RevisionsAreExact, TabTypes
<1> HIDE DEF new, latest
<1>3. ASSUME NEW p \in DOMAIN new
      PROVE  p \in Players /\ new[p] \in Shown /\ new[p].last_at <= now
  <2>1. CASE \E d \in kept : d.player = p
    <3>1. PICK d \in kept : d = CHOOSE e \in kept : e.player = p
      BY <2>1
    <3>2. d.player = p
      BY <2>1, <3>1
    <3>3. new[p] = d.entry
      BY <1>1, <2>1, <3>1
    <3> QED
      BY <1>2, <3>2, <3>3
  <2>2. CASE ~\E d \in kept : d.player = p
    <3>1. p \in DOMAIN rows /\ new[p] = rows[p]
      BY <1>1, <2>2
    <3> QED
      BY <3>1, RowsAreFunctions DEF TabTypes, RevisionsAreExact
  <2> QED
    BY <2>1, <2>2
<1>4. new = [p \in DOMAIN new |-> new[p]]
  BY <1>1
<1>5. new \in RowSets
  BY <1>3, <1>4 DEF RowSets
<1> QED
  BY <1>3, <1>5 DEF new, latest

(* The last statement reads the rows or the changes.                       *)
LEMMA SyncEndKeeps ==
  ASSUME TabInv, ReadEntries \/ ReadDeltas
  PROVE  TabInv'
<1>1. /\ UNCHANGED <<store_vars, now, history>> /\ sync' = Idle
      /\ \/ rows' = EntryRows(entries)
         \/ rows' = Replayed(rows, LatestDeltas(base[1].revision))
  BY DEF ReadEntries, ReadDeltas
<1>2. UNCHANGED <<entries, head, history, now>>
  BY <1>1 DEF store_vars
<1>3. rows' \in RowSets /\ \A p \in DOMAIN rows' : rows'[p].last_at <= now
  <2>1. CASE rows' = EntryRows(entries)
    <3>1. head.revision \in 0 .. head.revision /\ rows' = history[head.revision]
      BY <2>1 DEF TabInv, TabTypes, RevisionsAreExact
    <3> QED
      BY <3>1 DEF TabInv, TabTypes, RevisionsAreExact
  <2>2. CASE rows' = Replayed(rows, LatestDeltas(base[1].revision))
    BY <2>2, ReplayedRows DEF TabInv
  <2> QED
    BY <1>1, <2>1, <2>2
<1>4. base' # <<>> /\ base'[1].revision \in 0 .. head.revision
  BY SyncIsExact
<1>5. TabTypes' /\ RevisionsAreExact' /\ LogIsExact'
  BY <1>1, <1>3, <1>4, StoreKept
<1>6. ~tainted' => RowsAreReal'
  <2> SUFFICES ASSUME ~tainted' PROVE RowsAreReal'
    OBVIOUS
  <2>1. rows' = history'[head'.revision]
    BY <1>2, SyncIsExact DEF TabInv, RevisionsAreExact
  <2>2. head'.revision \in base'[1].revision .. head'.revision
    BY <1>2, <1>4 DEF TabInv, TabTypes
  <2> QED
    BY <2>1, <2>2 DEF RowsAreReal
<1>7. ClientIsSound'
  BY <1>1, <1>6 DEF ClientIsSound, Idle
<1> QED
  BY <1>5, <1>7 DEF TabInv

-----------------------------------------------------------------------------
(* At first nothing has been committed.                                    *)
LEMMA TabInvInit == TabInit => TabInv
<1> SUFFICES ASSUME TabInit PROVE TabInv
  OBVIOUS
<1>1. /\ head.revision = 0 /\ 0 .. head.revision = {0} /\ 1 .. head.revision = {}
      /\ entries = Nothing /\ deltas = {} /\ revisions = Nothing /\ now = 0
      /\ history = [r \in {0} |-> Nothing] /\ rows = Nothing /\ base = <<>>
      /\ sync = Idle
  BY DEF TabInit, NoHead
<1>2. TabTypes
  BY <1>1, NothingIsRows DEF TabTypes
<1>3. RevisionsAreExact
  <2>1. revisions = [r \in 1 .. head.revision |-> Digest(history[r])]
    BY <1>1 DEF Nothing
  <2> QED
    BY <1>1, <2>1, NothingIsRows DEF RevisionsAreExact
<1>4. LogIsExact
  BY <1>1, NothingIsRows DEF LogIsExact, Same
<1>5. ClientIsSound
  BY <1>1 DEF ClientIsSound, Idle
<1> QED
  BY <1>2, <1>3, <1>4, <1>5 DEF TabInv

(* Nothing happens.                                                        *)
LEMMA TabInvStutters ==
  ASSUME TabInv, UNCHANGED tab_vars
  PROVE  TabInv'
<1>1. UNCHANGED <<entries, deltas, revisions, head, history, now, sync, rows, base, tainted>>
  BY DEF tab_vars, store_vars, client_vars
<1> QED
  BY <1>1 DEF TabInv, TabTypes, RevisionsAreExact, LogIsExact, ClientIsSound, QuietSince,
              Tells, RowsAreReal, RowsAreOutdated

(* Every step keeps the invariant.                                         *)
LEMMA TabInvNext ==
  ASSUME TabInv, [TabNext]_tab_vars
  PROVE  TabInv'
<1>1. CASE Observe
  <2>1. PICK report \in Reports, priority \in Priorities : Upsert(report, priority)
    BY <1>1 DEF Observe
  <2>2. PICK D \in SUBSET Players : report \in [D -> Labels]
    BY DEF Reports
  <2>3. (\E changed : Commits(changed)) \/ UNCHANGED tab_vars
    BY <2>1, <2>2, UpsertCommits DEF TabInv
  <2> QED
    BY <2>3, CommitKeeps, TabInvStutters
<1>2. CASE \E chosen \in SUBSET Players : AdminDelete(chosen)
  BY <1>2, AdminDeleteCommits, CommitKeeps DEF TabInv
<1>3. CASE Purge \/ Tick
  BY <1>3, PurgeKeeps, TickKeeps
<1>4. CASE Sync
  BY <1>4, StatementsKeep, ReadDigestKeeps, SyncEndKeeps DEF Sync
<1> QED
  BY <1>1, <1>2, <1>3, <1>4, TabInvStutters DEF TabNext, Write

(* Digests, log and client are exact at any time, whoever writes between   *)
(* the statements of a sync.                                               *)
THEOREM TabHistoryInvariant == TabSpec => []TabInv
BY TabInvInit, TabInvNext, PTL DEF TabSpec

(* From every revision of the room the log leads to its present contents   *)
(* (upsert_players_with_priority, admin_delete).                           *)
THEOREM LogLeadsToPresent == TabSpec => []DeltasReplay
<1>1. TabInv => DeltasReplay
  <2> SUFFICES ASSUME TabInv, NEW r \in 0 .. head.revision
               PROVE  Replayed(history[r], LatestDeltas(r)) = EntryRows(entries)
    BY DEF DeltasReplay
  <2>1. r <= r
    BY DEF TabInv, TabTypes
  <2> QED
    BY <2>1, ReplayLeads DEF TabInv
<1> QED
  BY <1>1, TabHistoryInvariant, PTL

(* A client holds what the room held at one moment, not before the head it *)
(* was given; after a removal its base is refused or still right           *)
(* (TabHistoryStore::sync, delete_room_data).                              *)
THEOREM ClientHoldsOneMoment == TabSpec => []RowsWereReal
<1>1. TabInv => RowsWereReal
  <2> SUFFICES ASSUME TabInv, base # <<>>, ~tainted,
                      ~(base[1].revision > head.revision),
                      KnownDigest(base[1].revision) = base[1].digest
               PROVE  \E r \in base[1].revision .. head.revision :
                        Digest(rows) = Digest(history[r])
    BY DEF RowsWereReal
  <2>1. base[1].revision \in 0 .. head.revision
    BY DEF TabInv, TabTypes
  <2>2. ~BaseUnusable(base[1].revision)
    BY <2>1 DEF BaseUnusable, TabInv, TabTypes, RevisionsAreExact
  <2>3. RowsAreReal
    BY <2>2, UsableIsReal
  <2> QED
    BY <2>3 DEF RowsAreReal
<1> QED
  BY <1>1, TabHistoryInvariant, PTL

(* A sync leaves the client with exactly what the room holds at its last   *)
(* statement, so a quiet one with what its head stands for, even if an     *)
(* earlier sync was torn by writers.                                       *)
THEOREM QuietSyncsAreExact == TabSpec => QuietSyncIsExact
<1>1. TabInv /\ [TabNext]_tab_vars =>
        [(ReadEntries \/ ReadDeltas) /\ sync.head = head /\ ~tainted' =>
            rows' = EntryRows(entries)]_tab_vars
  BY SyncIsExact
<1> QED
  BY <1>1, TabHistoryInvariant, PTL DEF TabSpec, QuietSyncIsExact

-----------------------------------------------------------------------------
(***************************************************************************)
(* The relationship store: Relationships.                                  *)
(***************************************************************************)

(* The chunks upserted into a store since it was emptied, and their rows.  *)
Upserted(s) == {Graphs[piece[1]][piece[2]] : piece \in since_clear[s]}

(* A store holds one row per player, of the players of the chunks upserted *)
(* since it was emptied, and exactly their affiliations and edges.         *)
DirectoryIsFull ==
  /\ \A s \in Stores :
       /\ \A a, b \in players[s] : a.id = b.id => a = b
       /\ {row.id : row \in players[s]} = {row.id : row \in UNION {c.players : c \in Upserted(s)}}
       /\ affiliations[s] = UNION {c.affiliations : c \in Upserted(s)}
       /\ edges[s] = UNION {c.edges : c \in Upserted(s)}
       /\ since_clear[s] # {} => s[1] \in {RealmOf[p] : p \in Publishers}

(* What a publisher has still to apply is a chunk of a graph, for a store  *)
(* of its own realm.                                                       *)
ApplyingTypes ==
  /\ DOMAIN players = Stores /\ DOMAIN affiliations = Stores /\ DOMAIN edges = Stores
  /\ DOMAIN since_clear = Stores /\ DOMAIN applying = Publishers
  /\ \A p \in Publishers : \A job \in applying[p] :
       /\ job.store \in Stores /\ job.graph \in DOMAIN Graphs
       /\ job.index \in DOMAIN Graphs[job.graph]
       /\ job.store[1] = RealmOf[p]

DirectoryInv == ApplyingTypes /\ DirectoryIsFull

Kept == UNCHANGED <<players, affiliations, edges, since_clear>>

(* Steps of the readers leave the store as it is.                          *)
LEMMA KeptIsFull ==
  ASSUME DirectoryIsFull, Kept
  PROVE  DirectoryIsFull'
BY Zenon DEF DirectoryIsFull, Upserted, Kept

(* The first chunk of a graph empties its store; any other leaves it as it *)
(* is until it is applied (upsert).                                        *)
LEMMA FullAfterPublish ==
  ASSUME DirectoryInv, NEW p \in Publishers, NEW r \in Realms, NEW d \in Datasets,
         NEW g \in DOMAIN Graphs, NEW i \in DOMAIN Graphs[g], PublishChunk(p, r, d, g, i)
  PROVE  DirectoryInv'
<1> DEFINE s == <<r, d>>
           job == [store |-> s, graph |-> g, index |-> i]
<1>0. s \in Stores /\ s[1] = r /\ r = RealmOf[p]
  BY DEF Stores, PublishChunk
<1> HIDE DEF s
<1>1. applying' = [applying EXCEPT ![p] = {job}]
  BY Zenon DEF PublishChunk, s
<1>2. \/ Kept
      \/ /\ players' = [players EXCEPT ![s] = {}] /\ affiliations' = [affiliations EXCEPT ![s] = {}]
         /\ edges' = [edges EXCEPT ![s] = {}] /\ since_clear' = [since_clear EXCEPT ![s] = {}]
  BY Zenon DEF PublishChunk, DeleteStore, s, Kept
<1>3. job.store = s /\ job.graph = g /\ job.index = i
  OBVIOUS
<1> HIDE DEF job
<1>4. ApplyingTypes'
  <2>1. \A q \in Publishers : applying'[q] = IF q = p THEN {job} ELSE applying[q]
    BY <1>1, Zenon DEF DirectoryInv, ApplyingTypes
  <2>2. DOMAIN applying' = Publishers
    BY <1>1, Zenon DEF DirectoryInv, ApplyingTypes
  <2>3. /\ DOMAIN players' = Stores /\ DOMAIN affiliations' = Stores /\ DOMAIN edges' = Stores
        /\ DOMAIN since_clear' = Stores
    BY <1>2, Zenon DEF DirectoryInv, ApplyingTypes, Kept
  <2>4. ASSUME NEW q \in Publishers, NEW j \in applying'[q]
        PROVE  /\ j.store \in Stores /\ j.graph \in DOMAIN Graphs
               /\ j.index \in DOMAIN Graphs[j.graph] /\ j.store[1] = RealmOf[q]
    <3>1. CASE q = p
      <4>1. j = job
        BY <2>1, <2>4, <3>1
      <4> QED
        BY <1>0, <1>3, <3>1, <4>1
    <3>2. CASE q # p
      BY <2>1, <2>4, <3>2, Zenon DEF DirectoryInv, ApplyingTypes
    <3> QED
      BY <3>1, <3>2
  <2> QED
    BY <2>2, <2>3, <2>4, Zenon DEF ApplyingTypes
<1>5. CASE Kept
  BY <1>4, <1>5, KeptIsFull, Zenon DEF DirectoryInv
<1>6. CASE /\ players' = [players EXCEPT ![s] = {}]
           /\ affiliations' = [affiliations EXCEPT ![s] = {}]
           /\ edges' = [edges EXCEPT ![s] = {}] /\ since_clear' = [since_clear EXCEPT ![s] = {}]
  <2>1. ASSUME NEW t \in Stores, t # s
        PROVE  /\ players'[t] = players[t] /\ affiliations'[t] = affiliations[t]
               /\ edges'[t] = edges[t] /\ since_clear'[t] = since_clear[t]
    BY <1>6, <2>1, Zenon DEF DirectoryInv, ApplyingTypes
  <2>2. /\ players'[s] = {} /\ affiliations'[s] = {} /\ edges'[s] = {} /\ since_clear'[s] = {}
    BY <1>0, <1>6, Zenon DEF DirectoryInv, ApplyingTypes
  <2>3. Upserted(s)' = {}
    BY <2>2 DEF Upserted
  <2>4. \A t \in Stores : t # s => Upserted(t)' = Upserted(t)
    BY <2>1, Zenon DEF Upserted
  <2>5. DirectoryIsFull'
    <3> SUFFICES ASSUME NEW t \in Stores
        PROVE /\ \A a, b \in players'[t] : a.id = b.id => a = b
              /\ {row.id : row \in players'[t]}
                   = {row.id : row \in UNION {c.players : c \in Upserted(t)'}}
              /\ affiliations'[t] = UNION {c.affiliations : c \in Upserted(t)'}
              /\ edges'[t] = UNION {c.edges : c \in Upserted(t)'}
              /\ since_clear'[t] # {} => t[1] \in {RealmOf[q] : q \in Publishers}
      BY Zenon DEF DirectoryIsFull
    <3>1. CASE t = s
      BY <2>2, <2>3, <3>1
    <3>2. CASE t # s
      BY <2>1, <2>4, <3>2, Zenon DEF DirectoryInv, DirectoryIsFull
    <3> QED
      BY <3>1, <3>2
  <2> QED
    BY <1>4, <2>5 DEF DirectoryInv
<1> QED
  BY <1>2, <1>5, <1>6

(* The transaction of a chunk replaces the rows of its players and adds    *)
(* its affiliations and edges (upsert_chunk).                              *)
LEMMA FullAfterUpsert ==
  ASSUME DirectoryInv, NEW p \in Publishers, UpsertRows(p)
  PROVE  DirectoryInv'
<1>1. PICK job \in applying[p] :
        LET s == job.store
            chunk == Graphs[job.graph][job.index]
            ids == {row.id : row \in chunk.players}
        IN /\ players' = [players EXCEPT ![s] = {row \in @ : row.id \notin ids} \cup
                {[id |-> row.id, name |-> row.name, ids |-> row.ids, at |-> clock] :
                   row \in chunk.players}]
           /\ affiliations' = [affiliations EXCEPT ![s] = @ \cup chunk.affiliations]
           /\ edges' = [edges EXCEPT ![s] = @ \cup chunk.edges]
           /\ since_clear' = [since_clear EXCEPT ![s] = @ \cup {<<job.graph, job.index>>}]
           /\ applying' = [applying EXCEPT ![p] = {}]
  BY Zenon DEF UpsertRows
<1> DEFINE s == job.store
           chunk == Graphs[job.graph][job.index]
           ids == {row.id : row \in chunk.players}
           NewRow(row) == [id |-> row.id, name |-> row.name, ids |-> row.ids, at |-> clock]
           piece == <<job.graph, job.index>>
<1>2. /\ players' = [players EXCEPT ![s] = {row \in @ : row.id \notin ids} \cup
                                           {NewRow(row) : row \in chunk.players}]
      /\ affiliations' = [affiliations EXCEPT ![s] = @ \cup chunk.affiliations]
      /\ edges' = [edges EXCEPT ![s] = @ \cup chunk.edges]
      /\ since_clear' = [since_clear EXCEPT ![s] = @ \cup {piece}]
      /\ applying' = [applying EXCEPT ![p] = {}]
  BY <1>1, Zenon
<1>3. /\ s \in Stores /\ s[1] = RealmOf[p]
      /\ \A a, b \in chunk.players : a.id = b.id => a = b
  BY RelationshipAssumption DEF DirectoryInv, ApplyingTypes
<1>4. Graphs[piece[1]][piece[2]] = chunk
  OBVIOUS
<1>5. \A row : NewRow(row).id = row.id
  OBVIOUS
<1> HIDE DEF s, chunk, NewRow, piece, ids
<1>6. ASSUME NEW t \in Stores, t # s
      PROVE  /\ players'[t] = players[t] /\ affiliations'[t] = affiliations[t]
             /\ edges'[t] = edges[t] /\ since_clear'[t] = since_clear[t]
  BY <1>2, <1>6, Zenon DEF DirectoryInv, ApplyingTypes
<1>7. /\ players'[s] = {row \in players[s] : row.id \notin ids}
                         \cup {NewRow(row) : row \in chunk.players}
      /\ affiliations'[s] = affiliations[s] \cup chunk.affiliations
      /\ edges'[s] = edges[s] \cup chunk.edges
      /\ since_clear'[s] = since_clear[s] \cup {piece}
  BY <1>2, <1>3, Zenon DEF DirectoryInv, ApplyingTypes
<1>8. Upserted(s)' = Upserted(s) \cup {chunk}
  BY <1>4, <1>7, Zenon DEF Upserted
<1>9. \A t \in Stores : t # s => Upserted(t)' = Upserted(t)
  BY <1>6, Zenon DEF Upserted
<1>10. ASSUME NEW t \in Stores
       PROVE /\ \A a, b \in players'[t] : a.id = b.id => a = b
             /\ {row.id : row \in players'[t]}
                  = {row.id : row \in UNION {c.players : c \in Upserted(t)'}}
             /\ affiliations'[t] = UNION {c.affiliations : c \in Upserted(t)'}
             /\ edges'[t] = UNION {c.edges : c \in Upserted(t)'}
             /\ since_clear'[t] # {} => t[1] \in {RealmOf[q] : q \in Publishers}
  <2>1. CASE t # s
    BY <1>6, <1>9, <2>1, Zenon DEF DirectoryInv, DirectoryIsFull
  <2>2. CASE t = s
    <3>1. \A a, b \in players'[s] : a.id = b.id => a = b
      <4> SUFFICES ASSUME NEW a \in players'[s], NEW b \in players'[s], a.id = b.id
                   PROVE  a = b
        OBVIOUS
      <4>1. \A c \in players'[s] : \/ c \in players[s] /\ c.id \notin ids
                                   \/ \E row \in chunk.players : c = NewRow(row)
        BY <1>7, Zenon
      <4>2. \A c : (\E row \in chunk.players : c = NewRow(row)) => c.id \in ids
        BY <1>5, Zenon DEF ids
      <4>3. CASE a.id \in ids
        <5>1. PICK x \in chunk.players : a = NewRow(x)
          BY <4>1, <4>3
        <5>2. PICK y \in chunk.players : b = NewRow(y)
          BY <4>1, <4>3
        <5>3. x.id = y.id
          BY <1>5, <5>1, <5>2, Zenon
        <5>4. x = y
          BY <1>3, <5>3, Zenon
        <5> QED
          BY <5>1, <5>2, <5>4, Zenon
      <4>4. CASE a.id \notin ids
        <5>1. a \in players[s] /\ b \in players[s]
          BY <4>1, <4>2, <4>4, Zenon
        <5> QED
          BY <1>3, <5>1, Zenon DEF DirectoryInv, DirectoryIsFull
      <4> QED
        BY <4>3, <4>4
    <3>2. {row.id : row \in players'[s]} = {row.id : row \in players[s]} \cup ids
      <4>1. ASSUME NEW x \in {row.id : row \in players'[s]}
            PROVE  x \in {row.id : row \in players[s]} \cup ids
        <5>1. PICK row \in players'[s] : x = row.id
          BY <4>1
        <5>2. CASE row \in players[s]
          BY <5>1, <5>2
        <5>3. CASE row \notin players[s]
          <6>1. PICK new \in chunk.players : row = NewRow(new)
            BY <1>7, <5>3, Zenon
          <6>2. x = new.id
            BY <1>5, <5>1, <6>1, Zenon
          <6> QED
            BY <6>2 DEF ids
        <5> QED
          BY <5>2, <5>3
      <4>2. ASSUME NEW x \in {row.id : row \in players[s]} \cup ids
            PROVE  x \in {row.id : row \in players'[s]}
        <5>1. CASE x \in ids
          <6>1. PICK new \in chunk.players : x = new.id
            BY <5>1 DEF ids
          <6>2. NewRow(new) \in players'[s]
            BY <1>7, Zenon
          <6>3. NewRow(new).id = x
            BY <1>5, <6>1, Zenon
          <6> QED
            BY <6>2, <6>3, Zenon
        <5>2. CASE x \notin ids
          BY <1>7, <4>2, <5>2, ZenonT(30)
        <5> QED
          BY <5>1, <5>2
      <4> QED
        BY <4>1, <4>2
    <3>3. {row.id : row \in UNION {c.players : c \in Upserted(s)'}}
            = {row.id : row \in UNION {c.players : c \in Upserted(s)}} \cup ids
      BY <1>8 DEF ids
    <3>4. {row.id : row \in players[s]} = {row.id : row \in UNION {c.players : c \in Upserted(s)}}
      BY <1>3, Zenon DEF DirectoryInv, DirectoryIsFull
    <3>5. affiliations'[s] = UNION {c.affiliations : c \in Upserted(s)'}
      <4>1. affiliations[s] = UNION {c.affiliations : c \in Upserted(s)}
        BY <1>3, Zenon DEF DirectoryInv, DirectoryIsFull
      <4> QED
        BY <1>7, <1>8, <4>1
    <3>6. edges'[s] = UNION {c.edges : c \in Upserted(s)'}
      <4>1. edges[s] = UNION {c.edges : c \in Upserted(s)}
        BY <1>3, Zenon DEF DirectoryInv, DirectoryIsFull
      <4> QED
        BY <1>7, <1>8, <4>1
    <3> QED
      BY <1>3, <2>2, <3>1, <3>2, <3>3, <3>4, <3>5, <3>6, Zenon
  <2> QED
    BY <2>1, <2>2
<1>11. DirectoryIsFull'
  BY <1>10, Zenon DEF DirectoryIsFull
<1>12. ApplyingTypes'
  <2>1. \A q \in Publishers : applying'[q] = IF q = p THEN {} ELSE applying[q]
    BY <1>2, Zenon DEF DirectoryInv, ApplyingTypes
  <2>2. DOMAIN applying' = Publishers
    BY <1>2, Zenon DEF DirectoryInv, ApplyingTypes
  <2>3. /\ DOMAIN players' = Stores /\ DOMAIN affiliations' = Stores /\ DOMAIN edges' = Stores
        /\ DOMAIN since_clear' = Stores
    BY <1>2, Zenon DEF DirectoryInv, ApplyingTypes
  <2> QED
    BY <2>1, <2>2, <2>3, Zenon DEF DirectoryInv, ApplyingTypes
<1> QED
  BY <1>11, <1>12 DEF DirectoryInv

(* The invariant above holds for any graphs, realms and publishers.        *)
THEOREM DirectoryInvariant == RelationshipSpec => []DirectoryInv
<1>1. RelationshipInit => DirectoryInv
  <2> SUFFICES ASSUME RelationshipInit PROVE DirectoryInv
    OBVIOUS
  <2>1. \A s \in Stores : Upserted(s) = {}
    BY DEF RelationshipInit, Upserted
  <2> QED
    BY <2>1 DEF RelationshipInit, DirectoryInv, ApplyingTypes, DirectoryIsFull
<1>2. DirectoryInv /\ [RelationshipNext]_relationship_vars => DirectoryInv'
  <2> SUFFICES ASSUME DirectoryInv, [RelationshipNext]_relationship_vars
               PROVE  DirectoryInv'
    OBVIOUS
  <2>1. ASSUME NEW p \in Publishers, NEW r \in Realms, NEW d \in Datasets,
               NEW g \in DOMAIN Graphs, NEW i \in DOMAIN Graphs[g], PublishChunk(p, r, d, g, i)
        PROVE  DirectoryInv'
    BY <2>1, FullAfterPublish
  <2>2. ASSUME NEW p \in Publishers, UpsertRows(p) PROVE DirectoryInv'
    BY <2>2, FullAfterUpsert
  <2>3. ASSUME NEW p \in Publishers, UpsertFails(p) PROVE DirectoryInv'
    <3>1. Kept
      BY <2>3 DEF UpsertFails, Kept
    <3>2. ApplyingTypes'
      <4>1. \A q \in Publishers : applying'[q] = IF q = p THEN {} ELSE applying[q]
        BY <2>3, Zenon DEF UpsertFails, DirectoryInv, ApplyingTypes
      <4>2. DOMAIN applying' = Publishers
        BY <2>3, Zenon DEF UpsertFails, DirectoryInv, ApplyingTypes
      <4> QED
        BY <3>1, <4>1, <4>2, Zenon DEF DirectoryInv, ApplyingTypes, Kept
    <3> QED
      BY <3>1, <3>2, KeptIsFull DEF DirectoryInv
  <2>4. CASE \/ \E p \in Publishers, r \in Realms, d \in Datasets, h \in {"healthy", "degraded"} :
                  SetHealth(p, r, d, h)
             \/ TimePasses
             \/ UNCHANGED relationship_vars
    <3>1. Kept /\ applying' = applying
      BY <2>4 DEF SetHealth, TimePasses, relationship_vars, Kept
    <3>2. ApplyingTypes'
      BY <3>1, Zenon DEF DirectoryInv, ApplyingTypes, Kept
    <3> QED
      BY <3>1, <3>2, KeptIsFull DEF DirectoryInv
  <2> QED
    BY <2>1, <2>2, <2>3, <2>4 DEF RelationshipNext
<1> QED
  BY <1>1, <1>2, PTL DEF RelationshipSpec

(* So a store whose snapshot has arrived in full holds its graph.          *)
LEMMA FullIsExact ==
  ASSUME DirectoryInv
  PROVE  CompleteSnapshotIsExact
<1> SUFFICES ASSUME NEW s \in Stores, NEW g \in DOMAIN Graphs,
                    since_clear[s] = {g} \X DOMAIN Graphs[g]
    PROVE LET chunks == {Graphs[g][i] : i \in DOMAIN Graphs[g]}
          IN /\ {row.id : row \in players[s]} = {row.id : row \in UNION {c.players : c \in chunks}}
             /\ affiliations[s] = UNION {c.affiliations : c \in chunks}
             /\ edges[s] = UNION {c.edges : c \in chunks}
             /\ s[1] \in {RealmOf[p] : p \in Publishers}
  BY DEF CompleteSnapshotIsExact
<1>1. Upserted(s) = {Graphs[g][i] : i \in DOMAIN Graphs[g]}
  <2>1. ASSUME NEW i \in DOMAIN Graphs[g] PROVE <<g, i>> \in since_clear[s]
    OBVIOUS
  <2>2. \A piece \in since_clear[s] : piece[1] = g /\ piece[2] \in DOMAIN Graphs[g]
    OBVIOUS
  <2>3. \A i : <<g, i>>[1] = g /\ <<g, i>>[2] = i
    OBVIOUS
  <2>4. Upserted(s) \subseteq {Graphs[g][i] : i \in DOMAIN Graphs[g]}
    BY <2>2, Zenon DEF Upserted
  <2>5. {Graphs[g][i] : i \in DOMAIN Graphs[g]} \subseteq Upserted(s)
    <3> SUFFICES ASSUME NEW i \in DOMAIN Graphs[g] PROVE Graphs[g][i] \in Upserted(s)
      OBVIOUS
    <3>1. Graphs[<<g, i>>[1]][<<g, i>>[2]] = Graphs[g][i]
      OBVIOUS
    <3> QED
      BY <2>1, <3>1, Zenon DEF Upserted
  <2> QED
    BY <2>4, <2>5
<1>2. since_clear[s] # {}
  <2>1. PICK i : i \in DOMAIN Graphs[g]
    BY RelationshipAssumption, Zenon
  <2>2. <<g, i>> \in since_clear[s]
    BY <2>1
  <2> QED
    BY <2>2
<1> QED
  BY <1>1, <1>2, Zenon DEF DirectoryInv, DirectoryIsFull

(* What is said of two rows does not depend on their order.                *)
LEMMA EvidenceIsSymmetric ==
  ASSUME NEW s, NEW a, NEW b
  PROVE  Evidence(s, a, b) = Evidence(s, b, a)
<1>1. a.ids \cap b.ids = b.ids \cap a.ids
  OBVIOUS
<1>2. {edge \in edges[s] : \/ edge.from \in a.ids /\ edge.to \in b.ids
                           \/ edge.from \in b.ids /\ edge.to \in a.ids}
      = {edge \in edges[s] : \/ edge.from \in b.ids /\ edge.to \in a.ids
                             \/ edge.from \in a.ids /\ edge.to \in b.ids}
  OBVIOUS
<1> QED
  BY <1>1, <1>2, Zenon DEF Evidence

(* A player is found by its id, and is found once (lookup).                *)
LEMMA ToldOfOne ==
  ASSUME DirectoryInv, NEW s \in Stores, NEW x \in players[s]
  PROVE  \E entry : Lookup(s, [by |-> "id", value |-> x.id]) = {entry}
<1> DEFINE selector == [by |-> "id", value |-> x.id]
<1>1. {row \in players[s] : Selects(selector, row)} = {x}
  <2>1. \A row : Selects(selector, row) <=> row.id = x.id
    BY DEF Selects
  <2>2. \A row \in players[s] : row.id = x.id => row = x
    BY Zenon DEF DirectoryInv, DirectoryIsFull
  <2> HIDE DEF selector
  <2> QED
    BY <2>1, <2>2
<1>2. \E entry : Entries(s, {x}) = {entry}
  BY DEF Entries
<1> QED
  BY <1>1, <1>2 DEF Lookup

(* The relation of two players that are found is that of their rows.       *)
LEMMA RelationOfTwo ==
  ASSUME NEW s, NEW a, NEW b, NEW x, NEW y,
         Lookup(s, a) = {x}, Lookup(s, b) = {y}
  PROVE  Relations(s, a, {b}) = {<<y.id, RelationFor(s, x, y)>>}
<1>1. Cardinality({x}) = 1
  BY FS_Singleton
<1>2. UNION {Lookup(s, t) : t \in {b}} = {y}
  OBVIOUS
<1>3. (CHOOSE entry \in {x} : TRUE) = x
  OBVIOUS
<1>4. Relations(s, a, {b}) = {<<target.id, RelationFor(s, x, target)>> : target \in {y}}
  <2>1. {b} # {}
    OBVIOUS
  <2> QED
    BY <1>1, <1>2, <1>3, <2>1, Zenon DEF Relations
<1> QED
  BY <1>4, Zenon

(* Whoever of two players asks is told the same of both (relation_for,     *)
(* relations).                                                             *)
LEMMA BothAreToldTheSame ==
  ASSUME DirectoryInv
  PROVE  RelationsAreSymmetric
<1> SUFFICES ASSUME NEW r \in Realms, NEW d \in DatasetIds(r),
                    NEW x \in players[<<r, d>>], NEW y \in players[<<r, d>>]
             PROVE  {answer[2] : answer \in Relations(<<r, d>>, [by |-> "id", value |-> x.id],
                                                      {[by |-> "id", value |-> y.id]})}
                    = {answer[2] : answer \in Relations(<<r, d>>, [by |-> "id", value |-> y.id],
                                                        {[by |-> "id", value |-> x.id]})}
  BY Zenon DEF RelationsAreSymmetric
<1>1. <<r, d>> \in Stores
  BY RelationshipAssumption DEF DatasetIds, Stores
<1> DEFINE s == <<r, d>>
           a == [by |-> "id", value |-> x.id]
           b == [by |-> "id", value |-> y.id]
<1>2. PICK ex : Lookup(s, a) = {ex}
  BY <1>1, ToldOfOne
<1>3. PICK ey : Lookup(s, b) = {ey}
  BY <1>1, ToldOfOne
<1>4. RelationFor(s, ex, ey) = RelationFor(s, ey, ex)
  <2>1. Evidence(s, ex, ey) = Evidence(s, ey, ex)
    BY EvidenceIsSymmetric
  <2> QED
    <3> DEFINE Said(kinds) ==
                 IF kinds = {} THEN "neutral" ELSE IF Cardinality(kinds) = 2 THEN "conflict"
                 ELSE CHOOSE kind \in kinds : TRUE
    <3>1. \A u, v : RelationFor(s, u, v) = Said(Evidence(s, u, v))
      BY DEF RelationFor
    <3> HIDE DEF Said
    <3> QED
      BY <2>1, <3>1, Zenon
<1> HIDE DEF s, a, b
<1>5. /\ Relations(s, a, {b}) = {<<ey.id, RelationFor(s, ex, ey)>>}
      /\ Relations(s, b, {a}) = {<<ex.id, RelationFor(s, ey, ex)>>}
  <2>1. Relations(s, a, {b}) = {<<ey.id, RelationFor(s, ex, ey)>>}
    BY <1>2, <1>3, RelationOfTwo
  <2>2. Relations(s, b, {a}) = {<<ex.id, RelationFor(s, ey, ex)>>}
    BY <1>2, <1>3, RelationOfTwo
  <2> QED
    BY <2>1, <2>2
<1>6. {answer[2] : answer \in Relations(s, a, {b})} = {answer[2] : answer \in Relations(s, b, {a})}
  <2> DEFINE Second(S) == {answer[2] : answer \in S}
  <2>1. \A u, v : Second({<<u, v>>}) = {v}
    OBVIOUS
  <2> HIDE DEF Second
  <2>2. PICK u, v, w : Relations(s, a, {b}) = {<<u, w>>} /\ Relations(s, b, {a}) = {<<v, w>>}
    BY <1>4, <1>5
  <2>3. Second(Relations(s, a, {b})) = {w}
    BY <2>1, <2>2
  <2>4. Second(Relations(s, b, {a})) = {w}
    BY <2>1, <2>2
  <2> QED
    BY <2>3, <2>4 DEF Second
<1> QED
  BY <1>6 DEF s, a, b

(* What a complete snapshot says is what the store holds, and relations    *)
(* are symmetric, for any publishers, realms and graphs (upsert_chunk,     *)
(* lookup, relation_for).                                                  *)
THEOREM DirectoryHolds == RelationshipSpec => []DirectoryIsSound
<1>1. DirectoryInv => DirectoryIsSound
  BY FullIsExact, BothAreToldTheSame DEF DirectoryIsSound
<1> QED
  BY <1>1, DirectoryInvariant, PTL

=============================================================================
