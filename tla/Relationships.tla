--------------------------- MODULE Relationships ---------------------------
(***************************************************************************)
(* The directory of players, affiliations and their relations that         *)
(* external sources publish and players query:                             *)
(* src/src/relationship_store.rs, with the part of handle_envelope in      *)
(* src/src/web.rs that publishes to it.                                    *)
(*                                                                         *)
(* A query is read here in one state; in the code its statements are not a *)
(* transaction, and a publication may come between them.                   *)
(***************************************************************************)
EXTENDS Integers, Sequences, FiniteSets

CONSTANTS
  Realms, Datasets,
  DefaultDataset,    \* "political-directory"
  Publishers,        \* sessions of external sources
  RealmOf,           \* their rooms
  Graphs,            \* what they publish: sequences of chunks, each a record
                     \* of players, affiliations and edges
  NormalName,        \* normalize: trimmed, NFKC, in lower case
  MaxTime, StaleAfter

ASSUME RelationshipAssumption ==
  /\ RealmOf \in [Publishers -> Realms] /\ DefaultDataset \in Datasets
  /\ MaxTime \in Nat /\ StaleAfter \in Nat
  \* What is published comes in chunks, at least one; of the rows of one key
  \* in a chunk the last counts, the others are left out.
  /\ \A g \in DOMAIN Graphs :
       /\ DOMAIN Graphs[g] # {}
       /\ \A i \in DOMAIN Graphs[g] :
            \A a, b \in Graphs[g][i].players : a.id = b.id => a = b

Stores == Realms \X Datasets
Hostile == "hostile"
Friendly == "friendly"

VARIABLES
  players,       \* per store: rows [id, name, ids, at], one for each id
  affiliations,  \* per store: ids
  edges,         \* per store: [from, to, relation]
  datasets,      \* per store: health and observed_at, if there is a row
  applying,      \* per publisher: the chunk it is upserting, if any
  clock,
  since_clear    \* per store: the chunks upserted since it was emptied (history)

relationship_vars ==
  <<players, affiliations, edges, datasets, applying, clock, since_clear>>

RelationshipInit ==
  /\ players = [s \in Stores |-> {}] /\ affiliations = [s \in Stores |-> {}]
  /\ edges = [s \in Stores |-> {}] /\ datasets = [s \in Stores |-> {}]
  /\ applying = [p \in Publishers |-> {}] /\ clock = 0
  /\ since_clear = [s \in Stores |-> {}]

(* Mutant: the edges of the older snapshot stay.                           *)
DeleteStoreButEdges(s) ==
  /\ players' = [players EXCEPT ![s] = {}] /\ affiliations' = [affiliations EXCEPT ![s] = {}]
  /\ UNCHANGED edges

DeleteStore(s) ==
  /\ players' = [players EXCEPT ![s] = {}] /\ affiliations' = [affiliations EXCEPT ![s] = {}]
  /\ edges' = [edges EXCEPT ![s] = {}]

(* A session handles one message at a time.  A descriptor of another realm *)
(* than the session's room is dropped; the first chunk empties the store   *)
(* in a transaction of its own.                                            *)
PublishChunk(p, realm, dataset, g, i) ==
  LET s == <<realm, dataset>> IN
  /\ applying[p] = {} /\ realm = RealmOf[p]
  /\ applying' = [applying EXCEPT ![p] = {[store |-> s, graph |-> g, index |-> i]}]
  /\ IF i = 1
     THEN DeleteStore(s) /\ since_clear' = [since_clear EXCEPT ![s] = {}]
     ELSE UNCHANGED <<players, affiliations, edges, since_clear>>
  /\ UNCHANGED <<datasets, clock>>

(* The rows of the chunk replace those of the same keys, and the head is   *)
(* written, in a second transaction.                                       *)
UpsertRows(p) ==
  \E job \in applying[p] :
    LET s == job.store
        chunk == Graphs[job.graph][job.index]
        ids == {row.id : row \in chunk.players}
    IN /\ players' = [players EXCEPT ![s] = {row \in @ : row.id \notin ids} \cup
            {[id |-> row.id, name |-> row.name, ids |-> row.ids, at |-> clock] : row \in chunk.players}]
       /\ affiliations' = [affiliations EXCEPT ![s] = @ \cup chunk.affiliations]
       /\ edges' = [edges EXCEPT ![s] = @ \cup chunk.edges]
       /\ datasets' = [datasets EXCEPT ![s] = {[health |-> "published", observed_at |-> clock]}]
       /\ since_clear' = [since_clear EXCEPT ![s] = @ \cup {<<job.graph, job.index>>}]
       /\ applying' = [applying EXCEPT ![p] = {}]
       /\ UNCHANGED clock

(* The transaction fails: the publisher is told, the store stays emptied.  *)
UpsertFails(p) ==
  /\ applying[p] # {} /\ applying' = [applying EXCEPT ![p] = {}]
  /\ UNCHANGED <<players, affiliations, edges, datasets, clock, since_clear>>

(* A status touches the row of the dataset if there is one.                *)
SetHealth(p, realm, dataset, health) ==
  LET s == <<realm, dataset>> IN
  /\ applying[p] = {} /\ realm = RealmOf[p]
  /\ datasets' = [datasets EXCEPT ![s] = {[health |-> health, observed_at |-> clock] : row \in @}]
  /\ UNCHANGED <<players, affiliations, edges, applying, clock, since_clear>>

TimePasses ==
  /\ clock < MaxTime /\ clock' = clock + 1
  /\ UNCHANGED <<players, affiliations, edges, datasets, applying, since_clear>>

RelationshipNext ==
  \/ \E p \in Publishers, r \in Realms, d \in Datasets, g \in DOMAIN Graphs :
       \E i \in DOMAIN Graphs[g] : PublishChunk(p, r, d, g, i)
  \/ \E p \in Publishers : UpsertRows(p) \/ UpsertFails(p)
  \/ \E p \in Publishers, r \in Realms, d \in Datasets, h \in {"healthy", "degraded"} :
       SetHealth(p, r, d, h)
  \/ TimePasses

RelationshipSpec == RelationshipInit /\ [][RelationshipNext]_relationship_vars

-----------------------------------------------------------------------------
(* Queries.  A dataset that is not named is one of the latest observed.    *)
DatasetIds(realm) ==
  LET known == {d \in Datasets : datasets[<<realm, d>>] # {}}
      at(d) == (CHOOSE row \in datasets[<<realm, d>>] : TRUE).observed_at
  IN IF known = {} THEN {DefaultDataset}
     ELSE {d \in known : \A e \in known : at(e) <= at(d)}

(* A selector without a value selects every player.                        *)
Selects(selector, row) ==
  CASE selector.by = "id"   -> row.id = selector.value
    [] selector.by = "name" -> NormalName[row.name] = NormalName[selector.value]
    [] OTHER                -> TRUE

(* Of the ids of a row, only those of known affiliations are resolved.     *)
Entries(s, rows) ==
  {[id |-> row.id, ids |-> row.ids, known |-> row.ids \cap affiliations[s],
    stale |-> clock - row.at > StaleAfter] : row \in rows}

Lookup(s, selector) == Entries(s, {row \in players[s] : Selects(selector, row)})

LookupAll(s) == Entries(s, players[s])

(* Affiliations in common, and edges in either direction.                  *)
Evidence(s, subject, target) ==
  (IF subject.ids \cap target.ids # {} THEN {Friendly} ELSE {}) \cup
  {IF e.relation = Hostile THEN Hostile ELSE Friendly :
     e \in {edge \in edges[s] : \/ edge.from \in subject.ids /\ edge.to \in target.ids
                                \/ edge.from \in target.ids /\ edge.to \in subject.ids}}

RelationFor(s, subject, target) ==
  LET kinds == Evidence(s, subject, target)
  IN IF kinds = {} THEN "neutral" ELSE IF Cardinality(kinds) = 2 THEN "conflict"
     ELSE CHOOSE kind \in kinds : TRUE

(* Of a subject that is unknown or ambiguous no relation is given.         *)
Relations(s, subject, targets) ==
  LET subjects == Lookup(s, subject)
      found == IF targets = {} THEN LookupAll(s) ELSE UNION {Lookup(s, t) : t \in targets}
  IN IF Cardinality(subjects) # 1 THEN {}
     ELSE LET it == CHOOSE entry \in subjects : TRUE
          IN {<<target.id, RelationFor(s, it, target)>> : target \in found}

-----------------------------------------------------------------------------
(* A store into which, since it was emptied, every chunk of one snapshot   *)
(* and no chunk of another has been upserted holds that snapshot and       *)
(* nothing older, and no publisher of another room has touched it.         *)
CompleteSnapshotIsExact ==
  \A s \in Stores, g \in DOMAIN Graphs :
    since_clear[s] = {g} \X DOMAIN Graphs[g] =>
      LET chunks == {Graphs[g][i] : i \in DOMAIN Graphs[g]}
      IN /\ {row.id : row \in players[s]} = {row.id : row \in UNION {c.players : c \in chunks}}
         /\ affiliations[s] = UNION {c.affiliations : c \in chunks}
         /\ edges[s] = UNION {c.edges : c \in chunks}
         /\ s[1] \in {RealmOf[p] : p \in Publishers}

(* Whoever asks, two players of one dataset are told the same of each      *)
(* other, whichever of the two affiliations an edge was declared from.     *)
RelationsAreSymmetric ==
  \A r \in Realms : \A d \in DatasetIds(r) :
    LET s == <<r, d>>
        told(a, b) == {answer[2] : answer \in Relations(s, [by |-> "id", value |-> a], {[by |-> "id", value |-> b]})}
    IN \A x, y \in players[s] : told(x.id, y.id) = told(y.id, x.id)

(* A directory answers out of one snapshot, and says the same to both.     *)
DirectoryIsSound == CompleteSnapshotIsExact /\ RelationsAreSymmetric
=============================================================================
