----------------------------- MODULE BattleFeed -----------------------------
(***************************************************************************)
(* What a client is promised about the battle map: each state it shows is  *)
(* one the room's cache really was in, complete and unmixed, and within a  *)
(* session it only moves forward.  How it gets there (full snapshots,      *)
(* patches, lost frames, acknowledgements) is not said here; see           *)
(* BattleDelivery for the protocol that implements it.                     *)
(***************************************************************************)
EXTENDS Integers

CONSTANTS NothingShown  \* what a client shows before its first snapshot

VARIABLES
  published,   \* revision -> contents, for every revision so far
  latest,      \* the last revision of `published'
  position,    \* the revision the client shows, -1 before the first
  shown        \* what the client shows

feed_vars == <<published, latest, position, shown>>

FeedInit ==
  /\ latest = 0
  /\ DOMAIN published = {0}
  /\ position = -1
  /\ shown = NothingShown

(* The room's contents change.                                             *)
Publish ==
  /\ latest' = latest + 1
  /\ DOMAIN published' = 0..latest'
  /\ \A r \in 0..latest : published'[r] = published[r]
  /\ UNCHANGED <<position, shown>>

(* The client catches up, wholly, with some revision.                      *)
Advance ==
  /\ \E r \in 0..latest :
       /\ r >= position
       /\ position' = r
       /\ shown' = published[r]
  /\ UNCHANGED <<published, latest>>

(* A session ends or begins; the client shows nothing.                     *)
Restart ==
  /\ position' = -1
  /\ shown' = NothingShown
  /\ UNCHANGED <<published, latest>>

(* A room without sessions is purged; its revisions start again.           *)
Forget ==
  /\ position = -1
  /\ latest' = 0
  /\ DOMAIN published' = {0}
  /\ UNCHANGED <<position, shown>>

FeedNext == Publish \/ Advance \/ Restart \/ Forget
FeedSpec == FeedInit /\ [][FeedNext]_feed_vars
=============================================================================
