----------------------------- MODULE PatchCodec -----------------------------
(***************************************************************************)
(* What a patch says, for clients of every protocol version: the handshake *)
(* of src/src/web.rs; negotiation, epochs, rules and projections of        *)
(* src/src/protocol_compat.rs; map_patch, the upserts and cleared fields,  *)
(* digests, and the sharing of payloads and digests among recipients in    *)
(* src/src/relay.rs.                                                       *)
(*                                                                         *)
(* A version is a number, 601 for 0.6.1.  An object is a function from the *)
(* fields it has to their values; entities and waypoints go as players do  *)
(* and are left out.  All sessions are in one scope of sources, frames     *)
(* arrive in order and none leaves positions to datagrams; what is lost,   *)
(* late or stripped is the subject of Delivery and BattleDelivery.         *)
(***************************************************************************)
EXTENDS Integers, FiniteSets, FiniteSetsExt, Functions

CONSTANTS
  Recipients,
  Hellos,         \* what a handshake may ask for, below
  KnownChannels,  \* UnreliableChannel, "unspecified" included
  CodecIds,       \* ids of objects
  CodecValues

NoVersion == 0

ASSUME CodecAssumption ==
  \A hello \in Hellos : {hello.current, hello.minimum} \subseteq Nat

CodecScopes ==
  {"players", "battle_chunks", "last_seen_players", "player_marks", "tab_reports"}

VARIABLES
  world,       \* the snapshot of the room, per scope
  session,     \* per recipient: what the handshake came to
  delivered,   \* per recipient: delivered_snapshot
  force_full,  \* per recipient
  view,        \* per recipient: what the client shows
  digest       \* per recipient: the digest of the last frame, if it had one

codec_vars == <<world, session, delivered, force_full, view, digest>>

-----------------------------------------------------------------------------
(* Versions.                                                               *)
CurrentVersion == 900
MinimumVersion == 601
Epochs == {601, 602, 603, 604, 605, 700, 701, 800, 801}

(* The latest epoch that the version has reached.                          *)
FromVersion(version) ==
  LET reached == {epoch \in Epochs : version >= epoch}
  IN IF reached = {} THEN 601 ELSE Max(reached)

(* The rules by the version that makes them unnecessary.                   *)
IntroducedIn ==
  [OmitBattleChunkMode |-> 602, DefaultPlayerRole |-> 603, OmitLastSeenPlayers |-> 604,
   OmitPlayerSourceMetadata |-> 605, FullSnapshotForClearFields |-> 605,
   DisableTabHistory |-> 700, LegacyBattleChunkDigest |-> 701]

ActiveRules(version) == {rule \in DOMAIN IntroducedIn : version < IntroducedIn[rule]}

SupportsBattleChunkMode(version) == version >= 602
SupportsExternalSourceRole(version) == version >= 603
SupportsLastSeenPlayers(version) == version >= 604
SupportsPlayerSourceMetadata(version) == version >= 605
SupportsClearFields(version) == version >= 605
SupportsTabHistory(version) == version >= 700
UsesStructuredBattleChunkDigest(version) == version >= 701

Negotiate(current, minimum) ==
  IF minimum > current \/ current < MinimumVersion \/ CurrentVersion < minimum
  THEN NoVersion
  ELSE IF current < CurrentVersion THEN current ELSE CurrentVersion

(* The profile that the admin page works out again from what was claimed.  *)
ForAcceptedPeer(current) ==
  LET version == IF current < CurrentVersion THEN current ELSE CurrentVersion
  IN IF version >= MinimumVersion THEN version ELSE NoVersion

-----------------------------------------------------------------------------
(* The handshake.                                                          *)
NoSession ==
  [claimed |-> NoVersion, version |-> NoVersion, role |-> "none",
   unreliable_positions |-> FALSE, told |-> {}]

Role(hello, version) ==
  IF hello.kind = "web_map" THEN "web_map"
  ELSE IF hello.role = "external_source" /\ SupportsExternalSourceRole(version)
  THEN "external_source"
  ELSE "player"

(* The channels that the client would take from datagrams: a list, and for *)
(* a web map also the flag that the list has replaced.                     *)
AcceptsUnreliableChannels(hello) ==
  (hello.accepts \cap KnownChannels)
    \cup (IF hello.accepts_positions THEN {"movement"} ELSE {})

DownlinkChannels(hello) ==
  IF ~hello.datagrams THEN {}
  ELSE IF hello.kind = "web_map" THEN AcceptsUnreliableChannels(hello)
  ELSE (hello.accepts \cap KnownChannels) \ {"unspecified"}

(* A web map is registered by what it declares, a player by what it is     *)
(* told in the answer.                                                     *)
Accepted(hello) ==
  LET version == Negotiate(hello.current, hello.minimum)
  IN [claimed |-> hello.current, version |-> version, role |-> Role(hello, version),
      unreliable_positions |->
        IF hello.kind = "web_map"
        THEN "movement" \in AcceptsUnreliableChannels(hello) /\ hello.datagrams
        ELSE "movement" \in DownlinkChannels(hello),
      told |-> DownlinkChannels(hello)]

-----------------------------------------------------------------------------
(* What a source reports.  Its version may not know a part of it.          *)
SanitizePlayerReport(version, report) ==
  report \ ((IF SupportsBattleChunkMode(version) THEN {} ELSE {"battle_chunk_mode"})
    \cup (IF SupportsExternalSourceRole(version) THEN {} ELSE {"external_source_status"})
    \cup (IF SupportsLastSeenPlayers(version) THEN {} ELSE {"last_seen_players"}))

(* The given values, and of the others what they had.                      *)
Overlaid(new, old) ==
  [x \in DOMAIN new \cup DOMAIN old |-> IF x \in DOMAIN new THEN new[x] ELSE old[x]]

(* Fields that every player has.                                           *)
PlayerDefaults == [x |-> 0, armor |-> 0]
NormalizePlayer(object) == Overlaid(object, PlayerDefaults)

(* Fields are cleared and the given ones set.                              *)
ApplyDelta(old, upsert) ==
  Overlaid(upsert.data, Restrict(old, DOMAIN old \ upsert.clear_fields))

-----------------------------------------------------------------------------
(* Projection of a snapshot for a version.                                 *)
Without(fields, objects) ==
  [id \in DOMAIN objects |-> Restrict(objects[id], DOMAIN objects[id] \ fields)]

ProjectSnapshot(version, snapshot) ==
  [snapshot EXCEPT
     !["players"] = IF SupportsPlayerSourceMetadata(version) THEN @
                    ELSE Without({"position_source"}, @),
     !["battle_chunks"] = IF SupportsBattleChunkMode(version) THEN @
                          ELSE Without({"mode"}, @),
     !["last_seen_players"] = IF SupportsLastSeenPlayers(version) THEN @ ELSE <<>>,
     !["tab_reports"] = IF SupportsTabHistory(version) THEN @
                        ELSE Without({"scoreboard"}, @)]

(* The difference of two scopes: whole objects that are new or other, with *)
(* the fields they have lost, and the ids of objects that are gone.        *)
ClearedFields(old, new) == DOMAIN old \ DOMAIN new

MapPatch(scope, old, new) ==
  [upsert |-> [id \in {id \in DOMAIN new : id \notin DOMAIN old \/ old[id] # new[id]} |->
     [data |-> new[id],
      clear_fields |-> IF id \in DOMAIN old /\ scope \in {"players", "player_marks"}
                       THEN ClearedFields(old[id], new[id]) ELSE {}]],
   delete |-> DOMAIN old \ DOMAIN new]

BuildPatch(old, new) == [scope \in CodecScopes |-> MapPatch(scope, old[scope], new[scope])]

(* A client that does not know clear_fields gets the object anew.          *)
AdaptOutboundPatch(version, patch) ==
  IF SupportsClearFields(version) THEN patch
  ELSE [scope \in CodecScopes |->
    LET upsert == patch[scope].upsert
    IN [upsert |-> [id \in DOMAIN upsert |-> [upsert[id] EXCEPT !.clear_fields = {}]],
        delete |-> patch[scope].delete \cup
                   {id \in DOMAIN upsert : upsert[id].clear_fields # {}}]]

(* The client's side: objects that are deleted go first; then players are  *)
(* changed as the server does, and all else comes whole.                   *)
ApplyScope(scope, shown_objects, patch) ==
  LET kept == Restrict(shown_objects, DOMAIN shown_objects \ patch.delete)
  IN [id \in DOMAIN kept \cup DOMAIN patch.upsert |->
        IF id \notin DOMAIN patch.upsert THEN kept[id]
        ELSE IF id \in DOMAIN kept /\ scope = "players"
        THEN ApplyDelta(kept[id], patch.upsert[id])
        ELSE patch.upsert[id].data]

ApplyPatch(shown_view, patch) ==
  [scope \in CodecScopes |-> ApplyScope(scope, shown_view[scope], patch[scope])]

-----------------------------------------------------------------------------
(* Digests.  A hash stands for the values hashed, which are written in one *)
(* way alone: without fields that have no value, and in order.             *)
NoDigest == <<>>
StateDigestPlain(values) == <<values>>

(* The fields of a battle chunk that say how it was observed are not in a  *)
(* snapshot.                                                               *)
BattleDigestContract(version) ==
  IF UsesStructuredBattleChunkDigest(version) THEN "structured_v2" ELSE "legacy_keyed"

BattleDigestData(version, chunk) ==
  LET unknown == IF SupportsBattleChunkMode(version) THEN {} ELSE {"mode"}
  IN Overlaid(Restrict(chunk, DOMAIN chunk \ unknown), [color_mode |-> 0])

BattleDigest(version, chunks) ==
  [contract |-> BattleDigestContract(version),
   hash |-> StateDigestPlain([id \in DOMAIN chunks |-> BattleDigestData(version, chunks[id])])]

SnapshotDigest(version, snapshot) ==
  LET players == IF SupportsPlayerSourceMetadata(version) THEN snapshot["players"]
                 ELSE Without({"position_source"}, snapshot["players"])
  IN [players |-> StateDigestPlain(players),
      battle_chunks |-> BattleDigest(version, snapshot["battle_chunks"]),
      last_seen_players |-> IF SupportsLastSeenPlayers(version)
                            THEN StateDigestPlain(snapshot["last_seen_players"])
                            ELSE NoDigest]

(* Mutant: who shares a digest is told by the epoch of its contract alone. *)
DigestKeyOfContract(version) == BattleDigestContract(version)

(* What the digest of a snapshot depends on.                               *)
DigestKey(version) ==
  <<SupportsBattleChunkMode(version), UsesStructuredBattleChunkDigest(version),
    SupportsPlayerSourceMetadata(version), SupportsLastSeenPlayers(version)>>

-----------------------------------------------------------------------------
EmptySnapshot == [scope \in CodecScopes |-> <<>>]

CodecInit ==
  /\ world = EmptySnapshot
  /\ session = [r \in Recipients |-> NoSession]
  /\ delivered = [r \in Recipients |-> EmptySnapshot]
  /\ force_full = [r \in Recipients |-> TRUE]
  /\ view = [r \in Recipients |-> EmptySnapshot]
  /\ digest = [r \in Recipients |-> NoDigest]

(* A handshake: refused, or the begin of a session.                        *)
Greet(r, hello) ==
  /\ session[r] = NoSession
  /\ Accepted(hello).version # NoVersion
  /\ session' = [session EXCEPT ![r] = Accepted(hello)]
  /\ UNCHANGED <<world, delivered, force_full, view, digest>>

SetObject(scope, id, object) ==
  /\ world' = [world EXCEPT ![scope] = Overlaid([i \in {id} |-> object], @)]
  /\ UNCHANGED <<session, delivered, force_full, view, digest>>

(* An object that is reported whole, by a source that may say so.          *)
ReplaceObject(version, scope, id, object) ==
  /\ SanitizePlayerReport(version, {scope}) # {}
  /\ SetObject(scope, id,
       CASE scope = "players" -> NormalizePlayer(object)
         [] scope = "battle_chunks" ->
              Restrict(object, DOMAIN object \ (IF SanitizePlayerReport(version, {"battle_chunk_mode"}) = {}
                                               THEN {"mode"} ELSE {}))
         [] OTHER -> object)

(* A player of which some fields are reported and others cleared; one that *)
(* is not known begins with defaults.                                      *)
PatchPlayer(id, upsert) ==
  LET old == IF id \in DOMAIN world["players"] THEN world["players"][id] ELSE PlayerDefaults
  IN SetObject("players", id, NormalizePlayer(ApplyDelta(old, upsert)))

DropObject(scope, id) ==
  /\ id \in DOMAIN world[scope]
  /\ world' = [world EXCEPT ![scope] = Restrict(@, DOMAIN @ \ {id})]
  /\ UNCHANGED <<session, delivered, force_full, view, digest>>

(* Those that get state: all sessions but those of external sources.       *)
Receivers == {r \in Recipients : session[r].role \in {"player", "web_map"}}

(* Recipients of one kind and epoch share the projection, and those that   *)
(* also have one baseline share the payload; players of one digest key     *)
(* share the digest.  Each is made for whichever of them comes first.      *)
SharesProjection(r, other) ==
  /\ session[r].role = session[other].role
  /\ FromVersion(session[other].version) = FromVersion(session[r].version)

SharesPayload(r, other) ==
  /\ SharesProjection(r, other)
  /\ force_full[other] = force_full[r]
  /\ delivered[other] = delivered[r]

SharesDigest(r, other) == DigestKey(session[r].version) = DigestKey(session[other].version)

(* One broadcast, delivered and shown.                                     *)
BroadcastPatches(digest_due) ==
  LET Makers(receivers, Shares(_, _)) ==
        {f \in [receivers -> receivers] :
           \A r, s \in receivers : Shares(r, f[r]) /\ (Shares(r, s) => f[r] = f[s])}
  IN
  \E projector \in Makers(Receivers, SharesProjection),
     builder \in Makers(Receivers, SharesPayload),
     digester \in Makers({r \in Receivers : session[r].role = "player"}, SharesDigest) :
    LET target == [r \in Receivers |->
                     ProjectSnapshot(session[projector[r]].version, world)]
        patch(r) == AdaptOutboundPatch(session[builder[r]].version,
                                       BuildPatch(delivered[r], target[r]))
    IN /\ Receivers # {}
       /\ view' = [r \in Recipients |->
            IF r \notin Receivers THEN view[r]
            ELSE IF force_full[r] THEN target[r] ELSE ApplyPatch(view[r], patch(r))]
       /\ delivered' = Overlaid(target, delivered)
       /\ force_full' = [r \in Recipients |-> force_full[r] /\ r \notin Receivers]
       /\ digest' = [r \in Recipients |->
            IF r \in DOMAIN digester /\ digest_due
            THEN SnapshotDigest(session[digester[r]].version, target[digester[r]])
            ELSE NoDigest]
       /\ UNCHANGED <<world, session>>

(* What the admin page counts: sessions by epoch, and by rule in force.    *)
CompatibilityOverview ==
  LET profile == [r \in {r \in Recipients : session[r] # NoSession} |->
                    ForAcceptedPeer(session[r].claimed)]
      count(P(_)) == Cardinality({r \in DOMAIN profile : profile[r] # NoVersion /\ P(profile[r])})
  IN [connections_by_epoch |->
        [epoch \in Epochs |-> count(LAMBDA version : FromVersion(version) = epoch)],
      rules |-> [rule \in DOMAIN IntroducedIn |->
        count(LAMBDA version : rule \in ActiveRules(version))]]

(* Objects with and without the fields that are optional; the fields of    *)
(* PlayerDefaults are filled in.                                           *)
CodecObjects(scope) ==
  LET of(required, optional) ==
        UNION {[{required} \cup fields -> CodecValues] : fields \in SUBSET optional}
  IN CASE scope = "players" -> of("x", {"name", "position_source"})
       [] scope = "battle_chunks" -> of("color", {"color_mode", "mode"})
       [] scope = "tab_reports" -> of("name", {"scoreboard"})
       [] scope = "player_marks" -> of("team", {"label"})
       [] scope = "last_seen_players" -> of("x", {})

CodecNext(scopes) ==
  \/ \E r \in Recipients, hello \in Hellos : Greet(r, hello)
  \/ \E scope \in scopes, id \in CodecIds :
       \/ \E object \in CodecObjects(scope), version \in {MinimumVersion, CurrentVersion} :
            ReplaceObject(version, scope, id, object)
       \/ DropObject(scope, id)
  \/ \E id \in CodecIds, clear_fields \in SUBSET {"armor", "name"} :
       /\ "players" \in scopes
       /\ PatchPlayer(id, [data |-> [x |-> 1], clear_fields |-> clear_fields])
  \/ \E digest_due \in BOOLEAN : BroadcastPatches(digest_due)

CodecSpec == CodecInit /\ [][CodecNext(CodecScopes)]_codec_vars

(* A client that gets its patches in order shows what its version may see  *)
(* of the snapshot its baseline stands for, and no more: cleared fields    *)
(* are gone, also at clients that cannot be told of them, and a payload    *)
(* that was made for another client of the same epoch fits.  So does the   *)
(* digest by which it finds out whether it has gone astray, although it is *)
(* shared among epochs.  Positions are left to datagrams for those clients *)
(* alone that were told so, and the admin page, which works the profiles   *)
(* out again, counts the clients by what they get.                         *)
PatchesLeadToProjection ==
  LET sessions == {r \in Recipients : session[r] # NoSession}
  IN /\ \A r \in sessions :
          /\ view[r] = delivered[r]
          /\ delivered[r] = ProjectSnapshot(session[r].version, delivered[r])
          /\ digest[r] \in {NoDigest, SnapshotDigest(session[r].version, view[r])}
          /\ session[r].unreliable_positions <=> "movement" \in session[r].told
     /\ \A epoch \in Epochs : CompatibilityOverview.connections_by_epoch[epoch] =
          Cardinality({r \in sessions : FromVersion(session[r].version) = epoch})
     /\ CompatibilityOverview.rules["FullSnapshotForClearFields"] =
          Cardinality({r \in sessions : ~SupportsClearFields(session[r].version)})
=============================================================================
