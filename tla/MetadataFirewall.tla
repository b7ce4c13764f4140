-------------------------- MODULE MetadataFirewall --------------------------
(***************************************************************************)
(* The Metadata Firewall (packages/privacy): the policy resolved for one   *)
(* signal and one place it may land in, and the barrier before it does.    *)
(*                                                                         *)
(* A policy is a function of what it was asked for, the question; only     *)
(* whether it allows is kept of it, for persistentAllowed and              *)
(* networkAllowed are false in every policy.  The device risk is part of   *)
(* the code's input and read nowhere.  Payloads are told apart by whether  *)
(* they are flat and free of text.                                         *)
(***************************************************************************)

MetadataModes ==
  {"standard", "private", "ghost", "bunker", "offline_capsule", "emergency", "sovereign_room"}

ZeroTraceModes == {"ghost", "bunker"}

------------------------------------------------------------------------------
(* Signals and sinks                                                       *)

ReceiptEvents == {"receipt.read", "receipt.delivery"}

TypingEvents == {"typing.start", "typing.stop"}

PresenceEvents == {"presence.online", "presence.offline", "presence.last_seen", "room.activity"}

ApplicationSignalEvents == ReceiptEvents \cup TypingEvents \cup PresenceEvents

NotificationEvents == {"notification.preview", "notification.badge", "notification.sound"}

AssetFetchEvents == {"asset.remote_fetch", "avatar.remote_fetch"}

ExternalFetchEvents == AssetFetchEvents \cup {"link.preview", "external.navigation"}

DerivedPreviewEvents == {"cache.exists", "preview.generated", "thumbnail.generated"}

NetworkMetadataEvents ==
  {"transport.poll", "transport.send_timing", "transport.receive_timing", "transport.size",
   "relay.choice", "lan.discovery", "webrtc.ice_candidate"}

AIMetadataEvents == {"ai.prompt_exists", "ai.cache_exists", "ai.summary_exists"}

EndpointSignalEvents == {"screen.capture_detected", "device_risk.changed", "watermark.generated"}

SpoolEvents == {"capsule.spool_exists", "capsule.spool_timestamp"}

\* Forbidden in every mode, wherever they would land.
ForbiddenEvents ==
  ExternalFetchEvents \cup AIMetadataEvents \cup ApplicationSignalEvents
    \cup NotificationEvents \cup {"crash_report.create"}

\* METADATA_EVENT_KINDS but "unknown", which is no known event.
MetadataEvents ==
  ForbiddenEvents \cup NetworkMetadataEvents \cup DerivedPreviewEvents \cup EndpointSignalEvents
    \cup SpoolEvents \cup {"protected_content.revealed", "audit_event.write", "log.write"}

PersistentSinks == {"local_persistent_storage", "build_artifact"}

NetworkedSinks == {"network", "transport_envelope"}

MetadataSinks ==
  PersistentSinks \cup NetworkedSinks
    \cup {"local_memory", "notification_system", "ui", "logs", "audit", "cache", "ai"}

MetadataSensitivities ==
  {"public", "low", "sensitive", "relationship", "content_adjacent", "critical", "unknown"}

\* defaultMetadataSensitivity.
DefaultSensitivity(event) ==
  IF event \in ApplicationSignalEvents THEN "relationship"
  ELSE IF event \in ExternalFetchEvents \cup DerivedPreviewEvents \cup AIMetadataEvents
  THEN "content_adjacent"
  ELSE IF event \in NetworkMetadataEvents \cup NotificationEvents
                      \cup {"crash_report.create", "log.write"} THEN "sensitive"
  ELSE IF event \in {"protected_content.revealed", "watermark.generated"} THEN "critical"
  ELSE IF event \in MetadataEvents THEN "low"
  ELSE "unknown"

------------------------------------------------------------------------------
(* The policy                                                              *)

\* A question without its mode, which changes under the caller.  sensitivity
\* "default" stands for none given, persistent for a storage context that
\* persists, room for what a room policy says of allowed.
MetadataQuestions ==
  [gate : {"metadata"}, mode : MetadataModes,
   event : MetadataEvents \cup {"unknown"}, sink : MetadataSinks \cup {"unknown"},
   sensitivity : MetadataSensitivities \cup {"default"}, persistent : BOOLEAN,
   room : BOOLEAN, sealed : BOOLEAN]

SensitivityOf(q) ==
  IF q.sensitivity = "default" THEN DefaultSensitivity(q.event) ELSE q.sensitivity

\* A preview may be known of in Standard, the existence of a cache in all modes
\* that keep traces at all, behind no sealed screen.
DerivedPreviewStays(q) ==
  /\ q.event \in DerivedPreviewEvents
  /\ q.mode \notin ZeroTraceModes /\ ~q.sealed
  /\ q.event \in {"preview.generated", "thumbnail.generated"} => q.mode = "standard"
  /\ q.sink \in {"local_memory", "cache", "ui"}

RevealStays(q) ==
  /\ q.event = "protected_content.revealed"
  /\ q.mode \notin ZeroTraceModes /\ ~q.sealed
  /\ q.sink \in {"local_memory", "ui"}

\* Endpoint signals, the spool, audit events and logs, each in its own sinks.
LocalSignalStays(q) ==
  \/ q.event \in EndpointSignalEvents /\ q.sink \in {"local_memory", "audit", "ui"}
  \/ /\ q.event \in SpoolEvents
     /\ q.event = "capsule.spool_timestamp" => q.mode \notin ZeroTraceModes
     /\ q.sink = "local_memory"
  \/ q.event = "audit_event.write" /\ q.sink \in {"audit", "logs", "local_memory"}
  \/ /\ q.event = "log.write" /\ q.sink \in {"logs", "local_memory"}
     /\ SensitivityOf(q) \in {"public", "low"}

\* What is no network exposure and not persistent.
LandsInMemory(q) ==
  /\ q.sink \notin NetworkedSinks /\ q.event \notin NetworkMetadataEvents
  /\ q.sink \notin PersistentSinks /\ ~q.persistent

\* Fault: the storage a sink would use is not asked after.
MetadataAllowedAnywhere(q) ==
  /\ q.event \in MetadataEvents \ ForbiddenEvents /\ q.sink \in MetadataSinks
  /\ q.sink \notin NetworkedSinks /\ q.event \notin NetworkMetadataEvents
  /\ q.sink \notin PersistentSinks
  /\ q.mode = "emergency" => q.event = "audit_event.write"
  /\ DerivedPreviewStays(q) \/ RevealStays(q) \/ LocalSignalStays(q)
  /\ q.room

\* Fault: Emergency is a mode like the others.
MetadataAllowedInEmergency(q) ==
  /\ q.event \in MetadataEvents \ ForbiddenEvents /\ q.sink \in MetadataSinks
  /\ LandsInMemory(q)
  /\ DerivedPreviewStays(q) \/ RevealStays(q) \/ LocalSignalStays(q)
  /\ q.room

\* resolveMetadataPolicy(q).allowed.
MetadataAllowed(q) ==
  /\ q.event \in MetadataEvents \ ForbiddenEvents /\ q.sink \in MetadataSinks
  /\ LandsInMemory(q)
  /\ q.mode = "emergency" => q.event = "audit_event.write"
  /\ DerivedPreviewStays(q) \/ RevealStays(q) \/ LocalSignalStays(q)
  /\ q.room

\* isMetadataEventForbiddenInMode, the quick answer for a signal wherever it would
\* land; the resolver is authoritative.
ForbiddenInMode(event, mode) ==
  \/ event \in ForbiddenEvents \cup NetworkMetadataEvents
  \/ event \in DerivedPreviewEvents /\ mode # "standard"
  \/ event = "protected_content.revealed" /\ mode \in ZeroTraceModes

------------------------------------------------------------------------------
(* The barrier                                                             *)

ExpectedMetadataScope(event, sink) ==
  IF event \in ReceiptEvents THEN "receipt.emit"
  ELSE IF event \in TypingEvents THEN "typing.emit"
  ELSE IF event \in PresenceEvents THEN "presence.emit"
  ELSE IF event \in NotificationEvents THEN "notification.show"
  ELSE IF event = "link.preview" THEN "link.preview"
  ELSE IF event \in AssetFetchEvents THEN "asset.fetch"
  ELSE IF event \in {"log.write", "crash_report.create"} THEN "metadata.log"
  ELSE IF event = "audit_event.write" THEN "metadata.audit"
  ELSE IF \/ event \in NetworkMetadataEvents \cup {"external.navigation"}
          \/ sink \in NetworkedSinks THEN "metadata.network_expose"
  ELSE IF sink \in PersistentSinks THEN "metadata.store"
  ELSE IF sink = "notification_system" THEN "notification.show"
  ELSE "metadata.emit"

ExpectedMetadataCapability(event) ==
  IF event \in ReceiptEvents THEN "readReceipts"
  ELSE IF event \in TypingEvents THEN "typingIndicators"
  ELSE IF event \in PresenceEvents THEN "presence"
  ELSE IF event \in NotificationEvents THEN "notifications"
  ELSE IF event = "link.preview" THEN "linkPreviews"
  ELSE IF event \in AssetFetchEvents THEN "externalAssets"
  ELSE IF event \in AIMetadataEvents THEN "localAI"
  ELSE IF event \in DerivedPreviewEvents THEN "mediaCache"
  ELSE IF event \in NetworkMetadataEvents \cup {"external.navigation"} THEN "network"
  ELSE "persistence"

\* assertNoSensitiveMetadataPayload: nothing, numbers and booleans; a string is
\* never safe, be it one word.
Payloads == {"counters", "text"}

SafePayload(payload) == payload = "counters"

\* Fault: the barrier accepts a decision of the right capability.
MetadataBarrierPassesByCapability(q, decision, payload) ==
  /\ q.event \in MetadataEvents /\ q.sink \in MetadataSinks
  /\ decision.verdict = "allowed"
  /\ decision.capability = ExpectedMetadataCapability(q.event)
  /\ MetadataAllowed(q)
  /\ q.sink \notin PersistentSinks \cup NetworkedSinks
  /\ SafePayload(payload)

\* assertMetadataOperationAllowed, for the request the policy was resolved for:
\* any other request is turned away.
MetadataBarrierPasses(q, decision, payload) ==
  /\ q.event \in MetadataEvents /\ q.sink \in MetadataSinks
  /\ decision.verdict = "allowed"
  /\ decision.capability = ExpectedMetadataCapability(q.event)
  /\ decision.scope = ExpectedMetadataScope(q.event, q.sink)
  /\ MetadataAllowed(q)
  /\ q.sink \notin PersistentSinks \cup NetworkedSinks
  /\ SafePayload(payload)
==============================================================================
