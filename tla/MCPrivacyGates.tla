-------------------------- MODULE MCPrivacyGates --------------------------
(***************************************************************************)
(* PrivacyGates for TLC: every mode, event, operation and matrix row, the  *)
(* sinks, classes and surfaces told apart by some rule, and the decisions  *)
(* the barriers ask for next to some they refuse.                          *)
(***************************************************************************)
EXTENDS PrivacyGates

SomeMetadata ==
  {q \in MetadataQuestions :
     /\ q.sink \in {"local_persistent_storage", "network", "local_memory", "logs", "audit", "ui",
                    "cache", "unknown"}
     /\ q.sensitivity \in (IF q.event = "log.write" THEN {"default", "low"} ELSE {"default"})
     /\ q.persistent => q.room /\ ~q.sealed}

SomeNotifications ==
  {q \in NotificationQuestions :
     /\ q.contentClass \in {"none", "generic", "activity_count", "message_preview", "secret", "unknown"}
     /\ q.surface \in {"in_app", "system_banner", "notification_center", "app_badge"}
     /\ q.roomContent => q.room}

SomeStorage ==
  {q \in StorageQuestions :
     /\ q.dataClass \in {"room_key_material", "message_content", "capsule_spool", "preview_cache",
                         "thumbnail_cache", "media_cache", "ai_prompt_cache", "debug_artifact",
                         "logs", "settings", RevealState}
     /\ q.sensitivity \in {"content", "metadata"}}

SomeNetwork == {q \in NetworkQuestions : q.roomEndpoint => q.room}

AllInputs == SomeMetadata \cup SomeNotifications \cup SomeStorage \cup SomeNetwork \cup MatrixInputs

Allowed(capability, scope) == [capability |-> capability, scope |-> scope, verdict |-> "allowed"]

SomeDecisions ==
  {Allowed("persistence", "metadata.emit"), Allowed("mediaCache", "metadata.emit"),
   Allowed("persistence", "metadata.log"), Allowed("persistence", "metadata.audit"),
   Allowed("notifications", "notification.show"),
   Allowed("persistence", "storage.write"), Allowed("mediaCache", "storage.cache.write"),
   Allowed("persistence", "storage.audit.write"),
   Allowed("network", "transport.send"), Allowed("network", "ai.remote_request"),
   Allowed("directTransport", "link.preview"), Allowed("persistence", "generic"),
   [capability |-> "persistence", scope |-> "storage.write", verdict |-> "denied"]}

SomeRequests ==
  [operation : {"transport.send", "ai.remote_request", "link.preview"},
   transport : {"relay", "qr", "http", "webrtc"}, userInitiated : BOOLEAN,
   endpoint : {"none", "valid", "invalid"}]
==============================================================================
