---------------------------- MODULE PolicyMatrix ----------------------------
(***************************************************************************)
(* The Policy Matrix v1 (packages/privacy): for every domain, operation    *)
(* and mode one effect, and how evaluation composes a row with the         *)
(* ScreenShield, the device risk and a room.  Reason codes, rationales and *)
(* references are left out, and so are persistentAllowed and               *)
(* networkAllowed, false in every row and every decision.                  *)
(*                                                                         *)
(* An operation has one row of effects, a function from modes; the rows of *)
(* a domain are a function from its operations.                            *)
(***************************************************************************)
EXTENDS Naturals, Sequences

Modes ==
  {"standard", "private", "ghost", "bunker", "offline_capsule", "emergency", "sovereign_room"}

StrictModes == {"ghost", "bunker"}

OfflineModes == {"offline_capsule", "emergency"}

------------------------------------------------------------------------------
(* Effects                                                                 *)

\* POLICY_EFFECT_STRICTNESS, strictest first.
EffectStrictness ==
  <<"deny", "null", "not_implemented", "future_gate", "memory_only", "redact", "coarsen",
    "delay", "batch", "require_user_action", "allow">>

AllowingEffects == {"allow", "memory_only", "redact", "coarsen", "delay", "batch"}

\* strictnessIndex: an unknown effect is as strict as "deny".
StrictnessIndex(effect) ==
  LET at == {i \in DOMAIN EffectStrictness : EffectStrictness[i] = effect}
  IN IF at = {} THEN 1 ELSE CHOOSE i \in at : TRUE

IsEffectStricterThan(a, b) == StrictnessIndex(a) < StrictnessIndex(b)

\* combinePolicyEffects: the strictest of them, and no effect at all denies.
CombinePolicyEffects(effects) ==
  IF effects = {} THEN "deny"
  ELSE CHOOSE e \in effects : \A other \in effects : ~IsEffectStricterThan(other, e)

\* applyStrictestPolicy: every decision must allow, the strictest one included.
ApplyStrictestPolicy(decisions) ==
  [effect  |-> CombinePolicyEffects({d.effect : d \in decisions}),
   allowed |-> decisions # {} /\ \A d \in decisions : d.allowed]

------------------------------------------------------------------------------
(* Rows                                                                    *)

Always(effect) == [m \in Modes |-> effect]

Except(effect, modes, other) == [m \in Modes |-> IF m \in modes THEN other ELSE effect]

Rows(operations, effects) == [op \in operations |-> effects]

\* The rows of both.
rows ++ more ==
  [op \in DOMAIN rows \cup DOMAIN more |-> IF op \in DOMAIN rows THEN rows[op] ELSE more[op]]

ExceptEmergency == Except("memory_only", {"emergency"}, "deny")

StorageRows ==
  Rows({"storage.write.persistent"}, Except("deny", {"standard"}, "future_gate"))
  ++ Rows({"storage.write.memory"}, [ExceptEmergency EXCEPT !["standard"] = "future_gate"])
  ++ Rows({"storage.write.capsule_spool"}, ExceptEmergency)
  ++ Rows({"storage.write.preview_cache", "storage.write.thumbnail_cache"},
          Except("deny", {"standard"}, "memory_only"))
  ++ Rows({"storage.write.audit_event"}, Always("redact"))
  ++ Rows({"storage.write.key_material", "storage.backend.encrypted_persistent"},
          Always("future_gate"))
  ++ Rows({"storage.write.ai_cache", "storage.write.debug_artifact",
           "storage.write.protected_reveal_state", "storage.write.notification_content"},
          Always("deny"))

NetworkRows ==
  Rows({"transport.send"},
       Except("require_user_action", StrictModes \cup OfflineModes, "deny"))
  ++ Rows({"network.request", "network.connect.websocket", "network.connect.webrtc",
           "transport.discovery", "asset.fetch", "link.preview", "telemetry.send",
           "ai.remote_request", "update.check", "notification.push_subscribe",
           "service_worker.network"}, Always("deny"))

MetadataSignalRows ==
  Rows({"receipt.read", "receipt.delivery", "typing.start", "presence.online",
        "presence.last_seen", "room.activity", "transport.send_timing", "transport.size",
        "relay.choice", "link.preview", "asset.remote_fetch"}, Always("deny"))

MetadataLocalRows ==
  Rows({"audit_event.write"}, Always("redact"))
  ++ Rows({"log.write", "screen.capture_detected"}, Except("redact", {"emergency"}, "deny"))
  ++ Rows({"protected_content.revealed"},
          Except("memory_only", StrictModes \cup {"emergency"}, "deny"))
  ++ Rows({"ai.prompt_exists", "notification.preview"}, Always("deny"))

LinkPreviewRows ==
  Rows({"preview.plain_text_display"}, Always("redact"))
  ++ Rows({"preview.user_initiated"}, Always("future_gate"))
  ++ Rows({"preview.automatic", "preview.opengraph_fetch", "preview.favicon_fetch",
           "preview.cache_write"}, Always("deny"))

ExternalAssetRows ==
  Rows({"asset.remote_image", "asset.remote_avatar", "asset.remote_font",
        "asset.remote_script", "asset.remote_stylesheet", "asset.remote_css_url",
        "asset.tracking_pixel", "asset.iframe", "asset.preconnect", "asset.dns_prefetch",
        "asset.preload", "asset.prefetch"}, Always("deny"))

NotificationRows ==
  Rows({"notification.permission_request"}, Always("require_user_action"))
  ++ Rows({"notification.show.in_app_generic"},
          Except("memory_only", StrictModes \cup OfflineModes, "deny"))
  ++ Rows({"notification.show.message_preview", "notification.show.room_name",
           "notification.show.sender_alias"}, Always("deny"))
  ++ Rows({"notification.badge.count", "notification.badge.dot", "notification.sound",
           "notification.vibration"}, Always("not_implemented"))
  ++ Rows({"notification.push_subscribe", "notification.push_receive",
           "notification.service_worker_show"}, Always("future_gate"))
  ++ Rows({"notification.audit"}, Always("redact"))

AIRows ==
  Rows({"ai.local_request"}, Except("future_gate", StrictModes \cup {"emergency"}, "deny"))
  ++ Rows({"ai.remote_request", "ai.prompt_cache_write", "ai.embedding_index_write",
           "ai.output_cache_write", "ai.summary_notification"}, Always("deny"))
  ++ Rows({"ai.audit"}, Always("redact"))

EndpointRows ==
  Rows({"protected_content.reveal"},
       Except("memory_only", StrictModes \cup {"emergency"}, "deny"))
  ++ Rows({"protected_content.reveal_persist"}, Always("deny"))
  ++ Rows({"screen.capture_audit", "watermark.state_write"},
          Except("redact", {"emergency"}, "deny"))
  ++ Rows({"clipboard.copy_protected", "input.secure_field", "display.task_switcher_preview",
           "display.screenshot_blocking", "desktop.tauri_permissions"}, Always("future_gate"))

\* The rooms of TECH-16 and the log of TECH-17.
RoomLogRows ==
  Rows({"room.create", "room.mutate", "room.policy_update", "room.operation_log.append",
        "room.project", "room.operation_log.read", "room.replay"}, ExceptEmergency)
  ++ Rows({"room.lifecycle_update", "room.operation_log.clear"}, Always("memory_only"))
  ++ Rows({"room.audit"}, Always("redact"))
  ++ Rows({"room.operation_log.persist", "room.project.persist"}, Always("deny"))
  ++ Rows({"room.sync", "room.project.snapshot"}, Always("future_gate"))

RoomObjectRows ==
  Rows({"room.object.create", "room.object.update", "room.object.archive",
        "room.object_log.append"}, ExceptEmergency)
  ++ Rows({"room.object.redact", "room.object.tombstone"}, Always("memory_only"))
  ++ Rows({"room.object.persist", "room.object.file_preview", "room.object.file_remote"},
          Always("deny"))
  ++ Rows({"room.object.poll_vote", "room.object.file_resolve", "room.object.ai_memory",
           "room.object.endpoint_hook"}, Always("future_gate"))

RoomQueryRows ==
  Rows({"room.query.summary"}, Always("memory_only"))
  ++ Rows({"room.query.list", "room.query.detail", "room.query.count"}, ExceptEmergency)
  ++ Rows({"room.query.search"}, Except("memory_only", OfflineModes, "deny"))
  ++ Rows({"room.query.history", "room.query.result_cache", "room.query.search_index"},
          Always("deny"))
  ++ Rows({"room.query.semantic", "room.query.remote", "room.query.bunker_content_view"},
          Always("future_gate"))

MembershipRows ==
  Rows({"room.membership.bootstrap", "room.membership_log.append"}, ExceptEmergency)
  ++ Rows({"room.membership.add", "room.membership.change_role", "room.membership.reactivate",
           "room.membership.query.list", "room.membership.query.detail"},
          Except("memory_only", {"bunker", "emergency"}, "deny"))
  ++ Rows({"room.membership.suspend", "room.membership.remove"}, Always("memory_only"))

CapabilityRows ==
  Rows({"room.membership.query.count"},
       Except("memory_only", {"private", "ghost", "bunker", "emergency"}, "deny"))
  ++ Rows({"room.capability.resolve"}, Always("memory_only"))
  ++ Rows({"room.capability.persist", "room.capability.serialize"}, Always("deny"))
  ++ Rows({"room.capability.delegate"}, Always("not_implemented"))
  ++ Rows({"room.membership.invite", "room.membership.identity_verify",
           "room.membership.distributed_revocation", "room.membership.endpoint_risk_integration"},
          Always("future_gate"))

AuthorizationRows ==
  Rows({"room.authorization.prepare", "room.authorization.revalidate"}, Always("memory_only"))
  ++ Rows({"room.authorization.cache", "room.authorization.context_persist",
           "room.authorization.context_serialize", "room.authorization.endpoint_assurance"},
          Always("deny"))
  ++ Rows({"room.authorization.distributed_revocation", "room.authorization.signed_revocation"},
          Always("future_gate"))

GovernanceRows ==
  Rows({"room.governance_log.append"}, ExceptEmergency)
  ++ Rows({"room.policy.compose", "room.governance.update", "room.device_posture.resolve",
           "room.sensitive_admission.resolve"}, Always("memory_only"))
  ++ Rows({"room.policy.loosen", "room.device_posture.elevate", "room.device_posture.persist",
           "room.protected_content.claim_active"}, Always("deny"))
  ++ Rows({"room.device_posture.verify", "room.protected_content.require",
           "room.secure_device.integration", "room.governance.distributed_consensus",
           "room.governance.signed_policy"}, Always("future_gate"))

DeferredDomains == {"crypto", "capsule", "identity"}

\* Each domain's rows, by operation and mode (RULE_INDEX).
Matrix ==
  [storage        |-> StorageRows,
   network        |-> NetworkRows,
   metadata       |-> MetadataSignalRows ++ MetadataLocalRows,
   link_preview   |-> LinkPreviewRows,
   external_asset |-> ExternalAssetRows,
   notification   |-> NotificationRows,
   ai             |-> AIRows,
   endpoint       |-> EndpointRows,
   crypto         |-> Rows({"crypto.any"}, Always("future_gate")),
   capsule        |-> Rows({"capsule.wire_format", "capsule.transport_send"},
                           Always("future_gate")),
   identity       |-> Rows({"identity.invite", "identity.verification"},
                           Always("future_gate")),
   room           |-> RoomLogRows ++ RoomObjectRows ++ RoomQueryRows ++ MembershipRows
                        ++ CapabilityRows ++ AuthorizationRows ++ GovernanceRows]

\* The rows a sealed ScreenShield or a critical device risk deny.
ShieldTightened ==
  {<<"storage", "storage.write.preview_cache">>, <<"storage", "storage.write.thumbnail_cache">>,
   <<"storage", "storage.write.protected_reveal_state">>,
   <<"metadata", "protected_content.revealed">>, <<"link_preview", "preview.cache_write">>,
   <<"endpoint", "protected_content.reveal">>, <<"endpoint", "protected_content.reveal_persist">>}

MatrixQuestions == UNION {{domain} \X DOMAIN Matrix[domain] : domain \in DOMAIN Matrix}

------------------------------------------------------------------------------
(* Evaluation                                                              *)

\* What a room policy may say: nothing (effect "allow" changes nothing), that it
\* does not allow, an effect.
RoomSays == [allowed : BOOLEAN, effect : {EffectStrictness[i] : i \in DOMAIN EffectStrictness}]

RoomSilent == [allowed |-> TRUE, effect |-> "allow"]

Denied == [effect |-> "deny", allowed |-> FALSE]

\* The row, and what shield and risk leave of it.
DeviceBaseline(domain, operation, mode, sealed, critical) ==
  LET effect == Matrix[domain][operation][mode]
  IN IF <<domain, operation>> \in ShieldTightened /\ (sealed \/ critical)
     THEN Denied
     ELSE [effect |-> effect, allowed |-> effect \in AllowingEffects]

\* Fault: a room's effect decides, be it stricter or not.
EvaluateByRoom(domain, operation, mode, sealed, critical, room) ==
  IF <<domain, operation>> \notin MatrixQuestions \/ mode \notin Modes THEN Denied
  ELSE LET device == DeviceBaseline(domain, operation, mode, sealed, critical)
       IN IF ~room.allowed /\ device.allowed THEN Denied
          ELSE IF room.effect # "allow"
          THEN [effect |-> room.effect, allowed |-> room.effect \in AllowingEffects]
          ELSE device

\* evaluatePolicyMatrix: what has no row is denied; a room tightens, and where it
\* does not allow it is not asked for an effect as well.
EvaluatePolicyMatrix(domain, operation, mode, sealed, critical, room) ==
  IF <<domain, operation>> \notin MatrixQuestions \/ mode \notin Modes THEN Denied
  ELSE LET device == DeviceBaseline(domain, operation, mode, sealed, critical)
       IN IF ~room.allowed /\ device.allowed THEN Denied
          ELSE IF IsEffectStricterThan(room.effect, device.effect)
          THEN [effect  |-> room.effect,
                allowed |-> device.allowed /\ room.effect \in AllowingEffects]
          ELSE device

\* The matrix on its own: no shield, no risk, no room.
MatrixAllows(domain, operation, mode) ==
  EvaluatePolicyMatrix(domain, operation, mode, FALSE, FALSE, RoomSilent).allowed
==============================================================================
