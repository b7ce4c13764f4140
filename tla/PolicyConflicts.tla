-------------------------- MODULE PolicyConflicts --------------------------
(***************************************************************************)
(* The conflict rules of the repository's check of the policy matrix       *)
(* (scripts/check-policy-conflicts.mjs).  The script reads them off rows;  *)
(* here they are asked of a decision, so that they can be held against     *)
(* what evaluation makes of a row.  The script finds rows by the prefix of *)
(* their id, here they are named by domain and operation.                  *)
(***************************************************************************)
EXTENDS PolicyMatrix

NeverAllowedRows ==
  ({"external_asset"} \X DOMAIN ExternalAssetRows)
    \cup ({"network"} \X {"telemetry.send", "asset.fetch", "link.preview",
                           "notification.push_subscribe", "ai.remote_request"})
    \cup ({"link_preview"} \X {"preview.automatic", "preview.opengraph_fetch",
                                "preview.favicon_fetch", "preview.cache_write"})
    \cup ({"notification"} \X {"notification.push_subscribe", "notification.push_receive",
                                "notification.service_worker_show",
                                "notification.show.message_preview"})
    \cup ({"ai"} \X {"ai.remote_request", "ai.prompt_cache_write", "ai.output_cache_write"})

ExternalizedCapabilityRows ==
  {"endpoint"} \X {"clipboard.copy_protected", "input.secure_field",
                    "display.task_switcher_preview", "display.screenshot_blocking"}

PrivatePlusDeniedRows ==
  {"metadata"} \X {"receipt.read", "receipt.delivery", "typing.start", "presence.online",
                    "presence.last_seen"}

BunkerDeniedRows ==
  {"notification"} \X {"notification.badge.count", "notification.badge.dot",
                        "notification.sound", "notification.vibration"}

\* The rows whose sink is local_persistent_storage.
RoomPersistentRows ==
  {"room"} \X {"room.operation_log.persist", "room.project.persist", "room.object.persist",
                "room.query.history", "room.query.result_cache", "room.query.search_index",
                "room.capability.persist", "room.authorization.cache",
                "room.authorization.context_persist", "room.device_posture.persist"}

PersistentRows ==
  RoomPersistentRows
    \cup ({"storage"} \X {"storage.write.persistent", "storage.write.protected_reveal_state"})
    \cup {<<"endpoint", "protected_content.reveal_persist">>}

FutureGatedRows ==
  {<<"storage", "storage.backend.encrypted_persistent">>, <<"crypto", "crypto.any">>,
   <<"room", "room.sync">>}

\* checkMatrix finds nothing to say of the decision d about a row in mode m; that
\* a future gate stays one is a rule about rows, not about decisions.
ConflictFree(row, m, d) ==
  d.allowed =>
    /\ row \notin NeverAllowedRows \cup ExternalizedCapabilityRows \cup RoomPersistentRows
    /\ row \notin FutureGatedRows /\ row[1] \notin DeferredDomains
    /\ m \in StrictModes => row \notin PersistentRows
    /\ m = "offline_capsule" => row[1] # "network"
    /\ m # "standard" => row \notin PrivatePlusDeniedRows
    /\ m = "bunker" => row \notin BunkerDeniedRows
==============================================================================
