--------------------------- MODULE StoragePolicy ---------------------------
(***************************************************************************)
(* The storage policy (packages/storage): what is resolved from mode, data *)
(* class, sensitivity and restrictions, and what the write barrier asks of *)
(* a policy and of the decision presented with it.                         *)
(***************************************************************************)

------------------------------------------------------------------------------
(* Data classes, sensitivities, backends                                   *)

KeyMaterialClasses ==
  {"identity_key_material", "device_key_material", "room_key_material", "trust_notebook"}

ContentClasses ==
  {"room_operation_log", "materialized_room_state", "message_content", "document_content",
   "file_blob", "capsule_spool", "capsule_inbox", "capsule_quarantine", "bundle_export"}

PreviewClasses == {"preview_cache", "thumbnail_cache"}

CacheClasses == PreviewClasses \cup {"cache", "media_cache"}

AICacheClasses == {"ai_prompt_cache", "ai_embedding_index", "ai_output_cache"}

RevealState == "protected_content_reveal_state"

EndpointClasses ==
  {RevealState, "endpoint_redaction_state", "screen_capture_audit_event",
   "device_risk_state", "watermark_canary_state"}

SettingsClasses == {"settings", "contact_aliases", "room_aliases"}

DataClasses ==
  KeyMaterialClasses \cup ContentClasses \cup CacheClasses \cup AICacheClasses
    \cup EndpointClasses \cup SettingsClasses \cup {"logs", "debug_artifact"}

PlaintextRestricted == {"content", "derived_content", "key_material"}

Sensitivities ==
  PlaintextRestricted \cup {"public_project_metadata", "local_settings", "metadata",
                            "sensitive_metadata", "security_event"}

Placeholder == "encrypted_persistent_placeholder"

Backends == {"null", "memory_only", Placeholder}

\* BACKEND_STRICTNESS: null before memory before the placeholder.
StricterBackend(a, b) ==
  IF "null" \in {a, b} THEN "null" ELSE IF "memory_only" \in {a, b} THEN "memory_only" ELSE Placeholder

StorageModes ==
  {"standard", "private", "ghost", "bunker", "offline_capsule", "emergency", "sovereign_room"}

ZeroPersistenceModes == {"ghost", "bunker", "emergency"}

IsPersistentBackend(backend) == backend \notin {"null", "memory_only"}

------------------------------------------------------------------------------
(* StoragePolicy: a backend and the set of flags that are true             *)

Flags == {"write", "read", "delete", "list", "export", "cache", "debug", "plaintext", "persistent"}

\* What a caller may add to mode, class and sensitivity: flags a room policy
\* sets to false, the backend it names (Placeholder if none: that changes
\* nothing), the device risk and the shield level, as far as they are told
\* apart.
Restrictions ==
  [denies : SUBSET Flags, backend : Backends,
   risk : {"low", "high", "critical"}, sealed : BOOLEAN]

Unrestricted == [denies |-> {}, backend |-> Placeholder, risk |-> "low", sealed |-> FALSE]

StorageInputs ==
  [mode : StorageModes, dataClass : DataClasses, sensitivity : Sensitivities,
   restriction : Restrictions]

\* Classes for which a strict mode stops at "default deny".
DeniedWhenStrict(m) ==
  KeyMaterialClasses \cup AICacheClasses \cup PreviewClasses \cup {"debug_artifact"}
    \cup (IF m = "bunker" THEN CacheClasses \cup {RevealState} ELSE {})

BaselineBackend(m, class) ==
  IF m = "emergency" THEN "null"
  ELSE IF m \in {"ghost", "bunker"} THEN "memory_only"
  ELSE IF \/ class \in KeyMaterialClasses
          \/ class \in ContentClasses /\ m = "standard" THEN Placeholder
  ELSE IF \/ class \in AICacheClasses \cup {"debug_artifact"}
          \/ class \in PreviewClasses /\ m # "standard" THEN "null"
  ELSE "memory_only"

ActiveState == {"write", "read", "list", "plaintext"}

\* The flags of a class outside the strict modes.
OpenFlags(m, class, sensitivity) ==
  IF class \in ContentClasses
  THEN (ActiveState \ (IF m = "standard" THEN {"plaintext"} ELSE {}))
         \cup (IF class = "bundle_export" THEN {"export"} ELSE {})
  ELSE IF class \in SettingsClasses THEN ActiveState
  ELSE IF class \in PreviewClasses /\ m # "standard" THEN {}
  ELSE IF class \in CacheClasses THEN {"write", "read", "cache", "plaintext"}
  ELSE IF class \in EndpointClasses
  THEN ActiveState \ (IF sensitivity \in {"content", "key_material"} THEN {"plaintext"} ELSE {})
  ELSE IF class = "logs" /\ sensitivity \notin PlaintextRestricted THEN {"write", "read"}
  ELSE {}

\* The flags that mode, class and sensitivity leave, beyond deleting, which is
\* always possible.
BaselineFlags(m, class, sensitivity) ==
  IF m = "emergency" THEN {}
  ELSE IF m \in {"ghost", "bunker"}
  THEN IF class \in DeniedWhenStrict(m) THEN {} ELSE ActiveState
  ELSE OpenFlags(m, class, sensitivity)

\* What shield and device risk take away.
Withheld(class, restriction) ==
  (IF \/ restriction.sealed /\ class \in CacheClasses \cup AICacheClasses \cup {RevealState}
      \/ restriction.risk # "low" /\ class = RevealState
   THEN {"write", "read", "cache"} ELSE {})
    \cup (IF restriction.sealed THEN {"persistent"} ELSE {})
    \cup (IF restriction.risk = "critical" THEN {"export"} ELSE {})

\* The flags that survive, whatever the backend.
TightenedFlags(input) ==
  (BaselineFlags(input.mode, input.dataClass, input.sensitivity) \cup {"delete"})
    \ (Withheld(input.dataClass, input.restriction) \cup input.restriction.denies)

\* Fault: a room that names a backend chooses it.
ResolvedByRoom(input) ==
  [mode |-> input.mode, dataClass |-> input.dataClass,
   backend |-> IF input.restriction.backend = Placeholder
               THEN BaselineBackend(input.mode, input.dataClass)
               ELSE input.restriction.backend,
   flags |-> TightenedFlags(input) \ {"persistent"}]

\* resolveStoragePolicy: the baseline, tightened by shield, risk and room, and
\* at last no persistence but on the placeholder.
Resolved(input) ==
  LET backend == StricterBackend(input.restriction.backend,
                                 BaselineBackend(input.mode, input.dataClass))
  IN [mode |-> input.mode, dataClass |-> input.dataClass, backend |-> backend,
      flags |-> TightenedFlags(input) \ (IF backend = Placeholder THEN {} ELSE {"persistent"})]

------------------------------------------------------------------------------
(* The write barrier                                                       *)

WriteOperations == {"storage.write", "storage.cache.write", "storage.audit.write"}

\* Logs, audit events and endpoint artifacts are no containers of content.
ContentGrade(operation, class, sensitivity) ==
  /\ class \in EndpointClasses \cup {"logs"} \/ operation = "storage.audit.write"
  /\ sensitivity \in PlaintextRestricted

\* Fault: what is not written as a log is not asked for its sensitivity.
WritePermittedBlindly(policy, operation, class, sensitivity) ==
  /\ "write" \in policy.flags
  /\ operation = "storage.cache.write" => "cache" \in policy.flags
  /\ class = "debug_artifact" => "debug" \in policy.flags
  /\ policy.backend # Placeholder

\* assertStorageWriteAllowed, the decision apart.
WritePermitted(policy, operation, class, sensitivity) ==
  /\ "write" \in policy.flags
  /\ operation = "storage.cache.write" => "cache" \in policy.flags
  /\ class = "debug_artifact" => "debug" \in policy.flags
  /\ ~ContentGrade(operation, class, sensitivity)
  /\ policy.backend # Placeholder

\* What a call must present: the decision scoped for exactly this operation
\* (expectedCapabilityForOperation, assertAllowed).
StorageDecisionFits(operation, decision) ==
  /\ decision.verdict = "allowed"
  /\ decision.scope = operation
  /\ decision.capability =
       (IF operation = "storage.cache.write" THEN "mediaCache" ELSE "persistence")
==============================================================================
