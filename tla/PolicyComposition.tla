----------------------- MODULE PolicyComposition -----------------------
(***************************************************************************)
(* What a room's policy document comes to on this device and in this mode: *)
(* the composed policy of an operation, and the admission of sensitive     *)
(* actions.  Both are pure in the code; both read the same document, each  *)
(* with conditions of its own.                                             *)
(***************************************************************************)
EXTENDS RoomPolicyDocument, RoomRoles

\* STRICTNESS; the model leaves out "not_implemented" and
\* "require_user_action", which composition never produces.
Strictness ==
  [deny |-> 100, future_gate |-> 90, null |-> 80, redact |-> 60,
   coarsen |-> 50, memory_only |-> 40, allow |-> 0]

Effects == DOMAIN Strictness

\* effectPermitsExecutionV1
PermitsExecution(effect) == effect \notin {"deny", "future_gate"}

\* foldStrictestEffectV1: folding the strictest of two from "allow" on.
StrictestOf(effects) ==
  CHOOSE effect \in effects \cup {"allow"} :
    \A other \in effects : Strictness[effect] >= Strictness[other]

\* devicePostureSatisfiesMinimumV1: without a provider a device is unverified
\* at best, and at risk it satisfies nothing.
PostureSatisfies(document, atRisk) ==
  ~atRisk /\ document.level.minimum_posture = 0

\* resolveProtectedPresentationStatusV1: beyond redaction by policy, every
\* requirement waits for an integration that does not exist.
PresentationSatisfied(document) == document.level.protected_content <= 1

StrictModes == {"ghost", "bunker"}

\* The effects contentConstraints collects for an operation on content.
ContentEffects(document, mode, atRisk) ==
  UNION {
    IF mode = "emergency" \/ ~PostureSatisfies(document, atRisk)
      THEN {"deny"} ELSE {},
    IF PresentationSatisfied(document) THEN {} ELSE {"future_gate"},
    IF mode \in StrictModes /\ document.level.protected_content > 0
      THEN {"redact"} ELSE {}}

\* storageEffect
StorageEffect(document, mode) ==
  IF document.level.retention = 2 \/ mode \in StrictModes
  THEN "null" ELSE "memory_only"

\* Fault: references are kept where the document stopped allowing them.
MetadataEffectInverted(document, mode) ==
  CASE mode = "emergency" -> "deny"
    [] mode \in StrictModes -> "coarsen"
    [] OTHER -> IF "actor_refs" \in document.allowed THEN "coarsen" ELSE "allow"

\* metadataEffect
MetadataEffect(document, mode) ==
  CASE mode = "emergency" -> "deny"
    [] mode \in StrictModes -> "coarsen"
    [] OTHER -> IF "actor_refs" \in document.allowed THEN "allow" ELSE "coarsen"

\* composeEffectiveRoomPolicyV1: the overall effect, and what it allows.
\* onContent tells the operations CONTENT_OPS matches from the others.
Composed(document, mode, atRisk, onContent) ==
  LET effect ==
        StrictestOf(IF onContent THEN ContentEffects(document, mode, atRisk)
                    ELSE {StorageEffect(document, mode), MetadataEffect(document, mode)})
  IN  [effect   |-> effect,
       allowed  |-> /\ PermitsExecution(effect)
                    /\ PostureSatisfies(document, atRisk)
                    /\ PresentationSatisfied(document),
       metadata |-> MetadataEffect(document, mode) = "allow",
       local_ai |-> /\ "local_ai" \in document.allowed
                    /\ mode \notin StrictModes \cup {"emergency"},
       notification |-> "notifications" \in document.allowed]

AdmissionActions ==
  {"room.open_summary", "room.open_content", "room.mutate_content",
   "room.manage_membership", "room.change_policy"}

ContentActions == {"room.open_content", "room.mutate_content"}

\* Fault: content is admitted whatever its presentation requires.
AdmittedUnprotected(document, mode, atRisk, action) ==
  CASE action = "room.open_summary" -> mode # "emergency"
    [] action \in ContentActions ->
         mode # "emergency" /\ PostureSatisfies(document, atRisk)
    [] OTHER -> ~atRisk

\* resolveSensitiveRoomAdmissionV1
Admitted(document, mode, atRisk, action) ==
  CASE action = "room.open_summary" -> mode # "emergency"
    [] action \in ContentActions ->
         /\ mode # "emergency"
         /\ PostureSatisfies(document, atRisk)
         /\ PresentationSatisfied(document)
    [] OTHER -> ~atRisk

\* Composition a is nowhere looser than b.
NoLooser(a, b) ==
  /\ Strictness[a.effect] >= Strictness[b.effect]
  /\ \A flag \in {"allowed", "metadata", "local_ai", "notification"} : a[flag] => b[flag]
==============================================================================
