---------------------------- MODULE PrivacyGates ----------------------------
(***************************************************************************)
(* The privacy gates composed: a caller has policies resolved and          *)
(* decisions issued, in any order, and presents what it holds to the       *)
(* metadata, notification, storage and network barriers; and it may ask    *)
(* the policy matrix.                                                      *)
(*                                                                         *)
(* A policy is a function of what it was resolved for, so the question     *)
(* stands for it.  Time is no part of a state: no barrier looks at the     *)
(* mode of the day nor at that of the decision, and a policy or decision   *)
(* may be presented however late.                                          *)
(***************************************************************************)
EXTENDS Naturals, FiniteSets, MetadataFirewall, NotificationPrivacy, NetworkGate, StoragePolicy,
        PolicyConflicts

CONSTANTS
  InputQuestions,  \* what policies are resolved for
  InputDecisions,  \* the decisions core issues
  InputRequests,   \* the requests presented to the network barrier
  MaxServed        \* bound: operations a decision is used for (the code has none)

VARIABLES
  question,  \* what the held policy was resolved for
  decision,  \* the held PolicyDecision
  served     \* what the barriers let this decision through for

gatesVars == <<question, decision, served>>

------------------------------------------------------------------------------
(* Questions and decisions                                                 *)

NoQuestion == [gate |-> "none"]

\* Of the restrictions LocalStorage knows: a room that denies writes, a shield.
StorageQuestions ==
  [gate : {"storage"}, mode : StorageModes, dataClass : DataClasses,
   sensitivity : Sensitivities, room : BOOLEAN, sealed : BOOLEAN]

StorageInput(q) ==
  [mode |-> q.mode, dataClass |-> q.dataClass, sensitivity |-> q.sensitivity,
   restriction |-> [Unrestricted EXCEPT !.denies = IF q.room THEN {} ELSE {"write"},
                                        !.sealed = q.sealed]]

\* PolicyMatrixEvaluationInput, the circumstances apart: one row in one mode.
UnknownRow == <<"unknown", "unknown">>

MatrixInputs ==
  [gate : {"matrix"}, mode : Modes, row : MatrixQuestions \cup {UnknownRow}]

\* What a room policy says, a sealed ScreenShield, a critical device risk.
Circumstances == [room : RoomSays, sealed : BOOLEAN, critical : BOOLEAN]

Plain == [room |-> RoomSilent, sealed |-> FALSE, critical |-> FALSE]

Evaluated(row, m, c) ==
  EvaluatePolicyMatrix(row[1], row[2], m, c.sealed, c.critical, c.room)

AllQuestions ==
  MetadataQuestions \cup NotificationQuestions \cup StorageQuestions \cup NetworkQuestions
    \cup MatrixInputs

Capabilities ==
  {"persistence", "network", "directTransport", "externalAssets", "linkPreviews",
   "readReceipts", "typingIndicators", "presence", "notifications", "localAI",
   "mediaCache", "roomSync", "capsuleSpool"}

MetadataScopes ==
  {"metadata.emit", "metadata.store", "metadata.notify", "metadata.log", "metadata.audit",
   "metadata.network_expose", "receipt.emit", "typing.emit", "presence.emit"}

NotificationScopes ==
  PushOperations
    \cup {"notification.show", "notification.permission_request", "notification.badge",
          "notification.sound", "notification.vibration", "notification.audit"}

\* The scopes of a PolicySideEffectScope that some gate here asks for, and the
\* one that none accepts.
Scopes ==
  MetadataScopes \cup NotificationScopes \cup WriteOperations \cup NetworkOperations
    \cup {"generic"}

\* A decision's mode is compared nowhere, its id and its number neither.
Decisions ==
  [capability : Capabilities, scope : Scopes, verdict : {"allowed", "denied"}]

NoDecision == [capability |-> "none", scope |-> "none", verdict |-> "denied"]

ASSUME GatesAssumption ==
  /\ InputQuestions \subseteq AllQuestions
  /\ InputDecisions \subseteq Decisions
  /\ InputRequests \subseteq NetworkRequests
  /\ MaxServed \in Nat

------------------------------------------------------------------------------
(* Actions                                                                 *)

\* resolveMetadataPolicy and its siblings, evaluatePolicyMatrix: pure functions.
\* Bound: one policy is held at a time, the next resolved once it is let go.
Resolve ==
  /\ question = NoQuestion
  /\ question' \in InputQuestions
  /\ UNCHANGED <<decision, served>>

\* The caller lets go of its policy and keeps its decision.
LetGo ==
  /\ question # NoQuestion
  /\ question' = NoQuestion
  /\ UNCHANGED <<decision, served>>

\* Fault: the scope is not recorded.
IssueDecisionUnscoped(d) ==
  /\ decision' = [capability |-> d.capability, verdict |-> d.verdict]
  /\ served' = {}
  /\ UNCHANGED question

\* issuePolicyDecision: only what it returns passes isPolicyDecision.
IssueDecision(d) ==
  /\ decision' = d
  /\ served' = {}
  /\ UNCHANGED question

\* One more operation is let through: the event of a signal, what a notification,
\* a write or a request is to do.
ServedBy(gate, operation) ==
  /\ Cardinality(served) < MaxServed
  /\ served' = served \cup {<<gate, operation>>}
  /\ UNCHANGED <<question, decision>>

\* assertMetadataOperationAllowed returns.
Emit(payload) ==
  /\ question.gate = "metadata"
  /\ MetadataBarrierPasses(question, decision, payload)
  /\ ServedBy("metadata", question.event)

\* assertNotificationOperationAllowed returns.
Show(payload) ==
  /\ question.gate = "notification"
  /\ NotificationBarrierPasses(question, decision, SafePayload(payload))
  /\ ServedBy("notification", question.operation)

\* assertStorageWriteAllowed returns, for the class the policy is about.
StorageWrites(operation) ==
  /\ question.gate = "storage"
  /\ StorageDecisionFits(operation, decision)
  /\ WritePermitted(Resolved(StorageInput(question)), operation,
                    question.dataClass, question.sensitivity)

Store(operation) ==
  /\ StorageWrites(operation)
  /\ ServedBy("storage", operation)

\* assertNetworkOperationAllowed returns; no transport behind it does anything
\* but keep an empty payload.
Transmit(request) ==
  /\ question.gate = "network"
  /\ NetworkBarrierPasses(request, decision, question)
  /\ ServedBy("network", request.operation)

GatesInit ==
  /\ question = NoQuestion
  /\ decision = NoDecision
  /\ served = {}

GatesNext ==
  \/ Resolve
  \/ LetGo
  \/ \E d \in InputDecisions : IssueDecision(d)
  \/ \E payload \in Payloads : Emit(payload)
  \/ \E payload \in Payloads : Show(payload)
  \/ \E operation \in WriteOperations : Store(operation)
  \/ \E request \in InputRequests : Transmit(request)

GatesSpec == GatesInit /\ [][GatesNext]_gatesVars

------------------------------------------------------------------------------
(* Properties                                                              *)

\* Every reachable state is well typed.
GatesTypeOK ==
  /\ question \in AllQuestions \cup {NoQuestion}
  /\ decision \in Decisions \cup {NoDecision}
  /\ served \subseteq
       {"metadata", "notification", "storage", "network"}
         \X (MetadataEvents \cup NotificationOperations \cup WriteOperations
              \cup NetworkOperations)

\* A signal stays in memory: none that a mode forbids everywhere, none towards a
\* persistent or networked place, and in Emergency audit events only.
SignalsStay ==
  \A payload \in Payloads :
    question.gate = "metadata" /\ MetadataBarrierPasses(question, decision, payload) =>
      /\ question.event \notin ForbiddenEvents \cup NetworkMetadataEvents
      /\ ~question.persistent /\ question.sink \notin PersistentSinks \cup NetworkedSinks
      /\ question.mode = "emergency" => question.event = "audit_event.write"
      /\ payload = "counters"

\* An indicator stays inside the application and says nothing, behind a sealed
\* screen not even in general.
IndicatorsStay ==
  question.gate = "notification" /\ NotificationBarrierPasses(question, decision, TRUE) =>
    /\ question.surface = "in_app"
    /\ question.contentClass \in GenericContentClasses
    /\ question.sealed => question.contentClass = "none"

\* Under the policy of their class AI caches and debug artifacts are stored
\* nowhere, caches not behind a sealed screen, and what is stored is in memory.
StorageStays ==
  \A operation \in WriteOperations : StorageWrites(operation) =>
    /\ question.dataClass \notin AICacheClasses \cup {"debug_artifact"}
    /\ Resolved(StorageInput(question)).backend # Placeholder
    /\ question.sealed => question.dataClass \notin CacheClasses

\* What the network rules ask of a request: none of the operations denied in
\* every mode, and if its transport is networked, the user's own and in a mode
\* that knows such transports.
KeepsNetworkRules(request, q) ==
  /\ request.operation \notin AlwaysForbiddenOperations
  /\ request.transport \notin OfflineTransports =>
       /\ request.userInitiated
       /\ q.mode \in {"standard", "private", "sovereign_room"}

\* Under the policy of its own operation and transport a request keeps the rules.
\* The barrier compares neither, so under the policy of another request no more
\* is claimed than this: telemetry, assets, link previews and direct peers never
\* leave, and an endpoint is valid and the policy's is a relay or a mail server.
OwnRequestsKeepRules ==
  \A request \in InputRequests :
    question.gate = "network" /\ NetworkBarrierPasses(request, decision, question) =>
      /\ request.operation \notin {"telemetry.send", "asset.fetch", "link.preview"}
      /\ request.transport \notin DirectPeerTransports
      /\ request.endpoint # "none" =>
           request.endpoint = "valid" /\ question.transport \in {"relay", "email"}
      /\ question.operation = request.operation /\ question.transport = request.transport =>
           KeepsNetworkRules(request, question)

\* Presented with a policy that was resolved for the very request, in whatever
\* mode and however long ago, and with any decision, nothing passes a barrier
\* that would leave the device without the user or persist on it.  The barriers
\* of signals and notifications make sure that the policy is the request's own;
\* those of storage and the network do not, and leave it to the caller
\* (metadataBarrier.ts, notificationBarrier.ts, barrier.ts, networkBarrier.ts).
OwnPoliciesHold ==
  SignalsStay /\ IndicatorsStay /\ StorageStays /\ OwnRequestsKeepRules

\* "Always denied, every mode", "the transport is explicitly selected or allowed
\* by policy" (docs/NETWORK_MODEL.md): what passes the network barrier keeps the
\* rules, whichever policy it is presented with.
RequestsKeepRules ==
  \A request \in InputRequests :
    question.gate = "network" /\ NetworkBarrierPasses(request, decision, question) =>
      KeepsNetworkRules(request, question)

\* Operations that one decision may serve: they share the scope "metadata.emit"
\* and a capability, or the scope "notification.show".
ShareScope(s, t) ==
  \/ /\ s[1] = "metadata" /\ t[1] = "metadata"
     /\ ExpectedMetadataCapability(s[2]) = ExpectedMetadataCapability(t[2])
     /\ {s[2], t[2]} \cap {"log.write", "audit_event.write"} = {}
  \/ {s, t} \subseteq {"notification"} \X InAppOperations

\* A decision issued for one signal or notification operation should authorize no
\* other (privacy/src/index.ts), but signals and in-app indicators share scopes.
\* Beyond that, however a decision is reused, it passes one barrier only, serves
\* one write or network operation at most, never what is written to logs or audit
\* besides a signal, and among signals those of one capability
\* (expectedMetadataScope, expectedCapability, assertDecisionValid).
DecisionKeepsItsScope ==
  \A s, t \in served : s = t \/ ShareScope(s, t)

------------------------------------------------------------------------------
(* The matrix and the engines                                              *)

\* Events that other domains of the matrix have a row about.
RowsOfEvent ==
  [e \in MetadataEvents |->
    ({<<"metadata", e>>} \cap MatrixQuestions)
      \cup (IF e = "preview.generated" THEN {<<"storage", "storage.write.preview_cache">>}
            ELSE IF e = "thumbnail.generated" THEN {<<"storage", "storage.write.thumbnail_cache">>}
            ELSE IF e = "protected_content.revealed" THEN {<<"endpoint", "protected_content.reveal">>}
            ELSE IF e = "screen.capture_detected" THEN {<<"endpoint", "screen.capture_audit">>}
            ELSE IF e = "watermark.generated" THEN {<<"endpoint", "watermark.state_write">>}
            ELSE {})]

\* The row storage.write.memory is about content; no question is of a room that
\* names memory, which would make content storable in Standard, against the row.
\* Left out is storage.write.protected_reveal_state: it is about persisting what
\* the engine keeps in memory.
RowsOfClass(class) ==
  IF class \in KeyMaterialClasses THEN {<<"storage", "storage.write.key_material">>}
  ELSE IF class \in AICacheClasses THEN {<<"storage", "storage.write.ai_cache">>}
  ELSE IF class = "preview_cache" THEN {<<"storage", "storage.write.preview_cache">>}
  ELSE IF class = "thumbnail_cache" THEN {<<"storage", "storage.write.thumbnail_cache">>}
  ELSE IF class = "debug_artifact" THEN {<<"storage", "storage.write.debug_artifact">>}
  ELSE IF class = "capsule_spool" THEN {<<"storage", "storage.write.capsule_spool">>}
  ELSE IF class = "message_content" THEN {<<"storage", "storage.write.memory">>}
  ELSE {}

\* No row is about a transport that is no network operation, and the row about
\* network.request stands for transports that do not exist.
RowsOfTransport(q) ==
  IF Offline(q) \/ q.operation = "network.request" THEN {}
  ELSE ({<<"network", q.operation>>} \cap MatrixQuestions)
         \cup (IF q.transport = "websocket" THEN {<<"network", "network.connect.websocket">>}
               ELSE IF q.transport = "webrtc" THEN {<<"network", "network.connect.webrtc">>}
               ELSE {})

\* The rows that are about what a policy allows, none if it allows nothing.
RowsAllowed(q) ==
  IF q.gate = "metadata" /\ MetadataAllowed(q) THEN RowsOfEvent[q.event]
  ELSE IF q.gate = "notification" /\ NotificationAllowed(q)
  THEN {<<"notification", "notification.show.in_app_generic">>}
         \cup ({<<"notification", q.operation>>} \cap MatrixQuestions)
  ELSE IF q.gate = "storage" /\ "write" \in Resolved(StorageInput(q)).flags
            /\ Resolved(StorageInput(q)).backend # Placeholder
  THEN RowsOfClass(q.dataClass)
  ELSE IF q.gate = "network" /\ NetworkAllowed(q) THEN RowsOfTransport(q)
  ELSE {}

\* What a row makes of a question, the room apart; of the gates' rows only those
\* of signals and caches look at the screen.
RowAdmits(row, q) ==
  LET d == Evaluated(row, q.mode, [Plain EXCEPT !.sealed = q.gate # "network" /\ q.sealed])
  IN \/ d.allowed
     \/ d.effect = "require_user_action" /\ RequiresUserInitiation(q)

\* The canonical matrix and the engines it is the contract of never disagree
\* towards permission, device risk apart: what an engine allows every row about
\* it admits, in the same mode and behind the same screen, and what the quick
\* answer calls forbidden the resolver of signals allows nowhere but for the
\* existence of a cache (policyMatrix.ts, metadataHelpers.ts).  Which rows are
\* about what, and which are left out, RowsOfClass and RowsOfTransport say.
LayersAgree ==
  /\ \A row \in RowsAllowed(question) : RowAdmits(row, question)
  /\ question.gate = "metadata" /\ question.event # "cache.exists" =>
       ~(ForbiddenInMode(question.event, question.mode) /\ MetadataAllowed(question))

\* No circumstance makes a decision of the matrix conflict with the rules about
\* its rows: not a room that names any effect, not shield or risk; nor does any
\* of them allow what the row alone does not, and what has no row is denied.
MatrixConflictFree ==
  question.gate = "matrix" =>
    \A c \in Circumstances :
      LET d == Evaluated(question.row, question.mode, c)
      IN /\ ConflictFree(question.row, question.mode, d)
         /\ d.allowed => /\ d.effect \in AllowingEffects
                         /\ question.row # UnknownRow
                         /\ Evaluated(question.row, question.mode, Plain).allowed

------------------------------------------------------------------------------
(* Strictness                                                              *)

\* The modes that are stricter than m for a gate.  Emergency is for all; storage
\* is graded by data class and not by mode, and in Standard some rows wait for a
\* gate that Private answers from memory, so for those no more is claimed.
StricterModes(gate, m) ==
  {"emergency"}
    \cup (IF m \in {"private", "ghost"} /\ gate # "storage" THEN {"ghost", "bunker"} \ {m} ELSE {})
    \cup (IF m = "standard" /\ gate \in {"metadata", "notification", "network"}
          THEN {"private", "ghost", "bunker"} ELSE {})

\* What a policy permits.
Grants(q) ==
  CASE q.gate = "metadata" -> {g \in {"allowed"} : MetadataAllowed(q)}
    [] q.gate = "notification" -> {g \in {"allowed"} : NotificationAllowed(q)}
                                    \cup {g \in {"content"} : ContentAllowed(q)}
    [] q.gate = "storage" -> Resolved(StorageInput(q)).flags
    [] q.gate = "network" -> {g \in {"allowed"} : NetworkAllowed(q)}
                               \cup {g \in {"unattended"} : NetworkAllowed(q) /\ ~RequiresUserInitiation(q)}
                               \cup {g \in {"endpoint"} : AllowsExternalEndpoint(q)}
    [] q.gate = "matrix" -> {c \in Circumstances : Evaluated(q.row, q.mode, c).allowed}

\* Strictest wins: the same question asked in a stricter mode, in a room that
\* does not allow, or behind a sealed screen is never answered more permissively.
StricterNeverLoosens ==
  /\ question.gate # "none" =>
       \A m \in StricterModes(question.gate, question.mode) :
         Grants([question EXCEPT !.mode = m]) \subseteq Grants(question)
  /\ question.gate \in {"metadata", "notification", "storage", "network"} =>
       Grants([question EXCEPT !.room = FALSE]) \subseteq Grants(question)
  /\ question.gate \in {"metadata", "notification", "storage"} =>
       Grants([question EXCEPT !.sealed = TRUE]) \subseteq Grants(question)
==============================================================================
