----------------------------- MODULE GateProofs -----------------------------
(***************************************************************************)
(* Proofs about the privacy gates, for every set of questions, decisions   *)
(* and requests.                                                           *)
(*                                                                         *)
(* What a barrier lets through is a matter of the held policy and decision *)
(* alone, so type correctness gives OwnPoliciesHold; that a decision keeps *)
(* to its scope needs to be strengthened by what scope and capability have *)
(* to do with what it served.  What is said of every row of the matrix is  *)
(* said of its groups of rows and carried over to their unions             *)
(* (TightUnion, RefusesUnion).                                             *)
(***************************************************************************)
EXTENDS PrivacyGates, FiniteSetTheorems, TLAPS

------------------------------------------------------------------------------
(* Type correctness                                                        *)

\* Every reachable state is well typed.
THEOREM GatesTypeCorrect == GatesSpec => []GatesTypeOK
<1>1. GatesInit => GatesTypeOK
  BY DEF GatesInit, GatesTypeOK
<1>2. GatesTypeOK /\ [GatesNext]_gatesVars => GatesTypeOK'
  <2> SUFFICES ASSUME GatesTypeOK, [GatesNext]_gatesVars PROVE GatesTypeOK'
    OBVIOUS
  <2>1. CASE Resolve
    BY <2>1, GatesAssumption DEF Resolve, GatesTypeOK
  <2>2. CASE LetGo
    BY <2>2 DEF LetGo, GatesTypeOK
  <2>3. ASSUME NEW d \in InputDecisions, IssueDecision(d) PROVE GatesTypeOK'
    BY <2>3, GatesAssumption DEF IssueDecision, GatesTypeOK
  <2>4. ASSUME NEW payload \in Payloads, Emit(payload) PROVE GatesTypeOK'
    <3>1. question.event \in MetadataEvents
      BY <2>4 DEF Emit, MetadataBarrierPasses
    <3> QED
      BY <2>4, <3>1 DEF Emit, ServedBy, GatesTypeOK
  <2>5. ASSUME NEW payload \in Payloads, Show(payload) PROVE GatesTypeOK'
    <3>1. question.operation \in NotificationOperations
      BY <2>5 DEF Show, NotificationBarrierPasses, KnownNotification
    <3> QED
      BY <2>5, <3>1 DEF Show, ServedBy, GatesTypeOK
  <2>6. ASSUME NEW operation \in WriteOperations, Store(operation) PROVE GatesTypeOK'
    BY <2>6 DEF Store, ServedBy, GatesTypeOK
  <2>7. ASSUME NEW request \in InputRequests, Transmit(request) PROVE GatesTypeOK'
    <3>1. request.operation \in NetworkOperations
      BY GatesAssumption DEF NetworkRequests
    <3> QED
      BY <2>7, <3>1 DEF Transmit, ServedBy, GatesTypeOK
  <2>8. CASE UNCHANGED gatesVars
    BY <2>8 DEF gatesVars, GatesTypeOK
  <2> QED
    BY <2>1, <2>2, <2>3, <2>4, <2>5, <2>6, <2>7, <2>8 DEF GatesNext
<1> QED
  BY <1>1, <1>2, PTL DEF GatesSpec

------------------------------------------------------------------------------
(* What the barriers let through                                           *)

LEMMA WhatSignalsPass ==
  ASSUME NEW q, NEW d, NEW payload, MetadataBarrierPasses(q, d, payload)
  PROVE  /\ q.event \in MetadataEvents \ (ForbiddenEvents \cup NetworkMetadataEvents)
         /\ ~q.persistent /\ q.sink \notin PersistentSinks \cup NetworkedSinks
         /\ q.mode = "emergency" => q.event = "audit_event.write"
         /\ payload = "counters"
BY DEF MetadataBarrierPasses, MetadataAllowed, LandsInMemory, SafePayload

LEMMA WhatIndicatorsPass ==
  ASSUME NEW q, NEW d, NotificationBarrierPasses(q, d, TRUE)
  PROVE  /\ q.surface = "in_app"
         /\ q.contentClass \in GenericContentClasses
         /\ q.sealed => q.contentClass = "none"
BY DEF NotificationBarrierPasses, NotificationAllowed

\* The flag to write is granted to no AI cache and no debug artifact in any mode
\* that is one, and behind a sealed screen to no cache.
LEMMA WhatMayBeWritten ==
  ASSUME NEW input \in StorageInputs, "write" \in Resolved(input).flags
  PROVE  /\ input.dataClass \notin AICacheClasses \cup {"debug_artifact"}
         /\ input.restriction.sealed => input.dataClass \notin CacheClasses
<1>1. "write" \in TightenedFlags(input)
  BY DEF Resolved
<1>2. "write" \in BaselineFlags(input.mode, input.dataClass, input.sensitivity)
  BY <1>1 DEF TightenedFlags
<1>3. "write" \notin Withheld(input.dataClass, input.restriction)
  BY <1>1 DEF TightenedFlags
<1>4. input.restriction.sealed => input.dataClass \notin CacheClasses
  BY <1>3 DEF Withheld
<1>5. input.dataClass \notin AICacheClasses \cup {"debug_artifact"}
  BY <1>2 DEF BaselineFlags, DeniedWhenStrict, OpenFlags, AICacheClasses, ContentClasses,
              SettingsClasses, PreviewClasses, CacheClasses, EndpointClasses, RevealState
<1> QED
  BY <1>4, <1>5

LEMMA StorageInputTyped ==
  ASSUME NEW q \in StorageQuestions
  PROVE  /\ StorageInput(q) \in StorageInputs
         /\ StorageInput(q).dataClass = q.dataClass
         /\ StorageInput(q).restriction.sealed = q.sealed
BY DEF StorageQuestions, StorageInput, StorageInputs, Restrictions, Unrestricted, Flags,
       Backends, Placeholder

LEMMA WhatRequestsPass ==
  ASSUME NEW q, NEW d, NEW request, NetworkBarrierPasses(request, d, q)
  PROVE  /\ request.operation \notin {"telemetry.send", "asset.fetch", "link.preview"}
         /\ request.transport \notin DirectPeerTransports
         /\ request.endpoint # "none" =>
              request.endpoint = "valid" /\ q.transport \in {"relay", "email"}
         /\ q.operation = request.operation /\ q.transport = request.transport =>
              KeepsNetworkRules(request, q)
<1>1. request.endpoint # "none" => q.transport \in {"relay", "email"}
  BY DEF NetworkBarrierPasses, AllowsExternalEndpoint
<1>2. ASSUME q.transport \notin OfflineTransports
      PROVE  RequiresUserInitiation(q) /\ q.mode \in {"standard", "private", "sovereign_room"}
  BY <1>2 DEF NetworkBarrierPasses, NetworkAllowed, RequiresUserInitiation, Offline,
              ApprovedTransport
<1>3. q.operation \notin AlwaysForbiddenOperations
  BY DEF NetworkBarrierPasses, NetworkAllowed
<1> QED
  BY <1>1, <1>2, <1>3 DEF NetworkBarrierPasses, KeepsNetworkRules

\* A policy resolved for the very request it is presented with lets nothing pass
\* that would leave the device without the user or persist on it, however late
\* and next to whatever decision it is presented; under the policy of another
\* request, telemetry, assets, link previews and direct peers still never pass.
THEOREM OwnPoliciesAlwaysHold == GatesSpec => []OwnPoliciesHold
<1>1. GatesTypeOK => OwnPoliciesHold
  <2> SUFFICES ASSUME GatesTypeOK PROVE OwnPoliciesHold
    OBVIOUS
  <2>1. SignalsStay
    BY WhatSignalsPass DEF SignalsStay
  <2>2. IndicatorsStay
    BY WhatIndicatorsPass DEF IndicatorsStay
  <2>3. StorageStays
    <3> SUFFICES ASSUME NEW operation \in WriteOperations, StorageWrites(operation)
                 PROVE  /\ question.dataClass \notin AICacheClasses \cup {"debug_artifact"}
                        /\ Resolved(StorageInput(question)).backend # Placeholder
                        /\ question.sealed => question.dataClass \notin CacheClasses
      BY DEF StorageStays
    <3>1. question \in StorageQuestions
      BY DEF GatesTypeOK, AllQuestions, NoQuestion, StorageWrites, MetadataQuestions,
             NotificationQuestions, NetworkQuestions, MatrixInputs
    <3> QED
      BY <3>1, StorageInputTyped, WhatMayBeWritten DEF StorageWrites, WritePermitted
  <2>4. OwnRequestsKeepRules
    BY WhatRequestsPass DEF OwnRequestsKeepRules
  <2> QED
    BY <2>1, <2>2, <2>3, <2>4 DEF OwnPoliciesHold
<1> QED
  BY <1>1, GatesTypeCorrect, PTL

------------------------------------------------------------------------------
(* What one decision serves                                                *)

\* The scope of a signal that passes, wherever it lands.
SignalScope(event) ==
  IF event = "log.write" THEN "metadata.log"
  ELSE IF event = "audit_event.write" THEN "metadata.audit"
  ELSE "metadata.emit"

SignalScopes == {"metadata.emit", "metadata.log", "metadata.audit"}

\* What a decision served lies within its scope, and signals within its
\* capability.
ServedWithinScope ==
  \A s \in served :
    \/ /\ s = <<"metadata", s[2]>>
       /\ decision.scope = SignalScope(s[2])
       /\ decision.capability = ExpectedMetadataCapability(s[2])
    \/ s \in {"notification"} \X InAppOperations /\ decision.scope = "notification.show"
    \/ s = <<"storage", decision.scope>> /\ decision.scope \in WriteOperations
    \/ s = <<"network", decision.scope>> /\ decision.scope \in NetworkOperations

\* The signals that pass share three scopes: no sink that would ask for another
\* is allowed to any of them.
LEMMA SignalsShareScopes ==
  ASSUME NEW q, NEW d, NEW payload, MetadataBarrierPasses(q, d, payload)
  PROVE  /\ d.scope = SignalScope(q.event)
         /\ d.capability = ExpectedMetadataCapability(q.event)
<1>1. /\ d.scope = ExpectedMetadataScope(q.event, q.sink)
      /\ d.capability = ExpectedMetadataCapability(q.event)
      /\ DerivedPreviewStays(q) \/ RevealStays(q) \/ LocalSignalStays(q)
  BY DEF MetadataBarrierPasses, MetadataAllowed
<1>2. q.event \notin ForbiddenEvents \cup NetworkMetadataEvents
  BY WhatSignalsPass
<1>3. q.sink \notin PersistentSinks \cup NetworkedSinks
  BY WhatSignalsPass
<1>4. q.sink # "notification_system"
  BY <1>1 DEF DerivedPreviewStays, RevealStays, LocalSignalStays
<1>5. /\ q.event \notin ReceiptEvents \cup TypingEvents \cup PresenceEvents
      /\ q.event \notin NotificationEvents \cup AssetFetchEvents
      /\ q.event \notin {"link.preview", "external.navigation", "crash_report.create"}
  BY <1>2 DEF ForbiddenEvents, ApplicationSignalEvents, ExternalFetchEvents
<1>6. ExpectedMetadataScope(q.event, q.sink) = SignalScope(q.event)
  BY <1>2, <1>3, <1>4, <1>5 DEF ExpectedMetadataScope, SignalScope
<1> QED
  BY <1>1, <1>6

LEMMA ScopeInvariant == GatesSpec => []ServedWithinScope
<1>1. GatesInit => ServedWithinScope
  BY DEF GatesInit, ServedWithinScope
<1>2. ServedWithinScope /\ [GatesNext]_gatesVars => ServedWithinScope'
  <2> SUFFICES ASSUME ServedWithinScope, [GatesNext]_gatesVars PROVE ServedWithinScope'
    OBVIOUS
  <2>1. CASE Resolve
    BY <2>1 DEF Resolve, ServedWithinScope
  <2>2. CASE LetGo
    BY <2>2 DEF LetGo, ServedWithinScope
  <2>3. ASSUME NEW d \in InputDecisions, IssueDecision(d) PROVE ServedWithinScope'
    BY <2>3 DEF IssueDecision, ServedWithinScope
  <2>4. ASSUME NEW payload \in Payloads, Emit(payload) PROVE ServedWithinScope'
    <3>1. /\ decision.scope = SignalScope(question.event)
          /\ decision.capability = ExpectedMetadataCapability(question.event)
      BY <2>4, SignalsShareScopes DEF Emit
    <3> QED
      BY <2>4, <3>1 DEF Emit, ServedBy, ServedWithinScope
  <2>5. ASSUME NEW payload \in Payloads, Show(payload) PROVE ServedWithinScope'
    <3>1. /\ question.operation \in InAppOperations
          /\ decision.scope = "notification.show"
      BY <2>5 DEF Show, NotificationBarrierPasses, NotificationAllowed,
                  ExpectedNotificationScope, InAppOperations, PushOperations
    <3> QED
      BY <2>5, <3>1 DEF Show, ServedBy, ServedWithinScope
  <2>6. ASSUME NEW operation \in WriteOperations, Store(operation) PROVE ServedWithinScope'
    <3>1. decision.scope = operation
      BY <2>6 DEF Store, StorageWrites, StorageDecisionFits
    <3> QED
      BY <2>6, <3>1 DEF Store, ServedBy, ServedWithinScope
  <2>7. ASSUME NEW request \in InputRequests, Transmit(request) PROVE ServedWithinScope'
    <3>1. decision.scope = request.operation /\ request.operation \in NetworkOperations
      BY <2>7, GatesAssumption DEF Transmit, NetworkBarrierPasses, NetworkRequests
    <3> QED
      BY <2>7, <3>1 DEF Transmit, ServedBy, ServedWithinScope
  <2>8. CASE UNCHANGED gatesVars
    BY <2>8 DEF gatesVars, ServedWithinScope
  <2> QED
    BY <2>1, <2>2, <2>3, <2>4, <2>5, <2>6, <2>7, <2>8 DEF GatesNext
<1> QED
  BY <1>1, <1>2, PTL DEF GatesSpec

\* Scopes of different barriers are different.
LEMMA ScopesDisjoint ==
  /\ SignalScopes \cap (WriteOperations \cup NetworkOperations) = {}
  /\ WriteOperations \cap NetworkOperations = {}
  /\ "notification.show" \notin SignalScopes \cup WriteOperations \cup NetworkOperations
BY DEF SignalScopes, WriteOperations, NetworkOperations, AlwaysForbiddenOperations

\* A decision passes one barrier, serves one write or network operation, and
\* several signals or notifications only where they share their scope.
THEOREM DecisionsKeepTheirScope == GatesSpec => []DecisionKeepsItsScope
<1>1. ServedWithinScope => DecisionKeepsItsScope
  <2> SUFFICES ASSUME ServedWithinScope, NEW s \in served, NEW t \in served
               PROVE  s = t \/ ShareScope(s, t)
    BY DEF DecisionKeepsItsScope
  <2> DEFINE Signal(x) == /\ x = <<"metadata", x[2]>>
                          /\ decision.scope = SignalScope(x[2])
                          /\ decision.capability = ExpectedMetadataCapability(x[2])
             Notice(x) == /\ x \in {"notification"} \X InAppOperations
                          /\ decision.scope = "notification.show"
             Written(x) == x = <<"storage", decision.scope>> /\ decision.scope \in WriteOperations
             Sent(x) == x = <<"network", decision.scope>> /\ decision.scope \in NetworkOperations
  <2>1. \A x \in served : Signal(x) \/ Notice(x) \/ Written(x) \/ Sent(x)
    BY DEF ServedWithinScope
  <2>2. \A event : SignalScope(event) \in SignalScopes
    BY DEF SignalScope, SignalScopes
  <2>3. CASE Signal(s)
    <3>1. Signal(t)
      BY <2>1, <2>2, <2>3, ScopesDisjoint
    <3>2. SignalScope(s[2]) = SignalScope(t[2])
      BY <2>3, <3>1
    <3>3. s[2] = t[2] \/ {s[2], t[2]} \cap {"log.write", "audit_event.write"} = {}
      BY <3>2 DEF SignalScope
    <3> QED
      BY <2>3, <3>1, <3>3 DEF ShareScope
  <2>4. CASE Notice(s)
    BY <2>1, <2>2, <2>4, ScopesDisjoint DEF ShareScope
  <2>5. CASE Written(s)
    BY <2>1, <2>2, <2>5, ScopesDisjoint
  <2>6. CASE Sent(s)
    BY <2>1, <2>2, <2>6, ScopesDisjoint
  <2> QED
    BY <2>1, <2>3, <2>4, <2>5, <2>6
<1> QED
  BY <1>1, ScopeInvariant, PTL

------------------------------------------------------------------------------
(* Evaluation of the matrix                                                *)

\* The strictness of an effect is its place.
LEMMA StrictnessOf ==
  /\ DOMAIN EffectStrictness = 1 .. 11
  /\ \A i \in 1 .. 11 : StrictnessIndex(EffectStrictness[i]) = i
  /\ \A effect : StrictnessIndex(effect) \in 1 .. 11
<1> DEFINE at(e) == {i \in DOMAIN EffectStrictness : EffectStrictness[i] = e}
<1>1. DOMAIN EffectStrictness = 1 .. 11
  BY DEF EffectStrictness
<1>2. ASSUME NEW i \in 1 .. 11 PROVE StrictnessIndex(EffectStrictness[i]) = i
  <2>1. \A j \in 1 .. 11 : EffectStrictness[i] = EffectStrictness[j] => i = j
    BY DEF EffectStrictness
  <2>2. at(EffectStrictness[i]) = {i}
    BY <1>1, <2>1
  <2> QED
    BY <2>2 DEF StrictnessIndex
<1>3. ASSUME NEW effect PROVE StrictnessIndex(effect) \in 1 .. 11
  <2>1. CASE at(effect) = {}
    BY <2>1 DEF StrictnessIndex
  <2>2. CASE at(effect) # {}
    <3>1. StrictnessIndex(effect) = CHOOSE i \in at(effect) : TRUE
      BY <2>2 DEF StrictnessIndex
    <3>2. StrictnessIndex(effect) \in at(effect)
      BY <3>1, <2>2
    <3> QED
      BY <3>2, <1>1
  <2> QED
    BY <2>1, <2>2
<1> QED
  BY <1>1, <1>2, <1>3

LEMMA AllowIsLoosest ==
  ASSUME NEW effect
  PROVE  ~IsEffectStricterThan("allow", effect)
<1>1. StrictnessIndex("allow") = 11
  <2>1. EffectStrictness[11] = "allow"
    BY DEF EffectStrictness
  <2> QED
    BY <2>1, StrictnessOf
<1> QED
  BY <1>1, StrictnessOf DEF IsEffectStricterThan

LEMMA PlainEvaluation ==
  ASSUME NEW row, NEW m, row \in MatrixQuestions, row = <<row[1], row[2]>>, m \in Modes
  PROVE  Evaluated(row, m, Plain) = DeviceBaseline(row[1], row[2], m, FALSE, FALSE)
<1>1. ~IsEffectStricterThan(RoomSilent.effect,
                            DeviceBaseline(row[1], row[2], m, FALSE, FALSE).effect)
  BY AllowIsLoosest DEF RoomSilent
<1> QED
  BY <1>1 DEF Evaluated, EvaluatePolicyMatrix, Plain, RoomSilent

\* Whatever the tables say: a decision of the matrix allows only by an allowing
\* effect and only what the row alone allows, in any circumstances.
THEOREM MatrixOnlyTightens ==
  ASSUME NEW row \in MatrixQuestions \cup {UnknownRow}, NEW m \in Modes,
         NEW c \in Circumstances, Evaluated(row, m, c).allowed
  PROVE  /\ Evaluated(row, m, c).effect \in AllowingEffects
         /\ row \in MatrixQuestions
         /\ Evaluated(row, m, Plain).allowed
<1> DEFINE device == DeviceBaseline(row[1], row[2], m, c.sealed, c.critical)
<1>1. row = <<row[1], row[2]>>
  BY DEF MatrixQuestions, UnknownRow
<1>2. row \in MatrixQuestions
  BY <1>1 DEF Evaluated, EvaluatePolicyMatrix, Denied
<1>3. /\ device.allowed
      /\ \/ Evaluated(row, m, c) = device
         \/ Evaluated(row, m, c).effect \in AllowingEffects
  BY <1>1, <1>2 DEF Evaluated, EvaluatePolicyMatrix, Denied
<1>4. /\ device = DeviceBaseline(row[1], row[2], m, FALSE, FALSE)
      /\ device.effect \in AllowingEffects
  BY <1>3 DEF DeviceBaseline, Denied
<1> QED
  BY <1>1, <1>2, <1>3, <1>4, PlainEvaluation

------------------------------------------------------------------------------
(* Stricter modes: the engines                                             *)

LEMMA SignalsNeverLoosen ==
  ASSUME NEW q \in MetadataQuestions
  PROVE  /\ \A m \in StricterModes("metadata", q.mode) :
              MetadataAllowed([q EXCEPT !.mode = m]) => MetadataAllowed(q)
         /\ ~MetadataAllowed([q EXCEPT !.room = FALSE])
         /\ MetadataAllowed([q EXCEPT !.sealed = TRUE]) => MetadataAllowed(q)
<1>1. ASSUME NEW m \in StricterModes("metadata", q.mode),
             MetadataAllowed([q EXCEPT !.mode = m])
      PROVE  MetadataAllowed(q)
  <2> DEFINE stricter == [q EXCEPT !.mode = m]
  <2>1. /\ stricter.mode = m /\ stricter.event = q.event /\ stricter.sink = q.sink
        /\ stricter.sensitivity = q.sensitivity /\ stricter.persistent = q.persistent
        /\ stricter.room = q.room /\ stricter.sealed = q.sealed
    BY DEF MetadataQuestions
  <2>2. MetadataAllowed(stricter)
    BY <1>1
  <2> HIDE DEF stricter
  <2>3. LandsInMemory(stricter) => LandsInMemory(q)
    BY <2>1 DEF LandsInMemory
  <2>4. m = "emergency" \/ q.mode = "standard" \/ m \in ZeroTraceModes
    BY DEF StricterModes, ZeroTraceModes
  <2>5. q.mode = "emergency" => m = "emergency"
    BY DEF StricterModes
  <2>6. DerivedPreviewStays(stricter) => DerivedPreviewStays(q)
    BY <2>1, <2>2, <2>4 DEF DerivedPreviewStays, MetadataAllowed, DerivedPreviewEvents,
                            ZeroTraceModes
  <2>7. RevealStays(stricter) => RevealStays(q)
    BY <2>1, <2>2, <2>4 DEF RevealStays, MetadataAllowed, ZeroTraceModes
  <2>8. LocalSignalStays(stricter) => LocalSignalStays(q)
    <3>1. SensitivityOf(stricter) = SensitivityOf(q)
      BY <2>1 DEF SensitivityOf
    <3>2. q.event = "capsule.spool_timestamp" => m # "emergency"
      BY <2>1, <2>2 DEF MetadataAllowed
    <3> QED
      BY <2>1, <2>4, <3>1, <3>2 DEF LocalSignalStays, ZeroTraceModes
  <2> QED
    BY <2>1, <2>2, <2>3, <2>5, <2>6, <2>7, <2>8 DEF MetadataAllowed
<1>2. ~MetadataAllowed([q EXCEPT !.room = FALSE])
  BY DEF MetadataAllowed, MetadataQuestions
<1>3. ASSUME MetadataAllowed([q EXCEPT !.sealed = TRUE]) PROVE MetadataAllowed(q)
  BY <1>3 DEF MetadataQuestions, MetadataAllowed, LandsInMemory, DerivedPreviewStays,
              RevealStays, LocalSignalStays, SensitivityOf
<1> QED
  BY <1>1, <1>2, <1>3

LEMMA IndicatorsNeverLoosen ==
  ASSUME NEW q \in NotificationQuestions
  PROVE  /\ \A m \in StricterModes("notification", q.mode) :
              NotificationAllowed([q EXCEPT !.mode = m]) => NotificationAllowed(q)
         /\ ~NotificationAllowed([q EXCEPT !.room = FALSE])
         /\ NotificationAllowed([q EXCEPT !.sealed = TRUE]) => NotificationAllowed(q)
BY DEF StricterModes, NotificationQuestions, NotificationAllowed, KnownNotification,
       NotificationModes, InAppIndicatorModes

LEMMA RequestsNeverLoosen ==
  ASSUME NEW q \in NetworkQuestions
  PROVE  /\ \A m \in StricterModes("network", q.mode) :
              LET stricter == [q EXCEPT !.mode = m]
              IN  /\ NetworkAllowed(stricter) => NetworkAllowed(q)
                  /\ NetworkAllowed(stricter) /\ ~RequiresUserInitiation(stricter) =>
                       ~RequiresUserInitiation(q)
                  /\ AllowsExternalEndpoint(stricter) => AllowsExternalEndpoint(q)
         /\ LET refused == [q EXCEPT !.room = FALSE]
            IN  /\ ~NetworkAllowed(refused)
                /\ AllowsExternalEndpoint(refused) => AllowsExternalEndpoint(q)
BY DEF StricterModes, NetworkQuestions, NetworkModes, NetworkAllowed, RequiresUserInitiation,
       AllowsExternalEndpoint, Offline, ApprovedTransport

\* Storage knows one stricter mode, Emergency, which leaves only deletion.
LEMMA StorageNeverLoosens ==
  ASSUME NEW q \in StorageQuestions
  PROVE  /\ Resolved(StorageInput([q EXCEPT !.mode = "emergency"])).flags
              \subseteq Resolved(StorageInput(q)).flags
         /\ Resolved(StorageInput([q EXCEPT !.room = FALSE])).flags
              \subseteq Resolved(StorageInput(q)).flags
         /\ Resolved(StorageInput([q EXCEPT !.sealed = TRUE])).flags
              \subseteq Resolved(StorageInput(q)).flags
<1>1. ASSUME NEW p \in StorageQuestions
      PROVE  /\ StorageInput(p).mode = p.mode
             /\ StorageInput(p).dataClass = p.dataClass
             /\ StorageInput(p).sensitivity = p.sensitivity
             /\ StorageInput(p).restriction.denies = IF p.room THEN {} ELSE {"write"}
             /\ StorageInput(p).restriction.sealed = p.sealed
             /\ StorageInput(p).restriction.risk = "low"
             /\ StorageInput(p).restriction.backend = Placeholder
  BY DEF StorageQuestions, StorageInput, Unrestricted
<1>2. ASSUME NEW p \in StorageQuestions
      PROVE  Resolved(StorageInput(p)).flags =
               ((BaselineFlags(p.mode, p.dataClass, p.sensitivity) \cup {"delete"})
                  \ (Withheld(p.dataClass, StorageInput(p).restriction)
                       \cup (IF p.room THEN {} ELSE {"write"})))
                 \ {"persistent"}
  <2>1. "persistent" \notin BaselineFlags(p.mode, p.dataClass, p.sensitivity)
    BY DEF BaselineFlags, OpenFlags, ActiveState
  <2> QED
    BY <1>1, <2>1 DEF Resolved, TightenedFlags
<1>3. ASSUME NEW p \in StorageQuestions, p.dataClass = q.dataClass, q.sealed => p.sealed
      PROVE  Withheld(q.dataClass, StorageInput(q).restriction)
               \subseteq Withheld(p.dataClass, StorageInput(p).restriction)
  BY <1>1, <1>3 DEF Withheld
<1>4. /\ [q EXCEPT !.mode = "emergency"] \in StorageQuestions
      /\ [q EXCEPT !.room = FALSE] \in StorageQuestions
      /\ [q EXCEPT !.sealed = TRUE] \in StorageQuestions
  BY DEF StorageQuestions, StorageModes
<1>5. ASSUME NEW p \in StorageQuestions,
             p.dataClass = q.dataClass, p.sensitivity = q.sensitivity,
             p.mode = q.mode \/ p.mode = "emergency",
             p.room => q.room, q.sealed => p.sealed
      PROVE  Resolved(StorageInput(p)).flags \subseteq Resolved(StorageInput(q)).flags
  <2>1. BaselineFlags(p.mode, p.dataClass, p.sensitivity)
          \subseteq BaselineFlags(q.mode, q.dataClass, q.sensitivity)
    BY <1>5 DEF BaselineFlags
  <2> QED
    BY <1>2, <1>3, <1>5, <2>1
<1> QED
  BY <1>4, <1>5 DEF StorageQuestions

------------------------------------------------------------------------------
(* Stricter modes: the matrix                                              *)

\* A row that allows from memory or redacted only, and nothing in a mode that it
\* does not allow in one less strict.
Tight(effects) ==
  \A m \in Modes :
    /\ effects[m] \in AllowingEffects => effects[m] \in {"memory_only", "redact"}
    /\ \A n \in StricterModes("matrix", m) :
         effects[n] \in AllowingEffects => effects[m] \in AllowingEffects

TightRows(rows) == \A op \in DOMAIN rows : Tight(rows[op])

LEMMA TightAlways ==
  ASSUME NEW e \in {"deny", "future_gate", "not_implemented", "require_user_action",
                    "memory_only", "redact"}
  PROVE  Tight(Always(e))
BY DEF Tight, Always, StricterModes, Modes, AllowingEffects

\* Denied in modes that are closed under being stricter.
LEMMA TightExcept ==
  ASSUME NEW e \in {"memory_only", "redact", "future_gate", "require_user_action"},
         NEW modes \in SUBSET Modes, "emergency" \in modes,
         "private" \in modes \/ "ghost" \in modes => {"ghost", "bunker"} \subseteq modes
  PROVE  Tight(Except(e, modes, "deny"))
BY DEF Tight, Except, StricterModes, Modes, AllowingEffects

LEMMA TightInStandard ==
  ASSUME NEW e \in {"memory_only", "future_gate"}
  PROVE  Tight(Except("deny", {"standard"}, e))
BY DEF Tight, Except, StricterModes, Modes, AllowingEffects

LEMMA TightGroup ==
  ASSUME NEW operations, NEW effects, Tight(effects)
  PROVE  TightRows(Rows(operations, effects))
BY DEF TightRows, Rows

LEMMA TightUnion ==
  ASSUME NEW f, NEW g, TightRows(f), TightRows(g)
  PROVE  TightRows(f ++ g)
BY DEF TightRows, ++

\* The rows of a domain, one pattern of effects after the other.
LEMMA TightEffects ==
  /\ Tight(Always("deny")) /\ Tight(Always("future_gate")) /\ Tight(Always("not_implemented"))
  /\ Tight(Always("require_user_action")) /\ Tight(Always("memory_only"))
  /\ Tight(Always("redact"))
  /\ Tight(ExceptEmergency) /\ Tight(Except("redact", {"emergency"}, "deny"))
  /\ Tight(Except("memory_only", {"bunker", "emergency"}, "deny"))
  /\ Tight(Except("memory_only", OfflineModes, "deny"))
  /\ Tight(Except("memory_only", {"private", "ghost", "bunker", "emergency"}, "deny"))
  /\ \A e \in {"memory_only", "future_gate"} :
       Tight(Except(e, StrictModes \cup {"emergency"}, "deny"))
  /\ \A e \in {"memory_only", "require_user_action"} :
       Tight(Except(e, StrictModes \cup OfflineModes, "deny"))
  /\ \A e \in {"memory_only", "future_gate"} : Tight(Except("deny", {"standard"}, e))
  /\ Tight([ExceptEmergency EXCEPT !["standard"] = "future_gate"])
<1>1. \A e \in {"memory_only", "redact", "future_gate", "require_user_action"} :
        \A modes \in {OfflineModes, StrictModes \cup OfflineModes, StrictModes \cup {"emergency"},
                     {"emergency"}, {"bunker", "emergency"},
                     {"private", "ghost", "bunker", "emergency"}} :
          Tight(Except(e, modes, "deny"))
  <2> SUFFICES ASSUME NEW e \in {"memory_only", "redact", "future_gate", "require_user_action"},
                      NEW modes \in {OfflineModes, StrictModes \cup OfflineModes,
                                    StrictModes \cup {"emergency"}, {"emergency"},
                                    {"bunker", "emergency"},
                                    {"private", "ghost", "bunker", "emergency"}}
               PROVE  Tight(Except(e, modes, "deny"))
    OBVIOUS
  <2>1. /\ modes \subseteq Modes /\ "emergency" \in modes
        /\ "private" \in modes \/ "ghost" \in modes => {"ghost", "bunker"} \subseteq modes
    BY DEF OfflineModes, StrictModes, Modes
  <2> QED
    BY <2>1, TightExcept
<1>2. Tight(ExceptEmergency)
  BY <1>1 DEF ExceptEmergency
<1>3. Tight([ExceptEmergency EXCEPT !["standard"] = "future_gate"])
  BY DEF Tight, ExceptEmergency, Except, StricterModes, Modes, AllowingEffects
<1> QED
  BY <1>1, <1>2, <1>3, TightAlways, TightInStandard

LEMMA TightDevice ==
  /\ TightRows(StorageRows) /\ TightRows(NetworkRows)
  /\ TightRows(MetadataSignalRows ++ MetadataLocalRows)
  /\ TightRows(LinkPreviewRows) /\ TightRows(ExternalAssetRows)
  /\ TightRows(NotificationRows) /\ TightRows(AIRows) /\ TightRows(EndpointRows)
<1>1. TightRows(StorageRows)
  BY TightEffects, TightGroup, TightUnion DEF StorageRows
<1>2. TightRows(NetworkRows)
  BY TightEffects, TightGroup, TightUnion DEF NetworkRows
<1>3. TightRows(MetadataSignalRows ++ MetadataLocalRows)
  BY TightEffects, TightGroup, TightUnion DEF MetadataSignalRows, MetadataLocalRows
<1>4. TightRows(LinkPreviewRows) /\ TightRows(ExternalAssetRows)
  BY TightEffects, TightGroup, TightUnion DEF LinkPreviewRows, ExternalAssetRows
<1>5. TightRows(NotificationRows)
  BY TightEffects, TightGroup, TightUnion DEF NotificationRows
<1>6. TightRows(AIRows) /\ TightRows(EndpointRows)
  BY TightEffects, TightGroup, TightUnion DEF AIRows, EndpointRows
<1> QED
  BY <1>1, <1>2, <1>3, <1>4, <1>5, <1>6

LEMMA TightRoom == TightRows(Matrix.room)
<1>1. TightRows(RoomLogRows) /\ TightRows(RoomObjectRows)
  BY TightEffects, TightGroup, TightUnion DEF RoomLogRows, RoomObjectRows
<1>2. TightRows(RoomQueryRows) /\ TightRows(MembershipRows)
  BY TightEffects, TightGroup, TightUnion DEF RoomQueryRows, MembershipRows
<1>3. TightRows(CapabilityRows) /\ TightRows(AuthorizationRows) /\ TightRows(GovernanceRows)
  BY TightEffects, TightGroup, TightUnion DEF CapabilityRows, AuthorizationRows, GovernanceRows
<1> QED
  BY <1>1, <1>2, <1>3, TightUnion DEF Matrix

LEMMA TightMatrix ==
  ASSUME NEW domain \in DOMAIN Matrix
  PROVE  TightRows(Matrix[domain])
<1>1. /\ TightRows(Matrix.crypto) /\ TightRows(Matrix.capsule) /\ TightRows(Matrix.identity)
  BY TightEffects, TightGroup DEF Matrix
<1>2. TightRows(Matrix.room)
  BY TightRoom
<1> QED
  BY <1>1, <1>2, TightDevice DEF Matrix

\* A room that leaves one allowing effect of a row alone, or replaces it by
\* another, does so to each.
LEMMA RoomsTreatAlike ==
  ASSUME NEW a \in {"memory_only", "redact"}, NEW b \in {"memory_only", "redact"},
         NEW said \in {EffectStrictness[i] : i \in DOMAIN EffectStrictness},
         said \notin AllowingEffects, IsEffectStricterThan(said, b)
  PROVE  IsEffectStricterThan(said, a)
<1>1. PICK i \in 1 .. 11 : said = EffectStrictness[i]
  BY StrictnessOf
<1>2. StrictnessIndex(said) = i
  BY <1>1, StrictnessOf
<1>3. /\ EffectStrictness[5] = "memory_only" /\ EffectStrictness[6] = "redact"
  BY DEF EffectStrictness
<1>4. /\ StrictnessIndex("memory_only") = 5 /\ StrictnessIndex("redact") = 6
  BY <1>3, StrictnessOf
<1>5. i < 6
  BY <1>2, <1>4 DEF IsEffectStricterThan
<1>6. i # 5
  BY <1>1, <1>3 DEF AllowingEffects
<1> QED
  BY <1>2, <1>4, <1>5, <1>6 DEF IsEffectStricterThan

LEMMA EvaluationNeverLoosens ==
  ASSUME NEW row \in MatrixQuestions, row = <<row[1], row[2]>>, NEW m \in Modes,
         NEW n \in StricterModes("matrix", m), NEW c \in Circumstances,
         Evaluated(row, n, c).allowed
  PROVE  Evaluated(row, m, c).allowed
<1> DEFINE device(mode) == DeviceBaseline(row[1], row[2], mode, c.sealed, c.critical)
           effect(mode) == Matrix[row[1]][row[2]][mode]
<1>1. n \in Modes
  BY DEF StricterModes, Modes
<1>2. row[1] \in DOMAIN Matrix /\ row[2] \in DOMAIN Matrix[row[1]]
  BY DEF MatrixQuestions
<1>3. Tight(Matrix[row[1]][row[2]])
  BY <1>2, TightMatrix DEF TightRows
<1>4. /\ device(n).allowed /\ c.room.allowed
      /\ IsEffectStricterThan(c.room.effect, device(n).effect) =>
           c.room.effect \in AllowingEffects
  BY <1>1 DEF Evaluated, EvaluatePolicyMatrix, Denied
<1>5. /\ device(n).effect = effect(n) /\ effect(n) \in AllowingEffects
      /\ ~(row \in ShieldTightened /\ (c.sealed \/ c.critical))
  BY <1>4 DEF DeviceBaseline, Denied
<1>6. /\ effect(m) \in AllowingEffects
      /\ effect(m) \in {"memory_only", "redact"} /\ effect(n) \in {"memory_only", "redact"}
  BY <1>1, <1>3, <1>5 DEF Tight
<1>7. device(m) = [effect |-> effect(m), allowed |-> TRUE]
  BY <1>5, <1>6 DEF DeviceBaseline
<1>8. c.room.effect \in {EffectStrictness[i] : i \in DOMAIN EffectStrictness}
  BY DEF Circumstances, RoomSays
<1>9. IsEffectStricterThan(c.room.effect, device(m).effect) => c.room.effect \in AllowingEffects
  BY <1>4, <1>5, <1>6, <1>7, <1>8, RoomsTreatAlike
<1>10. Evaluated(row, m, c) =
         IF IsEffectStricterThan(c.room.effect, device(m).effect)
         THEN [effect  |-> c.room.effect,
               allowed |-> device(m).allowed /\ c.room.effect \in AllowingEffects]
         ELSE device(m)
  BY <1>4 DEF Evaluated, EvaluatePolicyMatrix
<1> HIDE DEF device, effect
<1>11. device(m).allowed = TRUE
  BY <1>7
<1>12. CASE IsEffectStricterThan(c.room.effect, device(m).effect)
  <2>1. (device(m).allowed /\ c.room.effect \in AllowingEffects) = TRUE
    BY <1>9, <1>11, <1>12
  <2>2. Evaluated(row, m, c) = [effect |-> c.room.effect, allowed |-> TRUE]
    BY <1>10, <1>12, <2>1, Zenon
  <2> QED
    BY <2>2
<1>13. CASE ~IsEffectStricterThan(c.room.effect, device(m).effect)
  BY <1>10, <1>11, <1>13
<1> QED
  BY <1>12, <1>13

\* A stricter mode, a room that does not allow or a sealed screen never makes any
\* gate, the matrix included, answer more permissively.
THEOREM NothingEverLoosens == GatesSpec => []StricterNeverLoosens
<1>1. GatesTypeOK => StricterNeverLoosens
  <2> SUFFICES ASSUME GatesTypeOK PROVE StricterNeverLoosens
    OBVIOUS
  <2>1. CASE question \in MetadataQuestions
    <3>1. question.gate = "metadata"
      BY <2>1 DEF MetadataQuestions
    <3> QED
      BY <2>1, <3>1, SignalsNeverLoosen DEF StricterNeverLoosens, Grants, MetadataQuestions
  <2>2. CASE question \in NotificationQuestions
    <3>1. question.gate = "notification"
      BY <2>2 DEF NotificationQuestions
    <3> QED
      BY <2>2, <3>1, IndicatorsNeverLoosen
      DEF StricterNeverLoosens, Grants, ContentAllowed, NotificationQuestions
  <2>3. CASE question \in StorageQuestions
    <3>1. question.gate = "storage"
      BY <2>3 DEF StorageQuestions
    <3> QED
      BY <2>3, <3>1, StorageNeverLoosens
      DEF StricterNeverLoosens, StricterModes, Grants, StorageQuestions
  <2>4. CASE question \in NetworkQuestions
    <3>1. question.gate = "network"
      BY <2>4 DEF NetworkQuestions
    <3> QED
      BY <2>4, <3>1, RequestsNeverLoosen DEF StricterNeverLoosens, Grants, NetworkQuestions
  <2>5. CASE question \in MatrixInputs
    <3>1. question.gate = "matrix"
      BY <2>5 DEF MatrixInputs
    <3>2. ASSUME NEW n \in StricterModes("matrix", question.mode), NEW c \in Circumstances,
                 Evaluated(question.row, n, c).allowed
          PROVE  Evaluated(question.row, question.mode, c).allowed
      <4>1. n \in Modes /\ question.mode \in Modes
        BY <2>5 DEF StricterModes, Modes, MatrixInputs
      <4>2. /\ question.row \in MatrixQuestions
            /\ question.row = <<question.row[1], question.row[2]>>
        BY <2>5, <3>2, <4>1 DEF MatrixInputs, MatrixQuestions, UnknownRow, Evaluated,
                                EvaluatePolicyMatrix, Denied
      <4> QED
        BY <3>2, <4>1, <4>2, EvaluationNeverLoosens
    <3> QED
      BY <2>5, <3>1, <3>2 DEF StricterNeverLoosens, Grants, MatrixInputs
  <2>6. CASE question = NoQuestion
    BY <2>6 DEF StricterNeverLoosens, NoQuestion
  <2> QED
    BY <2>1, <2>2, <2>3, <2>4, <2>5, <2>6 DEF GatesTypeOK, AllQuestions
<1> QED
  BY <1>1, GatesTypeCorrect, PTL

------------------------------------------------------------------------------
(* The matrix and the conflict rules                                       *)

\* An effect that allows in none of these modes, rows that have no other.
Bars(effects, modes) == \A m \in modes : effects[m] \notin AllowingEffects

Refuses(rows, operations, modes) ==
  \A op \in DOMAIN rows \cap operations : Bars(rows[op], modes)

LEMMA BarringEffects ==
  /\ \A e \in {"deny", "future_gate", "not_implemented", "require_user_action"} :
       Bars(Always(e), Modes)
  /\ Bars(Except("deny", {"standard"}, "future_gate"), Modes)
  /\ Bars(Except("require_user_action", StrictModes \cup OfflineModes, "deny"), Modes)
  /\ Bars(Except("future_gate", StrictModes \cup {"emergency"}, "deny"), Modes)
BY DEF Bars, Always, Except, AllowingEffects

LEMMA RefusesGroup ==
  ASSUME NEW operations, NEW effects, NEW asked, NEW modes,
         Bars(effects, modes) \/ operations \cap asked = {}
  PROVE  Refuses(Rows(operations, effects), asked, modes)
BY DEF Refuses, Rows

LEMMA RefusesUnion ==
  ASSUME NEW f, NEW g, NEW asked, NEW modes,
         Refuses(f, asked, modes), Refuses(g, asked, modes)
  PROVE  Refuses(f ++ g, asked, modes)
BY DEF Refuses, ++

\* Operations that are never allowed, of domains in which others are.
Refused ==
  [storage      |-> {"storage.backend.encrypted_persistent", "storage.write.persistent",
                     "storage.write.protected_reveal_state"},
   metadata     |-> {"receipt.read", "receipt.delivery", "typing.start", "presence.online",
                     "presence.last_seen"},
   link_preview |-> {"preview.automatic", "preview.opengraph_fetch", "preview.favicon_fetch",
                     "preview.cache_write"},
   notification |-> {"notification.push_subscribe", "notification.push_receive",
                     "notification.service_worker_show", "notification.show.message_preview",
                     "notification.badge.count", "notification.badge.dot",
                     "notification.sound", "notification.vibration"},
   ai           |-> {"ai.remote_request", "ai.prompt_cache_write", "ai.output_cache_write"},
   endpoint     |-> {"clipboard.copy_protected", "input.secure_field",
                     "display.task_switcher_preview", "display.screenshot_blocking",
                     "protected_content.reveal_persist"},
   room         |-> {"room.operation_log.persist", "room.project.persist",
                     "room.object.persist", "room.query.history", "room.query.result_cache",
                     "room.query.search_index", "room.capability.persist",
                     "room.authorization.cache", "room.authorization.context_persist",
                     "room.device_posture.persist", "room.sync"}]

LEMMA RoomRefuses == Refuses(Matrix.room, Refused.room, Modes)
<1>1. Refuses(RoomLogRows, Refused.room, Modes)
  <2>1. {"room.create", "room.mutate", "room.policy_update", "room.operation_log.append",
         "room.project", "room.operation_log.read", "room.replay"} \cap Refused.room = {}
    BY DEF Refused
  <2>2. {"room.lifecycle_update", "room.operation_log.clear"} \cap Refused.room = {}
    BY DEF Refused
  <2>3. {"room.audit"} \cap Refused.room = {}
    BY DEF Refused
  <2> QED
    BY <2>1, <2>2, <2>3, BarringEffects, RefusesGroup, RefusesUnion DEF RoomLogRows
<1>2. Refuses(RoomObjectRows, Refused.room, Modes)
  <2>1. {"room.object.create", "room.object.update", "room.object.archive",
         "room.object_log.append"} \cap Refused.room = {}
    BY DEF Refused
  <2>2. {"room.object.redact", "room.object.tombstone"} \cap Refused.room = {}
    BY DEF Refused
  <2> QED
    BY <2>1, <2>2, BarringEffects, RefusesGroup, RefusesUnion DEF RoomObjectRows
<1>3. Refuses(RoomQueryRows, Refused.room, Modes)
  <2>1. {"room.query.summary"} \cap Refused.room = {}
    BY DEF Refused
  <2>2. {"room.query.list", "room.query.detail", "room.query.count"} \cap Refused.room = {}
    BY DEF Refused
  <2>3. {"room.query.search"} \cap Refused.room = {}
    BY DEF Refused
  <2> QED
    BY <2>1, <2>2, <2>3, BarringEffects, RefusesGroup, RefusesUnion DEF RoomQueryRows
<1>4. Refuses(MembershipRows, Refused.room, Modes)
  <2>1. {"room.membership.bootstrap", "room.membership_log.append"} \cap Refused.room = {}
    BY DEF Refused
  <2>2. {"room.membership.add", "room.membership.change_role", "room.membership.reactivate",
         "room.membership.query.list", "room.membership.query.detail"} \cap Refused.room = {}
    BY DEF Refused
  <2>3. {"room.membership.suspend", "room.membership.remove"} \cap Refused.room = {}
    BY DEF Refused
  <2> QED
    BY <2>1, <2>2, <2>3, RefusesGroup, RefusesUnion DEF MembershipRows
<1>5. Refuses(CapabilityRows, Refused.room, Modes)
  <2>1. {"room.membership.query.count"} \cap Refused.room = {}
    BY DEF Refused
  <2>2. {"room.capability.resolve"} \cap Refused.room = {}
    BY DEF Refused
  <2> QED
    BY <2>1, <2>2, BarringEffects, RefusesGroup, RefusesUnion DEF CapabilityRows
<1>6. Refuses(AuthorizationRows, Refused.room, Modes)
  <2>1. {"room.authorization.prepare", "room.authorization.revalidate"} \cap Refused.room = {}
    BY DEF Refused
  <2> QED
    BY <2>1, BarringEffects, RefusesGroup, RefusesUnion DEF AuthorizationRows
<1>7. Refuses(GovernanceRows, Refused.room, Modes)
  <2>1. {"room.governance_log.append"} \cap Refused.room = {}
    BY DEF Refused
  <2>2. {"room.policy.compose", "room.governance.update", "room.device_posture.resolve",
         "room.sensitive_admission.resolve"} \cap Refused.room = {}
    BY DEF Refused
  <2> QED
    BY <2>1, <2>2, BarringEffects, RefusesGroup, RefusesUnion DEF GovernanceRows
<1> QED
  BY <1>1, <1>2, <1>3, <1>4, <1>5, <1>6, <1>7, RefusesUnion DEF Matrix

LEMMA DeviceRefuses ==
  ASSUME NEW domain \in DOMAIN Refused \ {"room"}
  PROVE  Refuses(Matrix[domain], Refused[domain], Modes)
<1>1. Refuses(StorageRows, Refused.storage, Modes)
  <2>1. /\ {"storage.write.memory"} \cap Refused.storage = {}
        /\ {"storage.write.capsule_spool"} \cap Refused.storage = {}
        /\ {"storage.write.preview_cache", "storage.write.thumbnail_cache"} \cap Refused.storage = {}
        /\ {"storage.write.audit_event"} \cap Refused.storage = {}
    BY DEF Refused
  <2> QED
    BY <2>1, BarringEffects, RefusesGroup, RefusesUnion DEF StorageRows
<1>2. Refuses(MetadataSignalRows ++ MetadataLocalRows, Refused.metadata, Modes)
  <2>1. /\ {"audit_event.write"} \cap Refused.metadata = {}
        /\ {"log.write", "screen.capture_detected"} \cap Refused.metadata = {}
        /\ {"protected_content.revealed"} \cap Refused.metadata = {}
    BY DEF Refused
  <2>2. /\ Refuses(MetadataSignalRows, Refused.metadata, Modes)
        /\ Refuses(MetadataLocalRows, Refused.metadata, Modes)
    BY <2>1, BarringEffects, RefusesGroup, RefusesUnion
       DEF MetadataSignalRows, MetadataLocalRows
  <2> QED
    BY <2>2, RefusesUnion
<1>3. Refuses(LinkPreviewRows, Refused.link_preview, Modes)
  <2>1. {"preview.plain_text_display"} \cap Refused.link_preview = {}
    BY DEF Refused
  <2> QED
    BY <2>1, BarringEffects, RefusesGroup, RefusesUnion DEF LinkPreviewRows
<1>4. Refuses(NotificationRows, Refused.notification, Modes)
  <2>1. /\ {"notification.show.in_app_generic"} \cap Refused.notification = {}
        /\ {"notification.audit"} \cap Refused.notification = {}
    BY DEF Refused
  <2> QED
    BY <2>1, BarringEffects, RefusesGroup, RefusesUnion DEF NotificationRows
<1>5. Refuses(AIRows, Refused.ai, Modes)
  <2>1. {"ai.audit"} \cap Refused.ai = {}
    BY DEF Refused
  <2> QED
    BY <2>1, BarringEffects, RefusesGroup, RefusesUnion DEF AIRows
<1>6. Refuses(EndpointRows, Refused.endpoint, Modes)
  <2>1. /\ {"protected_content.reveal"} \cap Refused.endpoint = {}
        /\ {"screen.capture_audit", "watermark.state_write"} \cap Refused.endpoint = {}
    BY DEF Refused
  <2> QED
    BY <2>1, BarringEffects, RefusesGroup, RefusesUnion DEF EndpointRows
<1>7. domain \in {"storage", "metadata", "link_preview", "notification", "ai", "endpoint"}
  BY DEF Refused
<1>8. /\ Matrix.storage = StorageRows
      /\ Matrix.metadata = MetadataSignalRows ++ MetadataLocalRows
      /\ Matrix.link_preview = LinkPreviewRows
      /\ Matrix.notification = NotificationRows
      /\ Matrix.ai = AIRows
      /\ Matrix.endpoint = EndpointRows
  BY DEF Matrix
<1> QED
  BY <1>1, <1>2, <1>3, <1>4, <1>5, <1>6, <1>7, <1>8

\* Domains nothing of which is ever allowed without the user.
LEMMA ClosedDomains ==
  ASSUME NEW domain \in DeferredDomains \cup {"network", "external_asset"}
  PROVE  Refuses(Matrix[domain], DOMAIN Matrix[domain], Modes)
<1>1. Refuses(ExternalAssetRows, DOMAIN ExternalAssetRows, Modes)
  BY BarringEffects, RefusesGroup DEF ExternalAssetRows
<1>2. Refuses(NetworkRows, DOMAIN NetworkRows, Modes)
  BY BarringEffects, RefusesGroup, RefusesUnion DEF NetworkRows
<1>3. /\ Matrix.external_asset = ExternalAssetRows
      /\ Matrix.network = NetworkRows
  BY DEF Matrix
<1>4. domain \in DeferredDomains => Refuses(Matrix[domain], DOMAIN Matrix[domain], Modes)
  BY BarringEffects, RefusesGroup DEF DeferredDomains, Matrix
<1> QED
  BY <1>1, <1>2, <1>3, <1>4

\* What a row allows in a mode, no rule forbids there.
LEMMA AllowedRowsConflictFree ==
  ASSUME NEW row \in MatrixQuestions, NEW m \in Modes, NEW d,
         Matrix[row[1]][row[2]][m] \in AllowingEffects
  PROVE  ConflictFree(row, m, d)
<1>1. /\ row = <<row[1], row[2]>>
      /\ row[1] \in DOMAIN Matrix /\ row[2] \in DOMAIN Matrix[row[1]]
  BY DEF MatrixQuestions
<1>2. ASSUME NEW asked, Refuses(Matrix[row[1]], asked, Modes)
      PROVE  row[2] \notin asked
  BY <1>1, <1>2 DEF Refuses, Bars
<1>3. row[1] \notin DeferredDomains \cup {"network", "external_asset"}
  BY <1>1, <1>2, ClosedDomains
<1>4. row[1] \in DOMAIN Refused => row[2] \notin Refused[row[1]]
  <2>1. CASE row[1] = "room"
    BY <1>2, <2>1, RoomRefuses
  <2>2. CASE row[1] \in DOMAIN Refused \ {"room"}
    BY <1>2, <2>2, DeviceRefuses
  <2> QED
    BY <2>1, <2>2
<1>5. row \notin NeverAllowedRows
  BY <1>1, <1>3, <1>4 DEF NeverAllowedRows, Refused
<1>6. row \notin ExternalizedCapabilityRows
  BY <1>1, <1>4 DEF ExternalizedCapabilityRows, Refused
<1>7. row \notin RoomPersistentRows
  BY <1>1, <1>4 DEF RoomPersistentRows, Refused
<1>8. row \notin FutureGatedRows
  BY <1>1, <1>3, <1>4 DEF FutureGatedRows, Refused, DeferredDomains
<1>9. row \notin PersistentRows
  BY <1>1, <1>4, <1>7 DEF PersistentRows, Refused
<1>10. row \notin PrivatePlusDeniedRows \cup BunkerDeniedRows
  BY <1>1, <1>4 DEF PrivatePlusDeniedRows, BunkerDeniedRows, Refused
<1> QED
  BY <1>3, <1>5, <1>6, <1>7, <1>8, <1>9, <1>10 DEF ConflictFree

\* In no mode and no circumstances does the matrix decide against the conflict
\* rules of the repository's own check, or allow what a row alone does not
\* (evaluatePolicyMatrix, check-policy-conflicts.mjs).
THEOREM MatrixAlwaysConflictFree == GatesSpec => []MatrixConflictFree
<1>1. ASSUME NEW row \in MatrixQuestions \cup {UnknownRow}, NEW m \in Modes,
             NEW c \in Circumstances
      PROVE  LET d == Evaluated(row, m, c)
             IN /\ ConflictFree(row, m, d)
                /\ d.allowed => /\ d.effect \in AllowingEffects
                                /\ row # UnknownRow
                                /\ Evaluated(row, m, Plain).allowed
  <2> DEFINE d == Evaluated(row, m, c)
  <2> HIDE DEF d
  <2>1. CASE ~d.allowed
    BY <2>1 DEF ConflictFree, d
  <2>2. CASE d.allowed
    <3>1. /\ d.effect \in AllowingEffects
          /\ row \in MatrixQuestions
          /\ Evaluated(row, m, Plain).allowed
      BY <2>2, MatrixOnlyTightens DEF d
    <3>2. /\ row = <<row[1], row[2]>> /\ row[1] \in DOMAIN Matrix
      BY <3>1 DEF MatrixQuestions
    <3>3. row # UnknownRow
      BY <3>2 DEF UnknownRow, Matrix
    <3>4. DeviceBaseline(row[1], row[2], m, FALSE, FALSE).allowed
      BY <3>1, <3>2, PlainEvaluation
    <3>5. Matrix[row[1]][row[2]][m] \in AllowingEffects
      BY <3>4 DEF DeviceBaseline
    <3>6. ConflictFree(row, m, d)
      BY <3>1, <3>5, AllowedRowsConflictFree
    <3> QED
      BY <3>1, <3>3, <3>6 DEF d
  <2> QED
    BY <2>1, <2>2
<1>2. GatesTypeOK => MatrixConflictFree
  <2> SUFFICES ASSUME GatesTypeOK, question.gate = "matrix" PROVE MatrixConflictFree
    BY DEF MatrixConflictFree
  <2>1. question \in MatrixInputs
    BY DEF GatesTypeOK, AllQuestions, MetadataQuestions, NotificationQuestions,
           StorageQuestions, NetworkQuestions, NoQuestion
  <2>2. question.row \in MatrixQuestions \cup {UnknownRow} /\ question.mode \in Modes
    BY <2>1 DEF MatrixInputs
  <2> QED
    BY <1>1, <2>2 DEF MatrixConflictFree
<1> QED
  BY <1>2, GatesTypeCorrect, PTL

------------------------------------------------------------------------------
(* The matrix and the engines                                              *)

\* The rows about what the engines allow.
LEMMA RowsOfAllowed ==
  /\ Matrix.metadata["audit_event.write"] = Always("redact")
  /\ \A op \in {"log.write", "screen.capture_detected"} :
       Matrix.metadata[op] = Except("redact", {"emergency"}, "deny")
  /\ Matrix.metadata["protected_content.revealed"] =
       Except("memory_only", StrictModes \cup {"emergency"}, "deny")
  /\ \A op \in {"storage.write.preview_cache", "storage.write.thumbnail_cache"} :
       Matrix.storage[op] = Except("deny", {"standard"}, "memory_only")
  /\ Matrix.storage["storage.write.capsule_spool"] = ExceptEmergency
  /\ Matrix.storage["storage.write.memory"] = [ExceptEmergency EXCEPT !["standard"] = "future_gate"]
  /\ Matrix.endpoint["protected_content.reveal"] =
       Except("memory_only", StrictModes \cup {"emergency"}, "deny")
  /\ \A op \in {"screen.capture_audit", "watermark.state_write"} :
       Matrix.endpoint[op] = Except("redact", {"emergency"}, "deny")
  /\ Matrix.notification["notification.show.in_app_generic"] =
       Except("memory_only", StrictModes \cup OfflineModes, "deny")
  /\ Matrix.network["transport.send"] =
       Except("require_user_action", StrictModes \cup OfflineModes, "deny")
<1>1. /\ Matrix.storage = StorageRows
      /\ Matrix.network = NetworkRows
      /\ Matrix.metadata = MetadataSignalRows ++ MetadataLocalRows
      /\ Matrix.notification = NotificationRows
      /\ Matrix.endpoint = EndpointRows
  BY DEF Matrix
<1>2. /\ MetadataLocalRows["audit_event.write"] = Always("redact")
      /\ \A op \in {"log.write", "screen.capture_detected"} :
           MetadataLocalRows[op] = Except("redact", {"emergency"}, "deny")
      /\ MetadataLocalRows["protected_content.revealed"] =
           Except("memory_only", StrictModes \cup {"emergency"}, "deny")
  BY DEF MetadataLocalRows, Rows, ++
<1>3. {"audit_event.write", "log.write", "screen.capture_detected",
       "protected_content.revealed"} \cap DOMAIN MetadataSignalRows = {}
  BY DEF MetadataSignalRows, Rows
<1>4. {"audit_event.write", "log.write", "screen.capture_detected",
       "protected_content.revealed"} \subseteq DOMAIN MetadataLocalRows
  BY DEF MetadataLocalRows, Rows, ++
<1>5. \A op \in {"audit_event.write", "log.write", "screen.capture_detected",
                 "protected_content.revealed"} :
        Matrix.metadata[op] = MetadataLocalRows[op]
  BY <1>1, <1>3, <1>4 DEF ++
<1>6. /\ \A op \in {"storage.write.preview_cache", "storage.write.thumbnail_cache"} :
           StorageRows[op] = Except("deny", {"standard"}, "memory_only")
      /\ StorageRows["storage.write.capsule_spool"] = ExceptEmergency
      /\ StorageRows["storage.write.memory"] = [ExceptEmergency EXCEPT !["standard"] = "future_gate"]
  BY DEF StorageRows, Rows, ++
<1>7. /\ EndpointRows["protected_content.reveal"] =
           Except("memory_only", StrictModes \cup {"emergency"}, "deny")
      /\ \A op \in {"screen.capture_audit", "watermark.state_write"} :
           EndpointRows[op] = Except("redact", {"emergency"}, "deny")
  BY DEF EndpointRows, Rows, ++
<1>8. NotificationRows["notification.show.in_app_generic"] =
        Except("memory_only", StrictModes \cup OfflineModes, "deny")
  BY DEF NotificationRows, Rows, ++
<1>9. NetworkRows["transport.send"] =
        Except("require_user_action", StrictModes \cup OfflineModes, "deny")
  BY DEF NetworkRows, Rows, ++
<1> QED
  BY <1>1, <1>2, <1>5, <1>6, <1>7, <1>8, <1>9

\* The questions there are a row about.
LEMMA QuestionsOfAllowed ==
  /\ {"storage"} \X {"storage.write.preview_cache", "storage.write.thumbnail_cache",
                      "storage.write.capsule_spool", "storage.write.memory"}
       \subseteq MatrixQuestions
  /\ {"endpoint"} \X {"protected_content.reveal", "screen.capture_audit",
                       "watermark.state_write"} \subseteq MatrixQuestions
  /\ <<"notification", "notification.show.in_app_generic">> \in MatrixQuestions
  /\ \A e : <<"metadata", e>> \in MatrixQuestions =>
       e \in ForbiddenEvents \cup NetworkMetadataEvents
               \cup {"audit_event.write", "log.write", "screen.capture_detected",
                     "protected_content.revealed"}
  /\ \A op \in InAppOperations : <<"notification", op>> \notin MatrixQuestions
  /\ \A op \in NetworkOperations : <<"network", op>> \in MatrixQuestions =>
       op \in AlwaysForbiddenOperations
                \cup {"transport.send", "network.request", "transport.discovery"}
<1>1. \A domain, op :
        <<domain, op>> \in MatrixQuestions <=> domain \in DOMAIN Matrix /\ op \in DOMAIN Matrix[domain]
  BY DEF MatrixQuestions
<1>2. /\ Matrix.storage = StorageRows
      /\ Matrix.network = NetworkRows
      /\ Matrix.metadata = MetadataSignalRows ++ MetadataLocalRows
      /\ Matrix.notification = NotificationRows
      /\ Matrix.endpoint = EndpointRows
      /\ {"storage", "network", "metadata", "notification", "endpoint"} \subseteq DOMAIN Matrix
  BY DEF Matrix
<1>3. {"storage.write.preview_cache", "storage.write.thumbnail_cache",
       "storage.write.capsule_spool", "storage.write.memory"} \subseteq DOMAIN StorageRows
  BY DEF StorageRows, Rows, ++
<1>4. {"protected_content.reveal", "screen.capture_audit", "watermark.state_write"}
        \subseteq DOMAIN EndpointRows
  BY DEF EndpointRows, Rows, ++
<1>5. /\ "notification.show.in_app_generic" \in DOMAIN NotificationRows
      /\ \A op \in InAppOperations : op \notin DOMAIN NotificationRows
  BY DEF NotificationRows, Rows, ++, InAppOperations
<1>6. DOMAIN (MetadataSignalRows ++ MetadataLocalRows)
        \subseteq ForbiddenEvents \cup NetworkMetadataEvents
                    \cup {"audit_event.write", "log.write", "screen.capture_detected",
                          "protected_content.revealed"}
  <2>1. DOMAIN MetadataSignalRows \subseteq ForbiddenEvents \cup NetworkMetadataEvents
    BY DEF MetadataSignalRows, Rows, ForbiddenEvents, ExternalFetchEvents, AssetFetchEvents,
           ApplicationSignalEvents, ReceiptEvents, TypingEvents, PresenceEvents,
           NetworkMetadataEvents
  <2>2. DOMAIN MetadataLocalRows
          \subseteq ForbiddenEvents
                      \cup {"audit_event.write", "log.write", "screen.capture_detected",
                            "protected_content.revealed"}
    BY DEF MetadataLocalRows, Rows, ++, ForbiddenEvents, AIMetadataEvents, NotificationEvents
  <2> QED
    BY <2>1, <2>2 DEF ++
<1>7. \A op \in NetworkOperations : op \in DOMAIN NetworkRows =>
        op \in AlwaysForbiddenOperations
                 \cup {"transport.send", "network.request", "transport.discovery"}
  BY DEF NetworkRows, Rows, ++, NetworkOperations, AlwaysForbiddenOperations
<1> QED
  BY <1>1, <1>2, <1>3, <1>4, <1>5, <1>6, <1>7

\* An allowing row admits, unless it is closed by the shield.
LEMMA AllowingRowAdmits ==
  ASSUME NEW row \in MatrixQuestions, NEW q, q.mode \in Modes,
         Matrix[row[1]][row[2]][q.mode] \in AllowingEffects,
         row \in ShieldTightened => q.sealed = FALSE
  PROVE  RowAdmits(row, q)
<1> DEFINE sealed == q.gate # "network" /\ q.sealed
           c == [Plain EXCEPT !.sealed = sealed]
<1>1. row = <<row[1], row[2]>>
  BY DEF MatrixQuestions
<1>2. /\ c.sealed = sealed /\ c.critical = FALSE
      /\ c.room.allowed = TRUE /\ c.room.effect = "allow"
  BY DEF Plain, RoomSilent
<1> HIDE DEF c
<1>3. DeviceBaseline(row[1], row[2], q.mode, c.sealed, c.critical).allowed
  BY <1>1, <1>2 DEF DeviceBaseline
<1>4. Evaluated(row, q.mode, c)
        = DeviceBaseline(row[1], row[2], q.mode, c.sealed, c.critical)
  BY <1>1, <1>2, AllowIsLoosest DEF Evaluated, EvaluatePolicyMatrix
<1> QED
  BY <1>3, <1>4 DEF RowAdmits, c

LEMMA SignalsAgree ==
  ASSUME NEW q \in MetadataQuestions, MetadataAllowed(q), NEW row \in RowsOfEvent[q.event]
  PROVE  RowAdmits(row, q)
<1> DEFINE e == q.event
<1>1. /\ q.gate = "metadata" /\ q.mode \in Modes /\ q.sealed \in BOOLEAN
      /\ e \in MetadataEvents \ (ForbiddenEvents \cup NetworkMetadataEvents)
      /\ q.mode = "emergency" => e = "audit_event.write"
      /\ DerivedPreviewStays(q) \/ RevealStays(q) \/ LocalSignalStays(q)
  BY DEF MetadataAllowed, LandsInMemory, MetadataQuestions, MetadataModes, Modes
<1>2. e \in {"preview.generated", "thumbnail.generated"} => q.mode = "standard" /\ q.sealed = FALSE
  BY <1>1 DEF DerivedPreviewStays, RevealStays, LocalSignalStays, EndpointSignalEvents, SpoolEvents
<1>3. e = "protected_content.revealed" => q.mode \notin StrictModes \cup {"emergency"} /\ q.sealed = FALSE
  BY <1>1 DEF DerivedPreviewStays, RevealStays, LocalSignalStays, EndpointSignalEvents, SpoolEvents,
              DerivedPreviewEvents, ZeroTraceModes, StrictModes
<1>4. \/ row = <<"metadata", e>> /\ row \in MatrixQuestions
      \/ e = "preview.generated" /\ row = <<"storage", "storage.write.preview_cache">>
      \/ e = "thumbnail.generated" /\ row = <<"storage", "storage.write.thumbnail_cache">>
      \/ e = "protected_content.revealed" /\ row = <<"endpoint", "protected_content.reveal">>
      \/ e = "screen.capture_detected" /\ row = <<"endpoint", "screen.capture_audit">>
      \/ e = "watermark.generated" /\ row = <<"endpoint", "watermark.state_write">>
  BY <1>1 DEF RowsOfEvent
<1>5. CASE row = <<"metadata", e>> /\ row \in MatrixQuestions
  <2>1. e \in {"audit_event.write", "log.write", "screen.capture_detected",
               "protected_content.revealed"}
    BY <1>1, <1>5, QuestionsOfAllowed
  <2>2. Matrix.metadata[e][q.mode] \in AllowingEffects
    BY <1>1, <1>3, <2>1, RowsOfAllowed DEF Always, Except, AllowingEffects
  <2>3. row \in ShieldTightened => q.sealed = FALSE
    BY <1>3, <1>5, <2>1 DEF ShieldTightened
  <2> QED
    BY <1>1, <1>5, <2>2, <2>3, AllowingRowAdmits
<1>6. CASE \/ e = "preview.generated" /\ row = <<"storage", "storage.write.preview_cache">>
           \/ e = "thumbnail.generated" /\ row = <<"storage", "storage.write.thumbnail_cache">>
  <2>1. row \in MatrixQuestions /\ row[1] = "storage"
          /\ row[2] \in {"storage.write.preview_cache", "storage.write.thumbnail_cache"}
    BY <1>6, QuestionsOfAllowed
  <2>2. Matrix.storage[row[2]][q.mode] \in AllowingEffects
    BY <1>2, <1>6, <2>1, RowsOfAllowed DEF Except, AllowingEffects, Modes
  <2> QED
    BY <1>1, <1>2, <1>6, <2>1, <2>2, AllowingRowAdmits
<1>7. CASE \/ e = "protected_content.revealed" /\ row = <<"endpoint", "protected_content.reveal">>
           \/ e = "screen.capture_detected" /\ row = <<"endpoint", "screen.capture_audit">>
           \/ e = "watermark.generated" /\ row = <<"endpoint", "watermark.state_write">>
  <2>1. row \in MatrixQuestions /\ row[1] = "endpoint"
    BY <1>7, QuestionsOfAllowed
  <2>2. Matrix.endpoint[row[2]][q.mode] \in AllowingEffects
    BY <1>1, <1>3, <1>7, RowsOfAllowed DEF Except, AllowingEffects
  <2>3. row \in ShieldTightened => q.sealed = FALSE
    BY <1>3, <1>7 DEF ShieldTightened
  <2> QED
    BY <1>1, <2>1, <2>2, <2>3, AllowingRowAdmits
<1> QED
  BY <1>4, <1>5, <1>6, <1>7

LEMMA IndicatorsAgree ==
  ASSUME NEW q \in NotificationQuestions, NotificationAllowed(q),
         NEW row \in {<<"notification", "notification.show.in_app_generic">>}
                       \cup ({<<"notification", q.operation>>} \cap MatrixQuestions)
  PROVE  RowAdmits(row, q)
<1>1. /\ q.mode \in {"standard", "private", "sovereign_room"}
      /\ q.operation \in InAppOperations
  BY DEF NotificationAllowed, InAppIndicatorModes
<1>2. row = <<"notification", "notification.show.in_app_generic">> /\ row \in MatrixQuestions
  BY <1>1, QuestionsOfAllowed
<1>3. Matrix.notification["notification.show.in_app_generic"][q.mode] \in AllowingEffects
  BY <1>1, RowsOfAllowed DEF Except, AllowingEffects, Modes, StrictModes, OfflineModes
<1>4. row \notin ShieldTightened /\ q.mode \in Modes
  BY <1>1, <1>2 DEF ShieldTightened, Modes
<1> QED
  BY <1>2, <1>3, <1>4, AllowingRowAdmits

LEMMA ClassesAgree ==
  ASSUME NEW q \in StorageQuestions, "write" \in Resolved(StorageInput(q)).flags,
         Resolved(StorageInput(q)).backend # Placeholder,
         NEW row \in RowsOfClass(q.dataClass)
  PROVE  RowAdmits(row, q)
<1> DEFINE class == q.dataClass
<1>1. /\ StorageInput(q) \in StorageInputs
      /\ class \notin AICacheClasses \cup {"debug_artifact"}
      /\ q.sealed => class \notin CacheClasses
  BY StorageInputTyped, WhatMayBeWritten
<1>2. q.mode \in Modes /\ q.sealed \in BOOLEAN
  BY DEF StorageQuestions, StorageModes, Modes
<1>3. "write" \in BaselineFlags(q.mode, class, q.sensitivity)
  BY DEF Resolved, TightenedFlags, StorageInput
<1>4. /\ q.mode # "emergency"
      /\ class \notin KeyMaterialClasses
      /\ class \in PreviewClasses => q.mode = "standard"
      /\ class = "message_content" => q.mode # "standard"
  <2>1. class = "message_content" => q.mode # "standard"
    BY DEF Resolved, StorageInput, Unrestricted, StricterBackend, BaselineBackend, Placeholder,
           ContentClasses
  <2> QED
    BY <1>3, <2>1
    DEF BaselineFlags, DeniedWhenStrict, OpenFlags, KeyMaterialClasses, ContentClasses,
        SettingsClasses, PreviewClasses, CacheClasses, EndpointClasses, RevealState
<1>5. \/ class = "preview_cache" /\ row = <<"storage", "storage.write.preview_cache">>
      \/ class = "thumbnail_cache" /\ row = <<"storage", "storage.write.thumbnail_cache">>
      \/ class = "capsule_spool" /\ row = <<"storage", "storage.write.capsule_spool">>
      \/ class = "message_content" /\ row = <<"storage", "storage.write.memory">>
  BY <1>1, <1>4 DEF RowsOfClass
<1>6. row \in MatrixQuestions /\ row[1] = "storage"
  BY <1>5, QuestionsOfAllowed
<1>7. Matrix.storage[row[2]][q.mode] \in AllowingEffects
  <2>1. CASE class \in PreviewClasses
    BY <1>2, <1>4, <1>5, <2>1, RowsOfAllowed DEF Except, AllowingEffects, PreviewClasses
  <2>2. CASE class = "capsule_spool"
    BY <1>2, <1>4, <1>5, <2>2, RowsOfAllowed DEF ExceptEmergency, Except, AllowingEffects
  <2>3. CASE class = "message_content"
    BY <1>2, <1>4, <1>5, <2>3, RowsOfAllowed DEF ExceptEmergency, Except, AllowingEffects
  <2> QED
    BY <1>5, <2>1, <2>2, <2>3 DEF PreviewClasses
<1>8. row \in ShieldTightened => q.sealed = FALSE
  BY <1>1, <1>2, <1>5 DEF ShieldTightened, CacheClasses, PreviewClasses
<1> QED
  BY <1>2, <1>6, <1>7, <1>8, AllowingRowAdmits

LEMMA TransportsAgree ==
  ASSUME NEW q \in NetworkQuestions, NetworkAllowed(q), NEW row \in RowsOfTransport(q)
  PROVE  RowAdmits(row, q)
<1>1. /\ q.gate = "network"
      /\ ~Offline(q) /\ q.operation # "network.request"
      /\ \/ row = <<"network", q.operation>> /\ row \in MatrixQuestions
         \/ q.transport = "websocket"
         \/ q.transport = "webrtc"
  BY DEF RowsOfTransport, NetworkQuestions
<1>2. /\ q.operation \notin AlwaysForbiddenOperations \cup {"transport.discovery"}
      /\ q.mode \in {"standard", "private", "sovereign_room"}
      /\ q.transport \notin {"websocket", "webrtc"}
      /\ RequiresUserInitiation(q)
  BY <1>1 DEF NetworkAllowed, ApprovedTransport, RequiresUserInitiation, DirectPeerTransports
<1>3. q.operation = "transport.send" /\ row = <<"network", "transport.send">>
        /\ row \in MatrixQuestions
  BY <1>1, <1>2, QuestionsOfAllowed DEF NetworkQuestions
<1>4. Matrix.network["transport.send"][q.mode] = "require_user_action"
  BY <1>2, RowsOfAllowed DEF Except, Modes, StrictModes, OfflineModes
<1> DEFINE c == [Plain EXCEPT !.sealed = q.gate # "network" /\ q.sealed]
<1>5. /\ c.sealed = FALSE /\ c.critical = FALSE
      /\ c.room.allowed = TRUE /\ c.room.effect = "allow"
  BY <1>1 DEF Plain, RoomSilent
<1> HIDE DEF c
<1>6. DeviceBaseline("network", "transport.send", q.mode, FALSE, FALSE).effect
        = "require_user_action"
  BY <1>4 DEF DeviceBaseline
<1>7. Evaluated(row, q.mode, c) = DeviceBaseline("network", "transport.send", q.mode, FALSE, FALSE)
  <2>1. q.mode \in Modes
    BY <1>2 DEF Modes
  <2> QED
    BY <1>3, <1>5, <2>1, AllowIsLoosest DEF Evaluated, EvaluatePolicyMatrix
<1> QED
  BY <1>2, <1>6, <1>7 DEF RowAdmits, c

LEMMA QuickAnswerAgrees ==
  ASSUME NEW q, q.event # "cache.exists", MetadataAllowed(q)
  PROVE  ~ForbiddenInMode(q.event, q.mode)
<1>1. /\ q.event \notin ForbiddenEvents \cup NetworkMetadataEvents
      /\ DerivedPreviewStays(q) \/ RevealStays(q) \/ LocalSignalStays(q)
  BY DEF MetadataAllowed, LandsInMemory
<1>2. q.event \in DerivedPreviewEvents => q.mode = "standard"
  BY <1>1 DEF DerivedPreviewEvents, DerivedPreviewStays, RevealStays, LocalSignalStays,
              EndpointSignalEvents, SpoolEvents
<1>3. q.event = "protected_content.revealed" => q.mode \notin ZeroTraceModes
  BY <1>1 DEF DerivedPreviewEvents, DerivedPreviewStays, RevealStays, LocalSignalStays,
              EndpointSignalEvents, SpoolEvents
<1> QED
  BY <1>1, <1>2, <1>3 DEF ForbiddenInMode

\* The engines never allow what the canonical matrix refuses, for any question
\* at all, and the quick answer about a signal forbids nothing its resolver
\* allows, the existence of a cache apart (policyMatrix.ts, metadataHelpers.ts).
THEOREM LayersAlwaysAgree == GatesSpec => []LayersAgree
<1>1. GatesTypeOK => LayersAgree
  <2> SUFFICES ASSUME GatesTypeOK PROVE LayersAgree
    OBVIOUS
  <2>1. /\ question.gate = "metadata" => question \in MetadataQuestions
        /\ question.gate = "notification" => question \in NotificationQuestions
        /\ question.gate = "storage" => question \in StorageQuestions
        /\ question.gate = "network" => question \in NetworkQuestions
    BY DEF GatesTypeOK, AllQuestions, MetadataQuestions, NotificationQuestions,
           StorageQuestions, NetworkQuestions, MatrixInputs, NoQuestion
  <2>2. ASSUME NEW row \in RowsAllowed(question) PROVE RowAdmits(row, question)
    <3>1. CASE question.gate = "metadata"
      BY <2>1, <2>2, <3>1, SignalsAgree DEF RowsAllowed
    <3>2. CASE question.gate = "notification"
      BY <2>1, <2>2, <3>2, IndicatorsAgree DEF RowsAllowed
    <3>3. CASE question.gate = "storage"
      BY <2>1, <2>2, <3>3, ClassesAgree DEF RowsAllowed
    <3>4. CASE question.gate = "network"
      BY <2>1, <2>2, <3>4, TransportsAgree DEF RowsAllowed
    <3> QED
      BY <2>2, <3>1, <3>2, <3>3, <3>4 DEF RowsAllowed
  <2> QED
    BY <2>2, QuickAnswerAgrees DEF LayersAgree
<1> QED
  BY <1>1, GatesTypeCorrect, PTL
==============================================================================
