-------------------------- MODULE AuthorityProofs --------------------------
(***************************************************************************)
(* Theorems about RoomAuthority, for any members, founders and bounds: a   *)
(* revocation acts on the records, mode and lifecycle it was prepared in,  *)
(* escalates nobody and, in a room without a document, could be prepared   *)
(* again where it executes; and where governance callers pass the room's   *)
(* document, it only gets stricter, one revision at a time, for every one  *)
(* of its readers, and no tightening is lost.                              *)
(***************************************************************************)
EXTENDS RoomAuthority, MembershipProofs

------------------------------------------------------------------------------
(* Composition                                                             *)

\* The strictest effect is one of those folded, or "allow", and none of them
\* is stricter.
LEMMA StrictestType ==
  ASSUME NEW E \in SUBSET Effects
  PROVE  /\ StrictestOf(E) \in E \cup {"allow"}
         /\ \A e \in E \cup {"allow"} : Strictness[StrictestOf(E)] >= Strictness[e]
<1> DEFINE Strictest(x) == x \in E \cup {"allow"} /\ \A e \in E : Strictness[x] >= Strictness[e]
<1>1. \E x \in E \cup {"allow"} : \A e \in E : Strictness[x] >= Strictness[e]
  <2>1. CASE "deny" \in E
    BY <2>1 DEF Effects, Strictness
  <2>2. CASE "deny" \notin E /\ "future_gate" \in E
    BY <2>2 DEF Effects, Strictness
  <2>3. CASE E \cap {"deny", "future_gate"} = {} /\ "null" \in E
    BY <2>3 DEF Effects, Strictness
  <2>4. CASE E \cap {"deny", "future_gate", "null"} = {} /\ "redact" \in E
    BY <2>4 DEF Effects, Strictness
  <2>5. CASE E \cap {"deny", "future_gate", "null", "redact"} = {} /\ "coarsen" \in E
    BY <2>5 DEF Effects, Strictness
  <2>6. CASE E \subseteq {"memory_only", "allow"}
    <3>1. CASE "memory_only" \in E
      BY <2>6, <3>1 DEF Effects, Strictness
    <3>2. CASE "memory_only" \notin E
      BY <2>6, <3>2 DEF Effects, Strictness
    <3> QED BY <3>1, <3>2
  <2> QED BY <2>1, <2>2, <2>3, <2>4, <2>5, <2>6 DEF Effects, Strictness
<1>2. /\ StrictestOf(E) \in E \cup {"allow"}
      /\ \A e \in E : Strictness[StrictestOf(E)] >= Strictness[e]
  BY <1>1 DEF StrictestOf
<1>3. Strictness[StrictestOf(E)] >= Strictness["allow"]
  BY <1>2 DEF Effects, Strictness
<1> QED BY <1>2, <1>3

\* A list that is stricter effect by effect folds to a stricter effect.
LEMMA StrictestMonotone ==
  ASSUME NEW E \in SUBSET Effects, NEW F \in SUBSET Effects,
         \A e \in E : \E f \in F \cup {"allow"} : Strictness[f] >= Strictness[e]
  PROVE  /\ StrictestOf(E) \in Effects
         /\ StrictestOf(F) \in Effects
         /\ Strictness[StrictestOf(F)] >= Strictness[StrictestOf(E)]
<1>1. /\ StrictestOf(E) \in E \cup {"allow"}
      /\ StrictestOf(F) \in F \cup {"allow"}
      /\ \A f \in F \cup {"allow"} : Strictness[StrictestOf(F)] >= Strictness[f]
  BY StrictestType
<1>2. StrictestOf(E) \in Effects /\ StrictestOf(F) \in Effects
  BY <1>1 DEF Effects, Strictness
<1>3. \E f \in F \cup {"allow"} : Strictness[f] >= Strictness[StrictestOf(E)]
  <2>1. CASE StrictestOf(E) \in E
    BY <2>1
  <2>2. CASE StrictestOf(E) = "allow"
    BY <2>2 DEF Strictness
  <2> QED BY <1>1, <2>1, <2>2
<1>4. PICK f \in F \cup {"allow"} : Strictness[f] >= Strictness[StrictestOf(E)]
  BY <1>3
<1>5. \A e \in Effects : Strictness[e] \in Nat
  BY DEF Effects, Strictness
<1>6. f \in Effects
  BY DEF Effects, Strictness
<1> QED BY <1>1, <1>2, <1>4, <1>5, <1>6

\* Whether an effect permits execution is a matter of its rank.
LEMMA PermitsByRank ==
  ASSUME NEW e \in Effects, NEW f \in Effects,
         Strictness[f] >= Strictness[e], PermitsExecution(f)
  PROVE  PermitsExecution(e)
BY DEF Effects, Strictness, PermitsExecution

\* What a document that is not looser does to each field.
LEMMA NotLooser ==
  ASSUME NEW a \in Documents, NEW b \in Documents, ~AnyLooser(a, b)
  PROVE  /\ \A f \in Fields : /\ a.level[f] \in 0..4
                              /\ b.level[f] \in 0..4
                              /\ a.level[f] <= b.level[f]
         /\ b.allowed \subseteq a.allowed
<1>1. a.level \in [Fields -> 0..4] /\ b.level \in [Fields -> 0..4]
  BY DEF Documents, Levels
<1>2. \A f \in Fields : ~(b.level[f] < a.level[f])
  BY DEF AnyLooser
<1>3. \A f \in Fields : a.level[f] \in 0..4 /\ b.level[f] \in 0..4
  BY <1>1
<1> QED BY <1>2, <1>3 DEF AnyLooser

LEMMA FieldNamed ==
  {"minimum_posture", "protected_content", "retention"} \subseteq Fields
BY DEF Fields, MaxLevel

\* Posture and presentation, once unmet, stay unmet under a stricter document,
\* and no effect is replaced by a looser one.
LEMMA EffectsMonotone ==
  ASSUME NEW a \in Documents, NEW b \in Documents, ~AnyLooser(a, b),
         NEW m \in Modes, NEW risk \in BOOLEAN
  PROVE  /\ PostureSatisfies(b, risk) => PostureSatisfies(a, risk)
         /\ PresentationSatisfied(b) => PresentationSatisfied(a)
         /\ ContentEffects(a, m, risk) \in SUBSET Effects
         /\ ContentEffects(b, m, risk) \in SUBSET Effects
         /\ ContentEffects(a, m, risk) \subseteq ContentEffects(b, m, risk)
         /\ {StorageEffect(a, m), MetadataEffect(a, m)} \in SUBSET Effects
         /\ {StorageEffect(b, m), MetadataEffect(b, m)} \in SUBSET Effects
         /\ Strictness[StorageEffect(b, m)] >= Strictness[StorageEffect(a, m)]
         /\ Strictness[MetadataEffect(b, m)] >= Strictness[MetadataEffect(a, m)]
<1>1. /\ \A f \in Fields : /\ a.level[f] \in 0..4
                           /\ b.level[f] \in 0..4
                           /\ a.level[f] <= b.level[f]
      /\ b.allowed \subseteq a.allowed
  BY NotLooser
<1>2. PostureSatisfies(b, risk) => PostureSatisfies(a, risk)
  BY <1>1, FieldNamed DEF PostureSatisfies
<1>3. PresentationSatisfied(b) => PresentationSatisfied(a)
  BY <1>1, FieldNamed DEF PresentationSatisfied
<1>4. /\ ContentEffects(a, m, risk) \in SUBSET Effects
      /\ ContentEffects(b, m, risk) \in SUBSET Effects
  BY DEF ContentEffects, Effects, Strictness
<1>5. a.level["protected_content"] > 0 => b.level["protected_content"] > 0
  BY <1>1, FieldNamed
<1>6. ContentEffects(a, m, risk) \subseteq ContentEffects(b, m, risk)
  BY <1>2, <1>3, <1>5 DEF ContentEffects
<1>7. /\ StorageEffect(a, m) \in {"null", "memory_only"}
      /\ StorageEffect(b, m) \in {"null", "memory_only"}
      /\ MetadataEffect(a, m) \in {"deny", "coarsen", "allow"}
      /\ MetadataEffect(b, m) \in {"deny", "coarsen", "allow"}
  BY DEF StorageEffect, MetadataEffect
<1>8. a.level["retention"] = 2 => b.level["retention"] = 2
  <2>1. b.level["retention"] <= MaxLevel["retention"]
    BY FieldNamed DEF Documents, Levels
  <2>2. b.level["retention"] <= 2
    BY <2>1 DEF MaxLevel
  <2> QED BY <1>1, <2>2, FieldNamed
<1>9. StorageEffect(a, m) = "null" => StorageEffect(b, m) = "null"
  BY <1>8 DEF StorageEffect
<1>10. /\ MetadataEffect(a, m) = "deny" => MetadataEffect(b, m) = "deny"
       /\ MetadataEffect(b, m) = "allow" => MetadataEffect(a, m) = "allow"
  BY <1>1 DEF MetadataEffect
<1>11. Strictness[StorageEffect(b, m)] >= Strictness[StorageEffect(a, m)]
  BY <1>7, <1>9 DEF Strictness
<1>12. Strictness[MetadataEffect(b, m)] >= Strictness[MetadataEffect(a, m)]
  BY <1>7, <1>10 DEF Strictness
<1>13. /\ {StorageEffect(a, m), MetadataEffect(a, m)} \in SUBSET Effects
       /\ {StorageEffect(b, m), MetadataEffect(b, m)} \in SUBSET Effects
  BY <1>7 DEF Effects, Strictness
<1> QED BY <1>2, <1>3, <1>4, <1>6, <1>11, <1>12, <1>13

\* Composition never gets looser under a stricter document.
LEMMA CompositionMonotone ==
  ASSUME NEW a \in Documents, NEW b \in Documents, ~AnyLooser(a, b),
         NEW m \in Modes, NEW risk \in BOOLEAN, NEW onContent \in BOOLEAN
  PROVE  NoLooser(Composed(b, m, risk, onContent), Composed(a, m, risk, onContent))
<1> DEFINE Folded(d) == IF onContent THEN ContentEffects(d, m, risk)
                        ELSE {StorageEffect(d, m), MetadataEffect(d, m)}
           EffectA == StrictestOf(Folded(a))
           EffectB == StrictestOf(Folded(b))
<1>1. Folded(a) \in SUBSET Effects /\ Folded(b) \in SUBSET Effects
  BY EffectsMonotone
<1>2. \A e \in Effects : Strictness[e] \in Nat
  BY DEF Effects, Strictness
<1>3. \A e \in Folded(a) : \E f \in Folded(b) \cup {"allow"} : Strictness[f] >= Strictness[e]
  <2>1. CASE onContent
    <3>1. Folded(a) \subseteq Folded(b)
      BY <2>1, EffectsMonotone
    <3> QED BY <1>1, <1>2, <3>1
  <2>2. CASE ~onContent
    <3>1. /\ Folded(a) = {StorageEffect(a, m), MetadataEffect(a, m)}
          /\ Folded(b) = {StorageEffect(b, m), MetadataEffect(b, m)}
      BY <2>2
    <3> HIDE DEF Folded
    <3> QED BY <3>1, EffectsMonotone
  <2> QED BY <2>1, <2>2
<1>4. /\ EffectA \in Effects
      /\ EffectB \in Effects
      /\ Strictness[EffectB] >= Strictness[EffectA]
  <2> HIDE DEF Folded
  <2> QED BY <1>1, <1>3, StrictestMonotone
<1>5. PermitsExecution(EffectB) => PermitsExecution(EffectA)
  <2> HIDE DEF EffectA, EffectB
  <2> QED BY <1>4, PermitsByRank
<1>6. MetadataEffect(b, m) = "allow" => MetadataEffect(a, m) = "allow"
  BY NotLooser DEF MetadataEffect
<1>7. /\ "local_ai" \in b.allowed => "local_ai" \in a.allowed
      /\ "notifications" \in b.allowed => "notifications" \in a.allowed
  BY NotLooser
<1>8. /\ PostureSatisfies(b, risk) => PostureSatisfies(a, risk)
      /\ PresentationSatisfied(b) => PresentationSatisfied(a)
  BY EffectsMonotone
<1>9. /\ Composed(a, m, risk, onContent).effect = EffectA
      /\ Composed(b, m, risk, onContent).effect = EffectB
  BY DEF Composed
<1>10. \A flag \in {"allowed", "metadata", "local_ai", "notification"} :
         Composed(b, m, risk, onContent)[flag] => Composed(a, m, risk, onContent)[flag]
  <2>1. Composed(b, m, risk, onContent).allowed => Composed(a, m, risk, onContent).allowed
    BY <1>5, <1>8 DEF Composed
  <2>2. Composed(b, m, risk, onContent).metadata => Composed(a, m, risk, onContent).metadata
    BY <1>6 DEF Composed
  <2>3. Composed(b, m, risk, onContent).local_ai => Composed(a, m, risk, onContent).local_ai
    BY <1>7 DEF Composed
  <2>4. Composed(b, m, risk, onContent).notification
          => Composed(a, m, risk, onContent).notification
    BY <1>7 DEF Composed
  <2> QED BY <2>1, <2>2, <2>3, <2>4
<1> QED BY <1>4, <1>9, <1>10 DEF NoLooser

\* ... nor does admission admit more.
LEMMA AdmissionMonotone ==
  ASSUME NEW a \in Documents, NEW b \in Documents, ~AnyLooser(a, b),
         NEW m \in Modes, NEW risk \in BOOLEAN, NEW action \in AdmissionActions,
         Admitted(b, m, risk, action)
  PROVE  Admitted(a, m, risk, action)
BY EffectsMonotone DEF Admitted, AdmissionActions, ContentActions

------------------------------------------------------------------------------
(* Type correctness                                                        *)

LEMMA CandidateType ==
  ASSUME NEW d \in Documents, NEW c \in Changes
  PROVE  /\ Candidate(d, c) \in Documents
         /\ Candidate(d, c).revision = d.revision + 1
<1> DEFINE next == [d EXCEPT !.revision = @ + 1]
<1>1. next \in Documents /\ next.revision = d.revision + 1
  BY DEF Documents
<1>2. CASE c \in Disablings
  <2>1. "disable" \in DOMAIN c
    BY <1>2 DEF Disablings
  <2>2. Candidate(d, c) = [next EXCEPT !.allowed = @ \ c.disable]
    BY <2>1 DEF Candidate
  <2> HIDE DEF next
  <2> QED BY <1>1, <2>2 DEF Documents
<1>3. CASE c \in Settings
  <2>1. "disable" \notin DOMAIN c
    BY <1>3 DEF Settings
  <2>2. Candidate(d, c) = [next EXCEPT !.level = [@ EXCEPT ![c.field] = c.level]]
    BY <2>1 DEF Candidate
  <2>3. c.field \in Fields /\ c.level \in 0..4 /\ c.level <= MaxLevel[c.field]
    BY <1>3 DEF Settings, CommandFields
  <2>4. [next.level EXCEPT ![c.field] = c.level] \in Levels
    BY <1>1, <2>3 DEF Documents, Levels
  <2> HIDE DEF next
  <2> QED BY <1>1, <2>2, <2>4 DEF Documents
<1> QED BY <1>2, <1>3 DEF Changes

LEMMA DefaultType ==
  ASSUME NEW m \in Modes
  PROVE  DefaultDocument(m) \in Documents /\ DefaultDocument(m).revision = 1
BY DEF DefaultDocument, Documents, Levels, Fields, MaxLevel, Features

LEMMA FenceType ==
  ASSUME AuthorityTypeOK
  PROVE  CurrentFence \in Fences /\ UnsignalledFence \in Fences
BY DEF AuthorityTypeOK, TypeOK, CurrentFence, UnsignalledFence, Fences, PolicyFence, Fingerprint

\* A prepared revocation is delegated as an update request.
LEMMA DelegatedType ==
  ASSUME AuthorityTypeOK, NEW p \in Revocations, roster[p.actor] # NoRecord
  PROVE  /\ DelegatedRequest(p) \in Requests
         /\ DelegatedRequest(p).command = p.command
         /\ DelegatedRequest(p).target = p.target
         /\ DelegatedRequest(p).role = p.role
         /\ p.command \in UpdateCommands
<1>1. roster[p.actor] \in Records
  BY DEF AuthorityTypeOK, TypeOK, Revocations
<1>2. p.command \in UpdateCommands /\ p.command \in Commands
  BY DEF Revocations, UpdateCommands, Commands
<1>3. p.targetRecord.memberRef \in MemberRefs /\ p.fence.mode \in Modes
  BY DEF Revocations, Records, Fences
<1> QED BY <1>1, <1>2, <1>3 DEF DelegatedRequest, Requests, Revocations

\* The command an actor submits through the ordinary pipeline.
LEMMA UpdateNowRequest ==
  ASSUME AuthorityTypeOK, NEW actor \in MembershipIds, NEW target \in MembershipIds,
         UpdateNow(actor, target)
  PROVE  /\ \E r \in Requests : UpdateMember(r)
         /\ UNCHANGED <<lifecycle, governanceVars, deviceVars, preparedVars>>
<1>1. /\ roster[actor] \in Records
      /\ roster[target] \in Records
      /\ UNCHANGED <<lifecycle, governanceVars, deviceVars, preparedVars>>
  BY DEF UpdateNow, AuthorityTypeOK, TypeOK
<1>2. PICK command \in UpdateCommands, role \in InputRoles :
        UpdateMember([command |-> command, actor |-> actor,
                      membership |-> roster[actor], target |-> target,
                      seen |-> roster[target],
                      memberRef |-> roster[target].memberRef, role |-> role,
                      mode |-> mode])
  BY DEF UpdateNow
<1> DEFINE r == [command |-> command, actor |-> actor,
                 membership |-> roster[actor], target |-> target,
                 seen |-> roster[target],
                 memberRef |-> roster[target].memberRef, role |-> role,
                 mode |-> mode]
<1>3. r \in Requests
  BY <1>1, MembershipAssumption
     DEF Requests, Commands, UpdateCommands, Records, AuthorityTypeOK, TypeOK, MembershipAssumption
<1> HIDE DEF r
<1>4. UpdateMember(r)
  BY <1>2 DEF r
<1> QED BY <1>1, <1>3, <1>4

\* Only an update request writes records, and nothing writes requests.
LEMMA AuthorityWrites ==
  ASSUME AuthorityTypeOK, [AuthorityNext]_authorityVars
  PROVE  /\ UNCHANGED projectionVars \/ \E r \in Requests : UpdateMember(r)
         /\ UNCHANGED held
<1>1. CASE \E p \in revocations : Revoke(p)
  <2>1. PICK p \in revocations : Revoke(p)
    BY <1>1
  <2>2. DelegatedRequest(p) \in Requests
    BY <2>1, DelegatedType DEF AuthorityTypeOK, Revoke, Revalidated
  <2>3. UpdateMember(DelegatedRequest(p))
    BY <2>1 DEF Revoke
  <2> QED BY <2>2, <2>3 DEF UpdateMember, Commit
<1>2. CASE \E actor, target \in MembershipIds : UpdateNow(actor, target)
  <2>1. \E r \in Requests : UpdateMember(r)
    BY <1>2, UpdateNowRequest
  <2> QED BY <2>1 DEF UpdateMember, Commit
<1>3. CASE \E t \in tightenings : Tighten(t)
  BY <1>3 DEF Tighten, vars, projectionVars
<1>4. CASE \E actor, target \in MembershipIds : PrepareRevocation(actor, target)
  BY <1>4 DEF PrepareRevocation, vars, projectionVars
<1>5. CASE \/ \E actor \in MembershipIds : PrepareTightening(actor)
           \/ \E t \in tightenings : PrepareAgain(t)
  BY <1>5 DEF PrepareTightening, PrepareAgain, vars, projectionVars
<1>6. CASE ResolveRoomPolicy
  BY <1>6 DEF ResolveRoomPolicy, ResolvePolicy, projectionVars
<1>7. CASE MoveLifecycle \/ SignalPosture \/ DropPrepared \/ UNCHANGED authorityVars
  BY <1>7 DEF MoveLifecycle, SignalPosture, DropPrepared, authorityVars, vars, projectionVars
<1> QED BY <1>1, <1>2, <1>3, <1>4, <1>5, <1>6, <1>7 DEF AuthorityNext

LEMMA TypesStep ==
  ASSUME AuthorityTypeOK, [AuthorityNext]_authorityVars
  PROVE  TypeOK'
<1>t. TypeOK /\ lifecycle \in Lifecycles
  BY DEF AuthorityTypeOK
<1>1. CASE \E r \in Requests : UpdateMember(r)
  BY <1>t, <1>1, SubmitTypeOK
<1>2. CASE UNCHANGED projectionVars
  <2>1. mode' \in Modes /\ mutable' \in BOOLEAN
    <3>1. CASE UNCHANGED policyVars
      BY <1>t, <3>1 DEF policyVars, TypeOK
    <3>2. CASE ResolveRoomPolicy
      BY <3>2, MembershipAssumption DEF ResolveRoomPolicy, ResolvePolicy, MembershipAssumption
    <3>3. CASE \E r \in Requests : UpdateMember(r)
      BY <3>3, <1>t, CommitWrites DEF policyVars, TypeOK
    <3>4. CASE \E actor, target \in MembershipIds : UpdateNow(actor, target)
      BY <3>4, <3>3, UpdateNowRequest
    <3>5. CASE \E p \in revocations : Revoke(p)
      <4>1. PICK p \in revocations : Revoke(p)
        BY <3>5
      <4>2. DelegatedRequest(p) \in Requests /\ UpdateMember(DelegatedRequest(p))
        BY <4>1, DelegatedType DEF AuthorityTypeOK, Revoke, Revalidated
      <4> QED BY <4>2, <3>3
    <3>6. CASE \E t \in tightenings : Tighten(t)
      BY <3>6, <3>1 DEF Tighten, vars, policyVars
    <3>7. CASE \E actor, target \in MembershipIds : PrepareRevocation(actor, target)
      BY <3>7, <3>1 DEF PrepareRevocation, vars, policyVars
    <3>8. CASE \/ \E actor \in MembershipIds : PrepareTightening(actor)
               \/ \E t \in tightenings : PrepareAgain(t)
      BY <3>8, <3>1 DEF PrepareTightening, PrepareAgain, vars, policyVars
    <3>9. CASE MoveLifecycle \/ SignalPosture \/ DropPrepared \/ UNCHANGED authorityVars
      BY <3>9, <3>1 DEF MoveLifecycle, SignalPosture, DropPrepared, authorityVars, vars, policyVars
    <3> QED
      BY <3>2, <3>4, <3>5, <3>6, <3>7, <3>8, <3>9 DEF AuthorityNext
  <2>2. UNCHANGED held
    BY AuthorityWrites
  <2> QED BY <1>t, <1>2, <2>1, <2>2 DEF TypeOK, projectionVars
<1> QED BY <1>1, <1>2, AuthorityWrites

LEMMA AuthorityTypeStep ==
  ASSUME AuthorityTypeOK, [AuthorityNext]_authorityVars
  PROVE  AuthorityTypeOK'
<1>t. TypeOK'
  BY TypesStep
<1>k. /\ lifecycle \in Lifecycles /\ document \in Documents /\ policyRevision \in Nat
      /\ atRisk \in BOOLEAN /\ signal \in Nat
      /\ revocations \subseteq Revocations /\ tightenings \subseteq Tightenings
      /\ CurrentFence \in Fences
  BY FenceType DEF AuthorityTypeOK
<1>r. \A id \in MembershipIds : roster[id] # NoRecord => roster[id] \in Records
  BY DEF AuthorityTypeOK, TypeOK
<1> DEFINE Rest == /\ lifecycle' \in Lifecycles
                   /\ document' \in Documents
                   /\ policyRevision' \in Nat
                   /\ atRisk' \in BOOLEAN
                   /\ signal' \in Nat
                   /\ revocations' \subseteq Revocations
                   /\ tightenings' \subseteq Tightenings
<1> SUFFICES Rest
  BY <1>t DEF AuthorityTypeOK
<1>0. CASE UNCHANGED <<lifecycle, governanceVars, deviceVars, preparedVars>>
  BY <1>0, <1>k DEF governanceVars, deviceVars, preparedVars
<1>1. CASE (\E p \in revocations : Revoke(p)) \/ UNCHANGED authorityVars
  BY <1>1, <1>0 DEF Revoke, authorityVars
<1>2. CASE \E actor, target \in MembershipIds : UpdateNow(actor, target)
  BY <1>2, <1>0 DEF UpdateNow
<1>3. CASE \E t \in tightenings : Tighten(t)
  <2>1. PICK t \in tightenings : Tighten(t)
    BY <1>3
  <2>2. PassedPolicy(t) \in Documents /\ t.change \in Changes
    BY <1>k DEF PassedPolicy, Tightenings
  <2>3. document' = Candidate(PassedPolicy(t), t.change) /\ policyRevision' = document'.revision
    BY <2>1 DEF Tighten
  <2>4. document' \in Documents
    BY <2>2, <2>3, CandidateType
  <2>5. policyRevision' \in Nat
    BY <2>3, <2>4 DEF Documents
  <2> QED BY <1>k, <2>1, <2>4, <2>5 DEF Tighten, deviceVars, preparedVars
<1>4. CASE \E actor, target \in MembershipIds : PrepareRevocation(actor, target)
  <2>1. PICK actor \in MembershipIds, target \in MembershipIds : PrepareRevocation(actor, target)
    BY <1>4
  <2>2. roster[actor] \in Records /\ roster[target] \in Records
    BY <2>1, <1>r DEF PrepareRevocation, Preparable
  <2>3. PICK command \in {"change_role", "suspend", "remove"} :
          \E role \in IF command = "change_role" THEN InputRoles ELSE {roster[target].role} :
            revocations' = revocations \cup
              {[command |-> command, actor |-> actor,
                actorRecord |-> roster[actor], target |-> target,
                targetRecord |-> roster[target], role |-> role,
                fence |-> CurrentFence]}
    BY <2>1 DEF PrepareRevocation
  <2>4. PICK role \in Roles :
            revocations' = revocations \cup
              {[command |-> command, actor |-> actor,
                actorRecord |-> roster[actor], target |-> target,
                targetRecord |-> roster[target], role |-> role,
                fence |-> CurrentFence]}
    BY <2>2, <2>3, MembershipAssumption DEF MembershipAssumption, Records
  <2>5. revocations' \subseteq Revocations
    BY <1>k, <2>2, <2>4 DEF Revocations
  <2> QED BY <1>k, <2>1, <2>5 DEF PrepareRevocation, governanceVars, deviceVars
<1>5. CASE \E actor \in MembershipIds : PrepareTightening(actor)
  <2>1. PICK actor \in MembershipIds : PrepareTightening(actor)
    BY <1>5
  <2>2. roster[actor] \in Records
    BY <2>1, <1>r DEF PrepareTightening, Preparable
  <2>3. PICK change \in Changes :
          tightenings' = tightenings \cup
            {[actor |-> actor, actorRecord |-> roster[actor],
              document |-> document, change |-> change, fence |-> CurrentFence]}
    BY <2>1, RoomAuthorityAssumption DEF PrepareTightening, RoomAuthorityAssumption
  <2>4. tightenings' \subseteq Tightenings
    BY <1>k, <2>2, <2>3 DEF Tightenings
  <2> QED BY <1>k, <2>1, <2>4 DEF PrepareTightening, governanceVars, deviceVars
<1>6. CASE \E t \in tightenings : PrepareAgain(t)
  <2>1. PICK t \in tightenings : PrepareAgain(t)
    BY <1>6
  <2>2. t \in Tightenings
    BY <1>k
  <2>3. roster[t.actor] \in Records
    BY <2>1, <2>2, <1>r DEF PrepareAgain, Preparable, Tightenings
  <2>4. [t EXCEPT !.actorRecord = roster[t.actor], !.fence = CurrentFence] \in Tightenings
    BY <1>k, <2>2, <2>3 DEF Tightenings
  <2> QED BY <1>k, <2>1, <2>4 DEF PrepareAgain, governanceVars, deviceVars
<1>7. CASE MoveLifecycle
  <2>1. lifecycle' \in Lifecycles
    BY <1>7, RoomAuthorityAssumption DEF MoveLifecycle, RoomAuthorityAssumption
  <2> QED BY <1>7, <1>k, <2>1 DEF MoveLifecycle, governanceVars, deviceVars, preparedVars
<1>8. CASE SignalPosture
  BY <1>8, <1>k DEF SignalPosture, governanceVars, preparedVars
<1>9. CASE DropPrepared
  BY <1>9, <1>k DEF DropPrepared, governanceVars, deviceVars
<1>10. CASE ResolveRoomPolicy
  <2>1. mode' \in Modes
    BY <1>t DEF TypeOK
  <2> QED BY <1>10, <1>k, <2>1, DefaultType DEF ResolveRoomPolicy, deviceVars, preparedVars
<1> QED
  BY <1>1, <1>2, <1>3, <1>4, <1>5, <1>6, <1>7, <1>8, <1>9, <1>10 DEF AuthorityNext

LEMMA AuthorityInitType == AuthorityInit => AuthorityTypeOK
<1> SUFFICES ASSUME AuthorityInit PROVE AuthorityTypeOK
  OBVIOUS
<1>1. Cardinality(Present(Founders)) \in Nat
  BY MembershipAssumption, FS_Subset, FS_CardinalityType DEF MembershipAssumption, Present
<1>2. TypeOK
  BY <1>1, RoomAuthorityAssumption DEF AuthorityInit, TypeOK, RoomAuthorityAssumption, Modes
<1> QED BY <1>2, DefaultType DEF AuthorityInit, AuthorityTypeOK, Lifecycles, Modes

\* Whatever is prepared, executed or signalled, in whatever order, everything
\* the room and its callers hold is well formed.
THEOREM AuthorityTypeCorrect == AuthoritySpec => []AuthorityTypeOK
BY AuthorityInitType, AuthorityTypeStep, PTL DEF AuthoritySpec

------------------------------------------------------------------------------
(* Revocation                                                              *)

\* A room that is founded with an owner always has one, also while prepared
\* revocations race each other and the ordinary pipeline.
THEOREM RevocationsKeepAnOwner == AuthoritySpec => []OwnerContinuity
<1>1. AuthorityInit => OwnerContinuity
  BY RoomAuthorityAssumption DEF AuthorityInit, RoomAuthorityAssumption, OwnerContinuity
<1>2. AuthorityTypeOK /\ OwnerContinuity /\ [AuthorityNext]_authorityVars => OwnerContinuity'
  <2> SUFFICES ASSUME AuthorityTypeOK, OwnerContinuity, [AuthorityNext]_authorityVars
               PROVE  OwnerContinuity'
    OBVIOUS
  <2>1. CASE UNCHANGED projectionVars
    BY <2>1 DEF projectionVars, OwnerContinuity, Present, ActiveOwners
  <2>2. CASE \E r \in Requests : UpdateMember(r)
    BY <2>2, UpdateKeepsAnOwner DEF AuthorityTypeOK
  <2> QED BY <2>1, <2>2, AuthorityWrites
<1> QED BY <1>1, <1>2, AuthorityTypeCorrect, PTL DEF AuthoritySpec

\* Whoever writes the records, the abstract roster takes a step of its own.
LEMMA AuthorityOwnedStep ==
  ASSUME AuthorityTypeOK, OwnerContinuity', [AuthorityNext]_authorityVars
  PROVE  [Owned!Next]_([id \in MembershipIds |-> Standing(roster[id])])
<1>1. CASE roster' = roster
  BY <1>1
<1>2. CASE roster' # roster
  <2>1. PICK r \in Requests : UpdateMember(r)
    BY <1>2, AuthorityWrites DEF projectionVars
  <2>2. TypeOK
    BY DEF AuthorityTypeOK
  <2>3. /\ r.command \in UpdateCommands
        /\ roster[r.target] # NoRecord
        /\ Buildable(r)
    BY <2>1 DEF UpdateMember
  <2>4. roster[r.target] \in Records
    BY <2>1, <2>2, UpdateWrites
  <2>5. roster[r.target].state # "removed"
    BY <2>3, <2>4 DEF Buildable, UpdateCommands
  <2>6. roster' = [roster EXCEPT ![r.target] = ResultingRecord(r)]
    BY <1>2, <2>1, <2>2, CommitWrites
  <2> QED BY <2>1, <2>2, <2>3, <2>5, <2>6, WritingIsOwnedStep
<1> QED BY <1>1, <1>2

\* The revocation pipeline and the membership pipeline it delegates to implement
\* the abstract roster of a founded room.
THEOREM FoundedRosterIsOwned == AuthoritySpec => ImplementsFoundedRoster
<1>1. AuthorityInit => Owned!Founded
  <2> SUFFICES ASSUME AuthorityInit PROVE Owned!Founded
    OBVIOUS
  <2>1. /\ roster = Founders
        /\ \A id \in MembershipIds : Founders[id] # NoRecord =>
             Founders[id].state = "active"
        /\ \E id \in MembershipIds : ActiveOwner(Founders[id])
    BY RoomAuthorityAssumption DEF AuthorityInit, RoomAuthorityAssumption, Present, ActiveOwners
  <2> QED BY <2>1 DEF Owned!Founded, Standing, ActiveOwner
<1> QED
  BY <1>1, AuthorityOwnedStep, AuthorityTypeCorrect, RevocationsKeepAnOwner, PTL
     DEF AuthoritySpec, ImplementsFoundedRoster, Owned!FoundedSpec

\* A record that was there is there afterwards, as it was or a revision later.
LEMMA AuthorityAdvance ==
  ASSUME AuthorityTypeOK, [AuthorityNext]_authorityVars,
         NEW id \in MembershipIds, roster[id] # NoRecord, roster'[id] # roster[id]
  PROVE  /\ roster'[id] # NoRecord
         /\ roster'[id].revision = roster[id].revision + 1
<1>t. TypeOK
  BY DEF AuthorityTypeOK
<1>1. PICK r \in Requests : UpdateMember(r)
  BY AuthorityWrites DEF projectionVars
<1>2. /\ r.target = id
      /\ roster'[id] = ResultingRecord(r)
      /\ ResultingRecord(r) # NoRecord
  BY <1>t, <1>1, UpdateWrites
<1>3. ResultingRecord(r).revision = roster[r.target].revision + 1
  BY <1>t, <1>1, UpdateWrites, ResultingRecordType
<1> QED BY <1>2, <1>3

\* Every record a preparation is bound to is the room's, or an earlier one.
PreparedCoherent ==
  \A p \in revocations : /\ Coherent(p.actor, p.actorRecord)
                         /\ Coherent(p.target, p.targetRecord)

LEMMA PreparedRecordCoherent ==
  ASSUME AuthorityTypeOK, [AuthorityNext]_authorityVars,
         NEW id \in MembershipIds, NEW record \in Records, Coherent(id, record)
  PROVE  Coherent(id, record)'
<1>1. roster[id] \in Records
  BY DEF Coherent, AuthorityTypeOK, TypeOK
<1>2. record.revision \in Nat /\ roster[id].revision \in Nat
  BY <1>1, MembershipAssumption DEF Records, MembershipAssumption
<1>3. CASE roster'[id] = roster[id]
  BY <1>3 DEF Coherent
<1>4. CASE roster'[id] # roster[id]
  BY <1>2, <1>4, AuthorityAdvance DEF Coherent
<1> QED BY <1>3, <1>4

LEMMA PreparedCoherentStep ==
  ASSUME AuthorityTypeOK, PreparedCoherent, [AuthorityNext]_authorityVars
  PROVE  PreparedCoherent'
<1>t. TypeOK
  BY DEF AuthorityTypeOK
<1>1. ASSUME NEW p \in revocations
      PROVE  Coherent(p.actor, p.actorRecord)' /\ Coherent(p.target, p.targetRecord)'
  <2>1. p \in Revocations
    BY DEF AuthorityTypeOK
  <2>2. /\ p.actor \in MembershipIds /\ p.actorRecord \in Records
        /\ p.target \in MembershipIds /\ p.targetRecord \in Records
    BY <2>1 DEF Revocations
  <2>3. Coherent(p.actor, p.actorRecord) /\ Coherent(p.target, p.targetRecord)
    BY DEF PreparedCoherent
  <2>4. Coherent(p.actor, p.actorRecord)'
    BY <2>2, <2>3, PreparedRecordCoherent DEF Coherent
  <2>5. Coherent(p.target, p.targetRecord)'
    BY <2>2, <2>3, PreparedRecordCoherent DEF Coherent
  <2> QED BY <2>4, <2>5
<1>2. CASE revocations' \subseteq revocations
  BY <1>1, <1>2 DEF PreparedCoherent
<1>3. CASE \E actor, target \in MembershipIds : PrepareRevocation(actor, target)
  <2>1. PICK actor \in MembershipIds, target \in MembershipIds : PrepareRevocation(actor, target)
    BY <1>3
  <2>2. /\ roster[actor] # NoRecord
        /\ roster[target] # NoRecord
        /\ roster' = roster
    BY <2>1 DEF PrepareRevocation, Preparable, vars
  <2>3. Coherent(actor, roster[actor])' /\ Coherent(target, roster[target])'
    BY <1>t, <2>2, FreshCoherent DEF Coherent
  <2>4. PICK new : /\ revocations' = revocations \cup {new}
                   /\ new.actor = actor /\ new.actorRecord = roster[actor]
                   /\ new.target = target /\ new.targetRecord = roster[target]
    <3>1. PICK command, role :
            revocations' = revocations \cup
              {[command |-> command, actor |-> actor,
                actorRecord |-> roster[actor], target |-> target,
                targetRecord |-> roster[target], role |-> role,
                fence |-> CurrentFence]}
      BY <2>1 DEF PrepareRevocation
    <3> DEFINE new == [command |-> command, actor |-> actor,
                       actorRecord |-> roster[actor], target |-> target,
                       targetRecord |-> roster[target], role |-> role,
                       fence |-> CurrentFence]
    <3>2. /\ new.actor = actor /\ new.actorRecord = roster[actor]
          /\ new.target = target /\ new.targetRecord = roster[target]
      OBVIOUS
    <3> HIDE DEF new
    <3> QED BY <3>1, <3>2 DEF new
  <2>5. Coherent(new.actor, new.actorRecord)' /\ Coherent(new.target, new.targetRecord)'
    BY <2>2, <2>3, <2>4 DEF Coherent
  <2> QED BY <1>1, <2>4, <2>5 DEF PreparedCoherent
<1>4. CASE UNCHANGED preparedVars
  BY <1>4, <1>2 DEF preparedVars
<1>5. CASE DropPrepared
  BY <1>5, <1>2 DEF DropPrepared
<1>6. CASE \/ \E t \in tightenings : Tighten(t) \/ PrepareAgain(t)
           \/ \E actor \in MembershipIds : PrepareTightening(actor)
  BY <1>6, <1>2 DEF Tighten, PrepareAgain, PrepareTightening, preparedVars
<1>7. CASE \E p \in revocations : Revoke(p)
  BY <1>7, <1>4 DEF Revoke
<1>8. CASE \E actor, target \in MembershipIds : UpdateNow(actor, target)
  BY <1>8, <1>4 DEF UpdateNow
<1>9. CASE ResolveRoomPolicy \/ MoveLifecycle \/ SignalPosture \/ UNCHANGED authorityVars
  BY <1>9, <1>4 DEF ResolveRoomPolicy, MoveLifecycle, SignalPosture, authorityVars
<1> QED BY <1>3, <1>5, <1>6, <1>7, <1>8, <1>9 DEF AuthorityNext

LEMMA PreparedAlwaysCoherent == AuthoritySpec => []PreparedCoherent
<1>1. AuthorityInit => PreparedCoherent
  BY DEF AuthorityInit, PreparedCoherent
<1> QED BY <1>1, PreparedCoherentStep, AuthorityTypeCorrect, PTL DEF AuthoritySpec

\* A revocation that executes finds both records, the mode and the lifecycle as
\* they were when it was prepared (assertPreparedRoomAuthorizationCurrentV1).
THEOREM RevocationsActOnPreparedState == AuthoritySpec => RevocationActsOnPreparedState
<1>1. ASSUME AuthorityTypeOK, PreparedCoherent, NEW p \in revocations, Revoke(p)
      PROVE  /\ roster[p.actor] = p.actorRecord
             /\ roster[p.target] = p.targetRecord
             /\ mode = p.fence.mode
             /\ lifecycle = p.fence.lifecycle
  <2>1. /\ roster[p.actor].revision = p.actorRecord.revision
        /\ p.fence = UnsignalledFence
    BY <1>1 DEF Revoke, Revalidated
  <2>2. p.targetRecord.revision = roster[p.target].revision
    BY <1>1 DEF Revoke, TargetBound
  <2>3. Coherent(p.actor, p.actorRecord) /\ Coherent(p.target, p.targetRecord)
    BY <1>1 DEF PreparedCoherent
  <2>4. mode = UnsignalledFence.mode /\ lifecycle = UnsignalledFence.lifecycle
    BY DEF UnsignalledFence, CurrentFence
  <2> QED BY <2>1, <2>2, <2>3, <2>4 DEF Coherent
<1>2. AuthorityTypeOK /\ PreparedCoherent /\ [AuthorityNext]_authorityVars =>
        [\A p \in revocations :
           Revoke(p) => /\ roster[p.actor] = p.actorRecord
                        /\ roster[p.target] = p.targetRecord
                        /\ mode = p.fence.mode
                        /\ lifecycle = p.fence.lifecycle]_authorityVars
  BY <1>1
<1> QED
  BY <1>2, AuthorityTypeCorrect, PreparedAlwaysCoherent, PTL
     DEF AuthoritySpec, RevocationActsOnPreparedState

\* Nobody gains authority from a revocation (classifyMembershipChangeDirectionV1).
THEOREM RevocationsNeverEscalate == AuthoritySpec => RevocationNeverEscalates
<1>1. ASSUME AuthorityTypeOK, NEW p \in revocations, Revoke(p),
             NEW id \in MembershipIds, roster'[id] # roster[id]
      PROVE  Authority(roster'[id]) \subseteq Authority(roster[id])
  <2> DEFINE r == DelegatedRequest(p)
  <2>1. /\ r \in Requests
        /\ UpdateMember(r)
        /\ r.command = p.command /\ r.target = p.target /\ r.role = p.role
        /\ r.command \in {"change_role", "suspend", "remove"}
    BY <1>1, DelegatedType DEF AuthorityTypeOK, Revoke, Revalidated, Revocations
  <2> HIDE DEF r
  <2>2. /\ r.target = id
        /\ roster'[id] = ResultingRecord(r)
        /\ roster[id] \in Records
    BY <1>1, <2>1, UpdateWrites DEF AuthorityTypeOK
  <2>3. CASE r.command \in {"suspend", "remove"}
    <3>1. ResultingRecord(r).state = StateAfter[r.command]
      BY <2>2, <2>3 DEF ResultingRecord, UpdateCommands, Records
    <3>2. StateAfter[r.command] # "active"
      BY <2>3 DEF StateAfter
    <3> QED BY <2>2, <3>1, <3>2 DEF Authority
  <2>4. CASE r.command = "change_role"
    <3>1. roster[id].state = "active"
      BY <2>1, <2>2, <2>4 DEF UpdateMember, Buildable
    <3>2. /\ ResultingRecord(r).role = p.role
          /\ ResultingRecord(r).state = "active"
      BY <2>1, <2>2, <2>4, <3>1 DEF ResultingRecord, UpdateCommands, Records
    <3>3. CompareRoleAuthority(roster[id].role, p.role) \in {"narrower", "equal"}
      <4>1. ChangeDirection("change_role", roster[id].role, p.role) \in {"restrictive", "neutral"}
        BY <1>1, <2>1, <2>2, <2>4 DEF Revoke, RestrictiveNow
      <4> QED BY <4>1 DEF ChangeDirection
    <3>4. EligibleCaps(p.role) \subseteq EligibleCaps(roster[id].role)
      <4> DEFINE a == EligibleCaps(roster[id].role)
                 b == EligibleCaps(p.role)
      <4>1. CompareRoleAuthority(roster[id].role, p.role) =
              CASE a = b -> "equal"
                [] b \subseteq a /\ a # b -> "narrower"
                [] a \subseteq b /\ a # b -> "wider"
                [] OTHER -> "incomparable"
        BY DEF CompareRoleAuthority
      <4> HIDE DEF a, b
      <4> QED BY <3>3, <4>1 DEF a, b
    <3> QED BY <2>2, <3>1, <3>2, <3>4 DEF Authority
  <2> QED BY <2>1, <2>3, <2>4
<1>2. AuthorityTypeOK /\ [AuthorityNext]_authorityVars =>
        [\A p \in revocations :
           Revoke(p) =>
             \A id \in MembershipIds :
               roster'[id] # roster[id] =>
                 Authority(roster'[id]) \subseteq Authority(roster[id])]_authorityVars
  BY <1>1
<1> QED BY <1>2, AuthorityTypeCorrect, PTL DEF AuthoritySpec, RevocationNeverEscalates

------------------------------------------------------------------------------
(* Governance                                                              *)

\* Where callers pass the room's document, an executed tightening replaces it
\* by its next revision, a document that is nowhere looser.
LEMMA TightenReplaces ==
  ASSUME AuthorityTypeOK, ~PassesHeldPolicy, NEW t \in tightenings, Tighten(t)
  PROVE  /\ document' \in Documents
         /\ document'.revision = document.revision + 1
         /\ policyRevision' = document'.revision
         /\ ComparePolicies(document, document') = "stricter"
         /\ ~AnyLooser(document, document')
         /\ t.document.revision = document.revision
<1>1. document \in Documents /\ t.change \in Changes /\ PassedPolicy(t) = document
  BY DEF AuthorityTypeOK, Tightenings, PassedPolicy
<1>2. /\ document' = Candidate(document, t.change)
      /\ policyRevision' = document'.revision
      /\ ComparePolicies(document, Candidate(document, t.change)) = "stricter"
      /\ t.document.revision = document.revision
  BY <1>1 DEF Tighten, Accepted, ExpectedRevision
<1>3. ~AnyLooser(document, Candidate(document, t.change))
  BY <1>2 DEF ComparePolicies
<1> QED BY <1>1, <1>2, <1>3, CandidateType

\* The document changes by a tightening, or is still the default of the mode.
LEMMA DocumentStep ==
  ASSUME AuthorityTypeOK, [AuthorityNext]_authorityVars
  PROVE  \/ UNCHANGED <<mode, governanceVars>>
         \/ ResolveRoomPolicy
         \/ \E t \in tightenings : Tighten(t)
<1>1. CASE \E p \in revocations : Revoke(p)
  BY <1>1 DEF Revoke, UpdateMember, Commit
<1>2. CASE \E actor, target \in MembershipIds : UpdateNow(actor, target)
  BY <1>2 DEF UpdateNow, UpdateMember, Commit
<1>3. CASE \/ \E actor, target \in MembershipIds : PrepareRevocation(actor, target)
           \/ \E actor \in MembershipIds : PrepareTightening(actor)
           \/ \E t \in tightenings : PrepareAgain(t)
  BY <1>3 DEF PrepareRevocation, PrepareTightening, PrepareAgain, vars
<1>4. CASE \/ MoveLifecycle \/ SignalPosture \/ DropPrepared
           \/ UNCHANGED authorityVars
  BY <1>4 DEF MoveLifecycle, SignalPosture, DropPrepared, authorityVars, vars
<1> QED BY <1>1, <1>2, <1>3, <1>4 DEF AuthorityNext

LEMMA DocumentRevisionStep ==
  ASSUME AuthorityTypeOK, ~PassesHeldPolicy, DocumentRevisionExact,
         [AuthorityNext]_authorityVars
  PROVE  DocumentRevisionExact'
<1>1. document.revision \in Nat \ {0}
  BY DEF AuthorityTypeOK, Documents
<1>2. \A t \in tightenings : t.document.revision \in Nat
  BY DEF AuthorityTypeOK, Tightenings, Documents
<1>3. CASE \E t \in tightenings : Tighten(t)
  <2>1. PICK t \in tightenings : Tighten(t)
    BY <1>3
  <2>2. /\ document'.revision = document.revision + 1
        /\ policyRevision' = document'.revision
        /\ tightenings' = tightenings
    BY <2>1, TightenReplaces DEF Tighten, preparedVars
  <2>3. \A u \in tightenings : u.document.revision <= document.revision
    BY DEF DocumentRevisionExact
  <2> QED BY <1>1, <1>2, <2>2, <2>3 DEF DocumentRevisionExact
<1>4. CASE UNCHANGED <<mode, governanceVars>> \/ ResolveRoomPolicy
  <2>1. /\ policyRevision' = policyRevision
        /\ document'.revision = document.revision
        /\ policyRevision = 0 => document' = DefaultDocument(mode')
        /\ policyRevision # 0 => document' = document
    <3>1. mode \in Modes /\ mode' \in Modes
      BY TypesStep DEF AuthorityTypeOK, TypeOK
    <3>2. CASE UNCHANGED <<mode, governanceVars>>
      BY <3>2 DEF governanceVars, DocumentRevisionExact
    <3>3. CASE ResolveRoomPolicy
      BY <3>1, <3>3, DefaultType DEF ResolveRoomPolicy, DocumentRevisionExact
    <3> QED BY <1>4, <3>2, <3>3
  <2>2. \A u \in tightenings' :
          \/ u.document = document
          \/ \E t \in tightenings : u.document = t.document
    <3>1. CASE \E actor \in MembershipIds : PrepareTightening(actor)
      BY <3>1 DEF PrepareTightening
    <3>2. CASE \E t \in tightenings : PrepareAgain(t)
      <4>1. PICK t \in tightenings : PrepareAgain(t)
        BY <3>2
      <4> DEFINE again == [t EXCEPT !.actorRecord = roster[t.actor], !.fence = CurrentFence]
      <4>2. tightenings' = (tightenings \ {t}) \cup {again}
        BY <4>1 DEF PrepareAgain
      <4>3. again.document = t.document
        BY DEF AuthorityTypeOK, Tightenings
      <4> HIDE DEF again
      <4> QED BY <4>2, <4>3
    <3>3. CASE tightenings' \subseteq tightenings
      BY <3>3
    <3>4. CASE \E t \in tightenings : Tighten(t)
      BY <3>4, <3>3 DEF Tighten, preparedVars
    <3>5. CASE \/ \E p \in revocations : Revoke(p)
               \/ \E actor, target \in MembershipIds : UpdateNow(actor, target)
      BY <3>5, <3>3 DEF Revoke, UpdateNow, preparedVars
    <3>6. CASE \E actor, target \in MembershipIds : PrepareRevocation(actor, target)
      BY <3>6, <3>3 DEF PrepareRevocation
    <3>7. CASE \/ ResolveRoomPolicy \/ MoveLifecycle \/ SignalPosture \/ DropPrepared
               \/ UNCHANGED authorityVars
      BY <3>7, <3>3
         DEF ResolveRoomPolicy, MoveLifecycle, SignalPosture, DropPrepared, authorityVars, preparedVars
    <3> QED BY <3>1, <3>2, <3>4, <3>5, <3>6, <3>7 DEF AuthorityNext
  <2> QED BY <1>1, <2>1, <2>2 DEF DocumentRevisionExact
<1> QED BY <1>3, <1>4, DocumentStep

\* A copy of the document with the room's revision is the room's document.
THEOREM DocumentRevisionAlwaysExact ==
  ASSUME ~PassesHeldPolicy
  PROVE  AuthoritySpec => []DocumentRevisionExact
<1>1. AuthorityInit => DocumentRevisionExact
  BY DEF AuthorityInit, DocumentRevisionExact
<1>2. AuthorityTypeOK /\ DocumentRevisionExact /\ [AuthorityNext]_authorityVars
        => DocumentRevisionExact'
  BY DocumentRevisionStep
<1> QED BY <1>1, <1>2, AuthorityTypeCorrect, PTL DEF AuthoritySpec

\* An accepted governance command was written for the document it tightens, if
\* governance accepted one before (expectedPolicyRevision).
THEOREM TighteningsNeverLost ==
  ASSUME ~PassesHeldPolicy
  PROVE  AuthoritySpec => NoLostTightening
<1>1. AuthorityTypeOK /\ DocumentRevisionExact /\ [AuthorityNext]_authorityVars =>
        [\A t \in tightenings :
           Tighten(t) => t.document = document \/ policyRevision = 0]_authorityVars
  BY TightenReplaces DEF DocumentRevisionExact
<1> QED
  BY <1>1, AuthorityTypeCorrect, DocumentRevisionAlwaysExact, PTL
     DEF AuthoritySpec, NoLostTightening

\* What governance accepts as stricter is so for composition and admission, in
\* every mode and for every device (composeEffectiveRoomPolicyV1,
\* resolveSensitiveRoomAdmissionV1).
THEOREM TighteningsNeverLoosen ==
  ASSUME ~PassesHeldPolicy
  PROVE  AuthoritySpec => TighteningNeverLoosens
<1>1. ASSUME AuthorityTypeOK, NEW t \in tightenings, Tighten(t),
             NEW m \in Modes, NEW risk \in BOOLEAN
      PROVE  /\ \A onContent \in BOOLEAN :
                  NoLooser(Composed(document', m, risk, onContent),
                           Composed(document, m, risk, onContent))
             /\ \A action \in AdmissionActions :
                  Admitted(document', m, risk, action)
                    => Admitted(document, m, risk, action)
  <2>1. /\ document \in Documents /\ document' \in Documents
        /\ ~AnyLooser(document, document')
    BY <1>1, TightenReplaces DEF AuthorityTypeOK
  <2> QED BY <2>1, CompositionMonotone, AdmissionMonotone
<1>2. AuthorityTypeOK /\ [AuthorityNext]_authorityVars =>
        [(\E t \in tightenings : Tighten(t)) =>
           \A m \in Modes, risk \in BOOLEAN :
             /\ \A onContent \in BOOLEAN :
                  NoLooser(Composed(document', m, risk, onContent),
                           Composed(document, m, risk, onContent))
             /\ \A action \in AdmissionActions :
                  Admitted(document', m, risk, action)
                    => Admitted(document, m, risk, action)]_authorityVars
  BY <1>1
<1> QED BY <1>2, AuthorityTypeCorrect, PTL DEF AuthoritySpec, TighteningNeverLoosens

\* An effect that forbids execution forbids it whatever else is folded.
LEMMA ForbiddenStays ==
  ASSUME NEW E \in SUBSET Effects
  PROVE  PermitsExecution(StrictestOf(E)) <=> E \cap {"deny", "future_gate"} = {}
<1>1. /\ StrictestOf(E) \in E \cup {"allow"}
      /\ \A e \in E \cup {"allow"} : Strictness[StrictestOf(E)] >= Strictness[e]
  BY StrictestType
<1>2. StrictestOf(E) \in Effects
  BY <1>1 DEF Effects, Strictness
<1>3. \A e \in E \cap {"deny", "future_gate"} :
        Strictness[StrictestOf(E)] >= Strictness[e] => ~PermitsExecution(StrictestOf(E))
  BY <1>2 DEF Effects, Strictness, PermitsExecution
<1> QED BY <1>1, <1>3 DEF PermitsExecution

\* Admission and composition agree on content, a device at risk gains nothing,
\* and in emergency nothing is allowed.
LEMMA AdmissionAgrees ==
  ASSUME NEW d \in Documents, NEW m \in Modes, NEW risk \in BOOLEAN
  PROVE  /\ \A action \in ContentActions :
              Admitted(d, m, risk, action) <=> Composed(d, m, risk, TRUE).allowed
         /\ \A onContent \in BOOLEAN :
              /\ NoLooser(Composed(d, m, TRUE, onContent), Composed(d, m, risk, onContent))
              /\ ~Composed(d, "emergency", risk, onContent).allowed
<1>1. \A n \in Modes, r \in BOOLEAN :
        /\ ContentEffects(d, n, r) \in SUBSET Effects
        /\ {StorageEffect(d, n), MetadataEffect(d, n)} \in SUBSET Effects
  BY DEF ContentEffects, StorageEffect, MetadataEffect, Effects, Strictness
<1>2. "emergency" \in Modes
  BY DEF Modes
<1>3. \A n \in Modes, r \in BOOLEAN :
        /\ Composed(d, n, r, TRUE).effect = StrictestOf(ContentEffects(d, n, r))
        /\ Composed(d, n, r, TRUE).allowed <=>
             /\ PermitsExecution(StrictestOf(ContentEffects(d, n, r)))
             /\ PostureSatisfies(d, r) /\ PresentationSatisfied(d)
        /\ Composed(d, n, r, FALSE).effect
             = StrictestOf({StorageEffect(d, n), MetadataEffect(d, n)})
        /\ Composed(d, n, r, FALSE).allowed <=>
             /\ PermitsExecution(StrictestOf({StorageEffect(d, n), MetadataEffect(d, n)}))
             /\ PostureSatisfies(d, r) /\ PresentationSatisfied(d)
  BY DEF Composed
<1>4. ASSUME NEW action \in ContentActions
      PROVE  Admitted(d, m, risk, action) <=> Composed(d, m, risk, TRUE).allowed
  <2>1. Admitted(d, m, risk, action) <=>
          m # "emergency" /\ PostureSatisfies(d, risk) /\ PresentationSatisfied(d)
    BY DEF Admitted, ContentActions
  <2>2. PermitsExecution(StrictestOf(ContentEffects(d, m, risk)))
          <=> ContentEffects(d, m, risk) \cap {"deny", "future_gate"} = {}
    BY <1>1, ForbiddenStays
  <2>3. ContentEffects(d, m, risk) \cap {"deny", "future_gate"} = {}
          <=> m # "emergency" /\ PostureSatisfies(d, risk) /\ PresentationSatisfied(d)
    BY DEF ContentEffects
  <2> QED BY <1>3, <2>1, <2>2, <2>3
<1>5. /\ ~Composed(d, "emergency", risk, TRUE).allowed
      /\ ~Composed(d, "emergency", risk, FALSE).allowed
  <2>1. "deny" \in ContentEffects(d, "emergency", risk)
    BY DEF ContentEffects
  <2>2. MetadataEffect(d, "emergency") = "deny"
    BY DEF MetadataEffect, StrictModes
  <2> QED BY <1>1, <1>2, <1>3, <2>1, <2>2, ForbiddenStays
<1>6. ~PostureSatisfies(d, TRUE)
  BY DEF PostureSatisfies
<1>7. ContentEffects(d, m, risk) \subseteq ContentEffects(d, m, TRUE)
  BY <1>6 DEF ContentEffects
<1>8. \A e \in Effects : Strictness[e] \in Nat
  BY DEF Effects, Strictness
<1>9. Strictness[StrictestOf(ContentEffects(d, m, TRUE))]
        >= Strictness[StrictestOf(ContentEffects(d, m, risk))]
  <2>1. ASSUME NEW e \in ContentEffects(d, m, risk)
        PROVE  \E f \in ContentEffects(d, m, TRUE) \cup {"allow"} :
                 Strictness[f] >= Strictness[e]
    <3>1. e \in Effects /\ e \in ContentEffects(d, m, TRUE)
      BY <1>1, <1>7
    <3>2. Strictness[e] \in Nat
      BY <1>8, <3>1
    <3>3. Strictness[e] >= Strictness[e]
      BY <3>2
    <3> QED BY <3>1, <3>3
  <2>2. /\ ContentEffects(d, m, risk) \in SUBSET Effects
        /\ ContentEffects(d, m, TRUE) \in SUBSET Effects
    BY <1>1
  <2> QED BY <2>1, <2>2, StrictestMonotone
<1>10. Strictness[StrictestOf({StorageEffect(d, m), MetadataEffect(d, m)})]
         >= Strictness[StrictestOf({StorageEffect(d, m), MetadataEffect(d, m)})]
  BY <1>1, <1>8, StrictestMonotone
<1>11. ASSUME NEW onContent \in BOOLEAN
       PROVE  NoLooser(Composed(d, m, TRUE, onContent), Composed(d, m, risk, onContent))
  <2>1. Strictness[Composed(d, m, TRUE, onContent).effect]
          >= Strictness[Composed(d, m, risk, onContent).effect]
    BY <1>3, <1>9, <1>10
  <2>2. ~Composed(d, m, TRUE, onContent).allowed
    BY <1>3, <1>6
  <2>3. Composed(d, m, TRUE, onContent).metadata => Composed(d, m, risk, onContent).metadata
    BY DEF Composed
  <2>4. Composed(d, m, TRUE, onContent).local_ai => Composed(d, m, risk, onContent).local_ai
    BY DEF Composed
  <2>5. Composed(d, m, TRUE, onContent).notification
          => Composed(d, m, risk, onContent).notification
    BY DEF Composed
  <2> QED BY <2>1, <2>2, <2>3, <2>4, <2>5 DEF NoLooser
<1> QED BY <1>4, <1>5, <1>11

\* The two readers of the room's document agree, whatever was tightened and by
\* whatever caller.
THEOREM ReadersAlwaysAgree == AuthoritySpec => []AdmissionAgreesWithComposition
<1>1. AuthorityTypeOK => AdmissionAgreesWithComposition
  BY AdmissionAgrees DEF AuthorityTypeOK, AdmissionAgreesWithComposition
<1> QED BY <1>1, AuthorityTypeCorrect, PTL DEF AuthoritySpec
------------------------------------------------------------------------------
(* Revocations that could be prepared again                                *)

\* In a room without a document, what a revocation was prepared under says that
\* it could be prepared: its fence has the room policy, open or closed.
PreparedUnderFence ==
  policyRevision = 0 =>
    \A p \in revocations :
      /\ p.fence.policy \in {0, 1}
      /\ Resolves(p.actorRecord, CapabilityOf[p.command], p.fence.mode, p.fence.policy = 1)

\* A room that has a policy counter keeps one.
LEMMA PolicyRevisionStep ==
  ASSUME AuthorityTypeOK, [AuthorityNext]_authorityVars
  PROVE  policyRevision' = 0 => policyRevision = 0
<1>1. CASE \E t \in tightenings : Tighten(t)
  <2>1. PICK t \in tightenings : Tighten(t)
    BY <1>1
  <2>2. PassedPolicy(t) \in Documents /\ t.change \in Changes
    BY DEF AuthorityTypeOK, Tightenings, PassedPolicy
  <2>3. Accepted(PassedPolicy(t), Candidate(PassedPolicy(t), t.change))
    BY <2>1 DEF Tighten
  <2>4. Candidate(PassedPolicy(t), t.change).revision # 0
    BY <2>2, <2>3, CandidateType DEF Documents
  <2> QED BY <2>1, <2>4 DEF Tighten
<1>2. CASE UNCHANGED policyRevision
  BY <1>2
<1> QED BY <1>1, <1>2, DocumentStep DEF governanceVars, ResolveRoomPolicy

LEMMA PreparedUnderFenceStep ==
  ASSUME AuthorityTypeOK, PreparedUnderFence, [AuthorityNext]_authorityVars
  PROVE  PreparedUnderFence'
<1>1. CASE revocations' \subseteq revocations
  BY <1>1, PolicyRevisionStep DEF PreparedUnderFence
<1>2. CASE \E actor, target \in MembershipIds : PrepareRevocation(actor, target)
  <2>1. PICK actor \in MembershipIds, target \in MembershipIds : PrepareRevocation(actor, target)
    BY <1>2
  <2>2. PICK command, role :
          /\ Preparable(actor, CapabilityOf[command])
          /\ revocations' = revocations \cup
               {[command |-> command, actor |-> actor,
                 actorRecord |-> roster[actor], target |-> target,
                 targetRecord |-> roster[target], role |-> role,
                 fence |-> CurrentFence]}
    BY <2>1 DEF PrepareRevocation
  <2> DEFINE new == [command |-> command, actor |-> actor,
                     actorRecord |-> roster[actor], target |-> target,
                     targetRecord |-> roster[target], role |-> role,
                     fence |-> CurrentFence]
  <2>3. /\ new.command = command /\ new.actorRecord = roster[actor]
        /\ new.fence.mode = mode /\ new.fence.policy = PolicyFence
    BY DEF CurrentFence
  <2>4. revocations' = revocations \cup {new}
    BY <2>2
  <2> HIDE DEF new
  <2>5. Resolves(roster[actor], CapabilityOf[command], mode, mutable)
    BY <2>2 DEF Preparable
  <2>6. policyRevision = 0 =>
          PolicyFence \in {0, 1} /\ (PolicyFence = 1) = mutable
    BY DEF PolicyFence, Fingerprint, AuthorityTypeOK, TypeOK
  <2>7. policyRevision = 0 =>
          /\ new.fence.policy \in {0, 1}
          /\ Resolves(new.actorRecord, CapabilityOf[new.command], new.fence.mode,
                      new.fence.policy = 1)
    BY <2>3, <2>5, <2>6
  <2>8. policyRevision' = policyRevision
    BY <2>1 DEF PrepareRevocation, governanceVars
  <2> QED BY <2>4, <2>7, <2>8 DEF PreparedUnderFence
<1>3. CASE UNCHANGED preparedVars
  BY <1>3, <1>1 DEF preparedVars
<1>4. CASE DropPrepared
  BY <1>4, <1>1 DEF DropPrepared
<1>5. CASE \/ \E t \in tightenings : Tighten(t) \/ PrepareAgain(t)
           \/ \E actor \in MembershipIds : PrepareTightening(actor)
  BY <1>5, <1>1 DEF Tighten, PrepareAgain, PrepareTightening, preparedVars
<1>6. CASE \E p \in revocations : Revoke(p)
  BY <1>6, <1>3 DEF Revoke
<1>7. CASE \E actor, target \in MembershipIds : UpdateNow(actor, target)
  BY <1>7, <1>3 DEF UpdateNow
<1>8. CASE ResolveRoomPolicy \/ MoveLifecycle \/ SignalPosture \/ UNCHANGED authorityVars
  BY <1>8, <1>3 DEF ResolveRoomPolicy, MoveLifecycle, SignalPosture, authorityVars
<1> QED BY <1>2, <1>4, <1>5, <1>6, <1>7, <1>8 DEF AuthorityNext

\* In a room without a policy document, a revocation executes only where its
\* context could be prepared then and there: revalidation asks for less than
\* preparation, and the fence makes up for it (roomPolicyRevisionOfV1).
THEOREM RevocationsStillPreparable == AuthoritySpec => RevocationStillPreparable
<1>1. ASSUME AuthorityTypeOK, PreparedCoherent, PreparedUnderFence,
             NEW p \in revocations, policyRevision = 0, Revoke(p)
      PROVE  Preparable(p.actor, CapabilityOf[p.command])
  <2>1. /\ roster[p.actor] # NoRecord
        /\ roster[p.actor].revision = p.actorRecord.revision
        /\ p.fence = UnsignalledFence
    BY <1>1 DEF Revoke, Revalidated
  <2>2. roster[p.actor] = p.actorRecord
    BY <1>1, <2>1 DEF PreparedCoherent, Coherent
  <2>3. p.fence.mode = mode /\ p.fence.policy = Fingerprint
    BY <1>1, <2>1 DEF UnsignalledFence, CurrentFence, PolicyFence
  <2>4. (p.fence.policy = 1) = mutable
    BY <1>1, <2>3 DEF Fingerprint, AuthorityTypeOK, TypeOK
  <2>5. Resolves(p.actorRecord, CapabilityOf[p.command], p.fence.mode, p.fence.policy = 1)
    BY <1>1 DEF PreparedUnderFence
  <2> QED BY <2>1, <2>2, <2>3, <2>4, <2>5 DEF Preparable
<1>2. AuthorityInit => PreparedUnderFence
  BY DEF AuthorityInit, PreparedUnderFence
<1>3. AuthorityTypeOK /\ PreparedCoherent /\ PreparedUnderFence /\ [AuthorityNext]_authorityVars =>
        [\A p \in revocations :
           policyRevision = 0 /\ Revoke(p) =>
             Preparable(p.actor, CapabilityOf[p.command])]_authorityVars
  BY <1>1
<1> QED
  BY <1>2, <1>3, PreparedUnderFenceStep, AuthorityTypeCorrect, PreparedAlwaysCoherent, PTL
     DEF AuthoritySpec, RevocationStillPreparable

============================================================================
