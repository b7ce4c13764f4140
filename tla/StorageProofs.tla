--------------------------- MODULE StorageProofs ---------------------------
(***************************************************************************)
(* Proofs about LocalStorage, for any keys, modes, classes, sensitivities, *)
(* restrictions and bound on the records.                                  *)
(***************************************************************************)
EXTENDS LocalStorage, TLAPS

------------------------------------------------------------------------------
(* Resolution                                                              *)

\* A resolved policy keeps the mode and class it was asked for, and names a
\* backend and flags of the tables.
LEMMA ResolvedType ==
  ASSUME NEW input \in StorageInputs
  PROVE  /\ Resolved(input).mode = input.mode
         /\ Resolved(input).dataClass = input.dataClass
         /\ Resolved(input).backend \in Backends
BY DEF Resolved, StricterBackend, Backends, Placeholder

\* The policy without restrictions has the backend and flags of the baseline.
LEMMA ResolvedUnrestricted ==
  ASSUME NEW m \in StorageModes, NEW class \in DataClasses, NEW sensitivity \in Sensitivities
  PROVE  LET input == [mode |-> m, dataClass |-> class, sensitivity |-> sensitivity,
                       restriction |-> Unrestricted]
         IN /\ Resolved(input).backend = BaselineBackend(m, class)
            /\ Resolved(input).flags =
                 BaselineFlags(m, class, sensitivity) \cup {"delete"}
<1>1. BaselineBackend(m, class) \in Backends
  BY DEF BaselineBackend, Backends, Placeholder
<1>2. "persistent" \notin BaselineFlags(m, class, sensitivity)
  BY DEF BaselineFlags, OpenFlags, ActiveState
<1> QED
  BY <1>1, <1>2
  DEF Resolved, TightenedFlags, Withheld, Unrestricted, StricterBackend, Backends, Placeholder

------------------------------------------------------------------------------
(* Types                                                                   *)

LEMMA UnrestrictedType == Unrestricted \in Restrictions
BY DEF Unrestricted, Restrictions, Backends, Placeholder

LEMMA EmptyType == Empty \in [InputClasses -> [Keys -> Entries \cup {NoEntry}]]
BY DEF Empty

\* A step writes at most one record, typed and under the policy of the moment,
\* or it only takes records away.
LEMMA StorageStep ==
  ASSUME StorageTypeOK, [StorageNext]_storageVars,
         NEW class \in InputClasses, NEW key \in Keys
  PROVE  \/ records'[class][key] \in {records[class][key], NoEntry}
         \/ \E operation \in WriteOperations, sensitivity \in InputSensitivities :
              /\ TargetsMemory
              /\ WriteAllowed(operation, class, sensitivity)
              /\ records'[class][key] =
                   [sensitivity |-> sensitivity, policyMode |-> Policy.mode]
<1>1. ASSUME NEW operation \in WriteOperations, NEW c \in InputClasses, NEW k \in Keys,
             NEW sensitivity \in InputSensitivities, Write(operation, c, k, sensitivity)
      PROVE  \/ records'[class][key] = records[class][key]
             \/ /\ TargetsMemory
                /\ WriteAllowed(operation, class, sensitivity)
                /\ records'[class][key] =
                     [sensitivity |-> sensitivity, policyMode |-> Policy.mode]
  BY <1>1 DEF Write, StorageTypeOK
<1>2. ASSUME NEW c \in InputClasses, NEW k \in Keys, Delete(c, k)
      PROVE  records'[class][key] \in {records[class][key], NoEntry}
  BY <1>2 DEF Delete, StorageTypeOK
<1>3. ASSUME NEW c \in InputClasses, ClearClass(c)
      PROVE  records'[class][key] \in {records[class][key], NoEntry}
  BY <1>3 DEF ClearClass, StorageTypeOK, Empty
<1>4. CASE ClearAll
  BY <1>4 DEF ClearAll, Empty
<1>5. CASE UNCHANGED records
  BY <1>5
<1> QED
  BY <1>1, <1>2, <1>3, <1>4, <1>5
  DEF StorageNext, storageVars, ResolveStoragePolicy, SwitchMode

\* Every reachable state of local storage is well typed.
THEOREM StorageTypeCorrect == StorageSpec => []StorageTypeOK
<1>1. StorageInit => StorageTypeOK
  BY StorageAssumption, UnrestrictedType, EmptyType DEF StorageInit, StorageTypeOK, StorageInputs
<1>2. StorageTypeOK /\ [StorageNext]_storageVars => StorageTypeOK'
  <2> SUFFICES ASSUME StorageTypeOK, [StorageNext]_storageVars
               PROVE  StorageTypeOK'
    OBVIOUS
  <2>1. ASSUME NEW operation \in WriteOperations, NEW class \in InputClasses, NEW key \in Keys,
               NEW sensitivity \in InputSensitivities, Write(operation, class, key, sensitivity)
        PROVE  StorageTypeOK'
    <3>1. [sensitivity |-> sensitivity, policyMode |-> Policy.mode] \in Entries
      BY StorageAssumption, ResolvedType DEF StorageTypeOK, StorageInputs, Policy, Entries
    <3> QED
      BY <2>1, <3>1 DEF Write, StorageTypeOK
  <2>2. ASSUME NEW class \in InputClasses, NEW key \in Keys, Delete(class, key)
        PROVE  StorageTypeOK'
    BY <2>2 DEF Delete, StorageTypeOK
  <2>3. ASSUME NEW class \in InputClasses, ClearClass(class)
        PROVE  StorageTypeOK'
    BY <2>3, EmptyType DEF ClearClass, StorageTypeOK
  <2>4. CASE ClearAll
    BY <2>4, EmptyType DEF ClearAll, StorageTypeOK
  <2>5. ASSUME NEW class \in InputClasses, NEW sensitivity \in InputSensitivities,
               NEW restriction \in InputRestrictions,
               ResolveStoragePolicy(class, sensitivity, restriction)
        PROVE  StorageTypeOK'
    BY <2>5, StorageAssumption DEF ResolveStoragePolicy, StorageTypeOK, StorageInputs
  <2>6. ASSUME NEW m \in InputModes, SwitchMode(m)
        PROVE  StorageTypeOK'
    BY <2>6, StorageAssumption DEF SwitchMode, StorageTypeOK
  <2>7. CASE UNCHANGED storageVars
    BY <2>7 DEF storageVars, StorageTypeOK
  <2> QED
    BY <2>1, <2>2, <2>3, <2>4, <2>5, <2>6, <2>7 DEF StorageNext
<1> QED
  BY <1>1, <1>2, PTL DEF StorageSpec

------------------------------------------------------------------------------
(* What restrictions and strict modes may do                               *)

\* A policy resolved in Ghost, Bunker or Emergency never reaches a persistent
\* backend, whatever a room policy asks for.
THEOREM StrictModesStayInMemory == StorageSpec => []StrictModesNeverPersist
<1>1. ASSUME StorageTypeOK PROVE StrictModesNeverPersist
  <2> SUFFICES ASSUME asked.mode \in ZeroPersistenceModes
               PROVE  /\ Policy.backend \in {"null", "memory_only"}
                      /\ "persistent" \notin Policy.flags
    BY DEF StrictModesNeverPersist, IsPersistentBackend
  <2>1. BaselineBackend(asked.mode, asked.dataClass) \in {"null", "memory_only"}
    BY DEF BaselineBackend, ZeroPersistenceModes
  <2>2. Policy.backend \in {"null", "memory_only"}
    BY <2>1 DEF Policy, Resolved, StricterBackend, Placeholder
  <2> QED
    BY <2>2 DEF Policy, Resolved, Placeholder
<1> QED
  BY <1>1, StorageTypeCorrect, PTL

\* Room policy, device risk and shield never loosen a policy.
THEOREM RestrictionsAlwaysTighten == StorageSpec => []RestrictionsOnlyTighten
<1>1. ASSUME StorageTypeOK PROVE RestrictionsOnlyTighten
  <2> DEFINE baseline == Resolved([asked EXCEPT !.restriction = Unrestricted])
             plain == [mode |-> asked.mode, dataClass |-> asked.dataClass,
                       sensitivity |-> asked.sensitivity, restriction |-> Unrestricted]
  <2>1. [asked EXCEPT !.restriction = Unrestricted] = plain
    BY <1>1 DEF StorageTypeOK, StorageInputs
  <2>2. /\ baseline.backend = BaselineBackend(asked.mode, asked.dataClass)
        /\ baseline.flags =
             BaselineFlags(asked.mode, asked.dataClass, asked.sensitivity) \cup {"delete"}
    BY <1>1, <2>1, ResolvedUnrestricted DEF StorageTypeOK, StorageInputs
  <2>3. Policy.flags \subseteq baseline.flags
    BY <2>2 DEF Policy, Resolved, TightenedFlags
  <2>4. BaselineBackend(asked.mode, asked.dataClass) \in Backends
    BY DEF BaselineBackend, Backends, Placeholder
  <2>5. asked.restriction.backend \in Backends
    BY <1>1 DEF StorageTypeOK, StorageInputs, Restrictions
  <2>6. StricterBackend(Policy.backend, baseline.backend) = Policy.backend
    BY <2>2, <2>4, <2>5 DEF Policy, Resolved, StricterBackend, Backends, Placeholder
  <2> QED
    BY <2>3, <2>6 DEF RestrictionsOnlyTighten
<1> QED
  BY <1>1, StorageTypeCorrect, PTL

------------------------------------------------------------------------------
(* What the provider holds                                                 *)

\* No log and no endpoint artifact carries content, whichever policy callers
\* present.
THEOREM ArtifactsNeverCarryContent == StorageSpec => []ArtifactsCarryNoContent
<1>1. StorageInit => ArtifactsCarryNoContent
  BY DEF StorageInit, ArtifactsCarryNoContent, Empty
<1>2. StorageTypeOK /\ ArtifactsCarryNoContent /\ [StorageNext]_storageVars =>
        ArtifactsCarryNoContent'
  <2> SUFFICES ASSUME StorageTypeOK, ArtifactsCarryNoContent, [StorageNext]_storageVars,
                      NEW class \in InputClasses, NEW key \in Keys,
                      records'[class][key] # NoEntry
               PROVE  /\ class # "debug_artifact"
                      /\ class \in EndpointClasses \cup {"logs"} =>
                           records'[class][key].sensitivity \notin PlaintextRestricted
    BY DEF ArtifactsCarryNoContent
  <2>1. CASE records'[class][key] = records[class][key]
    BY <2>1 DEF ArtifactsCarryNoContent
  <2>2. ASSUME NEW operation \in WriteOperations, NEW sensitivity \in InputSensitivities,
               WriteAllowed(operation, class, sensitivity),
               records'[class][key] = [sensitivity |-> sensitivity, policyMode |-> Policy.mode]
        PROVE  /\ class # "debug_artifact"
               /\ class \in EndpointClasses \cup {"logs"} =>
                    records'[class][key].sensitivity \notin PlaintextRestricted
    <3>1. "debug" \notin Policy.flags
      BY DEF Policy, Resolved, TightenedFlags, BaselineFlags, OpenFlags, ActiveState
    <3> QED
      BY <2>2, <3>1 DEF WriteAllowed, WritePermitted, ContentGrade
  <2> QED
    BY <2>1, <2>2, StorageStep
<1> QED
  BY <1>1, <1>2, StorageTypeCorrect, PTL DEF StorageSpec

\* Where a policy is written under, the sensitivity it was resolved for does
\* not matter: but for logs, which the barrier refuses content, the baseline
\* allows the class to be written with any.
LEMMA OwnPolicyWrites ==
  ASSUME NEW m \in StorageModes, NEW class \in DataClasses,
         NEW resolvedFor \in Sensitivities, NEW sensitivity \in Sensitivities,
         "write" \in BaselineFlags(m, class, resolvedFor),
         class = "logs" => sensitivity \notin PlaintextRestricted
  PROVE  "write" \in BaselineFlags(m, class, sensitivity)
<1>1. CASE m \in {"emergency", "ghost", "bunker"}
  BY <1>1 DEF BaselineFlags
<1>2. CASE m \notin {"emergency", "ghost", "bunker"}
  <2>1. CASE class = "logs"
    BY <1>2, <2>1 DEF BaselineFlags, OpenFlags, ContentClasses, SettingsClasses, CacheClasses,
                      PreviewClasses, EndpointClasses, RevealState
  <2>2. CASE class # "logs"
    BY <1>2, <2>2 DEF BaselineFlags, OpenFlags, ActiveState
  <2> QED
    BY <2>1, <2>2
<1> QED
  BY <1>1, <1>2

\* A policy for memory that no restriction made so has memory as its baseline.
LEMMA MemoryIsTheBaselines ==
  ASSUME asked \in StorageInputs, TargetsMemory, asked.restriction.backend # "memory_only"
  PROVE  BaselineBackend(asked.mode, asked.dataClass) = "memory_only"
BY DEF TargetsMemory, Policy, Resolved, StricterBackend, StorageInputs, Restrictions,
       BaselineBackend, Backends, Placeholder

\* Whatever mode and sensitivity a policy was resolved for, what is written under
\* a policy of its own class belongs in memory, unless a room named memory.
THEOREM OwnPoliciesPlaceWell == StorageSpec => OwnPolicyPlacesWell
<1>1. StorageTypeOK /\ [StorageNext]_storageVars =>
        \A class \in InputClasses, key \in Keys :
          /\ records'[class][key] \notin {records[class][key], NoEntry}
          /\ class = asked.dataClass
          /\ asked.restriction.backend # "memory_only"
          => Belongs(class, records'[class][key])
  <2> SUFFICES ASSUME StorageTypeOK, [StorageNext]_storageVars,
                      NEW class \in InputClasses, NEW key \in Keys,
                      records'[class][key] \notin {records[class][key], NoEntry},
                      class = asked.dataClass,
                      asked.restriction.backend # "memory_only"
               PROVE  Belongs(class, records'[class][key])
    OBVIOUS
  <2>1. PICK operation \in WriteOperations, sensitivity \in InputSensitivities :
          /\ TargetsMemory
          /\ WriteAllowed(operation, class, sensitivity)
          /\ records'[class][key] = [sensitivity |-> sensitivity, policyMode |-> Policy.mode]
    BY StorageStep
  <2>2. /\ Policy.mode = asked.mode
        /\ asked.mode \in StorageModes
        /\ asked.sensitivity \in Sensitivities
        /\ sensitivity \in Sensitivities
        /\ class \in DataClasses
    BY StorageAssumption DEF Policy, Resolved, StorageTypeOK, StorageInputs
  <2>3. "write" \in BaselineFlags(asked.mode, class, asked.sensitivity)
    BY <2>1 DEF WriteAllowed, WritePermitted, Policy, Resolved, TightenedFlags
  <2>4. class = "logs" => sensitivity \notin PlaintextRestricted
    BY <2>1 DEF WriteAllowed, WritePermitted, ContentGrade
  <2>5. "write" \in BaselineFlags(asked.mode, class, sensitivity)
    BY <2>2, <2>3, <2>4, OwnPolicyWrites
  <2>6. BaselineBackend(asked.mode, class) = "memory_only"
    BY <2>1, MemoryIsTheBaselines DEF StorageTypeOK
  <2> QED
    BY <2>1, <2>2, <2>5, <2>6, ResolvedUnrestricted DEF Belongs
<1> QED
  BY <1>1, StorageTypeCorrect, PTL DEF StorageSpec, OwnPolicyPlacesWell
==============================================================================
