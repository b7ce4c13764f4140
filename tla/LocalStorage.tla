---------------------------- MODULE LocalStorage ----------------------------
(***************************************************************************)
(* Local storage (packages/storage): the policy resolved from mode, data   *)
(* class and restrictions, the barrier every call passes, and the provider *)
(* that keeps records in memory.                                           *)
(*                                                                         *)
(* A caller resolves a policy at one moment and uses it at another: asked  *)
(* is what the policy it holds was resolved from, mode the device's mode   *)
(* now.  The null provider keeps nothing and the placeholder refuses every *)
(* call, so neither has an action, nor have reads and lists.  No barrier   *)
(* compares the class of a request with that of the policy, and callers    *)
(* combine any two.  Keys are valid and values are left out.  A decision   *)
(* that is not the exact one for its call is refused before any effect, so *)
(* decisions are left out.                                                 *)
(***************************************************************************)
EXTENDS Naturals, FiniteSets, StoragePolicy

CONSTANTS
  Keys,               \* validated keys
  InputModes,         \* modes the device is switched between
  InputClasses,       \* data classes callers ask about
  InputSensitivities, \* sensitivities of policies and requests
  InputRestrictions,  \* what a room policy, device risk and shield may add
  MaxRecords,         \* bound: records the provider holds (the code has none)
  NoEntry             \* no record under a key

VARIABLES
  mode,     \* the device's privacy mode
  asked,    \* the StoragePolicyInput the held policy was resolved from
  records   \* MemoryStorageProvider.records, by data class and key

storageVars == <<mode, asked, records>>

------------------------------------------------------------------------------
(* Assumptions                                                             *)

ASSUME StorageAssumption ==
  /\ InputModes \subseteq StorageModes
  /\ InputClasses \subseteq DataClasses
  /\ InputSensitivities \subseteq Sensitivities
  /\ InputRestrictions \subseteq Restrictions
  /\ MaxRecords \in Nat

\* MemoryStoredRecord, without key, value and labels of time.
Entries == [sensitivity : Sensitivities, policyMode : StorageModes]

ASSUME NoEntryAssumption == NoEntry \notin Entries

------------------------------------------------------------------------------
(* The write barrier                                                       *)

Policy == Resolved(asked)

WriteAllowed(operation, class, sensitivity) ==
  WritePermitted(Policy, operation, class, sensitivity)

\* assertPolicyTargetsBackend: a policy resolved for another backend is no
\* policy for this provider, for deletes and clears either.
TargetsMemory == Policy.backend = "memory_only"

------------------------------------------------------------------------------
(* Actions                                                                 *)

Empty == [class \in InputClasses |-> [key \in Keys |-> NoEntry]]

Stored == {entry \in InputClasses \X Keys : records[entry[1]][entry[2]] # NoEntry}

\* MemoryStorageProvider.write: a later write replaces the record.
Write(operation, class, key, sensitivity) ==
  /\ <<class, key>> \in Stored \/ Cardinality(Stored) < MaxRecords
  /\ TargetsMemory
  /\ WriteAllowed(operation, class, sensitivity)
  /\ records' = [records EXCEPT ![class][key] =
                   [sensitivity |-> sensitivity, policyMode |-> Policy.mode]]
  /\ UNCHANGED <<mode, asked>>

\* MemoryStorageProvider.delete.
Delete(class, key) ==
  /\ TargetsMemory
  /\ "delete" \in Policy.flags
  /\ records' = [records EXCEPT ![class][key] = NoEntry]
  /\ UNCHANGED <<mode, asked>>

\* Fault: the class itself goes, and its next write finds nowhere to go.
ClearClassAway(class) ==
  /\ TargetsMemory
  /\ "delete" \in Policy.flags
  /\ records' = [other \in DOMAIN records \ {class} |-> records[other]]
  /\ UNCHANGED <<mode, asked>>

\* MemoryStorageProvider.clear of one class.
ClearClass(class) ==
  /\ TargetsMemory
  /\ "delete" \in Policy.flags
  /\ records' = [records EXCEPT ![class] = Empty[class]]
  /\ UNCHANGED <<mode, asked>>

\* MemoryStorageProvider.clear without a class: a policy for any one will do.
ClearAll ==
  /\ TargetsMemory
  /\ "delete" \in Policy.flags
  /\ records' = Empty
  /\ UNCHANGED <<mode, asked>>

\* resolveStoragePolicy, called in the mode of the moment.
ResolveStoragePolicy(class, sensitivity, restriction) ==
  /\ asked' = [mode |-> mode, dataClass |-> class, sensitivity |-> sensitivity,
               restriction |-> restriction]
  /\ UNCHANGED <<mode, records>>

\* The device changes its mode; nobody tells the provider or its callers.
SwitchMode(m) ==
  /\ mode' = m
  /\ UNCHANGED <<asked, records>>

\* A provider starts empty, under a policy resolved in the mode of the start.
StorageInit ==
  /\ mode \in InputModes
  /\ asked \in {[mode |-> mode, dataClass |-> class, sensitivity |-> sensitivity,
                 restriction |-> Unrestricted] :
                  class \in InputClasses, sensitivity \in InputSensitivities}
  /\ records = Empty

StorageNext ==
  \/ \E operation \in WriteOperations, class \in InputClasses, key \in Keys,
        sensitivity \in InputSensitivities : Write(operation, class, key, sensitivity)
  \/ \E class \in InputClasses, key \in Keys : Delete(class, key)
  \/ \E class \in InputClasses : ClearClass(class)
  \/ ClearAll
  \/ \E class \in InputClasses, sensitivity \in InputSensitivities,
        restriction \in InputRestrictions :
       ResolveStoragePolicy(class, sensitivity, restriction)
  \/ \E m \in InputModes : SwitchMode(m)

StorageSpec == StorageInit /\ [][StorageNext]_storageVars

------------------------------------------------------------------------------
(* Properties                                                              *)

\* Every reachable state is well typed (MemoryStoredRecord, StoragePolicyInput).
StorageTypeOK ==
  /\ mode \in StorageModes
  /\ asked \in StorageInputs
  /\ records \in [InputClasses -> [Keys -> Entries \cup {NoEntry}]]

\* A policy resolved in a zero-persistence mode, whatever room, risk and shield
\* ask for, passes assertNoPersistentBackendSelected.
StrictModesNeverPersist ==
  asked.mode \in ZeroPersistenceModes =>
    ~IsPersistentBackend(Policy.backend) /\ "persistent" \notin Policy.flags

\* Strictest wins: room policy, device risk and shield never loosen what mode,
\* class and sensitivity give, neither a flag nor the backend.
RestrictionsOnlyTighten ==
  LET baseline == Resolved([asked EXCEPT !.restriction = Unrestricted])
  IN /\ Policy.flags \subseteq baseline.flags
     /\ StricterBackend(Policy.backend, baseline.backend) = Policy.backend

\* A record may be where it is: its class, in the mode it was written in and
\* with the sensitivity it really has, is for memory and may be written.
Belongs(class, record) ==
  LET own == Resolved([mode |-> record.policyMode, dataClass |-> class,
                       sensitivity |-> record.sensitivity, restriction |-> Unrestricted])
  IN own.backend = "memory_only" /\ "write" \in own.flags

\* "A class/mode pair nothing explicitly allows is denied", "content writes fail
\* hard" (docs/STORAGE_MODEL.md): what is written under a policy of its own class
\* belongs in memory, although that policy may be of an earlier mode, for a
\* sensitivity of the caller's choice and under any restriction but one: a room
\* that names memory is stricter than a baseline that names the placeholder, and
\* makes memory of what the placeholder refuses (policy.ts, stricterBackend).
OwnPolicyPlacesWell ==
  [][\A class \in InputClasses, key \in Keys :
       /\ records'[class][key] \notin {records[class][key], NoEntry}
       /\ class = asked.dataClass
       /\ asked.restriction.backend # "memory_only"
       => Belongs(class, records'[class][key])]_storageVars

\* Emergency refuses normal writes and leaves deleting possible, the wipe
\* direction (zeroPersistence.ts:20): a policy resolved in Emergency for data
\* that memory holds lets the provider delete it.
EmergencyStillErases ==
  asked.mode = "emergency" =>
    \A class \in InputClasses, key \in Keys :
      class = asked.dataClass /\ records[class][key] # NoEntry => ENABLED Delete(class, key)

\* Whatever policy a caller presents, no log and no endpoint artifact is a
\* container of content, and no debug artifact is kept.
ArtifactsCarryNoContent ==
  \A class \in InputClasses, key \in Keys :
    records[class][key] # NoEntry =>
      /\ class # "debug_artifact"
      /\ class \in EndpointClasses \cup {"logs"} =>
           records[class][key].sensitivity \notin PlaintextRestricted
==============================================================================
