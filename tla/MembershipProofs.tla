------------------------- MODULE MembershipProofs -------------------------
(***************************************************************************)
(* Proofs about Membership, for any finite set of ids, any member          *)
(* references, any bounds and either log.                                  *)
(*                                                                         *)
(* Two lemmas carry them: TypeOK is preserved, and a step advances the     *)
(* records (RecordStep).  The second makes SnapshotsCoherent inductive,    *)
(* and NoLostUpdate and the refinement follow from the invariants.         *)
(***************************************************************************)
EXTENDS Membership, FiniteSetTheorems, Recurrence, TLAPS

USE DEF Bootstrap, AddMember, UpdateMember

LEMMA HeldAreRequests ==
  ASSUME TypeOK, NEW r \in held
  PROVE  r \in Requests
BY DEF TypeOK

\* The record an accepted request results in is a record, and differs from the
\* one it replaces in its revision by one.
LEMMA ResultingRecordType ==
  ASSUME TypeOK, NEW r \in Requests,
         Bootstrap(r) \/ AddMember(r) \/ UpdateMember(r)
  PROVE  /\ ResultingRecord(r) \in Records
         /\ r.command \in UpdateCommands =>
              /\ roster[r.target] \in Records
              /\ ResultingRecord(r).revision = roster[r.target].revision + 1
              /\ ResultingRecord(r).memberRef = roster[r.target].memberRef
<1>1. r \in Requests
  BY DEF TypeOK
<1>2. roster[r.target] \in Records \cup {NoRecord}
  BY <1>1 DEF TypeOK, Requests
<1>m. MaxRevision \in Nat \ {0}
  BY MembershipAssumption DEF MembershipAssumption
<1>3. CASE r.command \in {"bootstrap", "add"}
  BY <1>1, <1>3, <1>m
     DEF UpdateCommands, ResultingRecord, CreatedRecord, Records, Requests,
         States, Roles
<1>4. CASE r.command \in UpdateCommands
  <2>1. roster[r.target] # NoRecord /\ Buildable(r)
    BY <1>4 DEF UpdateCommands
  <2>2. roster[r.target] \in Records
    BY <1>2, <2>1
  <2>3. roster[r.target].revision + 1 \in 1..MaxRevision
    BY <2>1, <2>2, <1>m DEF Buildable, Records
  <2>4. r.role \in Roles
    BY <1>1 DEF Requests
  <2>5. CASE r.command = "change_role"
    BY <2>2, <2>3, <2>4, <2>5 DEF ResultingRecord, Records, UpdateCommands
  <2>6. CASE r.command # "change_role"
    <3>1. r.command \in {"suspend", "reactivate", "remove"}
      BY <1>4, <2>6 DEF UpdateCommands
    <3>2. StateAfter[r.command] \in States
      BY <3>1 DEF StateAfter, States
    <3> QED
      BY <2>2, <2>3, <2>6, <1>4, <3>2 DEF ResultingRecord, Records
  <2> QED
    BY <2>5, <2>6
<1> QED
  BY <1>3, <1>4 DEF UpdateCommands

LEMMA EventType ==
  ASSUME TypeOK, NEW r \in Requests,
         Bootstrap(r) \/ AddMember(r) \/ UpdateMember(r)
  PROVE  EventOf(r) \in Events
<1>1. r \in Requests /\ lastSequence \in Nat
  BY DEF TypeOK
<1>2. ResultingRecord(r) \in Records
  BY ResultingRecordType
<1>3. r.command \in UpdateCommands => roster[r.target] \in Records
  BY ResultingRecordType
<1>m. MaxRevision \in Nat \ {0}
  BY MembershipAssumption DEF MembershipAssumption
<1> QED
  BY <1>1, <1>2, <1>3, <1>m DEF EventOf, Events, Requests, Records

\* A submission writes at most the target's record, with the resulting one.
LEMMA CommitWrites ==
  ASSUME TypeOK, NEW r \in Requests,
         Bootstrap(r) \/ AddMember(r) \/ UpdateMember(r)
  PROVE  /\ r.target \in MembershipIds
         /\ \/ roster' = roster
            \/ /\ Reducible(roster, EventOf(r))
               /\ roster' = [roster EXCEPT ![r.target] = ResultingRecord(r)]
         /\ UNCHANGED <<mode, mutable, held>>
<1>1. r \in Requests
  BY DEF TypeOK
<1>2. EventOf(r).membershipId = r.target /\ EventOf(r).record = ResultingRecord(r)
  BY DEF EventOf
<1>3. Commit(r)
  OBVIOUS
<1> QED
  BY <1>1, <1>2, <1>3 DEF Commit, Reduced, Requests

------------------------------------------------------------------------------
(* Type correctness                                                        *)

LEMMA SubmitTypeOK ==
  ASSUME TypeOK, NEW r \in Requests,
         Bootstrap(r) \/ AddMember(r) \/ UpdateMember(r)
  PROVE  TypeOK'
<1>1. EventOf(r) \in Events
  BY EventType
<1>2. ResultingRecord(r) \in Records
  BY ResultingRecordType
<1>3. EventOf(r).localSequence = lastSequence + 1
  BY DEF EventOf
<1>4. lastSequence' \in Nat /\ log' \in Seq(Events)
  BY <1>1, <1>3 DEF Commit, AppendEvent, TypeOK
<1>5. roster' \in [MembershipIds -> Records \cup {NoRecord}]
  BY <1>2, CommitWrites DEF TypeOK
<1> QED
  BY <1>4, <1>5, CommitWrites DEF TypeOK

\* Whatever is composed is a request made of the records just read.
LEMMA ComposeAdds ==
  ASSUME TypeOK, Compose
  PROVE  /\ UNCHANGED <<projectionVars, policyVars>>
         /\ \E r \in Requests :
              /\ held' = held \cup {r}
              /\ r.command # "bootstrap" =>
                   /\ r.actor \in MembershipIds
                   /\ r.membership = roster[r.actor]
                   /\ roster[r.actor] # NoRecord
              /\ r.command \in UpdateCommands =>
                   /\ r.seen = roster[r.target]
                   /\ roster[r.target] # NoRecord
<1>r. /\ \A id \in MembershipIds : roster[id] \in Records \cup {NoRecord}
      /\ mode \in Modes
  BY DEF TypeOK
<1>i. InputRoles \subseteq Roles
  BY MembershipAssumption DEF MembershipAssumption
<1>1. CASE ComposeBootstrap
  <2>1. PICK id \in MembershipIds, ref \in MemberRefs :
          Hold([command |-> "bootstrap", actor |-> NoRecord,
                membership |-> NoRecord, target |-> id, seen |-> NoRecord,
                memberRef |-> ref, role |-> "owner", mode |-> mode])
    BY <1>1 DEF ComposeBootstrap
  <2> DEFINE r == [command |-> "bootstrap", actor |-> NoRecord,
                   membership |-> NoRecord, target |-> id, seen |-> NoRecord,
                   memberRef |-> ref, role |-> "owner", mode |-> mode]
  <2>2. r \in Requests
    BY <1>r DEF Requests, Commands, Roles
  <2>3. r.command = "bootstrap" /\ r.command \notin UpdateCommands
    BY DEF UpdateCommands
  <2>4. held' = held \cup {r}
    BY <2>1 DEF Hold
  <2>5. UNCHANGED <<projectionVars, policyVars>>
    BY <1>1 DEF ComposeBootstrap
  <2> HIDE DEF r
  <2> QED
    BY <2>2, <2>3, <2>4, <2>5
<1>2. CASE \E actor \in MembershipIds : ComposeAdd(actor)
  <2>1. PICK actor \in MembershipIds : ComposeAdd(actor)
    BY <1>2
  <2>2. /\ UNCHANGED <<projectionVars, policyVars>>
        /\ roster[actor] # NoRecord
    BY <2>1 DEF ComposeAdd
  <2>3. PICK id \in MembershipIds, ref \in MemberRefs, role \in InputRoles :
          Hold([command |-> "add", actor |-> actor, membership |-> roster[actor],
                target |-> id, seen |-> NoRecord, memberRef |-> ref,
                role |-> role, mode |-> mode])
    BY <2>1 DEF ComposeAdd
  <2> DEFINE r == [command |-> "add", actor |-> actor,
                   membership |-> roster[actor], target |-> id,
                   seen |-> NoRecord, memberRef |-> ref, role |-> role,
                   mode |-> mode]
  <2>4. r \in Requests
    BY <1>r, <1>i DEF Requests, Commands
  <2>5. /\ r.command \notin UpdateCommands
        /\ r.actor = actor
        /\ r.membership = roster[actor]
    BY DEF UpdateCommands
  <2>6. held' = held \cup {r}
    BY <2>3 DEF Hold
  <2> HIDE DEF r
  <2> QED
    BY <2>2, <2>4, <2>5, <2>6
<1>3. CASE \E actor, target \in MembershipIds : ComposeUpdate(actor, target)
  <2>1. PICK actor \in MembershipIds, target \in MembershipIds :
          ComposeUpdate(actor, target)
    BY <1>3
  <2>2. /\ UNCHANGED <<projectionVars, policyVars>>
        /\ roster[actor] # NoRecord
        /\ roster[target] # NoRecord
    BY <2>1 DEF ComposeUpdate
  <2>3. PICK command \in UpdateCommands,
             role \in InputRoles \cup {roster[target].role} :
          Hold([command |-> command, actor |-> actor,
                membership |-> roster[actor], target |-> target,
                seen |-> roster[target],
                memberRef |-> roster[target].memberRef, role |-> role,
                mode |-> mode])
    BY <2>1 DEF ComposeUpdate
  <2>4. roster[target].memberRef \in MemberRefs /\ role \in Roles
    BY <1>r, <1>i, <2>2, <2>3 DEF Records
  <2> DEFINE r == [command |-> command, actor |-> actor,
                   membership |-> roster[actor], target |-> target,
                   seen |-> roster[target],
                   memberRef |-> roster[target].memberRef, role |-> role,
                   mode |-> mode]
  <2>5. r \in Requests
    BY <1>r, <2>4 DEF Requests, Commands, UpdateCommands
  <2>6. /\ r.actor = actor
        /\ r.membership = roster[actor]
        /\ r.target = target
        /\ r.seen = roster[target]
    OBVIOUS
  <2>7. held' = held \cup {r}
    BY <2>3 DEF Hold
  <2> HIDE DEF r
  <2> QED
    BY <2>2, <2>5, <2>6, <2>7
<1> QED
  BY <1>1, <1>2, <1>3 DEF Compose

LEMMA TypeOKStep ==
  ASSUME TypeOK, [Next]_vars
  PROVE  TypeOK'
<1>1. CASE \E r \in held : Bootstrap(r) \/ AddMember(r) \/ UpdateMember(r)
  BY <1>1, HeldAreRequests, SubmitTypeOK
<1>2. CASE Compose
  BY <1>2, ComposeAdds DEF TypeOK, projectionVars, policyVars
<1>3. CASE \E r \in held : Recompose(r)
  <2>1. PICK r \in held : Recompose(r)
    BY <1>3
  <2>2. /\ r \in Requests
        /\ roster[r.target] \in Records \cup {NoRecord}
        /\ mode \in Modes
    BY DEF TypeOK, Requests
  <2>3. [r EXCEPT !.seen = roster[r.target], !.mode = mode] \in Requests
    BY <2>2 DEF Requests
  <2> QED
    BY <2>1, <2>3 DEF Recompose, TypeOK, projectionVars, policyVars
<1>4. CASE \E r \in held : Drop(r)
  BY <1>4 DEF Drop, TypeOK, projectionVars, policyVars
<1>5. CASE ResolvePolicy
  BY <1>5, MembershipAssumption DEF ResolvePolicy, TypeOK, MembershipAssumption
<1>6. CASE UNCHANGED vars
  BY <1>6 DEF vars, TypeOK
<1> QED
  BY <1>1, <1>2, <1>3, <1>4, <1>5, <1>6 DEF Next

LEMMA InitTypeOK == Init => TypeOK
BY DEF Init, TypeOK, EmptyRoster, Modes

\* Every record, event and request the pipeline ever holds is well formed; in
\* particular no accepted revision passes MAX_MEMBERSHIP_REVISION
\* (nextRoomMembershipRevision).
THEOREM TypeCorrect == Spec => []TypeOK
BY InitTypeOK, TypeOKStep, PTL DEF Spec

------------------------------------------------------------------------------
(* Records advance, and what that means for the snapshots callers hold     *)

\* What a step does to one membership record: nothing, a creation, or an
\* accepted update of it.
LEMMA RecordStep ==
  ASSUME TypeOK, [Next]_vars, NEW id \in MembershipIds, roster'[id] # roster[id]
  PROVE  \E r \in held :
           /\ Bootstrap(r) \/ AddMember(r) \/ UpdateMember(r)
           /\ r.target = id
           /\ roster' = [roster EXCEPT ![id] = ResultingRecord(r)]
           /\ IF r.command \in UpdateCommands
              THEN roster[id] # NoRecord /\ roster[id].state # "removed"
              ELSE roster[id] = NoRecord
<1>1. roster' # roster
  OBVIOUS
<1>2. PICK r \in held : Bootstrap(r) \/ AddMember(r) \/ UpdateMember(r)
  BY <1>1, ComposeAdds
     DEF Next, Recompose, Drop, ResolvePolicy, vars, projectionVars
<1>3. /\ r.target \in MembershipIds
      /\ Reducible(roster, EventOf(r))
      /\ roster' = [roster EXCEPT ![r.target] = ResultingRecord(r)]
  BY <1>1, <1>2, HeldAreRequests, CommitWrites
<1>4. r.target = id
  BY <1>3 DEF TypeOK
<1>5. CASE r.command \in UpdateCommands
  <2>1. roster[id] \in Records /\ roster[id] # NoRecord
    BY <1>2, <1>4, <1>5, HeldAreRequests, ResultingRecordType, NoRecordAssumption
  <2>2. /\ EventOf(r).previousRevision = roster[id].revision
        /\ EventOf(r).membershipId = id
    BY <1>4, <1>5 DEF EventOf
  <2>3. EventOf(r).previousRevision # 0
    BY <2>1, <2>2, MembershipAssumption DEF Records, MembershipAssumption
  <2>4. roster[id].state # "removed"
    BY <1>3, <2>2, <2>3 DEF Reducible
  <2> QED
    BY <1>2, <1>3, <1>4, <1>5, <2>1, <2>4
<1>6. CASE r.command \notin UpdateCommands
  <2>1. EventOf(r).previousRevision = 0 /\ EventOf(r).membershipId = id
    BY <1>4, <1>6 DEF EventOf
  <2>2. roster[id] = NoRecord
    BY <1>3, <2>1 DEF Reducible
  <2> QED
    BY <1>2, <1>3, <1>4, <1>6, <2>2
<1> QED
  BY <1>5, <1>6

LEMMA Advance ==
  ASSUME TypeOK, [Next]_vars, NEW id \in MembershipIds,
         roster[id] # NoRecord, roster'[id] # roster[id]
  PROVE  /\ roster'[id] # NoRecord
         /\ roster[id].state # "removed"
         /\ roster'[id].revision = roster[id].revision + 1
         /\ roster'[id].memberRef = roster[id].memberRef
<1>1. PICK r \in held :
        /\ Bootstrap(r) \/ AddMember(r) \/ UpdateMember(r)
        /\ r.target = id
        /\ roster' = [roster EXCEPT ![id] = ResultingRecord(r)]
        /\ r.command \in UpdateCommands
        /\ roster[id].state # "removed"
  BY RecordStep
<1>2. roster'[id] = ResultingRecord(r)
  BY <1>1 DEF TypeOK
<1> QED
  BY <1>1, <1>2, HeldAreRequests, ResultingRecordType, NoRecordAssumption

\* Records move only along the lifecycle, one revision at a time
\* (reduceRoomMembershipEventV1 with buildResultingMembership).
THEOREM RecordsAlwaysAdvance == Spec => RecordsAdvance
<1>1. TypeOK /\ [Next]_vars =>
        [\A id \in Present(roster) :
           roster'[id] # roster[id] =>
             /\ roster'[id] # NoRecord
             /\ roster[id].state # "removed"
             /\ roster'[id].revision = roster[id].revision + 1
             /\ roster'[id].memberRef = roster[id].memberRef]_vars
  BY Advance DEF Present
<1> QED
  BY <1>1, TypeCorrect, PTL DEF Spec, RecordsAdvance

\* A coherent snapshot stays coherent through every step.
LEMMA CoherentStep ==
  ASSUME TypeOK, [Next]_vars, NEW id \in MembershipIds,
         NEW snapshot \in Records \cup {NoRecord}, Coherent(id, snapshot)
  PROVE  /\ snapshot # NoRecord
         /\ roster'[id] # NoRecord
         /\ snapshot.revision <= roster'[id].revision
         /\ snapshot.revision = roster'[id].revision => snapshot = roster'[id]
<1>1. snapshot \in Records /\ roster[id] \in Records
  BY DEF Coherent, TypeOK
<1>2. snapshot.revision \in Nat /\ roster[id].revision \in Nat
  BY <1>1, MembershipAssumption DEF Records, MembershipAssumption
<1>3. CASE roster'[id] = roster[id]
  BY <1>3 DEF Coherent
<1>4. CASE roster'[id] # roster[id]
  <2>1. roster'[id] # NoRecord /\ roster'[id].revision = roster[id].revision + 1
    BY <1>4, Advance DEF Coherent
  <2>2. snapshot.revision <= roster[id].revision
    BY DEF Coherent
  <2> QED
    BY <1>2, <2>1, <2>2 DEF Coherent
<1> QED
  BY <1>3, <1>4

\* The record just read is a coherent snapshot of itself.
LEMMA FreshCoherent ==
  ASSUME TypeOK, NEW id \in MembershipIds, roster[id] # NoRecord
  PROVE  Coherent(id, roster[id])
BY MembershipAssumption DEF Coherent, TypeOK, Records, MembershipAssumption

LEMMA SnapshotsCoherentStep ==
  ASSUME TypeOK, SnapshotsCoherent, [Next]_vars
  PROVE  SnapshotsCoherent'
<1>t. TypeOK'
  BY TypeOKStep
\* A request that was held keeps coherent snapshots, whatever the step.
<1>1. ASSUME NEW r \in held
      PROVE  /\ r.command # "bootstrap" =>
                  r.actor \in MembershipIds /\ Coherent(r.actor, r.membership)'
             /\ r.command \in UpdateCommands => Coherent(r.target, r.seen)'
  <2>1. r \in Requests
    BY DEF TypeOK
  <2>2. r.command # "bootstrap" =>
          r.actor \in MembershipIds /\ Coherent(r.actor, r.membership)'
    BY <2>1, CoherentStep DEF SnapshotsCoherent, Requests, Coherent
  <2>3. r.command \in UpdateCommands => Coherent(r.target, r.seen)'
    BY <2>1, CoherentStep DEF SnapshotsCoherent, Requests, Coherent
  <2> QED
    BY <2>2, <2>3
<1>2. CASE held' \subseteq held
  BY <1>1, <1>2 DEF SnapshotsCoherent
<1>3. CASE Compose
  <2>1. PICK r \in Requests :
          /\ held' = held \cup {r}
          /\ r.command # "bootstrap" =>
               /\ r.actor \in MembershipIds
               /\ r.membership = roster[r.actor]
               /\ roster[r.actor] # NoRecord
          /\ r.command \in UpdateCommands =>
               /\ r.seen = roster[r.target]
               /\ roster[r.target] # NoRecord
    BY <1>3, ComposeAdds
  <2>2. roster' = roster /\ r.target \in MembershipIds
    BY <1>3, <2>1, ComposeAdds DEF projectionVars, Requests
  <2>3. /\ r.command # "bootstrap" =>
             r.actor \in MembershipIds /\ Coherent(r.actor, r.membership)
        /\ r.command \in UpdateCommands => Coherent(r.target, r.seen)
    BY <2>1, <2>2, FreshCoherent
  <2>4. /\ r.command # "bootstrap" =>
             r.actor \in MembershipIds /\ Coherent(r.actor, r.membership)'
        /\ r.command \in UpdateCommands => Coherent(r.target, r.seen)'
    BY <2>2, <2>3 DEF Coherent
  <2> QED
    BY <1>1, <2>1, <2>4 DEF SnapshotsCoherent
<1>4. CASE \E r \in held : Recompose(r)
  <2>1. PICK r \in held : Recompose(r)
    BY <1>4
  <2>2. r \in Requests
    BY DEF TypeOK
  <2>3. r.command \in UpdateCommands /\ roster' = roster
    BY <2>1 DEF Recompose, projectionVars
  <2>4. PICK reread :
          /\ held' = (held \ {r}) \cup {reread}
          /\ reread.command = r.command
          /\ reread.actor = r.actor
          /\ reread.membership = r.membership
          /\ reread.target = r.target
          /\ reread.seen = roster[r.target]
    <3> DEFINE new == [r EXCEPT !.seen = roster[r.target], !.mode = mode]
    <3>1. held' = (held \ {r}) \cup {new}
      BY <2>1 DEF Recompose
    <3>2. /\ new.command = r.command
          /\ new.actor = r.actor
          /\ new.membership = r.membership
          /\ new.target = r.target
          /\ new.seen = roster[r.target]
      BY <2>2 DEF Requests
    <3> HIDE DEF new
    <3> QED
      BY <3>1, <3>2
  <2>5. r.target \in MembershipIds /\ roster[r.target] # NoRecord
    BY <2>2, <2>3 DEF SnapshotsCoherent, Coherent, Requests
  <2>6. Coherent(r.target, roster[r.target])
    BY <2>5, FreshCoherent
  <2>7. Coherent(reread.target, reread.seen)'
    BY <2>3, <2>4, <2>6 DEF Coherent
  <2> QED
    BY <1>1, <2>3, <2>4, <2>7 DEF SnapshotsCoherent
<1> QED
  BY <1>2, <1>3, <1>4, HeldAreRequests, CommitWrites DEF Next, Drop, ResolvePolicy, vars

\* The revision is an exact fence for every snapshot a caller holds
\* (assertRoomCapabilityDescriptorCurrentV1, expectedRevision).
THEOREM SnapshotsAlwaysCoherent == Spec => []SnapshotsCoherent
<1>1. Init => SnapshotsCoherent
  BY DEF Init, SnapshotsCoherent
<1> QED
  BY <1>1, SnapshotsCoherentStep, TypeCorrect, PTL DEF Spec

\* An accepted update acts on the record its author read (checkRevision).
THEOREM UpdatesNeverLost == Spec => NoLostUpdate
<1>1. TypeOK /\ SnapshotsCoherent /\ [Next]_vars =>
        [\A r \in held : UpdateMember(r) => r.seen = roster[r.target]]_vars
  BY DEF SnapshotsCoherent, Coherent, RevisionMatches
<1> QED
  BY <1>1, TypeCorrect, SnapshotsAlwaysCoherent, PTL DEF Spec, NoLostUpdate

------------------------------------------------------------------------------
(* Last-owner continuity                                                   *)

\* An update writes the resulting record over its target's, or nothing.
LEMMA UpdateWrites ==
  ASSUME TypeOK, NEW r \in Requests, UpdateMember(r)
  PROVE  /\ r.target \in MembershipIds
         /\ r.command \in UpdateCommands
         /\ roster[r.target] \in Records /\ roster[r.target] # NoRecord
         /\ ResultingRecord(r) \in Records /\ ResultingRecord(r) # NoRecord
         /\ \/ roster' = roster
            \/ /\ roster'[r.target] = ResultingRecord(r)
               /\ \A other \in MembershipIds \ {r.target} : roster'[other] = roster[other]
<1>1. r.target \in MembershipIds /\ r.command \in UpdateCommands
  BY DEF Requests
<1>2. roster[r.target] \in Records /\ ResultingRecord(r) \in Records
  BY <1>1, ResultingRecordType
<1>3. roster' = roster \/ roster' = [roster EXCEPT ![r.target] = ResultingRecord(r)]
  BY CommitWrites
<1> QED
  BY <1>1, <1>2, <1>3, NoRecordAssumption DEF TypeOK

\* An update leaves an active owner where there was one.
LEMMA UpdateKeepsAnOwner ==
  ASSUME TypeOK, OwnerContinuity, NEW r \in Requests, UpdateMember(r)
  PROVE  OwnerContinuity'
<1>1. CASE roster' = roster
  BY <1>1 DEF OwnerContinuity, Present, ActiveOwners
<1>2. CASE roster' # roster
  <2> DEFINE id == r.target
  <2>1. /\ id \in MembershipIds
        /\ roster[id] \in Records /\ roster[id] # NoRecord
        /\ ResultingRecord(r) # NoRecord
        /\ roster'[id] = ResultingRecord(r)
        /\ \A other \in MembershipIds \ {id} : roster'[other] = roster[other]
    BY <1>2, UpdateWrites
  <2>2. PICK owner \in ActiveOwners(roster) : TRUE
    BY <2>1 DEF OwnerContinuity, Present
  <2> SUFFICES ActiveOwners(roster') # {}
    BY DEF OwnerContinuity
  <2>3. CASE \E other \in ActiveOwners(roster) : other # id
    BY <2>1, <2>3 DEF ActiveOwners
  <2>4. CASE ActiveOwners(roster) \subseteq {id}
    <3>1. ActiveOwner(roster[id])
      BY <2>2, <2>4 DEF ActiveOwners
    <3>2. Cardinality({id}) = 1 /\ IsFiniteSet({id})
      BY FS_Singleton
    <3>3. IsFiniteSet(ActiveOwners(roster)) /\ Cardinality(ActiveOwners(roster)) \in Nat
      BY <2>4, <3>2, FS_Subset, FS_CardinalityType
    <3>4. ~(Cardinality(ActiveOwners(roster)) > 1)
      BY <2>4, <3>2, <3>3, FS_Subset
    <3>5. /\ r.command \notin Restrictive
          /\ r.command = "change_role" => r.role = "owner"
      BY <3>1, <3>4 DEF KeepsAnOwner
    <3>6. r.command # "reactivate"
      BY <3>1 DEF Buildable, ActiveOwner
    <3>7. r.command = "change_role" /\ r.role = "owner"
      BY <3>5, <3>6 DEF UpdateCommands, Restrictive
    <3>8. ResultingRecord(r).role = "owner" /\ ResultingRecord(r).state = "active"
      BY <2>1, <3>1, <3>7 DEF ActiveOwner, ResultingRecord, UpdateCommands, Records
    <3> QED
      BY <2>1, <3>8 DEF ActiveOwners, ActiveOwner
  <2> QED
    BY <2>3, <2>4
<1> QED
  BY <1>1, <1>2

LEMMA OwnerContinuityStep ==
  ASSUME TypeOK, SnapshotsCoherent, OwnerContinuity, [Next]_vars
  PROVE  OwnerContinuity'
<1>1. CASE roster' = roster
  BY <1>1 DEF OwnerContinuity, Present, ActiveOwners
<1>2. CASE roster' # roster
  <2>1. PICK id \in MembershipIds : roster'[id] # roster[id]
    BY <1>2, TypeOKStep DEF TypeOK
  <2>2. PICK r \in held :
          /\ Bootstrap(r) \/ AddMember(r) \/ UpdateMember(r)
          /\ r.target = id
          /\ roster' = [roster EXCEPT ![id] = ResultingRecord(r)]
          /\ IF r.command \in UpdateCommands
             THEN roster[id] # NoRecord /\ roster[id].state # "removed"
             ELSE roster[id] = NoRecord
    BY <2>1, RecordStep
  <2>3. /\ roster'[id] = ResultingRecord(r)
        /\ \A other \in MembershipIds \ {id} : roster'[other] = roster[other]
    BY <2>2 DEF TypeOK
  <2>4. r \in Requests
    BY DEF TypeOK
  <2>5. CASE UpdateMember(r)
    BY <2>4, <2>5, UpdateKeepsAnOwner
  <2>6. CASE Bootstrap(r)
    <3>1. ResultingRecord(r).role = "owner" /\ ResultingRecord(r).state = "active"
      BY <2>6 DEF ResultingRecord, CreatedRecord, UpdateCommands
    <3>2. ResultingRecord(r) # NoRecord
      BY <2>6, HeldAreRequests, ResultingRecordType, NoRecordAssumption
    <3> QED
      BY <2>3, <3>1, <3>2 DEF OwnerContinuity, ActiveOwners, ActiveOwner
  <2>7. CASE AddMember(r)
    <3>1. r.actor \in MembershipIds
      BY <2>7 DEF SnapshotsCoherent
    <3>2. Present(roster) # {}
      BY <2>7, <3>1 DEF Authorized, Present
    <3>3. PICK owner \in ActiveOwners(roster) : TRUE
      BY <3>2 DEF OwnerContinuity
    <3>4. owner # id
      BY <2>2, <2>7, <3>3 DEF ActiveOwners, ActiveOwner, UpdateCommands
    <3> QED
      BY <2>3, <3>3, <3>4 DEF OwnerContinuity, ActiveOwners
  <2> QED
    BY <2>2, <2>5, <2>6, <2>7
<1> QED
  BY <1>1, <1>2

\* A room with members always has an active owner (assertOwnerContinuity).
THEOREM OwnerAlwaysContinues == Spec => []OwnerContinuity
<1>1. Init => OwnerContinuity
  BY DEF Init, EmptyRoster, OwnerContinuity, Present
<1> QED
  BY <1>1, OwnerContinuityStep, TypeCorrect, SnapshotsAlwaysCoherent, PTL DEF Spec

------------------------------------------------------------------------------
(* Strict policy                                                           *)

LEMMA StrictPolicyStep ==
  ASSUME TypeOK, SnapshotsCoherent, [Next]_vars,
         ~mutable, Present(roster) # {},
         NEW id \in MembershipIds, roster'[id] # roster[id]
  PROVE  /\ roster[id] # NoRecord
         /\ Authority(roster'[id]) \subseteq Authority(roster[id])
<1>1. PICK r \in held :
        /\ Bootstrap(r) \/ AddMember(r) \/ UpdateMember(r)
        /\ r.target = id
        /\ roster' = [roster EXCEPT ![id] = ResultingRecord(r)]
        /\ IF r.command \in UpdateCommands
           THEN roster[id] # NoRecord /\ roster[id].state # "removed"
           ELSE roster[id] = NoRecord
  BY RecordStep
<1>2. r.command \in {"suspend", "remove"}
  BY <1>1 DEF Commit, PolicyAllows, Expansion, Restrictive, UpdateCommands
<1>3. roster[id] \in Records /\ roster'[id] = ResultingRecord(r)
  BY <1>1, <1>2 DEF TypeOK, UpdateCommands
<1>4. ResultingRecord(r).state = StateAfter[r.command]
  BY <1>1, <1>2, <1>3 DEF ResultingRecord, UpdateCommands, Records
<1>5. roster'[id].state # "active"
  BY <1>2, <1>3, <1>4 DEF StateAfter
<1> QED
  BY <1>1, <1>2, <1>5 DEF Authority, UpdateCommands

\* Under a room policy that forbids content mutation no member of a bootstrapped
\* room gains authority (resolveRoomMembershipPolicyV1).
THEOREM StrictPolicyAlwaysRestricts == Spec => StrictPolicyOnlyRestricts
<1>1. TypeOK /\ SnapshotsCoherent /\ [Next]_vars =>
        [~mutable /\ Present(roster) # {} =>
           \A id \in MembershipIds :
             roster'[id] # roster[id] =>
               /\ roster[id] # NoRecord
               /\ Authority(roster'[id]) \subseteq Authority(roster[id])]_vars
  BY StrictPolicyStep
<1> QED
  BY <1>1, TypeCorrect, SnapshotsAlwaysCoherent, PTL
     DEF Spec, StrictPolicyOnlyRestricts

------------------------------------------------------------------------------
(* Refinement of the abstract roster                                       *)

\* A request that writes its record is a step of the abstract roster, if the
\* room has an owner after it.
LEMMA WritingIsOwnedStep ==
  ASSUME TypeOK, OwnerContinuity', NEW r \in Requests,
         Bootstrap(r) \/ AddMember(r) \/ UpdateMember(r),
         roster' = [roster EXCEPT ![r.target] = ResultingRecord(r)],
         IF r.command \in UpdateCommands
         THEN roster[r.target] # NoRecord /\ roster[r.target].state # "removed"
         ELSE roster[r.target] = NoRecord
  PROVE  [Owned!Next]_([id \in MembershipIds |-> Standing(roster[id])])
<1> DEFINE standing == [x \in MembershipIds |-> Standing(roster[x])]
           id == r.target
           new == ResultingRecord(r)
<1>1. id \in MembershipIds
  BY DEF Requests
<1>2. new \in Records /\ new # NoRecord
  BY ResultingRecordType, NoRecordAssumption
<1>3. standing' = [standing EXCEPT ![id] = Standing(new)]
  BY <1>1 DEF TypeOK
<1>4. \E other \in MembershipIds : standing'[other] = "owner"
  <2>1. roster'[id] # NoRecord
    BY <1>1, <1>2 DEF TypeOK
  <2>2. PICK owner \in MembershipIds : ActiveOwner(roster'[owner])
    BY <1>1, <2>1 DEF OwnerContinuity, Present, ActiveOwners
  <2> QED
    BY <2>2 DEF ActiveOwner, Standing
<1>5. Standing(new) \in Owned!Standings
  BY <1>2 DEF Standing, Records, States, Owned!Standings
<1>6. standing[id] = Standing(roster[id])
  BY <1>1
<1>7. Standing(new) = standing[id] \/ Standing(new) \in Owned!Following[standing[id]]
  <2>1. CASE r.command \notin UpdateCommands
    <3>1. new.state = "active"
      BY <2>1 DEF ResultingRecord, CreatedRecord
    <3>2. standing[id] = "absent"
      BY <1>1, <2>1 DEF Standing
    <3>3. Standing(new) \in {"owner", "member"}
      BY <1>2, <3>1 DEF Standing
    <3> QED
      BY <3>2, <3>3 DEF Owned!Following
  <2>2. CASE r.command \in UpdateCommands
    <3>1. roster[id] \in Records /\ roster[id] # NoRecord
      BY <1>1, <2>2 DEF TypeOK
    <3>2. UpdateMember(r)
      BY <2>2 DEF UpdateCommands
    <3>3. CASE r.command = "change_role"
      <4>1. new.state = "active" /\ roster[id].state = "active"
        BY <3>1, <3>2, <3>3
           DEF ResultingRecord, UpdateCommands, Buildable, Records
      <4> QED
        BY <1>1, <1>2, <3>1, <4>1 DEF Standing, Owned!Following
    <3>4. CASE r.command \in {"suspend", "reactivate", "remove"}
      <4>1. new.state = StateAfter[r.command]
        BY <3>1, <3>4 DEF ResultingRecord, UpdateCommands, Records
      <4>2. CASE r.command = "suspend"
        BY <1>1, <1>2, <3>1, <3>2, <4>1, <4>2
           DEF StateAfter, Standing, Owned!Following, Buildable
      <4>3. CASE r.command = "reactivate"
        BY <1>1, <1>2, <3>1, <3>2, <4>1, <4>3
           DEF StateAfter, Standing, Owned!Following, Buildable
      <4>4. CASE r.command = "remove"
        <5>1. Standing(new) = "removed"
          BY <1>2, <4>1, <4>4 DEF StateAfter, Standing
        <5>2. roster[id].state \in {"active", "suspended"}
          BY <2>2, <3>1 DEF Records, States
        <5>3. standing[id] \in {"owner", "member", "suspended"}
          BY <1>1, <3>1, <5>2 DEF Standing
        <5> QED
          BY <5>1, <5>3 DEF Owned!Following
      <4> QED
        BY <3>4, <4>2, <4>3, <4>4
    <3> QED
      BY <2>2, <3>3, <3>4 DEF UpdateCommands
  <2> QED
    BY <2>1, <2>2
<1>8. CASE Standing(new) = standing[id]
  BY <1>3, <1>8
<1>9. CASE Standing(new) \in Owned!Following[standing[id]]
  BY <1>3, <1>4, <1>5, <1>9 DEF Owned!Next, Owned!Move
<1> QED
  BY <1>7, <1>8, <1>9

LEMMA RefinementStep ==
  ASSUME TypeOK, SnapshotsCoherent, OwnerContinuity, [Next]_vars
  PROVE  [Owned!Next]_([id \in MembershipIds |-> Standing(roster[id])])
<1>1. CASE roster' = roster
  BY <1>1
<1>2. CASE roster' # roster
  <2>1. PICK id \in MembershipIds : roster'[id] # roster[id]
    BY <1>2, TypeOKStep DEF TypeOK
  <2>2. PICK r \in held :
          /\ Bootstrap(r) \/ AddMember(r) \/ UpdateMember(r)
          /\ r.target = id
          /\ roster' = [roster EXCEPT ![id] = ResultingRecord(r)]
          /\ IF r.command \in UpdateCommands
             THEN roster[id] # NoRecord /\ roster[id].state # "removed"
             ELSE roster[id] = NoRecord
    BY <2>1, RecordStep
  <2>3. OwnerContinuity'
    BY OwnerContinuityStep
  <2> QED
    BY <2>2, <2>3, HeldAreRequests, WritingIsOwnedStep
<1> QED
  BY <1>1, <1>2

\* The pipeline implements the abstract roster (membership-pipeline with
\* membership-reducer).
THEOREM RosterIsOwned == Spec => ImplementsOwnedRoster
<1>1. Init => Owned!Init
  BY DEF Init, EmptyRoster, Owned!Init, Standing
<1> QED
  BY <1>1, RefinementStep, TypeCorrect, SnapshotsAlwaysCoherent,
     OwnerAlwaysContinues, PTL DEF Spec, ImplementsOwnedRoster, Owned!Spec

------------------------------------------------------------------------------
(* Replay                                                                  *)

\* What a replay may come to.
Replayed == [MembershipIds -> Records \cup {NoRecord}] \cup {Rejected}

\* What replay makes of one more event.
AfterEvent(outcome, event) ==
  IF outcome = Rejected \/ ~Reducible(outcome, event)
  THEN Rejected ELSE Reduced(outcome, event)

\* The projections replay goes through.
Projections(events) ==
  LET upTo[n \in 0..Len(events)] ==
        IF n = 0 THEN EmptyRoster
        ELSE IF upTo[n-1] = Rejected \/ ~Reducible(upTo[n-1], events[n])
             THEN Rejected
             ELSE Reduced(upTo[n-1], events[n])
  IN  upTo

LEMMA ReplayByProjections ==
  ASSUME NEW events
  PROVE  Replay(events) =
           IF \A n \in 2..Len(events) :
                events[n].localSequence = events[n-1].localSequence + 1
           THEN Projections(events)[Len(events)] ELSE Rejected
BY DEF Replay, Projections

LEMMA AfterEventType ==
  ASSUME NEW outcome \in Replayed, NEW event \in Events
  PROVE  AfterEvent(outcome, event) \in Replayed
BY DEF AfterEvent, Replayed, Reduced, Events

LEMMA ProjectionsDefined ==
  ASSUME NEW events \in Seq(Events)
  PROVE  Projections(events) =
           [n \in 0..Len(events) |->
              IF n = 0 THEN EmptyRoster
              ELSE AfterEvent(Projections(events)[n-1], events[n])]
<1> DEFINE k == Len(events)
           step == [p \in (1..k) \X Replayed |-> AfterEvent(p[2], events[p[1]])]
<1>1. k \in Nat /\ \A n \in 1..k : events[n] \in Events
  OBVIOUS
<1>2. step \in Steps(k, Replayed)
  BY <1>1, AfterEventType DEF Steps
<1>3. EmptyRoster \in Replayed
  BY DEF EmptyRoster, Replayed
<1>4. \A n \in 1..k, v \in Replayed : step[<<n, v>>] = AfterEvent(v, events[n])
  OBVIOUS
<1> HIDE DEF step, k
<1>5. PICK f \in [0..k -> Replayed] :
        f[0] = EmptyRoster /\ \A n \in 1..k : f[n] = step[<<n, f[n-1]>>]
  <2>1. Solvable(k, Replayed, EmptyRoster, step)
    BY <1>1, <1>2, <1>3, SolutionExists
  <2> QED
    BY <2>1 DEF Solvable
<1>6. \A n \in 1..k : f[n] = AfterEvent(f[n-1], events[n])
  <2> SUFFICES ASSUME NEW n \in 1..k PROVE f[n] = AfterEvent(f[n-1], events[n])
    OBVIOUS
  <2>1. n - 1 \in 0..k
    BY <1>1
  <2>2. f[n-1] \in Replayed
    BY <2>1
  <2> QED
    BY <1>4, <1>5, <2>2
<1>7. f = [n \in 0..k |-> IF n = 0 THEN EmptyRoster ELSE AfterEvent(f[n-1], events[n])]
  BY <1>1, <1>5, <1>6
<1>8. \E g : g = [n \in 0..k |-> IF n = 0 THEN EmptyRoster
                                ELSE AfterEvent(g[n-1], events[n])]
  BY <1>7
<1> QED
  BY <1>8, Zenon DEF Projections, AfterEvent, k

\* The events of a log, numbered from 1 as the pipeline numbers them.
Numbered(events) == \A n \in 1..Len(events) : events[n].localSequence = n

LEMMA NumberedReplay ==
  ASSUME NEW events \in Seq(Events), Numbered(events)
  PROVE  Replay(events) = Projections(events)[Len(events)]
<1>1. Len(events) \in Nat
  OBVIOUS
<1>2. ASSUME NEW n \in 2..Len(events)
      PROVE  events[n].localSequence = events[n-1].localSequence + 1
  BY <1>1 DEF Numbered
<1> QED
  BY <1>2, ReplayByProjections

\* Replaying one more event reduces it into what replay made of the others.
LEMMA ReplayOneMore ==
  ASSUME NEW events \in Seq(Events), NEW event \in Events,
         Numbered(events), Numbered(Append(events, event))
  PROVE  Replay(Append(events, event)) = AfterEvent(Replay(events), event)
<1> DEFINE longer == Append(events, event)
           k      == Len(events)
           f      == Projections(events)
           g      == Projections(longer)
<1>1. /\ k \in Nat /\ Len(longer) = k + 1
      /\ longer \in Seq(Events)
      /\ \A n \in 1..k : longer[n] = events[n]
      /\ longer[k+1] = event
  OBVIOUS
<1>2. f = [n \in 0..k |->
             IF n = 0 THEN EmptyRoster ELSE AfterEvent(f[n-1], events[n])]
  BY ProjectionsDefined
<1>3. g = [n \in 0..(k+1) |->
             IF n = 0 THEN EmptyRoster ELSE AfterEvent(g[n-1], longer[n])]
  BY <1>1, ProjectionsDefined
<1>4. Replay(events) = f[k] /\ Replay(longer) = g[k+1]
  BY <1>1, NumberedReplay
<1> HIDE DEF f, g, longer, k
<1>5. f[0] = EmptyRoster /\ \A n \in 1..k : f[n] = AfterEvent(f[n-1], events[n])
  BY <1>1, <1>2
<1>6. g[0] = EmptyRoster /\ \A n \in 1..(k+1) : g[n] = AfterEvent(g[n-1], longer[n])
  BY <1>1, <1>3
<1>7. SameSteps(k, f, g)
  BY <1>1, <1>5, <1>6 DEF SameSteps
<1>8. f[k] = g[k]
  BY <1>1, <1>7, SameStepsAgree
<1>9. g[k+1] = AfterEvent(f[k], event)
  BY <1>1, <1>6, <1>8
<1> QED
  BY <1>4, <1>9 DEF longer

LEMMA ReplayOfNothing == Replay(<<>>) = EmptyRoster
<1>1. <<>> \in Seq(Events) /\ Len(<<>>) = 0
  OBVIOUS
<1>2. Projections(<<>>)[0] = EmptyRoster
  <2> DEFINE f == Projections(<<>>)
  <2>1. f = [n \in 0..0 |->
               IF n = 0 THEN EmptyRoster ELSE AfterEvent(f[n-1], <<>>[n])]
    BY <1>1, ProjectionsDefined
  <2> HIDE DEF f
  <2> QED
    BY <2>1 DEF f
<1> QED
  BY <1>1, <1>2, ReplayByProjections

\* A memory log is numbered by the sequence the pipeline gives its events.
LogNumbered ==
  Retention = "memory_only" => lastSequence = Len(log) /\ Numbered(log)

LEMMA ReplayStep ==
  ASSUME TypeOK, LogNumbered, ReplayNeverDiverges, [Next]_vars
  PROVE  LogNumbered' /\ ReplayNeverDiverges'
<1>1. CASE UNCHANGED <<roster, log, lastSequence>>
  BY <1>1 DEF LogNumbered, Numbered, ReplayNeverDiverges, Replay
<1>2. CASE \E r \in held : Bootstrap(r) \/ AddMember(r) \/ UpdateMember(r)
  <2> SUFFICES ASSUME Retention = "memory_only"
               PROVE  /\ lastSequence' = Len(log')
                      /\ Numbered(log')
                      /\ Replay(log') \in {Rejected, roster'}
    BY DEF LogNumbered, Numbered, ReplayNeverDiverges, Replay
  <2>1. PICK r \in held : Bootstrap(r) \/ AddMember(r) \/ UpdateMember(r)
    BY <1>2
  <2> DEFINE event == EventOf(r)
  <2>2. event \in Events /\ event.localSequence = Len(log) + 1
    BY <2>1, HeldAreRequests, EventType DEF EventOf, LogNumbered
  <2>3. /\ log' = Append(log, event)
        /\ lastSequence' = event.localSequence
        /\ roster' = IF Reducible(roster, event)
                     THEN Reduced(roster, event) ELSE roster
    BY <2>1 DEF Commit, AppendEvent
  <2> HIDE DEF event
  <2>4. log \in Seq(Events) /\ Numbered(log)
    BY DEF TypeOK, LogNumbered
  <2>5. Numbered(log') /\ lastSequence' = Len(log')
    BY <2>2, <2>3, <2>4 DEF Numbered
  <2>6. Replay(log') = AfterEvent(Replay(log), event)
    BY <2>2, <2>3, <2>4, <2>5, ReplayOneMore
  <2>7. Replay(log') \in {Rejected, roster'}
    BY <2>3, <2>6 DEF ReplayNeverDiverges, AfterEvent
  <2> QED
    BY <2>5, <2>7
<1> QED
  BY <1>1, <1>2, ComposeAdds
     DEF Next, Recompose, Drop, ResolvePolicy, vars, projectionVars

\* Replaying a memory log either throws or gives exactly the projection the
\* callers see: the pipeline appends in the order it reduces, and an event whose
\* reduction threw makes replay throw as well (replayRoomMembershipEventsV1).
THEOREM ReplayNeverEverDiverges == Spec => []ReplayNeverDiverges
<1>1. Init => LogNumbered /\ ReplayNeverDiverges
  BY ReplayOfNothing DEF Init, LogNumbered, Numbered, ReplayNeverDiverges
<1> QED
  BY <1>1, ReplayStep, TypeCorrect, PTL DEF Spec
==============================================================================
