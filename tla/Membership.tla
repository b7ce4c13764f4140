---------------------------- MODULE Membership ----------------------------
(***************************************************************************)
(* The local membership pipeline of one room: the projection of membership *)
(* records, the membership-event log, and the requests callers hold.       *)
(*                                                                         *)
(* The pipeline is a synchronous function of values its caller read        *)
(* earlier, so the interesting interleavings are between the moment a      *)
(* request is composed (actor's record and descriptor, target's revision)  *)
(* and the moment it is submitted.  A composed request stays in `held': it *)
(* may be submitted late, submitted again, refreshed or dropped.           *)
(*                                                                         *)
(* A definition commented "Fault" is not part of the specification: it is  *)
(* a slip a maintainer could make in the definition that follows it, kept  *)
(* to confirm that the named properties would notice.                      *)
(*                                                                         *)
(* Not modelled here: the PolicyDecision values (an inauthentic, denied or *)
(* wrongly scoped one is refused before any effect, hence is no step), the *)
(* field validation of commands, local time labels, and a second room.     *)
(* The caller passes one log for the life of the room, and the room policy *)
(* as it is when it submits; the mode is a field of the command, which the *)
(* pipeline compares with nothing.                                         *)
(***************************************************************************)
EXTENDS Integers, Sequences, FiniteSets, RoomRoles

CONSTANTS
  MembershipIds,  \* ids the injected generator may hand out
  MemberRefs,     \* local member references
  NoRecord,       \* a membership id that was never created
  Rejected,       \* the outcome of a replay that throws
  Retention,      \* "memory_only" (InMemory log) or "null" (Null log)
  MaxRevision,    \* MAX_MEMBERSHIP_REVISION: an update past it is refused
  MaxLog,         \* bound of the model: events ever appended
  MaxHeld,        \* bound of the model: requests held at a time
  InputModes,     \* bound of the model: modes the room is switched between
  InputRoles      \* bound of the model: roles named by commands

ASSUME MembershipAssumption ==
  /\ MaxRevision \in Nat \ {0}
  /\ MaxLog \in Nat
  /\ MaxHeld \in Nat
  /\ InputModes \subseteq Modes
  /\ InputRoles \subseteq Roles
  /\ Retention \in {"memory_only", "null"}
  /\ IsFiniteSet(MembershipIds)

\* RoomMembershipRecordV1, without its room, labels and literal fields.
Records ==
  [memberRef : MemberRefs, role : Roles, state : States, revision : 1..MaxRevision]

ASSUME NoRecordAssumption == NoRecord \notin Records

UpdateCommands == {"change_role", "suspend", "reactivate", "remove"}
Expansion      == {"add", "reactivate", "change_role"}
Restrictive    == {"suspend", "remove"}

(***************************************************************************)
(* A request: a validated command together with the authorization context  *)
(* it travels with.  `membership' is the actor's record when its           *)
(* descriptor was resolved; `seen' is the target's record when its author  *)
(* read expectedRevision off it (only the revision reaches the pipeline).  *)
(* `mode' is command.mode, the mode the command was composed in.           *)
(***************************************************************************)
Requests ==
  [command    : Commands,
   actor      : MembershipIds \cup {NoRecord},
   membership : Records \cup {NoRecord},
   target     : MembershipIds,
   seen       : Records \cup {NoRecord},
   memberRef  : MemberRefs,
   role       : Roles,
   mode       : Modes]

\* RoomMembershipEventV1; previousRevision null is 0.
Events ==
  [localSequence    : Nat,
   membershipId     : MembershipIds,
   previousRevision : 0..MaxRevision,
   record           : Records]

VARIABLES
  roster,        \* roomState.membershipRecords, by membership id
  log,           \* events the membership log retains
  lastSequence,  \* last localSequence the log accepted
  mode,          \* roomState.mode
  mutable,       \* roomState.policy.allowLocalContentMutation
  held           \* requests composed and not yet dropped

projectionVars == <<roster, log, lastSequence>>
policyVars     == <<mode, mutable>>
vars           == <<roster, log, lastSequence, mode, mutable, held>>

TypeOK ==
  /\ roster \in [MembershipIds -> Records \cup {NoRecord}]
  /\ log \in Seq(Events)
  /\ lastSequence \in Nat
  /\ mode \in Modes
  /\ mutable \in BOOLEAN
  /\ held \subseteq Requests

EmptyRoster == [id \in MembershipIds |-> NoRecord]
Present(ros) == {id \in MembershipIds : ros[id] # NoRecord}

ActiveOwner(record) ==
  /\ record # NoRecord
  /\ record.role = "owner"
  /\ record.state = "active"

ActiveOwners(ros) == {id \in MembershipIds : ActiveOwner(ros[id])}

------------------------------------------------------------------------------
(* The pure reducer, used by the pipeline and by replay.                   *)

\* No ACTIVE record of another id may already belong to the same member.
ActiveDuplicate(ros, ref) ==
  \E id \in Present(ros) : ros[id].memberRef = ref /\ ros[id].state = "active"

\* reduceRoomMembershipEventV1 does not throw.
Reducible(ros, event) ==
  IF event.previousRevision = 0
  THEN /\ ros[event.membershipId] = NoRecord
       /\ ~ActiveDuplicate(ros, event.record.memberRef)
  ELSE /\ ros[event.membershipId] # NoRecord
       /\ ros[event.membershipId].revision = event.previousRevision
       /\ ros[event.membershipId].state # "removed"

Reduced(ros, event) == [ros EXCEPT ![event.membershipId] = event.record]

\* replayRoomMembershipEventsV1 from the empty projection.
Replay(events) ==
  LET upTo[n \in 0..Len(events)] ==
        IF n = 0 THEN EmptyRoster
        ELSE IF upTo[n-1] = Rejected \/ ~Reducible(upTo[n-1], events[n])
             THEN Rejected
             ELSE Reduced(upTo[n-1], events[n])
      contiguous == \A n \in 2..Len(events) :
                      events[n].localSequence = events[n-1].localSequence + 1
  IN  IF contiguous THEN upTo[Len(events)] ELSE Rejected

------------------------------------------------------------------------------
(* The guards of the pipeline, in its order.                               *)

\* Fault: the room policy's content-mutation flag is not consulted.
PolicyAllowsIgnoringFlag(r) ==
  /\ r.mode = "emergency" => r.command \in Restrictive
  /\ r.mode = "bunker" => r.command \in Restrictive \cup {"bootstrap"}

\* resolveRoomMembershipPolicyV1 and the matrix rows of the six operations.
PolicyAllows(r) ==
  /\ r.command \in Expansion => mutable
  /\ r.mode = "emergency" => r.command \in Restrictive
  /\ r.mode = "bunker" => r.command \in Restrictive \cup {"bootstrap"}

\* assertRoomCapabilityDescriptorCurrentV1: the descriptor resolved with
\* r.membership still describes the record m.
DescriptorCurrent(r, m) ==
  /\ m # NoRecord
  /\ m.memberRef = r.membership.memberRef
  /\ m.revision = r.membership.revision
  /\ m.role = r.membership.role
  /\ m.state = "active"
  /\ CapabilityOf[r.command] \in EligibleCaps(m.role)

\* The pipeline hands assertRoomAuthorizationContextV1 the record INSIDE the
\* context as the current one; of the projection it asks only that the actor
\* be active.
Authorized(r) ==
  /\ DescriptorCurrent(r, r.membership)
  /\ roster[r.actor] # NoRecord
  /\ roster[r.actor].state = "active"

\* Fault: only a future revision is refused, a stale one is let through.
RevisionNotFuture(r) == r.seen.revision <= roster[r.target].revision

RevisionMatches(r) == r.seen.revision = roster[r.target].revision

\* Fault: demoting an owner is not seen as losing one.
KeepsAnOwnerIgnoringDemotion(r) ==
  (ActiveOwner(roster[r.target]) /\ r.command \in Restrictive)
    => Cardinality(ActiveOwners(roster)) > 1

\* Fault: suspended owners are counted too.
KeepsAnOwnerCountingSuspended(r) ==
  LET owners == {id \in Present(roster) :
                   roster[id].role = "owner" /\ roster[id].state # "removed"}
      removesOwner == /\ ActiveOwner(roster[r.target])
                      /\ \/ r.command \in Restrictive
                         \/ r.command = "change_role" /\ r.role # "owner"
  IN  removesOwner => Cardinality(owners) > 1

\* assertOwnerContinuity, computed on the projection at submission.
KeepsAnOwner(r) ==
  LET removesOwner == /\ ActiveOwner(roster[r.target])
                      /\ \/ r.command \in Restrictive
                         \/ r.command = "change_role" /\ r.role # "owner"
  IN  removesOwner => Cardinality(ActiveOwners(roster)) > 1

\* Fault: the revision counter is not checked for overflow.
BuildableWithoutOverflowCheck(r) ==
  LET current == roster[r.target]
  IN  /\ r.command \in {"change_role", "suspend"} => current.state = "active"
      /\ r.command = "reactivate" => current.state = "suspended"
      /\ r.command = "remove" => current.state # "removed"

\* assertMembershipTransition, the active-only rule of a role change, and the
\* overflow check of nextRoomMembershipRevision.
Buildable(r) ==
  LET current == roster[r.target]
  IN  /\ current.revision < MaxRevision
      /\ r.command \in {"change_role", "suspend"} => current.state = "active"
      /\ r.command = "reactivate" => current.state = "suspended"
      /\ r.command = "remove" => current.state # "removed"

\* The state a lifecycle command moves its target to.
StateAfter == [suspend |-> "suspended", reactivate |-> "active", remove |-> "removed"]

CreatedRecord(r) ==
  [memberRef |-> r.memberRef,
   role      |-> IF r.command = "bootstrap" THEN "owner" ELSE r.role,
   state     |-> "active",
   revision  |-> 1]

\* buildResultingMembership
ResultingRecord(r) ==
  LET next == [roster[r.target] EXCEPT !.revision = @ + 1]
  IN  IF r.command \notin UpdateCommands THEN CreatedRecord(r)
      ELSE IF r.command = "change_role" THEN [next EXCEPT !.role = r.role]
      ELSE [next EXCEPT !.state = StateAfter[r.command]]

\* createAcceptedRoomMembershipEventV1
EventOf(r) ==
  [localSequence    |-> lastSequence + 1,
   membershipId     |-> r.target,
   previousRevision |-> IF r.command \in UpdateCommands
                        THEN roster[r.target].revision ELSE 0,
   record           |-> ResultingRecord(r)]

\* Fault: the memory log keeps only the events that create a record.
AppendCreationsOnly(event) ==
  /\ log' = IF Retention = "memory_only" /\ event.previousRevision = 0
            THEN Append(log, event) ELSE log
  /\ lastSequence' = event.localSequence

\* The append of either log: the null log remembers only the sequence.
AppendEvent(event) ==
  /\ log' = IF Retention = "memory_only" THEN Append(log, event) ELSE log
  /\ lastSequence' = event.localSequence

\* Steps 9-13: build, append, and only then reduce.  A reducer that throws
\* leaves the projection as it was and the event where it is.
Commit(r) ==
  LET event == EventOf(r)
  IN  /\ lastSequence < MaxLog
      /\ PolicyAllows(r)
      /\ AppendEvent(event)
      /\ roster' = IF Reducible(roster, event) THEN Reduced(roster, event) ELSE roster
      /\ UNCHANGED <<mode, mutable, held>>

------------------------------------------------------------------------------
(* Actions                                                                 *)

Init ==
  /\ roster = EmptyRoster
  /\ log = <<>>
  /\ lastSequence = 0
  /\ mode = "standard"
  /\ mutable = TRUE
  /\ held = {}

Bootstrap(r) ==
  /\ r.command = "bootstrap"
  /\ Present(roster) = {}
  /\ Commit(r)

AddMember(r) ==
  /\ r.command = "add"
  /\ Authorized(r)
  /\ Commit(r)

UpdateMember(r) ==
  /\ r.command \in UpdateCommands
  /\ roster[r.target] # NoRecord
  /\ Authorized(r)
  /\ RevisionMatches(r)
  /\ KeepsAnOwner(r)
  /\ Buildable(r)
  /\ Commit(r)

Hold(r) ==
  /\ Cardinality(held) < MaxHeld
  /\ held' = held \cup {r}

\* A caller composes the bootstrap command.
ComposeBootstrap ==
  \E id \in MembershipIds, ref \in MemberRefs :
    /\ Hold([command |-> "bootstrap", actor |-> NoRecord, membership |-> NoRecord,
             target |-> id, seen |-> NoRecord, memberRef |-> ref, role |-> "owner",
             mode |-> mode])
    /\ UNCHANGED <<projectionVars, policyVars>>

\* resolveRoomLocalCapabilityV1 for the actor, and an add command with it.
ComposeAdd(actor) ==
  /\ roster[actor] # NoRecord
  /\ Resolves(roster[actor], "membership.add", mode, mutable)
  /\ \E id \in MembershipIds, ref \in MemberRefs, role \in InputRoles :
       Hold([command |-> "add", actor |-> actor, membership |-> roster[actor],
             target |-> id, seen |-> NoRecord, memberRef |-> ref, role |-> role,
             mode |-> mode])
  /\ UNCHANGED <<projectionVars, policyVars>>

\* The same for an update command; the author reads the target's revision now.
ComposeUpdate(actor, target) ==
  /\ roster[actor] # NoRecord
  /\ roster[target] # NoRecord
  /\ \E command \in UpdateCommands :
       /\ Resolves(roster[actor], CapabilityOf[command], mode, mutable)
       /\ \E role \in IF command = "change_role" THEN InputRoles
                      ELSE {roster[target].role} :
            Hold([command |-> command, actor |-> actor,
                  membership |-> roster[actor], target |-> target,
                  seen |-> roster[target],
                  memberRef |-> roster[target].memberRef, role |-> role,
                  mode |-> mode])
  /\ UNCHANGED <<projectionVars, policyVars>>

\* After a refusal (a stale revision, another mode): compose the command again
\* from the target and the mode as they are now, keep the context.
Recompose(r) ==
  /\ r.command \in UpdateCommands
  /\ held' = (held \ {r}) \cup
       {[r EXCEPT !.seen = roster[r.target], !.mode = mode]}
  /\ UNCHANGED <<projectionVars, policyVars>>

Drop(r) ==
  /\ held' = held \ {r}
  /\ UNCHANGED <<projectionVars, policyVars>>

\* The device changes mode, or resolveRoomPolicy runs again with another
\* tighten-only override: the emergency mode never allows content mutation.
ResolvePolicy ==
  /\ mode' \in InputModes
  /\ mutable' \in BOOLEAN
  /\ mode' = "emergency" => ~mutable'
  /\ UNCHANGED <<roster, log, lastSequence, held>>

Submit(r) == Bootstrap(r) \/ AddMember(r) \/ UpdateMember(r)

Compose ==
  \/ ComposeBootstrap
  \/ \E actor \in MembershipIds : ComposeAdd(actor)
  \/ \E actor, target \in MembershipIds : ComposeUpdate(actor, target)

Next ==
  \/ \E r \in held : Bootstrap(r)
  \/ \E r \in held : AddMember(r)
  \/ \E r \in held : UpdateMember(r)
  \/ Compose
  \/ \E r \in held : Recompose(r)
  \/ \E r \in held : Drop(r)
  \/ ResolvePolicy

Spec == Init /\ [][Next]_vars

------------------------------------------------------------------------------
(* The abstract roster this component implements.                          *)

Standing(record) ==
  IF record = NoRecord THEN "absent"
  ELSE IF record.state # "active" THEN record.state
  ELSE IF record.role = "owner" THEN "owner" ELSE "member"

Owned == INSTANCE OwnedRoster
           WITH standing <- [id \in MembershipIds |-> Standing(roster[id])]

------------------------------------------------------------------------------
(* Properties                                                              *)

\* Refinement: forgetting requests, log, revisions and policy, the pipeline
\* takes only steps of the abstract roster (one member, along the lifecycle,
\* never leaving a room with members ownerless).
ImplementsOwnedRoster == Owned!Spec

\* Last-owner continuity (assertOwnerContinuity): once a room has a member it
\* always has an active owner, whatever the order in which stale and retried
\* requests of several owners against each other are submitted.
OwnerContinuity == Present(roster) # {} => ActiveOwners(roster) # {}

\* The revision is an exact fence: a snapshot a caller still holds, as actor's
\* context or as target of an expectedRevision, is never ahead of the
\* projection, and equal revisions mean the very same record (no revision is
\* ever reused, no record vanishes).
Coherent(id, snapshot) ==
  /\ snapshot # NoRecord
  /\ roster[id] # NoRecord
  /\ snapshot.revision <= roster[id].revision
  /\ snapshot.revision = roster[id].revision => snapshot = roster[id]

SnapshotsCoherent ==
  \A r \in held :
    /\ r.command # "bootstrap" => /\ r.actor \in MembershipIds
                                  /\ Coherent(r.actor, r.membership)
    /\ r.command \in UpdateCommands => Coherent(r.target, r.seen)

\* Replaying the retained log either throws or gives exactly the projection the
\* callers see; it never gives another one (replayRoomMembershipEventsV1).
ReplayNeverDiverges ==
  Retention = "memory_only" => Replay(log) \in {Rejected, roster}

\* expectedRevision prevents lost updates: an update that is accepted, however
\* late or often it is submitted, acts on the record its author read.
NoLostUpdate ==
  [][\A r \in held : UpdateMember(r) => r.seen = roster[r.target]]_vars

\* Records move only along the lifecycle: a changed record has the next
\* revision and the same member, and a tombstone or an id is never given back.
RecordsAdvance ==
  [][\A id \in Present(roster) :
       roster'[id] # roster[id] =>
         /\ roster'[id] # NoRecord
         /\ roster[id].state # "removed"
         /\ roster'[id].revision = roster[id].revision + 1
         /\ roster'[id].memberRef = roster[id].memberRef]_vars

\* While the room policy forbids content mutation, as it always does in
\* Emergency, no member of a bootstrapped room gains authority, even from a
\* request composed and resolved under a looser policy in a looser mode
\* (resolveRoomMembershipPolicyV1).
StrictPolicyOnlyRestricts ==
  [][~mutable /\ Present(roster) # {} =>
       \A id \in MembershipIds :
         roster'[id] # roster[id] =>
           /\ roster[id] # NoRecord
           /\ Authority(roster'[id]) \subseteq Authority(roster[id])]_vars

\* What the header of the reducer promises: "One active record per room/member
\* pair".
OneActiveRecordPerMember ==
  \A id1, id2 \in Present(roster) :
    /\ roster[id1].memberRef = roster[id2].memberRef
    /\ roster[id1].state = "active"
    /\ roster[id2].state = "active"
    => id1 = id2

\* What the header of the pipeline promises: a mutation requires "current
\* membership + current non-authoritative capability".
ActorHoldsCurrentCapability ==
  [][\A r \in held :
       AddMember(r) \/ UpdateMember(r) =>
         CapabilityOf[r.command] \in EligibleCaps(roster[r.actor].role)]_vars
==============================================================================
