------------------------------ MODULE RoomLog ------------------------------
(***************************************************************************)
(* The operation log of one room and the projection reduced from it.       *)
(*                                                                         *)
(* No pipeline of the repository ties the two: a caller creates an event   *)
(* (numbering it from the log's status), appends it, and reduces it into   *)
(* the room.  Between those calls events of other callers go through, and  *)
(* a caller that missed an answer delivers again; so a created event stays *)
(* in flight until it is dropped.  Appends and reductions of one delivery  *)
(* are synchronous, hence one step.                                        *)
(*                                                                         *)
(* Not modelled: PolicyDecisions, the fields no reduction tells apart      *)
(* (actor, labels, payload class, room and object kinds, member roles),    *)
(* and the structural validation of payloads, which every event passes.    *)
(***************************************************************************)
EXTENDS Naturals, Sequences, FiniteSets, RoomLifecycle

CONSTANTS
  EventIds,         \* ids the injected generator may hand out
  MemberRefs,       \* local member references
  ObjectIds,        \* ids of placeholder objects
  Titles,           \* room titles
  Nothing,          \* no title, or no payload worth telling apart
  Rejected,         \* the outcome of a replay that throws
  InputOperations,  \* bound of the model: operations callers use
  InputTargets,     \* bound of the model: lifecycle targets payloads name
  MaxSequence,      \* bound of the model: highest sequence handed out
  MaxInFlight,      \* bound of the model: events in flight
  MaxSummaries      \* bound of the model: object summaries in the room

ASSUME RoomLogAssumption ==
  /\ InputOperations \subseteq Operations
  /\ InputTargets \subseteq Lifecycles
  /\ MaxSequence \in Nat
  /\ MaxInFlight \in Nat
  /\ MaxSummaries \in Nat
  /\ Nothing \notin Titles

\* What an operation's payload says.
Payloads(operation) ==
  IF operation = "create" THEN Titles \cup {Nothing}
  ELSE IF operation = "rename" THEN Titles
  ELSE IF operation \in {"archive", "lock", "delete_tombstone"} THEN InputTargets
  ELSE IF operation \in {"add_member", "remove_member"} THEN MemberRefs
  ELSE IF operation = "object" THEN ObjectIds
  ELSE {Nothing}

\* RoomOperationEventV1
Events ==
  {e \in [id        : EventIds,
          sequence  : Nat \ {0},
          operation : Operations,
          payload   : UNION {Payloads(o) : o \in Operations}] :
     e.payload \in Payloads(e.operation)}

\* RoomMaterializedState; one summary per member reference is a set.
Rooms ==
  [lifecycle     : Lifecycles,
   title         : Titles \cup {Nothing},
   titleRedacted : BOOLEAN,
   members       : SUBSET MemberRefs,
   objects       : Seq(ObjectIds)]

ASSUME RejectedAssumption == Rejected \notin Rooms

VARIABLES
  retention,     \* the log the callers share: "memory_only" (InMemory log) or
                 \* "null" (Null log)
  room,          \* the projection the callers see
  log,           \* events the log retains
  lastSequence,  \* lastLocalSequence of the log's status
  mutable,       \* room.policy.allowLocalContentMutation
  redacting,     \* room.policy.redactTitles
  inFlight,      \* events created and not yet dropped
  complete       \* history: the log was never cleared, and every event it
                 \* accepted was reduced into the room

policyVars  == <<mutable, redacting>>
roomLogVars ==
  <<retention, room, log, lastSequence, policyVars, inFlight, complete>>

RoomLogTypeOK ==
  /\ room \in Rooms
  /\ log \in Seq(Events)
  /\ lastSequence \in Nat
  /\ mutable \in BOOLEAN
  /\ redacting \in BOOLEAN
  /\ inFlight \subseteq Events
  /\ retention \in {"memory_only", "null"}
  /\ complete \in BOOLEAN

\* The seed of a projection and of a complete replay.
Draft ==
  [lifecycle |-> "draft", title |-> Nothing, titleRedacted |-> FALSE,
   members |-> {}, objects |-> <<>>]

------------------------------------------------------------------------------
(* The reducer                                                             *)

\* Fault: the lifecycle table guards mutations only.
RoomReducibleUnguarded(current, event) ==
  event.operation \in MutationOperations =>
    Permitted(current.lifecycle, event.operation, event.payload)

\* reduceRoomOperationEventV1 does not throw.
RoomReducible(current, event) ==
  Permitted(current.lifecycle, event.operation, event.payload)

\* Fault: titles are not redacted.
TitleAfterUnredacted(current, event, redacts) ==
  IF event.operation \in {"create", "rename"} /\ event.payload # Nothing
  THEN event.payload ELSE current.title

\* A redacting projection takes no title, but keeps the one it has.
TitleAfter(current, event, redacts) ==
  IF event.operation \in {"create", "rename"} /\ event.payload # Nothing /\ ~redacts
  THEN event.payload ELSE current.title

TitleRedactedAfter(current, event, redacts) ==
  \/ event.operation = "delete_tombstone"
  \/ event.operation \in {"create", "rename"} /\ redacts /\ event.payload # Nothing
  \/ event.operation \notin {"create", "rename"} /\ current.titleRedacted

MembersAfter(current, event) ==
  IF event.operation = "delete_tombstone" THEN {}
  ELSE IF event.operation = "add_member" THEN current.members \cup {event.payload}
  ELSE IF event.operation = "remove_member" THEN current.members \ {event.payload}
  ELSE current.members

\* An object is appended without a look for its id.
ObjectsAfter(current, event) ==
  IF event.operation = "delete_tombstone" THEN <<>>
  ELSE IF event.operation = "object" THEN Append(current.objects, event.payload)
  ELSE current.objects

\* The room reduceRoomOperationEventV1 returns.
RoomReduced(current, event, redacts) ==
  [lifecycle     |-> LifecycleAfter(current.lifecycle, event.operation, event.payload),
   title         |-> TitleAfter(current, event, redacts),
   titleRedacted |-> TitleRedactedAfter(current, event, redacts),
   members       |-> MembersAfter(current, event),
   objects       |-> ObjectsAfter(current, event)]

\* What both the memory log and replay ask of a list of events.
WellSequenced(events) ==
  \A i \in 1..Len(events) :
    /\ events[i].sequence = i
    /\ \A j \in 1..(i-1) : events[j].id # events[i].id

\* replayRoomOperationEventsV1 on a seed with the policy of today.
RoomReplay(events) ==
  LET upTo[n \in 0..Len(events)] ==
        IF n = 0 THEN Draft
        ELSE IF upTo[n-1] = Rejected \/ ~RoomReducible(upTo[n-1], events[n])
             THEN Rejected
             ELSE RoomReduced(upTo[n-1], events[n], redacting)
  IN  IF WellSequenced(events) THEN upTo[Len(events)] ELSE Rejected

------------------------------------------------------------------------------
(* The log                                                                 *)

\* Fault: a memory log lets a sequence gap through.
AppendableWithGap(event) ==
  retention = "memory_only" =>
    /\ event.sequence > lastSequence
    /\ \A i \in 1..Len(log) : log[i].id # event.id

\* Fault: a memory log does not look for the event's id.
AppendableTwice(event) ==
  retention = "memory_only" => event.sequence >= lastSequence

\* append does not throw: the null log checks neither id nor sequence.
Appendable(event) ==
  retention = "memory_only" =>
    /\ event.sequence = lastSequence + 1
    /\ \A i \in 1..Len(log) : log[i].id # event.id

\* Fault: the caller numbers its event with the last sequence.
NextSequenceReused == lastSequence

\* What a caller computes from lastLocalSequence of the log's status.
NextSequence == lastSequence + 1

AppendToLog(event) ==
  /\ log' = IF retention = "memory_only" THEN Append(log, event) ELSE log
  /\ lastSequence' = event.sequence

------------------------------------------------------------------------------
(* Actions                                                                 *)

RoomLogInit ==
  /\ room = Draft
  /\ log = <<>>
  /\ lastSequence = 0
  /\ mutable = TRUE
  /\ redacting = FALSE
  /\ inFlight = {}
  /\ complete = TRUE
  /\ retention \in {"memory_only", "null"}

\* createAcceptedRoomOperationEventV1: of the policy flags only the mutation
\* flag decides, and it does not hold back audits.  The lifecycle is not asked.
CreateEvent(operation) ==
  /\ Cardinality(inFlight) < MaxInFlight
  /\ lastSequence < MaxSequence
  /\ operation = "audit" \/ mutable
  /\ \E id \in EventIds, payload \in Payloads(operation) :
       inFlight' = inFlight \cup
         {[id |-> id, sequence |-> NextSequence,
           operation |-> operation, payload |-> payload]}
  /\ UNCHANGED <<retention, room, log, lastSequence, policyVars, complete>>

\* Append, then reduce.  Nothing asks the caller to try the reduction first:
\* one that throws leaves the event in the log.
Deliver(event) ==
  /\ Appendable(event)
  /\ event.operation = "object" => Len(room.objects) < MaxSummaries
  /\ AppendToLog(event)
  /\ IF RoomReducible(room, event)
     THEN room' = RoomReduced(room, event, redacting) /\ UNCHANGED complete
     ELSE complete' = FALSE /\ UNCHANGED room
  /\ UNCHANGED <<retention, policyVars, inFlight>>

DropEvent(event) ==
  /\ inFlight' = inFlight \ {event}
  /\ UNCHANGED <<retention, room, log, lastSequence, policyVars, complete>>

\* clear: the memory log forgets events and ids, and numbers from 1 again; the
\* null log has nothing to forget and keeps its last sequence.
ClearLog ==
  /\ log' = <<>>
  /\ lastSequence' = IF retention = "memory_only" THEN 0 ELSE lastSequence
  /\ complete' = FALSE
  /\ UNCHANGED <<retention, room, policyVars, inFlight>>

\* resolveRoomPolicy runs again, for another mode, risk or override; in a
\* locked lifecycle state it denies everything.
ResolveProjectionPolicy ==
  /\ mutable' \in BOOLEAN
  /\ redacting' \in BOOLEAN
  /\ room.lifecycle \in LockedLifecycles => ~mutable' /\ redacting'
  /\ UNCHANGED <<retention, room, log, lastSequence, inFlight, complete>>

RoomLogNext ==
  \/ \E operation \in InputOperations : CreateEvent(operation)
  \/ \E event \in inFlight : Deliver(event)
  \/ \E event \in inFlight : DropEvent(event)
  \/ ClearLog
  \/ ResolveProjectionPolicy

RoomLogSpec == RoomLogInit /\ [][RoomLogNext]_roomLogVars

------------------------------------------------------------------------------
(* Properties                                                              *)

\* The events a memory log retains are numbered from 1 without gap or repeat
\* and never share an id, whatever is delivered twice, late or after a clear:
\* replay's structural checks always pass.
LogWellSequenced == WellSequenced(log)

\* Forgetting the title, which depends on the policy of the day.
Untitled(r) == [r EXCEPT !.title = Nothing, !.titleRedacted = FALSE]

\* The projection is derived data: replaying a complete memory log rebuilds it,
\* whatever was delivered late or twice.
RoomRebuildable ==
  retention = "memory_only" /\ complete =>
    /\ RoomReplay(log) # Rejected
    /\ Untitled(RoomReplay(log)) = Untitled(room)

\* Replay under a policy that redacts titles brings none back.
ReplayHonoursRedaction ==
  redacting /\ RoomReplay(log) # Rejected => RoomReplay(log).title = Nothing

\* How far a room has been closed.
Closedness ==
  [draft |-> 0, active_local |-> 1, sealed_local |-> 2, archived_local |-> 3,
   emergency_locked |-> 3, deleted_tombstone |-> 4]

\* A room only closes: no late or repeated event, not even with the null log,
\* which refuses none, or after a clear, reopens a sealed, archived, locked or
\* tombstoned room, or moves it between archived and locked.
RoomOnlyCloses ==
  [][room'.lifecycle # room.lifecycle =>
       Closedness[room'.lifecycle] > Closedness[room.lifecycle]]_roomLogVars
==============================================================================
