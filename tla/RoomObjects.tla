---------------------------- MODULE RoomObjects ----------------------------
(***************************************************************************)
(* The object mutation pipeline of one room: messages, notes, tasks,       *)
(* decisions, polls and file references, the projection that holds them    *)
(* and the object log.                                                     *)
(*                                                                         *)
(* As in Membership the pipeline is synchronous and its caller is not: a   *)
(* command is composed against the objects and the mode of one moment and  *)
(* submitted at another, perhaps twice.  Callers keep one projection and   *)
(* one log, never clear the log, and pass the room policy of the day.      *)
(*                                                                         *)
(* Text is a member of Texts; the content of an object is the fields it    *)
(* has, its status and the object it refers to.  Not modelled: decisions,  *)
(* the validation of fields and limits, labels, actors, sensitivity, the   *)
(* optional fields that travel with a modelled one, and the summaries.     *)
(***************************************************************************)
EXTENDS Integers, Sequences, FiniteSets, RoomRoles

CONSTANTS
  ObjectIds,     \* ids the injected generator may hand out
  Texts,         \* plain texts
  NoObject,      \* an id that was never created
  NoContent,     \* the content of a redacted object (null)
  Nothing,       \* no text, no reference
  Rejected,      \* the outcome of a replay that throws
  Retention,     \* "memory_only" (InMemory log) or "null" (Null log)
  MaxRevision,   \* MAX_OBJECT_REVISION: an update past it is refused
  MaxLog,        \* bound of the model: events ever appended
  MaxHeld,       \* bound of the model: commands held at a time
  InputModes,    \* bound of the model: modes the room is switched between
  InputKinds,    \* bound of the model: kinds of objects created
  InputCommands, \* bound of the model: commands on an object there is
  InputStatuses  \* bound of the model: statuses they ask for

ASSUME RoomObjectsAssumption ==
  /\ MaxRevision \in Nat \ {0}
  /\ MaxLog \in Nat
  /\ MaxHeld \in Nat
  /\ InputModes \subseteq Modes
  /\ Retention \in {"memory_only", "null"}
  /\ Nothing \notin Texts \cup ObjectIds

Kinds == {"message", "note", "task", "decision", "poll", "file_ref"}

ObjectLifecycles == {"active", "archived", "redacted", "deleted_tombstone"}

\* Status transition tables; a kind without a status has status "none".
TaskNext ==
  [todo        |-> {"in_progress", "done", "cancelled"},
   in_progress |-> {"todo", "done", "cancelled"},
   done        |-> {},
   cancelled   |-> {}]

DecisionNext ==
  [proposed   |-> {"accepted", "rejected", "superseded"},
   accepted   |-> {"superseded"},
   rejected   |-> {"superseded"},
   superseded |-> {}]

PollNext ==
  [draft  |-> {"open"},
   open   |-> {"closed"},
   closed |-> {}]

StatusesOf(kind) ==
  IF kind = "task" THEN DOMAIN TaskNext
  ELSE IF kind = "decision" THEN DOMAIN DecisionNext
  ELSE IF kind = "poll" THEN DOMAIN PollNext
  ELSE {"none"}

Statuses == UNION {StatusesOf(kind) : kind \in Kinds}

FirstStatus ==
  [message |-> "none", note |-> "none", task |-> "todo",
   decision |-> "proposed", poll |-> "draft", file_ref |-> "none"]

\* The text fields of each kind.
FieldsOf ==
  [message |-> {"body"}, note |-> {"body", "tags"}, task |-> {"title", "tags"},
   decision |-> {"statement"}, poll |-> {"question"}, file_ref |-> {"metadata"}]

FieldNames == UNION {FieldsOf[kind] : kind \in Kinds}

\* The commands that update content, and the text fields they write; a status
\* command other than decision.resolve writes none.
FieldsWritten ==
  [message_edit        |-> {"body"},
   note_update_content |-> {"body"},
   note_update_tags    |-> {"tags"},
   task_update_content |-> {"title", "tags"},
   task_update_status  |-> {},
   decision_resolve    |-> {"statement"},
   poll_update_draft   |-> {"question"},
   poll_open           |-> {},
   poll_close          |-> {},
   file_ref_update     |-> {"metadata"}]

ContentUpdates == DOMAIN FieldsWritten

\* Of these, the commands whose text fields are all optional.
OptionalTexts == {"decision_resolve", "file_ref_update"}
StatusUpdates  == {"task_update_status", "decision_resolve"}
SafeDirection  == {"redact", "tombstone"}
ObjectCommands == ContentUpdates \cup SafeDirection \cup {"create", "archive"}

Contents ==
  [text   : UNION {[fields -> Texts] : fields \in SUBSET FieldNames},
   status : Statuses,
   ref    : ObjectIds \cup {Nothing}]

Objects ==
  [kind      : Kinds,
   revision  : 1..MaxRevision,
   lifecycle : ObjectLifecycles,
   redacted  : BOOLEAN,
   content   : Contents \cup {NoContent}]

ASSUME InputCommandsAssumption ==
  /\ InputKinds \subseteq Kinds
  /\ InputCommands \subseteq ObjectCommands
  /\ InputStatuses \subseteq Statuses

ASSUME NoContentAssumption == NoContent \notin Contents
ASSUME NoObjectAssumption == NoObject \notin Objects
ASSUME RejectedAssumption == Rejected \notin [ObjectIds -> Objects \cup {NoObject}]

(***************************************************************************)
(* A command as its author composed it.  `seen' is the object whose        *)
(* revision became expectedRevision, `kind' the kind created, `status' the *)
(* status asked for, `ref' a reply target or a superseded decision; a text *)
(* of Nothing leaves an optional field alone.                              *)
(***************************************************************************)
ObjectRequests ==
  {r \in [command : ObjectCommands,
          id      : ObjectIds,
          mode    : Modes,
          seen    : Objects \cup {NoObject},
          kind    : Kinds,
          text    : Texts \cup {Nothing},
          status  : Statuses,
          ref     : ObjectIds \cup {Nothing}] :
     r.command = "create" =>
       /\ r.text \in Texts
       /\ r.ref # Nothing => r.kind = "message"}

\* RoomObjectEventV1; previousRevision null is 0.
ObjectEvents ==
  [localSequence    : Nat,
   id               : ObjectIds,
   previousRevision : 0..MaxRevision,
   object           : Objects]

VARIABLES
  objects,       \* projection.objects, by object id
  log,           \* events the object log retains
  lastSequence,  \* last localSequence the log accepted
  mode,          \* the mode of the room
  mutable,       \* roomPolicy.allowLocalContentMutation
  held           \* commands composed and not yet dropped

objectVars == <<objects, log, lastSequence, mode, mutable, held>>

ObjectTypeOK ==
  /\ objects \in [ObjectIds -> Objects \cup {NoObject}]
  /\ log \in Seq(ObjectEvents)
  /\ lastSequence \in Nat
  /\ mode \in Modes
  /\ mutable \in BOOLEAN
  /\ held \subseteq ObjectRequests

NoObjects == [id \in ObjectIds |-> NoObject]
Existing(objs) == {id \in ObjectIds : objs[id] # NoObject}

------------------------------------------------------------------------------
(* The pure reducer, used by the pipeline and by replay.                   *)

\* reduceRoomObjectEventV1 does not throw.
ObjectReducible(objs, event) ==
  IF event.previousRevision = 0
  THEN objs[event.id] = NoObject
  ELSE /\ objs[event.id] # NoObject
       /\ objs[event.id].revision = event.previousRevision
       /\ objs[event.id].lifecycle # "deleted_tombstone"

ObjectReduced(objs, event) == [objs EXCEPT ![event.id] = event.object]

\* replayRoomObjectEventsV1 from the empty projection.
ObjectReplay(events) ==
  LET upTo[n \in 0..Len(events)] ==
        IF n = 0 THEN NoObjects
        ELSE IF upTo[n-1] = Rejected \/ ~ObjectReducible(upTo[n-1], events[n])
             THEN Rejected
             ELSE ObjectReduced(upTo[n-1], events[n])
  IN  IF \A n \in 1..Len(events) : events[n].localSequence = n
      THEN upTo[Len(events)] ELSE Rejected

------------------------------------------------------------------------------
(* The guards of the pipeline                                              *)

\* Fault: references are not looked up.
ReferencesUnchecked(r) == TRUE

\* A reply needs an object, a superseded decision a decision, of this room.
ReferencesExist(r) ==
  r.ref # Nothing =>
    /\ objects[r.ref] # NoObject
    /\ r.command = "decision_resolve" => objects[r.ref].kind = "decision"

\* Fault: only the mode is consulted, and it is the command's.
ObjectAllowedByMode(r) == r.command \in SafeDirection \/ r.mode # "emergency"

\* resolveRoomObjectMutationPolicy and the matrix rows, for the mode in the
\* command and the policy of the room.
ObjectAllowed(r) ==
  r.command \in SafeDirection \/ (r.mode # "emergency" /\ mutable)

\* Fault: a stale expectedRevision is let through.
ExpectedNotFuture(r) ==
  IF r.command = "create" THEN objects[r.id] = NoObject
  ELSE objects[r.id] # NoObject /\ r.seen.revision <= objects[r.id].revision

\* assertRevisionMatch
ExpectedMatches(r) ==
  IF r.command = "create" THEN objects[r.id] = NoObject
  ELSE objects[r.id] # NoObject /\ r.seen.revision = objects[r.id].revision

\* assertObjectLifecycleAllows
LifecycleAllows(lifecycle, command) ==
  \/ lifecycle = "active"
  \/ lifecycle = "archived" /\ command \in SafeDirection
  \/ lifecycle = "redacted" /\ command \in {"archive", "tombstone"}

\* Fault: a task may move to any status but the one it has.
StatusAllowsAnyTaskStatus(r, status) ==
  /\ r.command = "task_update_status" => r.status # status
  /\ r.command = "decision_resolve" =>
       status \in DOMAIN DecisionNext /\ r.status \in DecisionNext[status]
  /\ r.command = "poll_update_draft" => status = "draft"
  /\ r.command = "poll_open" => status = "draft"
  /\ r.command = "poll_close" => status = "open"

\* Fault: a decision may be resolved again.
StatusAllowsResolvingAgain(r, status) ==
  /\ r.command = "task_update_status" =>
       status \in DOMAIN TaskNext /\ r.status \in TaskNext[status]
  /\ r.command = "poll_update_draft" => status = "draft"
  /\ r.command = "poll_open" => status = "draft"
  /\ r.command = "poll_close" => status = "open"

\* The status assertions of applyContentUpdate.  No kind is compared: a status
\* of another kind is not a key of the table, and its lookup throws.
StatusAllows(r, status) ==
  /\ r.command = "task_update_status" =>
       status \in DOMAIN TaskNext /\ r.status \in TaskNext[status]
  /\ r.command = "decision_resolve" =>
       status \in DOMAIN DecisionNext /\ r.status \in DecisionNext[status]
  /\ r.command = "poll_update_draft" => status = "draft"
  /\ r.command = "poll_open" => status = "draft"
  /\ r.command = "poll_close" => status = "open"

------------------------------------------------------------------------------
(* The resulting object                                                    *)

\* buildCreatedObject
CreatedObject(r) ==
  [kind |-> r.kind, revision |-> 1, lifecycle |-> "active", redacted |-> FALSE,
   content |-> [text   |-> [field \in FieldsOf[r.kind] |-> r.text],
                status |-> FirstStatus[r.kind],
                ref    |-> r.ref]]

\* applyContentUpdate: a command writes its fields into whatever it finds.
UpdatedContent(content, r) ==
  LET written == IF r.text = Nothing THEN {} ELSE FieldsWritten[r.command]
      fields  == DOMAIN content.text \cup written
  IN  [text   |-> [f \in fields |-> IF f \in written THEN r.text ELSE content.text[f]],
       status |-> IF r.command \in StatusUpdates THEN r.status
                  ELSE IF r.command = "poll_open" THEN "open"
                  ELSE IF r.command = "poll_close" THEN "closed"
                  ELSE content.status,
       ref    |-> IF r.command = "decision_resolve" /\ r.ref # Nothing
                  THEN r.ref ELSE content.ref]

\* Fault: the revision counter is not checked for overflow.
RevisionLeftUnchecked(object) == TRUE

\* nextRoomObjectRevision does not throw.
RevisionLeft(object) == object.revision < MaxRevision

\* What nextRoomObjectRevision returns.
NextRevision(object) == [object EXCEPT !.revision = @ + 1]

\* Fault: a redaction marks the object and keeps its content.
ErasedMarkOnly(object, lifecycle) ==
  [object EXCEPT !.lifecycle = lifecycle, !.redacted = TRUE]

Erased(object, lifecycle) ==
  [object EXCEPT !.lifecycle = lifecycle, !.redacted = TRUE, !.content = NoContent]

\* buildResultingObject
ResultingObject(r) ==
  LET next == NextRevision(objects[r.id])
  IN  IF r.command = "create" THEN CreatedObject(r)
      ELSE IF r.command = "archive" THEN [next EXCEPT !.lifecycle = "archived"]
      ELSE IF r.command = "redact" THEN Erased(next, "redacted")
      ELSE IF r.command = "tombstone" THEN Erased(next, "deleted_tombstone")
      ELSE [next EXCEPT !.content = UpdatedContent(@, r)]

\* createAcceptedRoomObjectEventV1
ObjectEventOf(r) ==
  [localSequence    |-> lastSequence + 1,
   id               |-> r.id,
   previousRevision |-> IF r.command = "create" THEN 0 ELSE objects[r.id].revision,
   object           |-> ResultingObject(r)]

\* Fault: the memory log keeps only the events that create an object.
AppendObjectCreationsOnly(event) ==
  /\ log' = IF Retention = "memory_only" /\ event.previousRevision = 0
            THEN Append(log, event) ELSE log
  /\ lastSequence' = event.localSequence

\* The append of either log, with the sequence the log itself proposed.
AppendObjectEvent(event) ==
  /\ log' = IF Retention = "memory_only" THEN Append(log, event) ELSE log
  /\ lastSequence' = event.localSequence

\* Append, then reduce, once every check has passed.
CommitObject(r) ==
  LET event == ObjectEventOf(r)
  IN  /\ lastSequence < MaxLog
      /\ AppendObjectEvent(event)
      /\ objects' = IF ObjectReducible(objects, event)
                    THEN ObjectReduced(objects, event) ELSE objects
      /\ UNCHANGED <<mode, mutable, held>>

------------------------------------------------------------------------------
(* Actions                                                                 *)

ObjectInit ==
  /\ objects = NoObjects
  /\ log = <<>>
  /\ lastSequence = 0
  /\ mode = "standard"
  /\ mutable = TRUE
  /\ held = {}

\* applyLocalRoomObjectMutationV1 for the six create commands.
CreateObject(r) ==
  /\ r.command = "create"
  /\ ReferencesExist(r)
  /\ ObjectAllowed(r)
  /\ ExpectedMatches(r)
  /\ CommitObject(r)

\* The same for the commands on an object there is.
UpdateObject(r) ==
  /\ r.command # "create"
  /\ ReferencesExist(r)
  /\ ObjectAllowed(r)
  /\ ExpectedMatches(r)
  /\ RevisionLeft(objects[r.id])
  /\ LifecycleAllows(objects[r.id].lifecycle, r.command)
  /\ r.command \in ContentUpdates =>
       /\ objects[r.id].content # NoContent
       /\ StatusAllows(r, objects[r.id].content.status)
  /\ CommitObject(r)

HoldCommand(r) ==
  /\ Cardinality(held) < MaxHeld
  /\ held' = held \cup {r}
  /\ UNCHANGED <<objects, log, lastSequence, mode, mutable>>

\* Only a message may refer to another object when it is created.
ComposeCreation ==
  \E id \in ObjectIds, kind \in InputKinds, text \in Texts, ref \in ObjectIds \cup {Nothing} :
    /\ ref # Nothing => kind = "message"
    /\ HoldCommand([command |-> "create", id |-> id, mode |-> mode, seen |-> NoObject,
                    kind |-> kind, text |-> text, status |-> "none", ref |-> ref])

\* The author reads expectedRevision off the object; a command of another
\* kind than the object's is composed as readily as one of its own.
ComposeObjectUpdate(id) ==
  /\ objects[id] # NoObject
  /\ \E command \in InputCommands \ {"create"} :
       \E text \in Texts \cup {Nothing}, status \in InputStatuses \cup {"none"},
          ref \in ObjectIds \cup {Nothing} :
         /\ IF command \in ContentUpdates /\ FieldsWritten[command] # {}
            THEN text = Nothing => command \in OptionalTexts
            ELSE text = Nothing
         /\ command = "task_update_status" => status \in DOMAIN TaskNext
         /\ command = "decision_resolve" => status \in DOMAIN DecisionNext
         /\ command \notin StatusUpdates => status = "none"
         /\ ref # Nothing => command = "decision_resolve"
         /\ HoldCommand([command |-> command, id |-> id, mode |-> mode,
                         seen |-> objects[id], kind |-> objects[id].kind,
                         text |-> text, status |-> status, ref |-> ref])

DropCommand(r) ==
  /\ held' = held \ {r}
  /\ UNCHANGED <<objects, log, lastSequence, mode, mutable>>

\* As in Membership: the emergency mode never allows content mutation.
ResolveObjectPolicy ==
  /\ mode' \in InputModes
  /\ mutable' \in BOOLEAN
  /\ mode' = "emergency" => ~mutable'
  /\ UNCHANGED <<objects, log, lastSequence, held>>

ObjectNext ==
  \/ \E r \in held : CreateObject(r)
  \/ \E r \in held : UpdateObject(r)
  \/ ComposeCreation
  \/ \E id \in ObjectIds : ComposeObjectUpdate(id)
  \/ \E r \in held : DropCommand(r)
  \/ ResolveObjectPolicy

ObjectSpec == ObjectInit /\ [][ObjectNext]_objectVars

------------------------------------------------------------------------------
(* Properties                                                              *)

\* Redaction is one-way: an object's content is null exactly when it is marked
\* redacted, and a redacted or tombstoned object is.
RedactedHasNoContent ==
  \A id \in Existing(objects) :
    /\ objects[id].redacted <=> objects[id].content = NoContent
    /\ objects[id].lifecycle \in {"redacted", "deleted_tombstone"} => objects[id].redacted

\* ... and no command, however late, brings content back or changes a
\* tombstone; every change is one revision of the same kind of object.
ObjectsAdvance ==
  [][\A id \in Existing(objects) :
       objects'[id] # objects[id] =>
         /\ objects'[id] # NoObject
         /\ objects[id].lifecycle # "deleted_tombstone"
         /\ objects'[id].revision = objects[id].revision + 1
         /\ objects'[id].kind = objects[id].kind
         /\ objects[id].content = NoContent => objects'[id].content = NoContent]_objectVars

\* Archived objects are read-only: their content leaves only by redaction.
ArchiveReadOnly ==
  [][\A id \in Existing(objects) :
       objects[id].lifecycle = "archived" =>
         objects'[id].content \in {objects[id].content, NoContent}]_objectVars

\* expectedRevision prevents lost updates: a command that is accepted acts on
\* the very object its author read.
NoLostObjectUpdate ==
  [][\A r \in held : UpdateObject(r) => r.seen = objects[r.id]]_objectVars

\* The revision is an exact fence for commands a caller still holds: what its
\* author saw of the object is never ahead of it and, at equal revision, the
\* object itself (assertRevisionMatch with nextRoomObjectRevision).
CommandsCoherent ==
  \A r \in held :
    r.command # "create" =>
      /\ r.seen # NoObject
      /\ objects[r.id] # NoObject
      /\ r.seen.revision <= objects[r.id].revision
      /\ r.seen.revision = objects[r.id].revision => r.seen = objects[r.id]

\* Where content mutation is denied, in Emergency or by the room policy, a
\* command composed earlier can only take content away.
StrictOnlyErases ==
  [][mode = "emergency" \/ ~mutable =>
       \A id \in ObjectIds :
         objects'[id] # objects[id] =>
           objects[id] # NoObject /\ objects'[id].content = NoContent]_objectVars

\* A reply points to an object of the room, a superseding decision to a
\* decision: references never dangle, since no object disappears.
ReferencesResolve ==
  \A id \in Existing(objects) :
    objects[id].content # NoContent /\ objects[id].content.ref # Nothing =>
      /\ objects[objects[id].content.ref] # NoObject
      /\ objects[id].kind \in {"message", "decision"}
      /\ objects[id].kind = "decision" =>
           objects[objects[id].content.ref].kind = "decision"

\* An object only has statuses of its kind, although the pipeline compares no
\* kind: the transition tables share no status.
StatusFitsKind ==
  \A id \in Existing(objects) :
    objects[id].content # NoContent =>
      objects[id].content.status \in StatusesOf(objects[id].kind)

\* Opening a poll freezes its question and resolved work stays resolved: done
\* and cancelled tasks, superseded decisions and closed polls keep their
\* status, a resolved decision is never proposed and an open poll no draft.
SettledStaysSettled ==
  [][\A id \in Existing(objects) :
       LET before == objects[id].content
           after  == objects'[id].content
       IN  before # NoContent /\ after # NoContent =>
             /\ before.status \in {"done", "cancelled", "superseded", "closed"} =>
                  after.status = before.status
             /\ before.status \in {"accepted", "rejected"} => after.status # "proposed"
             /\ before.status \in {"open", "closed"} =>
                  /\ after.status # "draft"
                  /\ after.text["question"] = before.text["question"]]_objectVars

\* Replaying a memory log gives exactly the projection the callers see.
ObjectsRebuildable == Retention = "memory_only" => ObjectReplay(log) = objects
==============================================================================
