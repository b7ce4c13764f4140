--------------------------- MODULE ObjectProofs ---------------------------
(***************************************************************************)
(* Proofs about RoomObjects, for any objects, texts, bounds and log.       *)
(*                                                                         *)
(* As for membership, a step changes one object at most, and the object it *)
(* leaves is the resulting object of an accepted command (ObjectStep).     *)
(***************************************************************************)
EXTENDS RoomObjects, Recurrence, TLAPS

USE DEF CreateObject, UpdateObject

\* What RedactedHasNoContent says of one object.
Marked(object) ==
  /\ object.redacted <=> object.content = NoContent
  /\ object.lifecycle \in {"redacted", "deleted_tombstone"} => object.redacted

LEMMA MaxRevisionType == MaxRevision \in Nat \ {0}
BY RoomObjectsAssumption DEF RoomObjectsAssumption

LEMMA FirstStatusType == ASSUME NEW k \in Kinds PROVE FirstStatus[k] \in Statuses
BY DEF FirstStatus, Kinds, Statuses, StatusesOf, TaskNext, DecisionNext, PollNext

LEMMA SettableStatuses == {"none", "open", "closed"} \subseteq Statuses
BY DEF Kinds, Statuses, StatusesOf, TaskNext, DecisionNext, PollNext

LEMMA FieldsType ==
  /\ \A k \in Kinds : FieldsOf[k] \in SUBSET FieldNames
  /\ \A c \in ContentUpdates : FieldsWritten[c] \in SUBSET FieldNames
<1>1. \A k \in Kinds : FieldsOf[k] \in SUBSET FieldNames
  BY DEF FieldNames
<1>2. {"body", "tags", "title", "statement", "question", "metadata"} \subseteq FieldNames
  BY DEF FieldNames, FieldsOf, Kinds
<1>3. \A c \in ContentUpdates :
        FieldsWritten[c] \subseteq
          {"body", "tags", "title", "statement", "question", "metadata"}
  BY DEF ContentUpdates, FieldsWritten
<1> QED
  BY <1>1, <1>2, <1>3

\* A content update leaves well-typed content.
LEMMA UpdatedContentType ==
  ASSUME NEW r \in ObjectRequests, r.command \in ContentUpdates,
         NEW content \in Contents
  PROVE  UpdatedContent(content, r) \in Contents
<1> DEFINE written == IF r.text = Nothing THEN {} ELSE FieldsWritten[r.command]
           fields  == DOMAIN content.text \cup written
           text    == [f \in fields |-> IF f \in written THEN r.text ELSE content.text[f]]
           status  == IF r.command \in StatusUpdates THEN r.status
                      ELSE IF r.command = "poll_open" THEN "open"
                      ELSE IF r.command = "poll_close" THEN "closed"
                      ELSE content.status
           ref     == IF r.command = "decision_resolve" /\ r.ref # Nothing
                      THEN r.ref ELSE content.ref
<1>1. PICK old \in SUBSET FieldNames : content.text \in [old -> Texts]
  BY DEF Contents
<1>2. DOMAIN content.text = old /\ \A f \in old : content.text[f] \in Texts
  BY <1>1
<1>3. written \subseteq FieldNames
  BY FieldsType
<1>4. written # {} => r.text \in Texts
  BY DEF ObjectRequests
<1>5. fields \in SUBSET FieldNames
  BY <1>2, <1>3
<1>6. text \in [fields -> Texts]
  BY <1>2, <1>4
<1>7. status \in Statuses
  BY SettableStatuses DEF ObjectRequests, Contents
<1>8. ref \in ObjectIds \cup {Nothing}
  BY DEF ObjectRequests, Contents
<1>9. UpdatedContent(content, r) = [text |-> text, status |-> status, ref |-> ref]
  BY DEF UpdatedContent
<1> HIDE DEF written, fields, text, status, ref
<1>10. text \in UNION {[fs -> Texts] : fs \in SUBSET FieldNames}
  BY <1>5, <1>6
<1> QED
  BY <1>7, <1>8, <1>9, <1>10 DEF Contents

\* The object a creation results in.
LEMMA CreatedType ==
  ASSUME NEW r \in ObjectRequests, r.command = "create"
  PROVE  /\ CreatedObject(r) \in Objects
         /\ CreatedObject(r).content \in Contents
         /\ ~CreatedObject(r).redacted
         /\ CreatedObject(r).lifecycle = "active"
<1> DEFINE text    == [field \in FieldsOf[r.kind] |-> r.text]
           content == [text |-> text, status |-> FirstStatus[r.kind], ref |-> r.ref]
<1>1. /\ r.kind \in Kinds
      /\ r.text \in Texts
      /\ r.ref \in ObjectIds \cup {Nothing}
  BY DEF ObjectRequests
<1>2. text \in [FieldsOf[r.kind] -> Texts]
  BY <1>1
<1>3. text \in UNION {[fs -> Texts] : fs \in SUBSET FieldNames}
  BY <1>1, <1>2, FieldsType
<1>4. FirstStatus[r.kind] \in Statuses
  BY <1>1, FirstStatusType
<1>5. content \in Contents
  <2> HIDE DEF text
  <2> QED
    BY <1>1, <1>3, <1>4 DEF Contents
<1>6. CreatedObject(r) =
        [kind |-> r.kind, revision |-> 1, lifecycle |-> "active",
         redacted |-> FALSE, content |-> content]
  BY DEF CreatedObject
<1> HIDE DEF content
<1> QED
  BY <1>1, <1>5, <1>6, MaxRevisionType DEF Objects, ObjectLifecycles

LEMMA HeldAreCommands ==
  ASSUME ObjectTypeOK, NEW r \in held
  PROVE  r \in ObjectRequests
BY DEF ObjectTypeOK

\* What an accepted update makes of the object it finds.
LEMMA UpdatedType ==
  ASSUME ObjectTypeOK, NEW r \in ObjectRequests, UpdateObject(r)
  PROVE  LET old == objects[r.id]
             new == ResultingObject(r)
         IN  /\ old \in Objects
             /\ new \in Objects
             /\ new.revision = old.revision + 1
             /\ new.kind = old.kind
             /\ old.content = NoContent => new.content = NoContent
             /\ r.command \in SafeDirection => new.content = NoContent
             /\ Marked(old) => Marked(new)
<1> DEFINE old  == objects[r.id]
           next == NextRevision(old)
           new  == ResultingObject(r)
<1>1. r \in ObjectRequests /\ r.command # "create"
  BY DEF ObjectTypeOK
<1>2. old \in Objects
  BY <1>1 DEF ObjectTypeOK, ExpectedMatches, ObjectRequests
<1>3. /\ next \in Objects
      /\ next.revision = old.revision + 1
      /\ next.kind = old.kind
      /\ next.content = old.content
      /\ Marked(old) => Marked(next)
  BY <1>2, MaxRevisionType DEF NextRevision, RevisionLeft, Objects, Marked
<1> HIDE DEF next
<1>4. CASE r.command = "archive"
  <2>1. new = [next EXCEPT !.lifecycle = "archived"]
    BY <1>4 DEF ResultingObject, next
  <2> QED
    BY <1>2, <1>3, <1>4, <2>1 DEF Objects, ObjectLifecycles, Marked, SafeDirection
<1>5. CASE r.command \in SafeDirection
  <2>1. PICK l \in ObjectLifecycles : new = Erased(next, l)
    BY <1>5 DEF ResultingObject, next, SafeDirection, ObjectLifecycles
  <2> QED
    BY <1>2, <1>3, <2>1 DEF Erased, Objects, Marked
<1>6. CASE r.command \in ContentUpdates
  <2>1. new = [next EXCEPT !.content = UpdatedContent(next.content, r)]
    BY <1>6 DEF ResultingObject, next, ContentUpdates, FieldsWritten
  <2>2. next.content \in Contents
    BY <1>2, <1>3, <1>6 DEF Objects
  <2>3. UpdatedContent(next.content, r) \in Contents
    BY <1>1, <1>6, <2>2, UpdatedContentType
  <2> QED
    BY <1>2, <1>3, <1>6, <2>1, <2>3, NoContentAssumption
       DEF NoContentAssumption, Objects, Marked, ContentUpdates, FieldsWritten,
           SafeDirection
<1> QED
  BY <1>1, <1>4, <1>5, <1>6 DEF ObjectRequests, ObjectCommands

\* The object an accepted command results in, whichever it is.
LEMMA ResultingType ==
  ASSUME ObjectTypeOK, NEW r \in ObjectRequests, CreateObject(r) \/ UpdateObject(r)
  PROVE  /\ r \in ObjectRequests
         /\ ResultingObject(r) \in Objects
         /\ ObjectEventOf(r) \in ObjectEvents
<1>1. r \in ObjectRequests /\ lastSequence \in Nat
  BY DEF ObjectTypeOK
<1>2. ResultingObject(r) \in Objects
  <2>1. CASE CreateObject(r)
    BY <1>1, <2>1, CreatedType DEF ResultingObject
  <2>2. CASE UpdateObject(r)
    BY <2>2, UpdatedType
  <2> QED
    BY <2>1, <2>2
<1>3. r.command # "create" => objects[r.id] \in Objects
  BY UpdatedType
<1> QED
  BY <1>1, <1>2, <1>3, MaxRevisionType
     DEF ObjectEventOf, ObjectEvents, ObjectRequests, Objects

\* A submission writes at most its object, with the resulting one.
LEMMA CommitWritesObject ==
  ASSUME ObjectTypeOK, NEW r \in ObjectRequests, CreateObject(r) \/ UpdateObject(r)
  PROVE  /\ r.id \in ObjectIds
         /\ \/ objects' = objects
            \/ /\ ObjectReducible(objects, ObjectEventOf(r))
               /\ objects' = [objects EXCEPT ![r.id] = ResultingObject(r)]
         /\ UNCHANGED <<mode, mutable, held>>
<1>1. r.id \in ObjectIds
  BY ResultingType DEF ObjectRequests
<1>2. ObjectEventOf(r).id = r.id /\ ObjectEventOf(r).object = ResultingObject(r)
  BY DEF ObjectEventOf
<1>3. CommitObject(r)
  OBVIOUS
<1> QED
  BY <1>1, <1>2, <1>3 DEF CommitObject, ObjectReduced

------------------------------------------------------------------------------
(* Type correctness                                                        *)

LEMMA SubmitObjectTypeOK ==
  ASSUME ObjectTypeOK, NEW r \in ObjectRequests, CreateObject(r) \/ UpdateObject(r)
  PROVE  ObjectTypeOK'
<1>1. ObjectEventOf(r) \in ObjectEvents /\ ResultingObject(r) \in Objects
  BY ResultingType
<1>2. ObjectEventOf(r).localSequence = lastSequence + 1
  BY DEF ObjectEventOf
<1>3. lastSequence' \in Nat /\ log' \in Seq(ObjectEvents)
  BY <1>1, <1>2 DEF CommitObject, AppendObjectEvent, ObjectTypeOK
<1>4. objects' \in [ObjectIds -> Objects \cup {NoObject}]
  BY <1>1, CommitWritesObject DEF ObjectTypeOK
<1> QED
  BY <1>3, <1>4, CommitWritesObject DEF ObjectTypeOK

ComposeObject == ComposeCreation \/ \E id \in ObjectIds : ComposeObjectUpdate(id)

\* Whatever is composed is a request made of the object just read.
LEMMA ComposeAddsCommand ==
  ASSUME ObjectTypeOK, ComposeObject
  PROVE  /\ UNCHANGED <<objects, log, lastSequence, mode, mutable>>
         /\ \E r \in ObjectRequests :
              /\ held' = held \cup {r}
              /\ r.command # "create" =>
                   /\ r.seen = objects[r.id]
                   /\ objects[r.id] # NoObject
<1>1. /\ \A id \in ObjectIds : objects[id] \in Objects \cup {NoObject}
      /\ mode \in Modes
  BY DEF ObjectTypeOK
<1>2. /\ InputKinds \subseteq Kinds
      /\ InputCommands \subseteq ObjectCommands
      /\ InputStatuses \cup {"none"} \subseteq Statuses
  BY InputCommandsAssumption, SettableStatuses DEF InputCommandsAssumption
<1>3. CASE ComposeCreation
  <2>1. PICK id \in ObjectIds, kind \in InputKinds, text \in Texts,
             ref \in ObjectIds \cup {Nothing} :
          /\ ref # Nothing => kind = "message"
          /\ HoldCommand([command |-> "create", id |-> id, mode |-> mode,
                          seen |-> NoObject, kind |-> kind, text |-> text,
                          status |-> "none", ref |-> ref])
    BY <1>3 DEF ComposeCreation
  <2> DEFINE r == [command |-> "create", id |-> id, mode |-> mode,
                   seen |-> NoObject, kind |-> kind, text |-> text,
                   status |-> "none", ref |-> ref]
  <2>2. r \in ObjectRequests
    BY <1>1, <1>2, <2>1 DEF ObjectRequests, ObjectCommands
  <2>3. r.command = "create"
    OBVIOUS
  <2>4. /\ held' = held \cup {r}
        /\ UNCHANGED <<objects, log, lastSequence, mode, mutable>>
    BY <2>1 DEF HoldCommand
  <2> HIDE DEF r
  <2> QED
    BY <2>2, <2>3, <2>4
<1>4. CASE \E id \in ObjectIds : ComposeObjectUpdate(id)
  <2>1. PICK id \in ObjectIds : ComposeObjectUpdate(id)
    BY <1>4
  <2>2. objects[id] \in Objects /\ objects[id] # NoObject
    BY <1>1, <2>1 DEF ComposeObjectUpdate
  <2>3. PICK command \in InputCommands \ {"create"}, text \in Texts \cup {Nothing},
             status \in InputStatuses \cup {"none"}, ref \in ObjectIds \cup {Nothing} :
          HoldCommand([command |-> command, id |-> id, mode |-> mode,
                       seen |-> objects[id], kind |-> objects[id].kind,
                       text |-> text, status |-> status, ref |-> ref])
    BY <2>1 DEF ComposeObjectUpdate
  <2> DEFINE r == [command |-> command, id |-> id, mode |-> mode,
                   seen |-> objects[id], kind |-> objects[id].kind,
                   text |-> text, status |-> status, ref |-> ref]
  <2>4. objects[id].kind \in Kinds
    BY <2>2 DEF Objects
  <2>5. r \in ObjectRequests
    BY <1>1, <1>2, <2>2, <2>4 DEF ObjectRequests
  <2>6. r.id = id /\ r.seen = objects[id]
    OBVIOUS
  <2>7. /\ held' = held \cup {r}
        /\ UNCHANGED <<objects, log, lastSequence, mode, mutable>>
    BY <2>3 DEF HoldCommand
  <2> HIDE DEF r
  <2> QED
    BY <2>2, <2>5, <2>6, <2>7
<1> QED
  BY <1>3, <1>4 DEF ComposeObject

LEMMA ObjectTypeOKStep ==
  ASSUME ObjectTypeOK, [ObjectNext]_objectVars
  PROVE  ObjectTypeOK'
<1>1. CASE \E r \in held : CreateObject(r) \/ UpdateObject(r)
  BY <1>1, HeldAreCommands, SubmitObjectTypeOK
<1>2. CASE ComposeObject
  BY <1>2, ComposeAddsCommand DEF ObjectTypeOK
<1>3. CASE \E r \in held : DropCommand(r)
  BY <1>3 DEF DropCommand, ObjectTypeOK
<1>4. CASE ResolveObjectPolicy
  BY <1>4, RoomObjectsAssumption
     DEF ResolveObjectPolicy, RoomObjectsAssumption, ObjectTypeOK
<1>5. CASE UNCHANGED objectVars
  BY <1>5 DEF objectVars, ObjectTypeOK
<1> QED
  BY <1>1, <1>2, <1>3, <1>4, <1>5 DEF ObjectNext, ComposeObject

\* Every object, event and command is well formed (the model of the schemas).
THEOREM ObjectTypeCorrect == ObjectSpec => []ObjectTypeOK
<1>1. ObjectInit => ObjectTypeOK
  BY DEF ObjectInit, NoObjects, ObjectTypeOK, Modes
<1> QED
  BY <1>1, ObjectTypeOKStep, PTL DEF ObjectSpec

------------------------------------------------------------------------------
(* Objects advance by accepted commands only                               *)

\* An accepted command changes only the object it names: a creation one there
\* was not, an update one that is no tombstone.
LEMMA AcceptedWrites ==
  ASSUME ObjectTypeOK, NEW r \in ObjectRequests, CreateObject(r) \/ UpdateObject(r),
         NEW id \in ObjectIds, objects'[id] # objects[id]
  PROVE  /\ r.id = id
         /\ objects'[id] = ResultingObject(r)
         /\ \/ CreateObject(r) /\ objects[id] = NoObject
            \/ /\ UpdateObject(r)
               /\ objects[id] # NoObject
               /\ objects[id].lifecycle # "deleted_tombstone"
<1>1. /\ r.id \in ObjectIds
      /\ ObjectReducible(objects, ObjectEventOf(r))
      /\ objects' = [objects EXCEPT ![r.id] = ResultingObject(r)]
  BY CommitWritesObject
<1>2. r.id = id /\ objects'[id] = ResultingObject(r)
  BY <1>1 DEF ObjectTypeOK
<1>3. CASE CreateObject(r)
  BY <1>2, <1>3 DEF ExpectedMatches
<1>4. CASE UpdateObject(r)
  <2>1. objects[id] \in Objects /\ objects[id] # NoObject
    BY <1>2, <1>4, UpdatedType, NoObjectAssumption DEF NoObjectAssumption
  <2>2. /\ ObjectEventOf(r).previousRevision # 0
        /\ ObjectEventOf(r).id = id
    BY <1>2, <1>4, <2>1 DEF ObjectEventOf, Objects
  <2>3. objects[id].lifecycle # "deleted_tombstone"
    BY <1>1, <2>2 DEF ObjectReducible
  <2> QED
    BY <1>2, <1>4, <2>1, <2>3
<1> QED
  BY <1>3, <1>4

\* So does every step: an object changes only by an accepted command.
LEMMA ObjectStep ==
  ASSUME ObjectTypeOK, [ObjectNext]_objectVars,
         NEW id \in ObjectIds, objects'[id] # objects[id]
  PROVE  \E r \in held :
           /\ r.id = id
           /\ objects'[id] = ResultingObject(r)
           /\ \/ CreateObject(r) /\ objects[id] = NoObject
              \/ /\ UpdateObject(r)
                 /\ objects[id] # NoObject
                 /\ objects[id].lifecycle # "deleted_tombstone"
<1>1. ~ UNCHANGED objects
  OBVIOUS
<1>2. PICK r \in held : CreateObject(r) \/ UpdateObject(r)
  BY <1>1, ComposeAddsCommand
     DEF ObjectNext, ComposeObject, DropCommand, ResolveObjectPolicy, objectVars
<1> QED
  BY <1>2, HeldAreCommands, AcceptedWrites

LEMMA ObjectAdvances ==
  ASSUME ObjectTypeOK, [ObjectNext]_objectVars,
         NEW id \in Existing(objects), objects'[id] # objects[id]
  PROVE  /\ objects'[id] # NoObject
         /\ objects[id].lifecycle # "deleted_tombstone"
         /\ objects'[id].revision = objects[id].revision + 1
         /\ objects'[id].kind = objects[id].kind
         /\ objects[id].content = NoContent => objects'[id].content = NoContent
<1>1. id \in ObjectIds /\ objects[id] # NoObject
  BY DEF Existing
<1>2. PICK r \in held :
        /\ r.id = id
        /\ objects'[id] = ResultingObject(r)
        /\ UpdateObject(r)
        /\ objects[id].lifecycle # "deleted_tombstone"
  BY <1>1, ObjectStep
<1> QED
  BY <1>2, HeldAreCommands, UpdatedType, NoObjectAssumption DEF NoObjectAssumption

\* Every change of an object is one revision of the same kind of object, never
\* of a tombstone, and never brings content back (object reducer with
\* assertObjectLifecycleAllows).
THEOREM ObjectsAlwaysAdvance == ObjectSpec => ObjectsAdvance
<1>1. ObjectTypeOK /\ [ObjectNext]_objectVars =>
        [\A id \in Existing(objects) :
           objects'[id] # objects[id] =>
             /\ objects'[id] # NoObject
             /\ objects[id].lifecycle # "deleted_tombstone"
             /\ objects'[id].revision = objects[id].revision + 1
             /\ objects'[id].kind = objects[id].kind
             /\ objects[id].content = NoContent =>
                  objects'[id].content = NoContent]_objectVars
  BY ObjectAdvances
<1> QED
  BY <1>1, ObjectTypeCorrect, PTL DEF ObjectSpec, ObjectsAdvance

------------------------------------------------------------------------------
(* Redaction                                                               *)

LEMMA RedactedStep ==
  ASSUME ObjectTypeOK, RedactedHasNoContent, [ObjectNext]_objectVars
  PROVE  RedactedHasNoContent'
<1>1. SUFFICES ASSUME NEW id \in ObjectIds, objects'[id] # NoObject
               PROVE  Marked(objects'[id])
  BY DEF RedactedHasNoContent, Existing, Marked
<1>2. objects[id] # NoObject => Marked(objects[id])
  BY DEF RedactedHasNoContent, Existing, Marked
<1>3. CASE objects'[id] = objects[id]
  BY <1>1, <1>2, <1>3
<1>4. CASE objects'[id] # objects[id]
  <2>1. PICK r \in held :
          /\ r.id = id
          /\ objects'[id] = ResultingObject(r)
          /\ \/ CreateObject(r)
             \/ UpdateObject(r) /\ objects[id] # NoObject
    BY <1>4, ObjectStep
  <2>2. CASE CreateObject(r)
    <3>1. r \in ObjectRequests /\ r.command = "create"
      BY <2>2 DEF ObjectTypeOK
    <3>2. objects'[id] = CreatedObject(r)
      BY <2>1, <3>1 DEF ResultingObject
    <3> QED
      BY <3>1, <3>2, CreatedType, NoContentAssumption
         DEF NoContentAssumption, Marked
  <2>3. CASE UpdateObject(r) /\ objects[id] # NoObject
    BY <1>2, <2>1, <2>3, HeldAreCommands, UpdatedType
  <2> QED
    BY <2>1, <2>2, <2>3
<1> QED
  BY <1>3, <1>4

\* An object has no content exactly when it is marked redacted, and a redacted
\* or tombstoned object is (buildResultingObject).
THEOREM RedactedNeverHasContent == ObjectSpec => []RedactedHasNoContent
<1>1. ObjectInit => RedactedHasNoContent
  BY DEF ObjectInit, NoObjects, RedactedHasNoContent, Existing
<1> QED
  BY <1>1, RedactedStep, ObjectTypeCorrect, PTL DEF ObjectSpec

------------------------------------------------------------------------------
(* The revision fence                                                      *)

\* CommandsCoherent, for one command.
CoherentCommand(r) ==
  r.command # "create" =>
    /\ r.seen # NoObject
    /\ objects[r.id] # NoObject
    /\ r.seen.revision <= objects[r.id].revision
    /\ r.seen.revision = objects[r.id].revision => r.seen = objects[r.id]

\* A step leaves what its author saw of an object coherent.
LEMMA CoherentCommandStep ==
  ASSUME ObjectTypeOK, [ObjectNext]_objectVars,
         NEW r \in ObjectRequests, CoherentCommand(r)
  PROVE  CoherentCommand(r)'
<1>1. SUFFICES ASSUME r.command # "create"
               PROVE  /\ r.seen # NoObject
                      /\ objects'[r.id] # NoObject
                      /\ r.seen.revision <= objects'[r.id].revision
                      /\ r.seen.revision = objects'[r.id].revision =>
                           r.seen = objects'[r.id]
  BY DEF CoherentCommand
<1>2. /\ r.seen \in Objects /\ r.seen # NoObject
      /\ r.id \in ObjectIds
      /\ objects[r.id] \in Objects /\ objects[r.id] # NoObject
  BY <1>1 DEF CoherentCommand, ObjectRequests, ObjectTypeOK
<1>3. r.seen.revision \in Nat /\ objects[r.id].revision \in Nat
  BY <1>2, MaxRevisionType DEF Objects
<1>4. CASE objects'[r.id] = objects[r.id]
  BY <1>1, <1>4 DEF CoherentCommand
<1>5. CASE objects'[r.id] # objects[r.id]
  <2>1. /\ objects'[r.id] # NoObject
        /\ objects'[r.id].revision = objects[r.id].revision + 1
    BY <1>2, <1>5, ObjectAdvances DEF Existing
  <2>2. r.seen.revision < objects'[r.id].revision
    BY <1>1, <1>3, <2>1 DEF CoherentCommand
  <2> QED
    BY <1>2, <1>3, <2>1, <2>2
<1> QED
  BY <1>4, <1>5

LEMMA CommandsCoherentStep ==
  ASSUME ObjectTypeOK, CommandsCoherent, [ObjectNext]_objectVars
  PROVE  CommandsCoherent'
<1>1. \A r \in held : CoherentCommand(r)'
  BY CoherentCommandStep DEF CommandsCoherent, CoherentCommand, ObjectTypeOK
<1>2. CASE held' \subseteq held
  BY <1>1, <1>2 DEF CommandsCoherent, CoherentCommand
<1>3. CASE ComposeObject
  <2>1. PICK r \in ObjectRequests :
          /\ held' = held \cup {r}
          /\ r.command # "create" => r.seen = objects[r.id] /\ objects[r.id] # NoObject
    BY <1>3, ComposeAddsCommand
  <2>2. CoherentCommand(r)
    <3>1. SUFFICES ASSUME r.command # "create"
                   PROVE  objects[r.id].revision <= objects[r.id].revision
      BY <2>1 DEF CoherentCommand
    <3>2. objects[r.id] \in Objects
      BY <2>1, <3>1 DEF ObjectTypeOK, ObjectRequests
    <3> QED
      BY <3>2, MaxRevisionType DEF Objects
  <2>3. CoherentCommand(r)'
    BY <2>2, CoherentCommandStep
  <2> QED
    BY <1>1, <2>1, <2>3 DEF CommandsCoherent, CoherentCommand
<1> QED
  BY <1>2, <1>3, HeldAreCommands, CommitWritesObject
     DEF ObjectNext, ComposeObject, DropCommand, ResolveObjectPolicy, objectVars

\* The expected revision is an exact fence for every command a caller holds.
THEOREM CommandsAlwaysCoherent == ObjectSpec => []CommandsCoherent
<1>1. ObjectInit => CommandsCoherent
  BY DEF ObjectInit, CommandsCoherent
<1> QED
  BY <1>1, CommandsCoherentStep, ObjectTypeCorrect, PTL DEF ObjectSpec

\* An accepted update acts on the object its author read (assertRevisionMatch).
THEOREM ObjectUpdatesNeverLost == ObjectSpec => NoLostObjectUpdate
<1>1. ObjectTypeOK /\ CommandsCoherent /\ [ObjectNext]_objectVars =>
        [\A r \in held : UpdateObject(r) => r.seen = objects[r.id]]_objectVars
  BY DEF CommandsCoherent, ExpectedMatches
<1> QED
  BY <1>1, ObjectTypeCorrect, CommandsAlwaysCoherent, PTL
     DEF ObjectSpec, NoLostObjectUpdate

------------------------------------------------------------------------------
(* Strict policy                                                           *)

\* In Emergency the room policy denies content mutation.
EmergencyIsStrict == mode = "emergency" => ~mutable

LEMMA EmergencyIsStrictStep ==
  ASSUME ObjectTypeOK, EmergencyIsStrict, [ObjectNext]_objectVars
  PROVE  EmergencyIsStrict'
<1>1. CASE ResolveObjectPolicy
  BY <1>1 DEF ResolveObjectPolicy, EmergencyIsStrict
<1>2. CASE ~ResolveObjectPolicy
  BY <1>2, HeldAreCommands, CommitWritesObject, ComposeAddsCommand
     DEF ObjectNext, ComposeObject, DropCommand, objectVars, EmergencyIsStrict
<1> QED
  BY <1>1, <1>2

LEMMA StrictStep ==
  ASSUME ObjectTypeOK, EmergencyIsStrict, [ObjectNext]_objectVars,
         mode = "emergency" \/ ~mutable,
         NEW id \in ObjectIds, objects'[id] # objects[id]
  PROVE  objects[id] # NoObject /\ objects'[id].content = NoContent
<1>1. PICK r \in held :
        /\ r.id = id
        /\ objects'[id] = ResultingObject(r)
        /\ \/ CreateObject(r)
           \/ UpdateObject(r) /\ objects[id] # NoObject
  BY ObjectStep
<1>2. r.command \in SafeDirection
  BY <1>1 DEF EmergencyIsStrict, ObjectAllowed
<1>3. UpdateObject(r) /\ objects[id] # NoObject
  BY <1>1, <1>2 DEF SafeDirection
<1> QED
  BY <1>1, <1>2, <1>3, HeldAreCommands, UpdatedType

\* Where content mutation is denied, a command composed earlier can only take
\* content away (resolveRoomObjectMutationPolicy).
THEOREM StrictAlwaysErases == ObjectSpec => StrictOnlyErases
<1>1. ObjectInit => EmergencyIsStrict
  BY DEF ObjectInit, EmergencyIsStrict
<1>2. ObjectTypeOK /\ EmergencyIsStrict /\ [ObjectNext]_objectVars =>
        [mode = "emergency" \/ ~mutable =>
           \A id \in ObjectIds :
             objects'[id] # objects[id] =>
               objects[id] # NoObject /\ objects'[id].content = NoContent]_objectVars
  BY StrictStep
<1> QED
  BY <1>1, <1>2, EmergencyIsStrictStep, ObjectTypeCorrect, PTL
     DEF ObjectSpec, StrictOnlyErases

\* Archived objects are read-only: their content leaves only by redaction
\* (assertObjectLifecycleAllows).
THEOREM ArchiveAlwaysReadOnly == ObjectSpec => ArchiveReadOnly
<1>1. ASSUME ObjectTypeOK, [ObjectNext]_objectVars,
             NEW id \in Existing(objects), objects[id].lifecycle = "archived"
      PROVE  objects'[id].content \in {objects[id].content, NoContent}
  <2>1. CASE objects'[id] = objects[id]
    BY <2>1
  <2>2. CASE objects'[id] # objects[id]
    <3>1. PICK r \in held :
            /\ r.id = id
            /\ objects'[id] = ResultingObject(r)
            /\ UpdateObject(r)
      BY <1>1, <2>2, ObjectStep DEF Existing
    <3>2. r.command \in SafeDirection
      BY <1>1, <3>1 DEF LifecycleAllows
    <3> QED
      BY <1>1, <3>1, <3>2, HeldAreCommands, UpdatedType
  <2> QED
    BY <2>1, <2>2
<1>2. ObjectTypeOK /\ [ObjectNext]_objectVars =>
        [\A id \in Existing(objects) :
           objects[id].lifecycle = "archived" =>
             objects'[id].content \in {objects[id].content, NoContent}]_objectVars
  BY <1>1
<1> QED
  BY <1>2, ObjectTypeCorrect, PTL DEF ObjectSpec, ArchiveReadOnly

------------------------------------------------------------------------------
(* Statuses and references                                                 *)

\* The transition tables are closed and share no status.
LEMMA StatusTables ==
  ASSUME NEW k \in Kinds, NEW s \in StatusesOf(k)
  PROVE  /\ s \in DOMAIN TaskNext => k = "task" /\ TaskNext[s] \subseteq StatusesOf(k)
         /\ s \in DOMAIN DecisionNext =>
              k = "decision" /\ DecisionNext[s] \subseteq StatusesOf(k)
         /\ s = "draft" => "open" \in StatusesOf(k)
         /\ s = "open" => "closed" \in StatusesOf(k)
BY DEF Kinds, StatusesOf, TaskNext, DecisionNext, PollNext

\* The status and the reference of the object an accepted command results in.
LEMMA CreatedStatus ==
  ASSUME NEW r \in ObjectRequests, r.command = "create"
  PROVE  /\ CreatedObject(r).content.status \in StatusesOf(CreatedObject(r).kind)
         /\ CreatedObject(r).content.ref = r.ref
         /\ CreatedObject(r).kind = r.kind
<1>1. r.kind \in Kinds
  BY DEF ObjectRequests
<1>2. FirstStatus[r.kind] \in StatusesOf(r.kind)
  BY <1>1 DEF FirstStatus, Kinds, StatusesOf, TaskNext, DecisionNext, PollNext
<1> QED
  BY <1>2 DEF CreatedObject

LEMMA UpdatedStatus ==
  ASSUME ObjectTypeOK, NEW r \in held, UpdateObject(r),
         ResultingObject(r).content # NoContent
  PROVE  LET old == objects[r.id]
             new == ResultingObject(r)
         IN  /\ old.content # NoContent
             /\ \/ new.content = old.content
                \/ new.content = UpdatedContent(old.content, r)
             /\ old.content.status \in StatusesOf(old.kind) =>
                  new.content.status \in StatusesOf(old.kind)
             /\ \/ new.content.ref = old.content.ref
                \/ /\ new.content.ref = r.ref
                   /\ r.command = "decision_resolve"
                   /\ old.content.status \in DOMAIN DecisionNext
<1> DEFINE old  == objects[r.id]
           next == NextRevision(old)
           new  == ResultingObject(r)
<1>1. r \in ObjectRequests /\ r.command # "create" /\ r.command \notin SafeDirection
  BY HeldAreCommands, UpdatedType DEF ObjectTypeOK
<1>2. old \in Objects /\ new \in Objects /\ old.content # NoContent
  BY HeldAreCommands, UpdatedType
<1>3. old.kind \in Kinds
  BY <1>2 DEF Objects
<1>4. next \in [kind : Kinds, revision : Int, lifecycle : ObjectLifecycles,
                redacted : BOOLEAN, content : Contents \cup {NoContent}]
      /\ next.content = old.content
  BY <1>2, MaxRevisionType DEF NextRevision, Objects
<1> HIDE DEF next
<1>5. CASE r.command = "archive"
  <2>1. new = [next EXCEPT !.lifecycle = "archived"]
    BY <1>5 DEF ResultingObject, next
  <2>2. new.content = old.content
    BY <1>4, <2>1
  <2> QED
    BY <1>2, <2>2
<1>6. CASE r.command \in ContentUpdates
  <2>1. new = [next EXCEPT !.content = UpdatedContent(next.content, r)]
    BY <1>6 DEF ResultingObject, next, ContentUpdates, FieldsWritten
  <2>2. new.content = UpdatedContent(old.content, r)
    BY <1>4, <2>1
  <2>3. StatusAllows(r, old.content.status)
    BY <1>6
  <2>4. old.content.status \in StatusesOf(old.kind) =>
          new.content.status \in StatusesOf(old.kind)
    BY <1>3, <2>2, <2>3, StatusTables DEF UpdatedContent, StatusAllows, StatusUpdates
  <2>5. \/ new.content.ref = old.content.ref
        \/ /\ new.content.ref = r.ref
           /\ r.command = "decision_resolve"
           /\ old.content.status \in DOMAIN DecisionNext
    BY <2>2, <2>3 DEF UpdatedContent, StatusAllows
  <2> QED
    BY <1>2, <2>2, <2>4, <2>5
<1> QED
  BY <1>1, <1>5, <1>6 DEF ObjectRequests, ObjectCommands

LEMMA StatusFitsKindStep ==
  ASSUME ObjectTypeOK, StatusFitsKind, [ObjectNext]_objectVars
  PROVE  StatusFitsKind'
<1>1. SUFFICES ASSUME NEW id \in ObjectIds, objects'[id] # NoObject,
                      objects'[id].content # NoContent
               PROVE  objects'[id].content.status \in StatusesOf(objects'[id].kind)
  BY DEF StatusFitsKind, Existing
<1>2. CASE objects'[id] = objects[id]
  BY <1>1, <1>2 DEF StatusFitsKind, Existing
<1>3. CASE objects'[id] # objects[id]
  <2>1. PICK r \in held :
          /\ r.id = id
          /\ objects'[id] = ResultingObject(r)
          /\ \/ CreateObject(r)
             \/ UpdateObject(r) /\ objects[id] # NoObject
    BY <1>3, ObjectStep
  <2>2. CASE CreateObject(r)
    <3>1. r \in ObjectRequests /\ r.command = "create"
      BY <2>2 DEF ObjectTypeOK
    <3> QED
      BY <2>1, <3>1, CreatedStatus DEF ResultingObject
  <2>3. CASE UpdateObject(r) /\ objects[id] # NoObject
    <3>1. objects[id].content # NoContent
      BY <1>1, <2>1, <2>3, UpdatedStatus
    <3>2. objects[id].content.status \in StatusesOf(objects[id].kind)
      BY <2>3, <3>1 DEF StatusFitsKind, Existing
    <3> QED
      BY <1>1, <2>1, <2>3, <3>2, UpdatedStatus, HeldAreCommands, UpdatedType
  <2> QED
    BY <2>1, <2>2, <2>3
<1> QED
  BY <1>2, <1>3

\* An object only has statuses of its kind, although no kind is compared: the
\* transition tables are closed and share no status (applyContentUpdate).
THEOREM StatusAlwaysFitsKind == ObjectSpec => []StatusFitsKind
<1>1. ObjectInit => StatusFitsKind
  BY DEF ObjectInit, NoObjects, StatusFitsKind, Existing
<1> QED
  BY <1>1, StatusFitsKindStep, ObjectTypeCorrect, PTL DEF ObjectSpec

\* What ReferencesResolve says of one reference of an object of a kind.
Resolved(kind, ref) ==
  ref # Nothing =>
    /\ objects[ref] # NoObject
    /\ kind \in {"message", "decision"}
    /\ kind = "decision" => objects[ref].kind = "decision"

LEMMA ResolvedStep ==
  ASSUME ObjectTypeOK, [ObjectNext]_objectVars, NEW kind,
         NEW ref \in ObjectIds \cup {Nothing}, Resolved(kind, ref)
  PROVE  Resolved(kind, ref)'
<1>1. SUFFICES ASSUME ref # Nothing
               PROVE  /\ objects'[ref] # NoObject
                      /\ objects'[ref].kind = objects[ref].kind
  BY DEF Resolved
<1>2. ref \in Existing(objects)
  BY <1>1 DEF Resolved, Existing
<1>3. CASE objects'[ref] = objects[ref]
  BY <1>2, <1>3 DEF Existing
<1>4. CASE objects'[ref] # objects[ref]
  BY <1>2, <1>4, ObjectAdvances
<1> QED
  BY <1>3, <1>4

LEMMA ReferencesResolveStep ==
  ASSUME ObjectTypeOK, StatusFitsKind, ReferencesResolve, [ObjectNext]_objectVars
  PROVE  ReferencesResolve'
<1>1. SUFFICES ASSUME NEW id \in ObjectIds, objects'[id] # NoObject,
                      objects'[id].content # NoContent,
                      NEW kind, kind = objects'[id].kind,
                      NEW ref, ref = objects'[id].content.ref
               PROVE  Resolved(kind, ref)'
  BY DEF ReferencesResolve, Existing, Resolved
\* The reference the object had before the step.
<1>2. ASSUME objects[id] # NoObject, objects[id].content # NoContent,
             kind = objects[id].kind, ref = objects[id].content.ref
      PROVE  Resolved(kind, ref)'
  <2>1. objects[id] \in Objects /\ objects[id].content \in Contents
    BY <1>2 DEF ObjectTypeOK, Objects
  <2>2. ref \in ObjectIds \cup {Nothing}
    BY <1>2, <2>1 DEF Contents
  <2>3. Resolved(kind, ref)
    BY <1>2 DEF ReferencesResolve, Existing, Resolved
  <2> QED
    BY <2>2, <2>3, ResolvedStep
<1>3. CASE objects'[id] = objects[id]
  BY <1>1, <1>2, <1>3
<1>4. CASE objects'[id] # objects[id]
  <2>1. PICK r \in held :
          /\ r.id = id
          /\ objects'[id] = ResultingObject(r)
          /\ \/ CreateObject(r)
             \/ UpdateObject(r) /\ objects[id] # NoObject
    BY <1>4, ObjectStep
  <2>2. r \in ObjectRequests /\ r.ref \in ObjectIds \cup {Nothing}
    BY DEF ObjectTypeOK, ObjectRequests
  <2>3. CASE CreateObject(r)
    <3>1. ref = r.ref /\ kind = r.kind
      BY <1>1, <2>1, <2>2, <2>3, CreatedStatus DEF ResultingObject
    <3>2. Resolved(kind, ref)
      BY <2>2, <2>3, <3>1 DEF Resolved, ReferencesExist, ObjectRequests
    <3> QED
      BY <2>2, <3>1, <3>2, ResolvedStep
  <2>4. CASE UpdateObject(r) /\ objects[id] # NoObject
    <3>1. kind = objects[id].kind /\ objects[id] \in Objects
      BY <1>1, <2>1, <2>4, HeldAreCommands, UpdatedType
    <3>2. objects[id].content # NoContent
      BY <1>1, <2>1, <2>4, UpdatedStatus
    <3>3. CASE ref = objects[id].content.ref
      BY <1>2, <2>4, <3>1, <3>2, <3>3
    <3>4. CASE /\ ref = r.ref
               /\ r.command = "decision_resolve"
               /\ objects[id].content.status \in DOMAIN DecisionNext
      <4>1. objects[id].content.status \in StatusesOf(kind)
        BY <2>4, <3>1, <3>2 DEF StatusFitsKind, Existing
      <4>2. kind = "decision"
        BY <3>1, <3>4, <4>1, StatusTables DEF Objects
      <4>3. Resolved(kind, ref)
        BY <2>4, <3>4, <4>2 DEF Resolved, ReferencesExist
      <4> QED
        BY <2>2, <3>4, <4>3, ResolvedStep
    <3> QED
      BY <1>1, <2>1, <2>4, <3>3, <3>4, UpdatedStatus
  <2> QED
    BY <2>1, <2>3, <2>4
<1> QED
  BY <1>3, <1>4

\* References never dangle: a reply points to an object of the room and a
\* superseding decision to a decision (assertReferenceInRoom, with the transition
\* table of decisions).
THEOREM ReferencesAlwaysResolve == ObjectSpec => []ReferencesResolve
<1>1. ObjectInit => ReferencesResolve
  BY DEF ObjectInit, NoObjects, ReferencesResolve, Existing
<1> QED
  BY <1>1, ReferencesResolveStep, ObjectTypeCorrect, StatusAlwaysFitsKind, PTL
     DEF ObjectSpec

------------------------------------------------------------------------------
(* Settled statuses                                                        *)

\* An object keeps the text fields of its kind.
FieldsPresent ==
  \A id \in Existing(objects) :
    objects[id].content # NoContent =>
      FieldsOf[objects[id].kind] \subseteq DOMAIN objects[id].content.text

LEMMA FieldsPresentStep ==
  ASSUME ObjectTypeOK, FieldsPresent, [ObjectNext]_objectVars
  PROVE  FieldsPresent'
<1>1. SUFFICES ASSUME NEW id \in ObjectIds, objects'[id] # NoObject,
                      objects'[id].content # NoContent
               PROVE  FieldsOf[objects'[id].kind] \subseteq DOMAIN objects'[id].content.text
  BY DEF FieldsPresent, Existing
<1>2. CASE objects'[id] = objects[id]
  BY <1>1, <1>2 DEF FieldsPresent, Existing
<1>3. CASE objects'[id] # objects[id]
  <2>1. PICK r \in held :
          /\ r.id = id
          /\ objects'[id] = ResultingObject(r)
          /\ \/ CreateObject(r)
             \/ UpdateObject(r) /\ objects[id] # NoObject
    BY <1>3, ObjectStep
  <2>2. CASE CreateObject(r)
    <3>1. objects'[id] = CreatedObject(r)
      BY <2>1, <2>2 DEF ResultingObject
    <3> QED
      BY <3>1 DEF CreatedObject
  <2>3. CASE UpdateObject(r) /\ objects[id] # NoObject
    <3>1. /\ objects[id].content # NoContent
          /\ objects'[id].kind = objects[id].kind
          /\ \/ objects'[id].content = objects[id].content
             \/ objects'[id].content = UpdatedContent(objects[id].content, r)
      BY <1>1, <2>1, <2>3, UpdatedStatus, HeldAreCommands, UpdatedType
    <3>2. DOMAIN objects[id].content.text \subseteq
            DOMAIN UpdatedContent(objects[id].content, r).text
      BY DEF UpdatedContent
    <3>3. FieldsOf[objects[id].kind] \subseteq DOMAIN objects[id].content.text
      BY <2>3, <3>1 DEF FieldsPresent, Existing
    <3> QED
      BY <3>1, <3>2, <3>3
  <2> QED
    BY <2>1, <2>2, <2>3
<1> QED
  BY <1>2, <1>3

\* What an accepted update makes of a settled status, and of an opened poll.
LEMMA SettledStep ==
  ASSUME ObjectTypeOK, StatusFitsKind, FieldsPresent, [ObjectNext]_objectVars,
         NEW id \in Existing(objects),
         objects[id].content # NoContent, objects'[id].content # NoContent
  PROVE  LET before == objects[id].content
             after  == objects'[id].content
         IN  /\ before.status \in {"done", "cancelled", "superseded", "closed"} =>
                  after.status = before.status
             /\ before.status \in {"accepted", "rejected"} => after.status # "proposed"
             /\ before.status \in {"open", "closed"} =>
                  /\ after.status # "draft"
                  /\ after.text["question"] = before.text["question"]
<1> DEFINE before == objects[id].content
           after  == objects'[id].content
<1>1. CASE after = before
  BY <1>1
<1>2. CASE after # before
  <2>1. PICK r \in held :
          /\ r.id = id
          /\ objects'[id] = ResultingObject(r)
          /\ UpdateObject(r)
    BY <1>2, ObjectStep DEF Existing
  <2>2. after = UpdatedContent(before, r)
    BY <1>2, <2>1, UpdatedStatus
  <2>3. r.command \in ContentUpdates
    <3>1. ResultingObject(r).content # NoContent /\ r \in ObjectRequests
      BY <2>1 DEF ObjectTypeOK
    <3>2. r.command \notin SafeDirection
      BY <2>1, <3>1, HeldAreCommands, UpdatedType
    <3>3. r.command # "archive"
      <4>1. SUFFICES ASSUME r.command = "archive" PROVE FALSE
        OBVIOUS
      <4>2. objects[id] \in Objects
        BY <2>1, HeldAreCommands, UpdatedType
      <4>3. ResultingObject(r).content = before
        BY <2>1, <4>1, <4>2 DEF ResultingObject, NextRevision, Objects
      <4> QED
        BY <1>2, <2>1, <4>3
    <3> QED
      BY <2>1, <3>1, <3>2, <3>3 DEF ObjectRequests, ObjectCommands
  <2>4. StatusAllows(r, before.status)
    BY <2>1, <2>3
  <2>5. /\ before.status \in {"done", "cancelled", "superseded", "closed"} =>
             after.status = before.status
        /\ before.status \in {"accepted", "rejected"} => after.status # "proposed"
        /\ before.status \in {"open", "closed"} => after.status # "draft"
    BY <2>2, <2>4
       DEF UpdatedContent, StatusAllows, StatusUpdates, TaskNext, DecisionNext
  <2>6. ASSUME before.status \in {"open", "closed"}
        PROVE  after.text["question"] = before.text["question"]
    <3>1. objects[id].kind = "poll"
      <4>1. objects[id].kind \in Kinds
        BY <2>1, HeldAreCommands, UpdatedType DEF Objects
      <4>2. before.status \in StatusesOf(objects[id].kind)
        BY DEF StatusFitsKind
      <4> QED
        BY <2>6, <4>1, <4>2 DEF Kinds, StatusesOf, TaskNext, DecisionNext
    <3>2. "question" \in DOMAIN before.text
      BY <3>1 DEF FieldsPresent, FieldsOf
    <3>3. "question" \notin FieldsWritten[r.command]
      BY <2>3, <2>4, <2>6 DEF StatusAllows, ContentUpdates, FieldsWritten
    <3> QED
      BY <2>2, <3>2, <3>3 DEF UpdatedContent
  <2> QED
    BY <2>5, <2>6
<1> QED
  BY <1>1, <1>2

\* Done and cancelled tasks, superseded decisions and closed polls keep their
\* status, a resolved decision is never proposed, and an open poll is no draft
\* and keeps its question (the transition assertions of applyContentUpdate).
THEOREM SettledAlwaysSettled == ObjectSpec => SettledStaysSettled
<1>1. ObjectInit => FieldsPresent
  BY DEF ObjectInit, NoObjects, FieldsPresent, Existing
<1>2. ObjectTypeOK /\ StatusFitsKind /\ FieldsPresent /\ [ObjectNext]_objectVars =>
        [\A id \in Existing(objects) :
           LET before == objects[id].content
               after  == objects'[id].content
           IN  before # NoContent /\ after # NoContent =>
                 /\ before.status \in {"done", "cancelled", "superseded", "closed"} =>
                      after.status = before.status
                 /\ before.status \in {"accepted", "rejected"} => after.status # "proposed"
                 /\ before.status \in {"open", "closed"} =>
                      /\ after.status # "draft"
                      /\ after.text["question"] = before.text["question"]]_objectVars
  BY SettledStep
<1> QED
  BY <1>1, <1>2, FieldsPresentStep, ObjectTypeCorrect, StatusAlwaysFitsKind, PTL
     DEF ObjectSpec, SettledStaysSettled

------------------------------------------------------------------------------
(* Replay                                                                  *)

\* What a replay may come to.
Outcomes == [ObjectIds -> Objects \cup {NoObject}] \cup {Rejected}

\* What replay makes of one more event.
After(outcome, event) ==
  IF outcome = Rejected \/ ~ObjectReducible(outcome, event)
  THEN Rejected ELSE ObjectReduced(outcome, event)

\* The projections replay goes through.
Stages(events) ==
  LET upTo[n \in 0..Len(events)] ==
        IF n = 0 THEN NoObjects
        ELSE IF upTo[n-1] = Rejected \/ ~ObjectReducible(upTo[n-1], events[n])
             THEN Rejected
             ELSE ObjectReduced(upTo[n-1], events[n])
  IN  upTo

LEMMA ReplayByStages ==
  ASSUME NEW events
  PROVE  ObjectReplay(events) =
           IF \A n \in 1..Len(events) : events[n].localSequence = n
           THEN Stages(events)[Len(events)] ELSE Rejected
BY DEF ObjectReplay, Stages

LEMMA AfterType ==
  ASSUME NEW outcome \in Outcomes, NEW event \in ObjectEvents
  PROVE  After(outcome, event) \in Outcomes
BY DEF After, Outcomes, ObjectReduced, ObjectEvents

LEMMA StagesDefined ==
  ASSUME NEW events \in Seq(ObjectEvents)
  PROVE  Stages(events) =
           [n \in 0..Len(events) |->
              IF n = 0 THEN NoObjects ELSE After(Stages(events)[n-1], events[n])]
<1> DEFINE k == Len(events)
           step == [p \in (1..k) \X Outcomes |-> After(p[2], events[p[1]])]
<1>1. k \in Nat /\ \A n \in 1..k : events[n] \in ObjectEvents
  OBVIOUS
<1>2. step \in Steps(k, Outcomes)
  BY <1>1, AfterType DEF Steps
<1>3. NoObjects \in Outcomes
  BY DEF NoObjects, Outcomes
<1>4. \A n \in 1..k, v \in Outcomes : step[<<n, v>>] = After(v, events[n])
  OBVIOUS
<1> HIDE DEF step, k
<1>5. PICK f \in [0..k -> Outcomes] :
        f[0] = NoObjects /\ \A n \in 1..k : f[n] = step[<<n, f[n-1]>>]
  <2>1. Solvable(k, Outcomes, NoObjects, step)
    BY <1>1, <1>2, <1>3, SolutionExists
  <2> QED
    BY <2>1 DEF Solvable
<1>6. \A n \in 1..k : f[n] = After(f[n-1], events[n])
  <2> SUFFICES ASSUME NEW n \in 1..k PROVE f[n] = After(f[n-1], events[n])
    OBVIOUS
  <2>1. n - 1 \in 0..k
    BY <1>1
  <2>2. f[n-1] \in Outcomes
    BY <2>1
  <2> QED
    BY <1>4, <1>5, <2>2
<1>7. f = [n \in 0..k |-> IF n = 0 THEN NoObjects ELSE After(f[n-1], events[n])]
  BY <1>1, <1>5, <1>6
<1>8. \E g : g = [n \in 0..k |-> IF n = 0 THEN NoObjects ELSE After(g[n-1], events[n])]
  BY <1>7
<1> QED
  BY <1>8, Zenon DEF Stages, After, k

\* Replaying one more event reduces it into what replay made of the others.
LEMMA ReplayAppend ==
  ASSUME NEW events \in Seq(ObjectEvents), NEW event \in ObjectEvents,
         \A n \in 1..Len(events) : events[n].localSequence = n,
         event.localSequence = Len(events) + 1
  PROVE  ObjectReplay(Append(events, event)) = After(ObjectReplay(events), event)
<1> DEFINE longer == Append(events, event)
           k      == Len(events)
           f      == Stages(events)
           g      == Stages(longer)
<1>1. /\ k \in Nat /\ Len(longer) = k + 1
      /\ longer \in Seq(ObjectEvents)
      /\ \A n \in 1..k : longer[n] = events[n]
      /\ longer[k+1] = event
  OBVIOUS
<1>2. f = [n \in 0..k |-> IF n = 0 THEN NoObjects ELSE After(f[n-1], events[n])]
  BY StagesDefined
<1>3. g = [n \in 0..(k+1) |-> IF n = 0 THEN NoObjects ELSE After(g[n-1], longer[n])]
  BY <1>1, StagesDefined
<1> HIDE DEF f, g, longer, k
<1>4. f[0] = NoObjects /\ \A n \in 1..k : f[n] = After(f[n-1], events[n])
  BY <1>1, <1>2
<1>5. g[0] = NoObjects /\ \A n \in 1..(k+1) : g[n] = After(g[n-1], longer[n])
  BY <1>1, <1>3
<1>6. \A n \in 1..k : f[n-1] = g[n-1] => f[n] = g[n]
  BY <1>1, <1>4, <1>5
<1>7. f[k] = g[k]
  <2>1. f[0] = g[0]
    BY <1>4, <1>5
  <2>2. SameSteps(k, f, g)
    BY <1>6, <2>1 DEF SameSteps
  <2> QED
    BY <1>1, <2>2, SameStepsAgree
<1>8. g[k+1] = After(f[k], event)
  BY <1>1, <1>5, <1>7
<1>9. \A n \in 1..(k+1) : longer[n].localSequence = n
  BY <1>1 DEF k
<1>10. ObjectReplay(events) = f[k]
  BY ReplayByStages DEF f, k
<1>11. ObjectReplay(longer) = g[k+1]
  BY <1>1, <1>9, ReplayByStages DEF g
<1> QED
  BY <1>8, <1>10, <1>11 DEF longer

LEMMA ReplayOfNothing == ObjectReplay(<<>>) = NoObjects
<1>1. <<>> \in Seq(ObjectEvents) /\ Len(<<>>) = 0
  OBVIOUS
<1>2. Stages(<<>>)[0] = NoObjects
  <2> DEFINE f == Stages(<<>>)
  <2>1. f = [n \in 0..0 |-> IF n = 0 THEN NoObjects ELSE After(f[n-1], <<>>[n])]
    BY <1>1, StagesDefined
  <2> HIDE DEF f
  <2> QED
    BY <2>1 DEF f
<1> QED
  BY <1>1, <1>2, ReplayByStages

\* An accepted command's event is one the reducer takes: the pipeline's checks
\* leave it nothing to refuse.
LEMMA AcceptedReducible ==
  ASSUME ObjectTypeOK, NEW r \in ObjectRequests, CreateObject(r) \/ UpdateObject(r)
  PROVE  ObjectReducible(objects, ObjectEventOf(r))
<1>1. ObjectEventOf(r).id = r.id /\ r \in ObjectRequests
  BY ResultingType DEF ObjectEventOf
<1>2. CASE CreateObject(r)
  BY <1>1, <1>2 DEF ObjectEventOf, ExpectedMatches, ObjectReducible
<1>3. CASE UpdateObject(r)
  <2>1. objects[r.id] \in Objects /\ objects[r.id] # NoObject
    BY <1>3, UpdatedType, NoObjectAssumption DEF NoObjectAssumption
  <2>2. /\ ObjectEventOf(r).previousRevision = objects[r.id].revision
        /\ objects[r.id].revision # 0
    BY <1>3, <2>1, MaxRevisionType DEF ObjectEventOf, Objects
  <2>3. objects[r.id].lifecycle # "deleted_tombstone"
    BY <1>3 DEF LifecycleAllows
  <2> QED
    BY <1>1, <2>1, <2>2, <2>3 DEF ObjectReducible
<1> QED
  BY <1>2, <1>3

\* Rebuilding is inductive with the numbers of the log.
ObjectLogNumbered ==
  Retention = "memory_only" =>
    /\ lastSequence = Len(log)
    /\ \A n \in 1..Len(log) : log[n].localSequence = n

LEMMA RebuildableStep ==
  ASSUME ObjectTypeOK, ObjectLogNumbered, ObjectsRebuildable, [ObjectNext]_objectVars
  PROVE  ObjectLogNumbered' /\ ObjectsRebuildable'
<1>1. CASE UNCHANGED <<objects, log, lastSequence>>
  BY <1>1 DEF ObjectLogNumbered, ObjectsRebuildable, ObjectReplay
<1>2. CASE \E r \in held : CreateObject(r) \/ UpdateObject(r)
  <2> SUFFICES ASSUME Retention = "memory_only"
               PROVE  /\ lastSequence' = Len(log')
                      /\ \A n \in 1..Len(log') : log'[n].localSequence = n
                      /\ ObjectReplay(log') = objects'
    BY DEF ObjectLogNumbered, ObjectsRebuildable, ObjectReplay
  <2>1. PICK r \in held : CreateObject(r) \/ UpdateObject(r)
    BY <1>2
  <2> DEFINE event == ObjectEventOf(r)
  <2>2. event \in ObjectEvents /\ ObjectReducible(objects, event)
    BY <2>1, HeldAreCommands, ResultingType, AcceptedReducible
  <2>3. /\ log' = Append(log, event)
        /\ lastSequence' = event.localSequence
        /\ objects' = ObjectReduced(objects, event)
    BY <2>1, <2>2 DEF CommitObject, AppendObjectEvent
  <2>4. event.localSequence = Len(log) + 1
    BY DEF ObjectEventOf, ObjectLogNumbered
  <2> HIDE DEF event
  <2>5. log \in Seq(ObjectEvents) /\ \A n \in 1..Len(log) : log[n].localSequence = n
    BY DEF ObjectTypeOK, ObjectLogNumbered
  <2>6. ObjectReplay(log') = After(objects, event)
    BY <2>2, <2>3, <2>4, <2>5, ReplayAppend DEF ObjectsRebuildable
  <2>7. objects # Rejected
    BY RejectedAssumption DEF RejectedAssumption, ObjectTypeOK
  <2>8. ObjectReplay(log') = objects'
    BY <2>2, <2>3, <2>6, <2>7 DEF After
  <2> QED
    BY <2>2, <2>3, <2>4, <2>5, <2>8
<1> QED
  BY <1>1, <1>2, ComposeAddsCommand
     DEF ObjectNext, ComposeObject, DropCommand, ResolveObjectPolicy, objectVars

\* Replaying a memory log gives exactly the projection the callers see: every
\* accepted command is in the log, in order, and replay refuses none of them
\* (replayRoomObjectEventsV1 with the append and reduce of the pipeline).
THEOREM ObjectsAlwaysRebuildable == ObjectSpec => []ObjectsRebuildable
<1>1. ObjectInit => ObjectLogNumbered /\ ObjectsRebuildable
  BY ReplayOfNothing DEF ObjectInit, ObjectLogNumbered, ObjectsRebuildable
<1> QED
  BY <1>1, RebuildableStep, ObjectTypeCorrect, PTL DEF ObjectSpec
==============================================================================
