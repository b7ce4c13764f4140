--------------------------- MODULE RoomLogProofs ---------------------------
(***************************************************************************)
(* Proofs about RoomLog, for any ids, titles, members and bounds.          *)
(*                                                                         *)
(* That a memory log is well sequenced is not inductive: an append is      *)
(* judged by the sequence of the log's status, so the invariant ties that  *)
(* sequence to what the log retains.  Nor is it inductive that a replay    *)
(* under the policy of today rebuilds the room, since that policy changes  *)
(* between events: the invariant speaks of a replay under either policy,   *)
(* and of the rooms up to their titles.                                    *)
(***************************************************************************)
EXTENDS RoomLog, Recurrence, TLAPS

LEMMA EmptySequence == ASSUME NEW S PROVE <<>> \in Seq(S)
OBVIOUS

\* Every payload of an operation callers use.
LEMMA PayloadsKnown ==
  ASSUME NEW o \in Operations
  PROVE  Payloads(o) \subseteq UNION {Payloads(p) : p \in Operations}
OBVIOUS

\* The lifecycle an archive or lock is permitted to write is a lifecycle, and
\* every permitted operation that changes the lifecycle closes the room further.
LEMMA PermittedOnlyCloses ==
  ASSUME NEW current \in Lifecycles, NEW o, NEW target, Permitted(current, o, target)
  PROVE  LET after == LifecycleAfter(current, o, target)
         IN  /\ after \in Lifecycles
             /\ after # current => Closedness[after] > Closedness[current]
BY DEF Permitted, LifecycleAfter, Lifecycles, MutationOperations, LockTargets, Closedness

\* Reducing an event gives a room.
LEMMA ReducedIsRoom ==
  ASSUME NEW current \in Rooms, NEW event \in Events, NEW redacts \in BOOLEAN,
         RoomReducible(current, event)
  PROVE  RoomReduced(current, event, redacts) \in Rooms
<1>1. LifecycleAfter(current.lifecycle, event.operation, event.payload) \in Lifecycles
  BY PermittedOnlyCloses DEF RoomReducible, Rooms
<1>2. TitleAfter(current, event, redacts) \in Titles \cup {Nothing}
  BY DEF TitleAfter, Events, Payloads, Rooms
<1>3. TitleRedactedAfter(current, event, redacts) \in BOOLEAN
  BY DEF TitleRedactedAfter
<1>4. MembersAfter(current, event) \in SUBSET MemberRefs
  BY DEF MembersAfter, Events, Payloads, Rooms
<1>5. ObjectsAfter(current, event) \in Seq(ObjectIds)
  <2>1. current.objects \in Seq(ObjectIds)
    BY DEF Rooms
  <2>2. event.operation = "object" => event.payload \in ObjectIds
    BY DEF Events, Payloads
  <2> QED
    BY <2>1, <2>2 DEF ObjectsAfter
<1> QED
  BY <1>1, <1>2, <1>3, <1>4, <1>5 DEF RoomReduced, Rooms

------------------------------------------------------------------------------
(* Type correctness                                                        *)

\* Every reachable room, log and event in flight is well typed: a repeated or
\* late event is refused or reduced to a room, never to anything else.
THEOREM RoomLogTypeCorrect == RoomLogSpec => []RoomLogTypeOK
<1>1. RoomLogInit => RoomLogTypeOK
  <2>1. Draft \in Rooms
    BY EmptySequence DEF Draft, Rooms, Lifecycles
  <2>2. RoomLogInit => mutable \in BOOLEAN /\ redacting \in BOOLEAN /\ complete \in BOOLEAN
    BY DEF RoomLogInit
  <2>3. RoomLogInit => room \in Rooms /\ log \in Seq(Events) /\ inFlight \subseteq Events
    BY <2>1, EmptySequence DEF RoomLogInit
  <2>4. RoomLogInit => lastSequence \in Nat /\ retention \in {"memory_only", "null"}
    BY DEF RoomLogInit
  <2> QED
    BY <2>2, <2>3, <2>4 DEF RoomLogTypeOK
<1>2. RoomLogTypeOK /\ [RoomLogNext]_roomLogVars => RoomLogTypeOK'
  <2> SUFFICES ASSUME RoomLogTypeOK, [RoomLogNext]_roomLogVars PROVE RoomLogTypeOK'
    OBVIOUS
  <2>1. ASSUME NEW o \in InputOperations, CreateEvent(o) PROVE RoomLogTypeOK'
    <3>1. PICK id \in EventIds, payload \in Payloads(o) :
            inFlight' = inFlight \cup
              {[id |-> id, sequence |-> NextSequence, operation |-> o, payload |-> payload]}
      BY <2>1 DEF CreateEvent
    <3>2. o \in Operations /\ NextSequence \in Nat \ {0}
      BY RoomLogAssumption DEF NextSequence, RoomLogTypeOK
    <3>3. payload \in UNION {Payloads(p) : p \in Operations}
      BY <3>2, PayloadsKnown
    <3>4. [id |-> id, sequence |-> NextSequence, operation |-> o, payload |-> payload]
            \in Events
      BY <3>2, <3>3 DEF Events
    <3> QED
      BY <2>1, <3>1, <3>4 DEF CreateEvent, policyVars, RoomLogTypeOK
  <2>2. ASSUME NEW event \in inFlight, Deliver(event) PROVE RoomLogTypeOK'
    <3>1. event \in Events /\ event.sequence \in Nat
      BY DEF RoomLogTypeOK, Events
    <3>2. room' \in Rooms /\ complete' \in BOOLEAN
      BY <2>2, <3>1, ReducedIsRoom DEF Deliver, RoomLogTypeOK
    <3>3. log' \in Seq(Events) /\ lastSequence' \in Nat
      BY <2>2, <3>1 DEF Deliver, AppendToLog, RoomLogTypeOK
    <3> QED
      BY <2>2, <3>2, <3>3 DEF Deliver, policyVars, RoomLogTypeOK
  <2>3. ASSUME NEW event \in inFlight, DropEvent(event) PROVE RoomLogTypeOK'
    BY <2>3 DEF DropEvent, policyVars, RoomLogTypeOK
  <2>4. CASE ClearLog
    BY <2>4, EmptySequence DEF ClearLog, policyVars, RoomLogTypeOK
  <2>5. CASE ResolveProjectionPolicy
    BY <2>5 DEF ResolveProjectionPolicy, RoomLogTypeOK
  <2>6. CASE UNCHANGED roomLogVars
    BY <2>6 DEF roomLogVars, policyVars, RoomLogTypeOK
  <2> QED
    BY <2>1, <2>2, <2>3, <2>4, <2>5, <2>6 DEF RoomLogNext
<1> QED
  BY <1>1, <1>2, PTL DEF RoomLogSpec

------------------------------------------------------------------------------
(* The sequence of the log                                                 *)

\* A memory log's last sequence is its length; a null log retains nothing.
LogMatchesStatus ==
  /\ retention = "memory_only" => lastSequence = Len(log)
  /\ retention = "null" => log = <<>>

LogInv == LogMatchesStatus /\ LogWellSequenced

\* Appending what a memory log accepts keeps it numbered and free of repeats.
LEMMA AppendKeepsSequence ==
  ASSUME NEW events \in Seq(Events), NEW event \in Events, WellSequenced(events),
         event.sequence = Len(events) + 1,
         \A i \in 1..Len(events) : events[i].id # event.id
  PROVE  WellSequenced(Append(events, event))
<1> DEFINE longer == Append(events, event)
<1>1. /\ Len(longer) = Len(events) + 1
      /\ longer[Len(events) + 1] = event
      /\ \A i \in 1..Len(events) : longer[i] = events[i]
  OBVIOUS
<1>2. Len(events) \in Nat
  OBVIOUS
<1> SUFFICES ASSUME NEW i \in 1..Len(longer)
             PROVE  /\ longer[i].sequence = i
                    /\ \A j \in 1..(i-1) : longer[j].id # longer[i].id
  BY DEF WellSequenced
<1>3. CASE i \in 1..Len(events)
  <2>1. \A j \in 1..(i-1) : j \in 1..Len(events)
    BY <1>2, <1>3
  <2> QED
    BY <1>1, <1>3, <2>1 DEF WellSequenced
<1>4. CASE i = Len(events) + 1
  <2>1. \A j \in 1..(i-1) : j \in 1..Len(events)
    BY <1>2, <1>4
  <2> QED
    BY <1>1, <1>4, <2>1
<1> QED
  BY <1>1, <1>2, <1>3, <1>4

\* The invariant holds whatever is delivered late, twice or after a clear.
LEMMA LogInvAlways == RoomLogSpec => []LogInv
<1>1. RoomLogInit => LogInv
  BY DEF RoomLogInit, LogInv, LogMatchesStatus, LogWellSequenced, WellSequenced
<1>2. RoomLogTypeOK /\ LogInv /\ [RoomLogNext]_roomLogVars => LogInv'
  <2> SUFFICES ASSUME RoomLogTypeOK, LogInv, [RoomLogNext]_roomLogVars PROVE LogInv'
    OBVIOUS
  <2>1. CASE UNCHANGED <<retention, log, lastSequence>>
    BY <2>1 DEF LogInv, LogMatchesStatus, LogWellSequenced, WellSequenced
  <2>2. ASSUME NEW event \in inFlight, Deliver(event) PROVE LogInv'
    <3>1. event \in Events /\ log \in Seq(Events) /\ UNCHANGED retention
      BY <2>2 DEF Deliver, RoomLogTypeOK
    <3>2. CASE retention = "memory_only"
      <4>1. /\ event.sequence = Len(log) + 1
            /\ \A i \in 1..Len(log) : log[i].id # event.id
        BY <2>2, <3>2 DEF Deliver, Appendable, LogInv, LogMatchesStatus
      <4>2. log' = Append(log, event) /\ lastSequence' = event.sequence
        BY <2>2, <3>2 DEF Deliver, AppendToLog
      <4>3. WellSequenced(log')
        BY <3>1, <4>1, <4>2, AppendKeepsSequence DEF LogInv, LogWellSequenced
      <4>4. LogMatchesStatus'
        BY <3>1, <3>2, <4>1, <4>2 DEF LogMatchesStatus
      <4> QED
        BY <4>3, <4>4 DEF LogInv, LogWellSequenced, WellSequenced
    <3>3. CASE retention = "null"
      <4>1. log' = <<>>
        BY <2>2, <3>3 DEF Deliver, AppendToLog, LogInv, LogMatchesStatus
      <4> QED
        BY <3>1, <3>3, <4>1 DEF LogInv, LogMatchesStatus, LogWellSequenced, WellSequenced
    <3> QED
      BY <3>2, <3>3 DEF RoomLogTypeOK
  <2>3. CASE ClearLog
    BY <2>3 DEF ClearLog, LogInv, LogMatchesStatus, LogWellSequenced, WellSequenced
  <2>4. ASSUME NEW o \in InputOperations, CreateEvent(o) PROVE LogInv'
    BY <2>1, <2>4 DEF CreateEvent
  <2>5. ASSUME NEW event \in inFlight, DropEvent(event) PROVE LogInv'
    BY <2>1, <2>5 DEF DropEvent
  <2>6. CASE ResolveProjectionPolicy
    BY <2>1, <2>6 DEF ResolveProjectionPolicy
  <2>7. CASE UNCHANGED roomLogVars
    BY <2>1, <2>7 DEF roomLogVars
  <2> QED
    BY <2>2, <2>3, <2>4, <2>5, <2>6, <2>7 DEF RoomLogNext
<1> QED
  BY <1>1, <1>2, RoomLogTypeCorrect, PTL DEF RoomLogSpec

\* Whatever is delivered late, twice or after a clear, the events a memory log
\* retains are numbered from 1 without gap and never share an id.
THEOREM LogAlwaysWellSequenced == RoomLogSpec => []LogWellSequenced
<1>1. LogInv => LogWellSequenced
  BY DEF LogInv
<1> QED
  BY <1>1, LogInvAlways, PTL

------------------------------------------------------------------------------
(* The lifecycle                                                           *)

\* No late or repeated event, not even with the null log, which refuses none,
\* reopens a room or moves it between archived and locked.
THEOREM RoomsOnlyClose == RoomLogSpec => RoomOnlyCloses
<1>1. RoomLogTypeOK /\ [RoomLogNext]_roomLogVars =>
        [room'.lifecycle # room.lifecycle =>
           Closedness[room'.lifecycle] > Closedness[room.lifecycle]]_roomLogVars
  <2> SUFFICES ASSUME RoomLogTypeOK, [RoomLogNext]_roomLogVars,
                      room'.lifecycle # room.lifecycle
               PROVE  Closedness[room'.lifecycle] > Closedness[room.lifecycle]
    OBVIOUS
  <2>1. PICK event \in inFlight : Deliver(event)
    BY DEF RoomLogNext, CreateEvent, DropEvent, ClearLog, ResolveProjectionPolicy,
           roomLogVars
  <2>2. /\ RoomReducible(room, event)
        /\ room' = RoomReduced(room, event, redacting)
    BY <2>1 DEF Deliver
  <2>3. /\ room.lifecycle \in Lifecycles
        /\ room'.lifecycle =
             LifecycleAfter(room.lifecycle, event.operation, event.payload)
    BY <2>2 DEF RoomLogTypeOK, Rooms, RoomReduced
  <2> QED
    BY <2>2, <2>3, PermittedOnlyCloses DEF RoomReducible
<1> QED
  BY <1>1, RoomLogTypeCorrect, PTL DEF RoomLogSpec, RoomOnlyCloses

------------------------------------------------------------------------------
(* Replay                                                                  *)

\* What a replay may come to.
Outcomes == Rooms \cup {Rejected}

\* What replay makes of one more event.
After(outcome, event, redacts) ==
  IF outcome = Rejected \/ ~RoomReducible(outcome, event)
  THEN Rejected ELSE RoomReduced(outcome, event, redacts)

\* The rooms a replay goes through when titles are redacted, or are not.
Stages(events, redacts) ==
  LET upTo[n \in 0..Len(events)] ==
        IF n = 0 THEN Draft
        ELSE IF upTo[n-1] = Rejected \/ ~RoomReducible(upTo[n-1], events[n])
             THEN Rejected
             ELSE RoomReduced(upTo[n-1], events[n], redacts)
  IN  upTo

LEMMA ReplayByStages ==
  ASSUME NEW events
  PROVE  RoomReplay(events) =
           IF WellSequenced(events)
           THEN Stages(events, redacting)[Len(events)] ELSE Rejected
BY DEF RoomReplay, Stages

LEMMA DraftIsRoom == Draft \in Rooms /\ Draft.title = Nothing
BY EmptySequence DEF Draft, Rooms, Lifecycles

LEMMA AfterType ==
  ASSUME NEW outcome \in Outcomes, NEW event \in Events, NEW redacts \in BOOLEAN
  PROVE  After(outcome, event, redacts) \in Outcomes
BY ReducedIsRoom DEF After, Outcomes

LEMMA StagesDefined ==
  ASSUME NEW events \in Seq(Events), NEW redacts \in BOOLEAN
  PROVE  Stages(events, redacts) =
           [n \in 0..Len(events) |->
              IF n = 0 THEN Draft
              ELSE After(Stages(events, redacts)[n-1], events[n], redacts)]
<1> DEFINE k == Len(events)
           step == [p \in (1..k) \X Outcomes |-> After(p[2], events[p[1]], redacts)]
<1>1. k \in Nat /\ \A n \in 1..k : events[n] \in Events
  OBVIOUS
<1>2. step \in Steps(k, Outcomes)
  BY <1>1, AfterType DEF Steps
<1>3. Draft \in Outcomes
  BY DraftIsRoom DEF Outcomes
<1>4. \A n \in 1..k, v \in Outcomes : step[<<n, v>>] = After(v, events[n], redacts)
  OBVIOUS
<1> HIDE DEF step, k
<1>5. PICK f \in [0..k -> Outcomes] :
        f[0] = Draft /\ \A n \in 1..k : f[n] = step[<<n, f[n-1]>>]
  <2>1. Solvable(k, Outcomes, Draft, step)
    BY <1>1, <1>2, <1>3, SolutionExists
  <2> QED
    BY <2>1 DEF Solvable
<1>6. \A n \in 1..k : f[n] = After(f[n-1], events[n], redacts)
  <2> SUFFICES ASSUME NEW n \in 1..k PROVE f[n] = After(f[n-1], events[n], redacts)
    OBVIOUS
  <2>1. n - 1 \in 0..k
    BY <1>1
  <2>2. f[n-1] \in Outcomes
    BY <2>1
  <2> QED
    BY <1>4, <1>5, <2>2
<1>7. f = [n \in 0..k |-> IF n = 0 THEN Draft ELSE After(f[n-1], events[n], redacts)]
  BY <1>1, <1>5, <1>6
<1>8. \E g : g = [n \in 0..k |-> IF n = 0 THEN Draft
                                ELSE After(g[n-1], events[n], redacts)]
  BY <1>7
<1> QED
  BY <1>8, Zenon DEF Stages, After, k

LEMMA StagesBegin ==
  ASSUME NEW redacts \in BOOLEAN
  PROVE  Stages(<<>>, redacts)[0] = Draft
<1> DEFINE f == Stages(<<>>, redacts)
<1>1. f = [n \in 0..0 |-> IF n = 0 THEN Draft ELSE After(f[n-1], <<>>[n], redacts)]
  BY EmptySequence, StagesDefined
<1> HIDE DEF f
<1> QED
  BY <1>1 DEF f

\* Replaying one more event reduces it into what replay made of the others.
LEMMA StagesAppend ==
  ASSUME NEW events \in Seq(Events), NEW event \in Events, NEW redacts \in BOOLEAN
  PROVE  Stages(Append(events, event), redacts)[Len(events) + 1] =
           After(Stages(events, redacts)[Len(events)], event, redacts)
<1> DEFINE longer == Append(events, event)
           k      == Len(events)
           f      == Stages(events, redacts)
           g      == Stages(longer, redacts)
<1>1. /\ k \in Nat /\ Len(longer) = k + 1
      /\ longer \in Seq(Events)
      /\ \A n \in 1..k : longer[n] = events[n]
      /\ longer[k+1] = event
  OBVIOUS
<1>2. f = [n \in 0..k |-> IF n = 0 THEN Draft ELSE After(f[n-1], events[n], redacts)]
  BY StagesDefined
<1>3. g = [n \in 0..(k+1) |->
             IF n = 0 THEN Draft ELSE After(g[n-1], longer[n], redacts)]
  BY <1>1, StagesDefined
<1> SUFFICES g[k+1] = After(f[k], event, redacts)
  OBVIOUS
<1> HIDE DEF f, g, longer, k
<1>4. f[0] = Draft /\ \A n \in 1..k : f[n] = After(f[n-1], events[n], redacts)
  BY <1>1, <1>2
<1>5. g[0] = Draft /\ \A n \in 1..(k+1) : g[n] = After(g[n-1], longer[n], redacts)
  BY <1>1, <1>3
<1>6. SameSteps(k, f, g)
  BY <1>1, <1>4, <1>5 DEF SameSteps
<1>7. f[k] = g[k]
  BY <1>1, <1>6, SameStepsAgree
<1> QED
  BY <1>1, <1>5, <1>7

\* A room replay came to is the room given, but for its title.
Alike(outcome, current) ==
  outcome \in Rooms /\ Untitled(outcome) = Untitled(current)

\* Reducing one event into two rooms alike leaves them alike, whether or not
\* either takes the title.
LEMMA AlikeAfter ==
  ASSUME NEW outcome, NEW current \in Rooms, NEW event \in Events,
         NEW r1 \in BOOLEAN, NEW r2 \in BOOLEAN,
         Alike(outcome, current), RoomReducible(current, event)
  PROVE  Alike(After(outcome, event, r1), RoomReduced(current, event, r2))
<1>1. /\ outcome \in Rooms /\ outcome # Rejected
      /\ outcome.lifecycle = current.lifecycle
      /\ outcome.members = current.members
      /\ outcome.objects = current.objects
  <2>1. outcome \in Rooms /\ Untitled(outcome) = Untitled(current)
    BY DEF Alike
  <2>2. \A r \in Rooms : /\ Untitled(r).lifecycle = r.lifecycle
                         /\ Untitled(r).members = r.members
                         /\ Untitled(r).objects = r.objects
    BY DEF Untitled, Rooms
  <2> QED
    BY <2>1, <2>2, RejectedAssumption DEF RejectedAssumption
<1> DEFINE a == RoomReduced(outcome, event, r1)
           b == RoomReduced(current, event, r2)
<1>2. RoomReducible(outcome, event)
  BY <1>1 DEF RoomReducible
<1>3. After(outcome, event, r1) = a
  BY <1>1, <1>2 DEF After
<1>4. a \in Rooms /\ b \in Rooms
  BY <1>1, <1>2, ReducedIsRoom
<1>5. a.lifecycle = b.lifecycle /\ a.members = b.members /\ a.objects = b.objects
  BY <1>1 DEF RoomReduced, MembersAfter, ObjectsAfter
<1> HIDE DEF a, b
<1>6. Untitled(a) = Untitled(b)
  BY <1>4, <1>5 DEF Untitled, Rooms
<1> QED
  BY <1>3, <1>4, <1>6 DEF Alike, b

\* Under either policy a complete memory log replays to the room.
Rebuilt ==
  retention = "memory_only" /\ complete =>
    \A redacts \in BOOLEAN : Alike(Stages(log, redacts)[Len(log)], room)

LEMMA RebuiltStep ==
  ASSUME RoomLogTypeOK, LogMatchesStatus, Rebuilt, [RoomLogNext]_roomLogVars
  PROVE  Rebuilt'
<1>1. CASE UNCHANGED <<retention, room, log, complete>>
  BY <1>1 DEF Rebuilt, Alike, Stages
<1>2. ASSUME NEW event \in inFlight, Deliver(event) PROVE Rebuilt'
  <2> SUFFICES ASSUME retention' = "memory_only", complete',
                      NEW redacts \in BOOLEAN
               PROVE  Alike(Stages(log', redacts)[Len(log')], room')
    BY DEF Rebuilt, Alike, Stages
  <2>1. /\ event \in Events /\ log \in Seq(Events) /\ room \in Rooms
        /\ redacting \in BOOLEAN
    BY DEF RoomLogTypeOK
  <2>2. /\ retention = "memory_only" /\ complete
        /\ RoomReducible(room, event)
        /\ room' = RoomReduced(room, event, redacting)
        /\ log' = Append(log, event)
    BY <1>2 DEF Deliver, AppendToLog
  <2>3. Alike(Stages(log, redacts)[Len(log)], room)
    BY <2>2 DEF Rebuilt
  <2>4. Stages(log', redacts)[Len(log) + 1] =
          After(Stages(log, redacts)[Len(log)], event, redacts)
    BY <2>1, <2>2, StagesAppend
  <2>5. Len(log') = Len(log) + 1
    BY <2>1, <2>2
  <2> QED
    BY <2>1, <2>2, <2>3, <2>4, <2>5, AlikeAfter
<1>3. CASE ClearLog
  BY <1>3 DEF ClearLog, Rebuilt
<1>4. CASE ~ClearLog /\ ~ \E event \in inFlight : Deliver(event)
  BY <1>1, <1>4
     DEF RoomLogNext, CreateEvent, DropEvent, ResolveProjectionPolicy, roomLogVars
<1> QED
  BY <1>2, <1>3, <1>4

\* The projection is derived data: replaying a complete memory log, under the
\* policy of today, rebuilds the room but for its title
\* (replayRoomOperationEventsV1).
THEOREM RoomAlwaysRebuildable == RoomLogSpec => []RoomRebuildable
<1>1. RoomLogInit => Rebuilt
  <2> SUFFICES ASSUME RoomLogInit PROVE Rebuilt
    OBVIOUS
  <2>1. log = <<>> /\ Len(log) = 0 /\ room = Draft
    BY DEF RoomLogInit
  <2> QED
    BY <2>1, StagesBegin, DraftIsRoom DEF Rebuilt, Alike
<1>2. RoomLogTypeOK /\ LogInv /\ Rebuilt => RoomRebuildable
  <2> SUFFICES ASSUME RoomLogTypeOK, LogInv, Rebuilt,
                      retention = "memory_only", complete
               PROVE  /\ RoomReplay(log) # Rejected
                      /\ Untitled(RoomReplay(log)) = Untitled(room)
    BY DEF RoomRebuildable
  <2>1. RoomReplay(log) = Stages(log, redacting)[Len(log)]
    BY ReplayByStages DEF LogInv, LogWellSequenced
  <2>2. Alike(Stages(log, redacting)[Len(log)], room)
    BY DEF Rebuilt, RoomLogTypeOK
  <2> QED
    BY <2>1, <2>2, RejectedAssumption DEF RejectedAssumption, Alike
<1> QED
  BY <1>1, <1>2, RebuiltStep, LogInvAlways, RoomLogTypeCorrect, PTL
     DEF RoomLogSpec, LogInv

\* Replay under a policy that redacts titles has no title at any stage.
LEMMA StagesUntitled ==
  ASSUME NEW events \in Seq(Events)
  PROVE  Stages(events, TRUE)[Len(events)] \in
           {r \in Rooms : r.title = Nothing} \cup {Rejected}
<1> DEFINE k      == Len(events)
           f      == Stages(events, TRUE)
           untitled == {r \in Rooms : r.title = Nothing} \cup {Rejected}
           kept   == {n \in 0..k : f[n] \in untitled}
<1>1. k \in Nat /\ \A n \in 1..k : events[n] \in Events
  OBVIOUS
<1>2. f = [n \in 0..k |-> IF n = 0 THEN Draft ELSE After(f[n-1], events[n], TRUE)]
  BY StagesDefined
<1> SUFFICES f[k] \in untitled
  OBVIOUS
<1> HIDE DEF f, k
<1>3. f[0] = Draft /\ \A n \in 1..k : f[n] = After(f[n-1], events[n], TRUE)
  BY <1>1, <1>2
<1>4. ASSUME NEW outcome \in untitled, NEW event \in Events
      PROVE  After(outcome, event, TRUE) \in untitled
  <2>1. CASE outcome = Rejected \/ ~RoomReducible(outcome, event)
    BY <2>1 DEF After
  <2>2. CASE outcome # Rejected /\ RoomReducible(outcome, event)
    <3>1. outcome \in Rooms /\ outcome.title = Nothing
      BY <2>2
    <3>2. RoomReduced(outcome, event, TRUE) \in Rooms
      BY <2>2, <3>1, ReducedIsRoom
    <3>3. RoomReduced(outcome, event, TRUE).title = Nothing
      BY <3>1 DEF RoomReduced, TitleAfter
    <3> QED
      BY <2>2, <3>2, <3>3 DEF After
  <2> QED
    BY <2>1, <2>2
<1> HIDE DEF untitled
<1>5. Draft \in untitled
  BY DraftIsRoom DEF untitled
<1>6. 0 \in kept
  BY <1>1, <1>3, <1>5
<1>7. ASSUME NEW n \in 1..k, n - 1 \in kept PROVE n \in kept
  <2>1. f[n] = After(f[n-1], events[n], TRUE) /\ events[n] \in Events
    BY <1>1, <1>3
  <2>2. f[n-1] \in untitled
    BY <1>7
  <2>3. f[n] \in untitled
    BY <1>4, <2>1, <2>2
  <2> QED
    BY <1>1, <2>3
<1> HIDE DEF kept
<1>8. 0..k \subseteq kept
  BY <1>1, <1>6, <1>7, UpTo
<1> QED
  BY <1>1, <1>8 DEF kept

\* Replay under a policy that redacts titles brings none back, whatever the log
\* holds (replayRoomOperationEventsV1 with the title redaction of the reducer).
THEOREM ReplayAlwaysHonoursRedaction == RoomLogSpec => []ReplayHonoursRedaction
<1>1. RoomLogTypeOK => ReplayHonoursRedaction
  <2> SUFFICES ASSUME RoomLogTypeOK, redacting, RoomReplay(log) # Rejected
               PROVE  RoomReplay(log).title = Nothing
    BY DEF ReplayHonoursRedaction
  <2>1. log \in Seq(Events) /\ redacting = TRUE
    BY DEF RoomLogTypeOK
  <2>2. RoomReplay(log) = Stages(log, TRUE)[Len(log)]
    BY <2>1, ReplayByStages
  <2> QED
    BY <2>1, <2>2, StagesUntitled
<1> QED
  BY <1>1, RoomLogTypeCorrect, PTL
==============================================================================
