# Verification of the FreeLayer room core

This directory holds TLA+ models of the RoomOS core of FreeLayer
(`packages/rooms`), of its local storage (`packages/storage`) and of its policy
matrix and privacy barriers (`packages/privacy`, `packages/transports`), TLC
configurations that check them on small instances, and TLAPS proofs, for
instances of any size, of every property those runs find to hold.
Paths below are relative to the repository; `rooms/` stands for
`packages/rooms/src/`.

    tlc -workers 2 -config MembershipRaces.cfg MCMembership.tla
    tlapm Recurrence.tla
    tlapm MembershipProofs.tla
    tlapm AuthorityProofs.tla
    tlapm ObjectProofs.tla
    tlapm StorageProofs.tla
    tlapm GateProofs.tla
    tlapm RoomLogProofs.tla
    tlapm QueryProofs.tla

## 1. The system

FreeLayer is local-first and, at this commit, has no network, no persistence
and no cryptography: transports send nothing, providers keep memory only, and
`packages/crypto`, `protocol`, `capsules`, `ai` and the applications are types
and fail-closed stubs. What has behaviour is the room core and the policy
packages around it.

The library is synchronous and reactive. A pipeline is a function of the values
its caller passes: it checks them, appends an event to a log object, and
returns a new immutable state. There are no threads, timers, awaits or retries
inside. Concurrency is in the callers: they read a state, compose a command,
a context or an event from it, and hand it over later, after other calls went
through, perhaps twice. Every hard behaviour of this code is of that form, and
every model has variables for what callers hold.

| Component | State | Operations | Talks to |
|---|---|---|---|
| Membership pipeline, reducer, log, policy (`rooms/membership`) | `roomState.membershipRecords`, membership log | bootstrap, add, change role, suspend, reactivate, remove; replay | capability resolution, room policy, policy matrix |
| Roles and capabilities (`rooms/membership`, `authorization/role-authority.ts`) | none | eligibility, resolution, comparison of roles | membership, authorization |
| Prepared authorization and revocation (`rooms/authorization`) | prepared contexts, held by callers | prepare, revalidate, revoke | delegates to the membership pipeline; fenced by policy, mode, lifecycle, posture |
| Governance and policy document (`rooms/policy-composition`) | `roomState.policyDocument`, `policyRevision`, governance log | disable features, set a level | prepared authorization |
| Room log, reducer, replay (`rooms/room-log.ts`, `room-reducer.ts`, `room-event-v1.ts`) | operation log, `RoomMaterializedState` | create, append, reduce, clear, replay | room lifecycle, room policy |
| Objects (`rooms/objects`) | object projection, object log | six creations, ten updates, redact, archive, tombstone; replay | room policy, policy matrix |
| Queries (`rooms/query`) | snapshots and cursors, held by callers | list, detail, search, count, pages | object projection |
| Policy composition, sensitive admission | none | strictest-wins fold of layers | policy document, posture |
| Local storage (`packages/storage`) | records of the memory provider; policies, held by callers | resolve a policy; write, read, delete, list, clear | privacy mode, room policy, device risk |
| Policy matrix (`privacy/src/policyMatrix.ts`) | none: 171 rows of an effect per mode | evaluate under screen, risk and room; fold effects | room queries; the contract of the engines |
| Policy decisions (`privacy/src/index.ts`) | the set of issued decisions | issue, recognise | every barrier |
| Metadata, notification and network barriers (`packages/privacy`, `packages/transports`) | policies and decisions, held by callers | resolve a policy; assert a request | policy decisions, privacy mode, room policy, screen |

What makes each correct, and what is hard about it:

- *Membership*: a room with members always has an active owner; no update is
  lost; a tombstone is final; a stricter policy only takes authority away. Hard
  because requests carry an actor's record, an expected revision and a mode
  that were read at another time, and because the event is appended before the
  reducer may still refuse it.
- *Authorization*: a prepared context executes only in the room it was prepared
  in, and a revocation never adds authority. Hard because the room may change
  and change back, and because a role change means something else once its
  target's role moved.
- *Governance*: the policy document only gets stricter and no tightening is
  lost. Hard because a change that tightens the document its author read may
  loosen the one it meets.
- *Room log*: replay rebuilds the projection, no room reopens. Hard because
  events are delivered late, twice, and after a clear, and because replay uses
  the policy of the day.
- *Objects*: redaction is final, references resolve, settled work stays
  settled. Hard because commands are not tied to the kind of the object, nor to
  the mode they are submitted in.
- *Queries*: pages of one snapshot serve every object once, pages across
  snapshots still leave none out, and no search, stale snapshot or stale policy
  shows what may not be read. Hard because a cursor is a place in an order, and
  snapshot, policy and cursor are three values of three moments.
- *Local storage*: restrictions never loosen a flag nor name a less strict
  backend, no strict mode reaches a persistent one, and under policies of its
  own class memory holds nothing that does not belong there, unless a room names
  memory. Hard because a policy is resolved for one mode, class and sensitivity
  and used later, for a request that names its own.
- *Barriers*: presented with the policy resolved for the very request, whenever
  that was, a barrier lets nothing pass that would leave the device without the
  user or persist, and a decision serves only what shares its scope and
  capability. Hard because three values of three moments meet in a barrier,
  which knows no mode of the day, because barriers share capabilities, and
  because those of storage and the network do not compare the request with the
  policy: what then passes is among the disagreements of section 3.
- *Policy matrix*: it is the contract of four engines that are written without
  it, in tables and early returns of their own; and a row is composed with
  screen, risk and room. Hard because nothing compares the two, in every mode.
- *Policy composition*: a document that compares as stricter composes stricter,
  in every mode. Hard because comparison goes field by field and composition
  folds effects out of several fields, the mode and the device.

## 2. Modules

| Module | Models | Extends |
|---|---|---|
| `RoomRoles` | roles, capabilities, resolution, role comparison (operators only) | |
| `Membership` | the membership component and the requests its callers hold | `RoomRoles` |
| `OwnedRoster` | abstract specification: one standing per member, never ownerless; of an empty room and of a founded one | |
| `Recurrence` | lemmas: induction and recursion over 0..k, stated about sets and functions | |
| `MembershipProofs` | theorems about `Membership` | `Membership`, `Recurrence` |
| `RoomLifecycle` | the lifecycle table (operators only) | |
| `RoomPolicyDocument` | documents, candidates, comparison (operators only) | |
| `PolicyComposition` | effects and their fold, the composed policy, admission of sensitive actions (operators only) | `RoomPolicyDocument`, `RoomRoles` |
| `RoomAuthority` | prepared contexts, the revocation and governance pipelines, composed with the membership pipeline and with the readers of the document | `Membership`, `RoomLifecycle`, `PolicyComposition` |
| `AuthorityProofs` | theorems about `RoomAuthority` and `PolicyComposition` | `RoomAuthority`, `MembershipProofs` |
| `RoomLog` | the operation log, its events in flight, the room reducer and replay | `RoomLifecycle` |
| `RoomLogProofs` | theorems about `RoomLog` | `RoomLog`, `Recurrence` |
| `RoomObjects` | the object pipeline, its log and held commands | `RoomRoles` |
| `ObjectProofs` | theorems about `RoomObjects` | `RoomObjects`, `Recurrence` |
| `RoomQueries` | query policies, snapshots, and the pages of a listing or search, over the object pipeline | `RoomObjects`, instance of `PolicyMatrix` |
| `QueryProofs` | theorems about `RoomQueries` and the matrix | `RoomQueries`, `ObjectProofs` |
| `StoragePolicy` | storage policies and the write barrier (operators only) | |
| `LocalStorage` | the memory provider and the policies its callers hold | `StoragePolicy` |
| `StorageProofs` | theorems about `LocalStorage` | `LocalStorage` |
| `PolicyMatrix` | the rows of the matrix and their evaluation (operators only) | |
| `PolicyConflicts` | the conflict rules of `scripts/check-policy-conflicts.mjs` (operators only) | `PolicyMatrix` |
| `MetadataFirewall` | policies and barrier of metadata signals (operators only) | |
| `NotificationPrivacy` | policies and barrier of notifications (operators only) | |
| `NetworkGate` | policies and barrier of network requests (operators only) | |
| `PrivacyGates` | callers that collect policies and decisions and present them to all barriers | the four gates' modules, `PolicyConflicts` |
| `GateProofs` | theorems about `PrivacyGates` | `PrivacyGates` |
| `MC*` | definitions for TLC: symmetry, founders, groups of operations | the module checked |

### How state and actions correspond to the code

- **`Membership`.** `roster` is `roomState.membershipRecords`, `log` and
  `lastSequence` the membership log, `mode` and `mutable` the mode callers
  compose in and `roomPolicy.allowLocalContentMutation`, `held` the commands
  with their authorization contexts. `Bootstrap`, `AddMember` and
  `UpdateMember` are `applyLocalRoomMembershipMutationV1` for its three shapes
  of command: each conjunct is one of its numbered steps, `Commit` is steps
  9 to 13, append and then reduce. `ComposeAdd` and `ComposeUpdate` resolve a
  capability descriptor and read the expected revision; `Recompose` is the
  caller that was refused and reads again; `ResolvePolicy` is
  `resolveRoomPolicy` with another mode or override. `Replay` is
  `replayRoomMembershipEventsV1`.
- **`RoomAuthority`.** `Revoke` is `applyLocalMembershipRevocationV1`,
  including the call of the membership pipeline it delegates to (the action
  `UpdateMember` on `DelegatedRequest`). `Tighten` is
  `applyLocalRoomGovernanceUpdateV1`. `Revalidated` is
  `assertPreparedRoomAuthorizationCurrentV1`, `CurrentFence` the revision
  record it compares. The revocation pipeline cannot be handed a posture
  signal, so it compares with `UnsignalledFence`. `PassesHeldPolicy` says which
  document a governance caller passes as `currentPolicy`: the one it read when
  it composed, or the room's. Until governance accepts one, the document is the
  default of the mode, so `ResolveRoomPolicy`, which may change the mode, changes
  it too.
- **`RoomLog`.** No function of the repository ties append and reduce together.
  `CreateEvent` is `createAcceptedRoomOperationEventV1`, `Deliver` is `append`
  followed by `reduceRoomOperationEventV1`. A created event stays in flight
  after its delivery, which is how duplicates arise. `retention` is chosen once:
  a run covers both logs. `complete` is a history variable, not state of the
  code; it delimits what is claimed of replay.
- **`RoomObjects`.** `CreateObject` and `UpdateObject` are
  `applyLocalRoomObjectMutationV1`; `UpdatedContent` is `applyContentUpdate`,
  which writes a command's fields into whatever object it is given. A command
  whose fields are all optional (`OptionalTexts`) may leave them out.
- **`PolicyComposition`.** `Composed` is `composeEffectiveRoomPolicyV1`: its
  lists of constraints are the sets `ContentEffects`, `StorageEffect` and
  `MetadataEffect`, and `StrictestOf` is `foldStrictestEffectV1`. `Admitted` is
  `resolveSensitiveRoomAdmissionV1`. Both are pure; `RoomAuthority` relates
  them to the document as `Tighten` changes it.
- **`RoomQueries`.** `snapshot` is the `RoomQuerySnapshotV1` its caller took
  (`TakeSnapshot`), `walk` a listing or search it is in the middle of.
  `BeginWalk` and `NextPage` are `executeRoomQueryV1` without and with a
  cursor: the matrix for the mode of the snapshot, the query policy, which the
  caller may have resolved in any mode, the order the policy leaves, and
  `paginate`. The three status filters are conjoined, as `matchesFilter` does:
  two of them, or an empty one, leave nothing. What has been served so far is
  history kept for the properties. Commands go on underneath, through
  `RoomObjects`' own `CreateObject` and `UpdateObject`.

- **`LocalStorage`.** `records` is the map of `MemoryStorageProvider`, `asked`
  the `StoragePolicyInput` of the policy a caller holds, so that `Policy` is
  `resolveStoragePolicy` of it: `BaselineBackend` and `BaselineFlags` are its
  two switches over mode and class, `Withheld` its shield and risk clauses, and
  the flags that are true are kept as one set. `Write`, `Delete`, `ClearClass`
  and `ClearAll` are the provider's calls with the barrier's assertion in their
  guards. A mode switch (`SwitchMode`) leaves held policies as they are. The
  barrier does not compare the class of a request with the policy's, so callers
  use a policy for any class.

- **`PolicyMatrix`.** `Matrix` is `POLICY_MATRIX_SPECS`, row for row, as a
  function from domains, operations and modes to effects;
  `EvaluatePolicyMatrix` is the function of that name with its three stages:
  the row, `DeviceBaseline`, the room. `RoomQueries` asks the same matrix.
- **`MetadataFirewall`, `NotificationPrivacy`, `NetworkGate`.** A resolver is a
  chain of early returns that ends in "deny"; the predicates `MetadataAllowed`,
  `NotificationAllowed` and `NetworkAllowed` are what is left to allow, one
  conjunct or disjunct for each rule. `...BarrierPasses` is the assertion before
  the operation, check for check.
- **`PrivacyGates`.** A policy is a function of its input, so `question`, the
  input, stands for the policy a caller holds; `decision` is the
  `PolicyDecision` it holds. `Emit`, `Show`, `Store` and `Transmit` are a
  barrier that returns; `served` is history, the operations this decision was let
  through for: the event of a signal, what a notification, a write or a request
  is to do. Neither policy nor decision is tied to a moment, because no barrier
  is.

Data is abstracted to what the properties tell apart: ids, member references
and texts are model values; labels, timestamps, actors of objects, sizes and
wording are left out. In the room pipelines and in `LocalStorage` PolicyDecisions
are left out too: an inauthentic, denied or wrongly scoped one is refused before
any effect, so it is no step of those models. `PrivacyGates` is where they are
modelled.

A definition commented *Fault* is a slip a maintainer could make in the
definition after it (a dropped guard, a counter not advanced, a check on the
wrong record). It takes no part in any specification. Putting it in the place
of its neighbour makes TLC report the property it is paired with: that is the
evidence that the property is about the code and not about the model's shape.

## 3. What the runs check

All runs check deadlock as well; no model can stop, since a caller can always
drop what it holds or resolve a policy again.

| Run | Question | Bounds |
|---|---|---|
| `MembershipRaces` | do two held requests, raced, resubmitted and recomposed across changes of the room policy, keep an owner, lose no update, and only restrict under a forbidding policy? Is the roster an owned roster, and does replay of the memory log, which keeps events whose reduction failed, ever give another? | 2 ids, 2 members, 2 requests, 4 events, revisions to 3, one mode |
| `AuthorityRaces` | do prepared revocations execute only in the room they were prepared in, never add authority and leave an owned roster; do racing governance updates lose none of them and loosen nothing for composition and admission? | 2 founders, roles owner, editor and auditor; 2 modes, 2 lifecycle states, 1 signal, 3 changes, two of them of one field, 2 contexts |
| `RoomLogReplay` | is the memory log well sequenced, does a complete one rebuild the room, does no room reopen, with either log? | 3 event ids, 3 sequence numbers, 2 in flight, 5 kinds of operation |
| `ObjectRaces` | do two held commands on two objects, some meant for another kind, keep redaction final, references resolved, statuses in their kind, settled work settled, expected revisions an exact fence and the log replayable? | 2 ids, 4 events, revisions to 3; messages, tasks and decisions; 4 commands |
| `QueryPages` | do pages partition a snapshot, stay complete across snapshots and policies, and find in a search nothing that may not be read? | 3 objects, 4 events, 3 selections, 3 orders, pages of 1 or 2, policies of Standard and Ghost |
| `StorageModes` | do room, risk and shield only tighten a policy? Does what a policy of its own class puts in memory belong there, whatever mode and sensitivity the policy is for? | 5 modes, 11 classes from every group, content and metadata, 4 combinations of room policy, risk and shield, one record |
| `PrivacyGates` | can a policy of any moment and any decision together pass something that leaves the device or stays on it, where the policy is the request's own? What operations can one decision serve? Do the matrix and the engines agree, does any circumstance make a row conflict with the rules, does anything stricter permit more? | every mode, event, operation and matrix row; the sinks, surfaces and classes told apart by a rule; 13 decisions, 72 requests; one policy held at a time, a decision used for 2 operations |

The bounds are the smallest at which the cases of interest happen, checked by
the faults: two requests are what a race needs, and two owners who suspend each
other need four events (bootstrap, add, and one each). Three revisions let a
held snapshot be current, one behind and two behind, and reach the revision
limit, which the code puts at the largest safe integer. One context is enough
for revocations because everything that can invalidate it is an action of its
own; governance needs two, because updates invalidate each other. The two would
be too many states together, so `AuthorityRaces` takes `RacesNext` of
`MCRoomAuthority`: revocations across modes, roles, seals and signals while the
room has no document, governance and revocations together in one mode, one
governance command alone across modes, from the defaults of each. Objects
interact only through references, so two are enough there; a task, whose status
command meets messages and decisions, and a decision, whose command meets
messages and tasks, are two kinds with a table each. Pages need three objects: one
served, one the cursor could skip, one behind it. Two of them carry the same
creation label, so that the order falls back on the id, and Standard and Ghost
differ in whether timestamps order anything. Ids, members and texts are never
compared but for equality, which is what makes them symmetric (in `RoomQueries`
ids are compared, and nothing is). What the barriers claim is about one policy,
one decision and one request each, so one of each at a time is all there is to
hold; of `served`, which is forgotten with the decision, they relate two
operations, so two (`MaxServed`) are enough.

Some cases a property speaks of are beyond the run and left to its theorem.
`RoomLogReplay` has five kinds of operation, none of which leads to an archived
or emergency-locked room; `RoomsOnlyClose` covers those. In `ObjectRaces` only
the flag of the room policy turns, Emergency is not among its modes;
`StrictAlwaysErases` covers it. Nor has the run notes, polls and files, or the
commands on them: `StatusAlwaysFitsKind` and `SettledAlwaysSettled` are about all
kinds and commands, the question of an opened poll included.

### Disagreements

Each of these runs ends in a counterexample: the property quotes the
repository, and the code does otherwise.

- `MembershipDuplicateMember`: suspend a member, add the same member under a
  new id, reactivate the first: two active records of one member
  (`membership-reducer.ts:35` looks at creations only).
- `MembershipStaleActor`: a demoted owner's older context is still accepted,
  because the pipeline compares the descriptor with the record inside the
  caller's context (`membership-pipeline.ts:167`).
- `AuthorityHeldPolicy`: a governance caller that passes the document it read
  undoes a tightening accepted in between (`governance-pipeline.ts:142`).
- `GatesForeignPolicy`: the network barrier compares neither the operation nor
  the transport of the policy with those of the request
  (`networkBarrier.ts:53`). A policy for a poll in Standard, or for a QR code in
  Bunker, lets an `ai.remote_request` pass, though `docs/NETWORK_MODEL.md:44`
  denies remote AI in every mode and line 61 asks that the policy allow the
  transport.
- `StorageEmergency`: a record written to memory before a switch to Emergency
  cannot be deleted under a policy of Emergency. `zeroPersistence.ts:20`,
  `docs/PRIVACY_MODEL.md:73` and a test say that deletes stay possible, and the
  policy's flag says so too, but the policy is for the null backend: the memory
  provider, which has the records, refuses it (`providers.ts:77`), and the null
  provider answers ok and deletes nothing. The same holds of previews after a
  switch from Standard to Private and of content after one to Standard.

Other disagreements the models show, without a run of their own (TLC finds each
of the first four when the property named with it is asked to rule it out):

- A room policy that names `memory_only` makes the content of Standard storable
  (`packages/storage/src/policy.ts:297`): the baseline names the placeholder,
  which refuses every call, and memory counts as the stricter of the two. Line
  284 says that a room "can never allow what the device denies",
  `docs/STORAGE_MODEL.md:175` that Standard content writes fail hard,
  `docs/POLICY_MATRIX.md:30` that there is no silent memory fallback.
  `OwnPolicyPlacesWell` excludes that room.
- The storage barrier compares no data class
  (`packages/storage/src/barrier.ts:84`), so that a policy resolved for a
  thumbnail cache lets key material into memory, which `policy.ts:190` excludes;
  `docs/STORAGE_MODEL.md:87` says that what nothing explicitly allows is denied.
  `OwnPolicyPlacesWell` speaks of policies of the record's own class.
- `resolveNetworkPolicy` knows "unknown" as a transport (`networkPolicy.ts:79`)
  and allows it in Standard, Private and sovereign rooms;
  `docs/NETWORK_MODEL.md:41` and `networkMetadata.ts:137` say that it is denied.
  `OwnPoliciesHold` does not rule that transport out.
- A decision for `metadata.emit` serves every local signal of its capability, and
  one for `notification.show` every in-app indicator (`metadataBarrier.ts:139`),
  though `privacy/src/index.ts:97` and 110 say that a decision issued for one must
  not authorize another. `DecisionKeepsItsScope` names both cases (`ShareScope`).
- Once a policy document exists, its counter replaces the fingerprint of the
  room policy in the fence (`authorization-revision.ts:67`), and a room policy
  tightened after that leaves prepared contexts valid, though
  `docs/SOVEREIGN_ROOMS.md:77` says it invalidates them.
  `RevocationStillPreparable` therefore speaks of rooms without a document only.
- `docs/STORAGE_MODEL.md:16` says media caches are denied in Ghost; the policy
  denies them `storage.cache.write` but not `storage.write`
  (`policy.ts:171`, see `DeniedWhenStrict`).
- The membership pipeline appends its event (`membership-pipeline.ts:227`)
  before the reducer refuses an id in use or an active member, so an add that
  fails leaves an event and a sequence number behind; line 4 of that file says
  a failure produces "no event, no log entry". `Commit` keeps both.
- The membership pipeline asks its policy about `command.mode`, which it
  compares with nothing (`membership-pipeline.ts:133`). While the room policy
  still allows mutation, a reactivation composed in Standard is accepted in
  Bunker, though `docs/POLICY_MATRIX.md:79` denies expansion there. What does
  hold is `StrictPolicyOnlyRestricts`: the room policy's flag is read at
  submission.
- `membership-policy.ts:32` says restrictive commands survive strict modes, but
  in Bunker and Emergency nobody can obtain the capability for one
  (`capability-resolution.ts:90`); see `Resolves`.
- The revocation pipeline has no argument for the posture signal
  (`revocation-pipeline.ts:90`), so a context prepared without one executes on
  a device that has reported `at_risk` since.
- An event created before a lock and appended after it stays in the room log,
  and every later replay throws (`room-log.ts:105`): the case in which
  `complete` becomes false.
- A projection that begins to redact titles, and a tombstone, keep the title
  the state had and mark it redacted (`room-reducer.ts:90`).
- `applyContentUpdate` compares no kind (`object-events.ts:298`): a
  `message.edit` gives a poll a body. Statuses do not leak, because the
  transition tables share none (`StatusFitsKind`).
- The object pipeline never compares the retention its policy asks for with the
  log it is given (`object-pipeline.ts:173`).
- Neither composition nor admission asks the mode for the defaults of the
  document. A document governance accepted in Standard keeps `protected_content:
  none` when the mode becomes Bunker, and composition then allows operations on
  content, though `room-policy-document.ts` gives a Bunker room a level that denies
  them.
- Admission denies `room.open_summary` in Emergency
  (`sensitive-admission.ts:41`) where the matrix admits a room summary, and
  permits it on a device at risk where composition allows nothing.
- `resolveRoomQueryPolicy` takes a room policy and reads nothing of it, though
  `query-policy.ts:6` lists it among what decides. A snapshot taken in Bunker
  and a policy resolved in Standard show content that
  `packages/privacy/src/policyMatrix.ts:1365` rules out in Bunker; for
  Emergency both sides are asked.
- A detail view keeps the revision whatever the policy says of revisions
  (`query-redaction.ts:109`), and a get on an older snapshot shows content
  redacted since.
- A cursor carries no filter, and one whose object is no longer listed ends the
  listing without an error (`query-executor.ts:138`): the reason
  `StableWalkComplete` speaks of selections by what never changes. An order by
  revision promises nothing across snapshots.
- `clear` of the room log forgets ids and numbers (`room-log.ts:134`), so an
  old event may be accepted again and replay shows another room than callers
  see.
- The matrix denies `network.request` in every mode (`policyMatrix.ts:218`),
  the resolver allows it on placeholders; `RowsOfTransport` leaves that row out.
- The metadata resolver does not read the device risk, which the matrix makes
  deny shield-marked rows at "critical" (`docs/POLICY_MATRIX.md:23`), and
  storage writes caches at that risk. `LayersAgree` is about mode and screen.
- `LayersAgree` leaves out one more row, `storage.write.protected_reveal_state`,
  which denies persisting what the engine keeps in memory. The row
  `storage.write.memory` is compared, in rooms that do not name memory: in one
  that does, content is storable in Standard, where the row waits for a gate.
- `isMetadataEventForbiddenInMode` calls `cache.exists` forbidden outside
  Standard, the resolver allows it in Private (`metadataPolicy.ts:177`).
- No barrier compares the mode of a decision, or of a policy, with anything: a
  policy of Standard is as good after a switch to Ghost.
- Writing memory waits for a gate in Standard and is allowed in Private
  (`StorageRows`), the one row where a stricter mode allows more; and in the
  order of effects "require_user_action" is looser than "memory_only", so that
  the stricter of the two is the one that executes.

### Fairness and liveness

No specification states fairness and no liveness is claimed. Nothing in the
library runs by itself: no timer, task or callback of it takes a step, every
function returns to the caller that called it. Whether a held request is ever
submitted, or a next page ever asked for, is up to callers outside the
repository, so any fairness here would be an assumption the code does not
justify, and any liveness a statement about that assumption.

## 4. What is proved

Every property of a passing run is stated by a theorem below, so that the run
shows it on a small instance and the proof for all of them.

`MembershipProofs` proves, for any finite set of ids, any set of members, any
bounds and either log:

| Theorem | Statement |
|---|---|
| `TypeCorrect` | `Spec => []TypeOK` |
| `RecordsAlwaysAdvance` | `Spec => RecordsAdvance` |
| `SnapshotsAlwaysCoherent` | `Spec => []SnapshotsCoherent` |
| `UpdatesNeverLost` | `Spec => NoLostUpdate` |
| `OwnerAlwaysContinues` | `Spec => []OwnerContinuity` |
| `StrictPolicyAlwaysRestricts` | `Spec => StrictPolicyOnlyRestricts` |
| `RosterIsOwned` | `Spec => ImplementsOwnedRoster`, the refinement of `OwnedRoster` |
| `ReplayNeverEverDiverges` | `Spec => []ReplayNeverDiverges` |

The assumptions are `MembershipAssumption` (the bounds are numbers, ids are
finitely many, roles and modes come from their tables) and
`NoRecordAssumption` (the value for "no record" is not a record). TLC evaluates
both in every membership run.

The argument: `TypeOK` is inductive by itself. `RecordStep` says what a step
does to one record: nothing, a creation under a free id, or an accepted update
of a record that is not removed; hence a changed record has the next revision
(`Advance`). That makes `SnapshotsCoherent` inductive relative to `TypeOK`: a
snapshot once read is never ahead of the projection, and at equal revision it
is the record itself. `NoLostUpdate` is then a consequence of the revision
check alone. `OwnerContinuity` is not inductive without it: an add is accepted
if its actor is present, and that there is then somebody to be the owner needs
`SnapshotsCoherent` (the actor of a held request is an id of the roster) and
the previous owner, who is not the target of an add. For updates the
cardinality bound of `KeepsAnOwner` is turned into "another active owner
remains, or the target stays one" with the library's facts on finite sets. The
refinement needs all three invariants; what a request that writes a record does
to the abstract roster is `WritingIsOwnedStep`, which authorization uses again.

`ReplayNeverDiverges` and its like for objects and rooms need an induction over
the log, and a replay is a recursive function over it. `Recurrence` supplies
both. Its lemmas speak of the *set* of numbers a statement holds of and of a
step as a *function*, because a lemma about every predicate or every operator
cannot be instantiated here: that the numbers are well-founded gives every
non-empty set of them a least member (`LeastNumber`), from which follow
induction (`UpTo`), that a recursion whose steps stay within a set has a
solution (`SolutionExists`), and that two recursions with equal first values and
steps agree (`SameStepsAgree`). The proofs look at a replay as its `Stages`, the
results after each event: the stages exist, those of a prefix are stages of the
whole, so one more event is one more step, and that step is the one `Commit`
took. For membership the interesting case is the event whose reduction failed:
it stays in the log, where replay throws at it ever after, and what the property
claims is that replay throws or gives the roster, and never another one.

`ObjectProofs` proves, for any objects, texts, commands, statuses and bounds
and either log:

| Theorem | Statement |
|---|---|
| `ObjectTypeCorrect` | `ObjectSpec => []ObjectTypeOK` |
| `ObjectsAlwaysAdvance` | `ObjectSpec => ObjectsAdvance` |
| `RedactedNeverHasContent` | `ObjectSpec => []RedactedHasNoContent` |
| `CommandsAlwaysCoherent` | `ObjectSpec => []CommandsCoherent` |
| `ObjectUpdatesNeverLost` | `ObjectSpec => NoLostObjectUpdate` |
| `StrictAlwaysErases` | `ObjectSpec => StrictOnlyErases` |
| `ArchiveAlwaysReadOnly` | `ObjectSpec => ArchiveReadOnly` |
| `StatusAlwaysFitsKind` | `ObjectSpec => []StatusFitsKind` |
| `ReferencesAlwaysResolve` | `ObjectSpec => []ReferencesResolve` |
| `SettledAlwaysSettled` | `ObjectSpec => SettledStaysSettled` |
| `ObjectsAlwaysRebuildable` | `ObjectSpec => []ObjectsRebuildable` |

The assumptions are `RoomObjectsAssumption` and `InputCommandsAssumption` (the
bounds are numbers, what is enumerated comes from the tables, "nothing" is
neither a text nor an id), `NoContentAssumption`, `NoObjectAssumption` and
`RejectedAssumption` (a null is not a content, "no object" not an object, a
replay that throws not a projection). TLC evaluates them in the object run.

The argument: `UpdatedType` says what `buildResultingObject` makes of a typed
object, whatever the command, and `ObjectStep` that an object changes only by
an accepted command naming it, never as a tombstone; types, `ObjectsAdvance`,
the redaction invariant and the archive follow from the two. As for membership,
`ObjectsAdvance` makes `CommandsCoherent` inductive, and no update is lost
because of it. `StrictOnlyErases` needs `EmergencyIsStrict`, since the pipeline
reads the mode of the command and only the flag of the room. The pipeline
compares no kind, so that a status fits its kind rests on the tables being
closed and disjoint (`StatusTables`); with it, a superseding reference is known
to sit in a decision, which `ReferencesResolve` needs to be inductive, and an
open poll is known to be a poll, whose question (`FieldsPresent`) only a draft
edit writes. `ObjectsRebuildable` is strengthened by `ObjectLogNumbered`: the
memory log has an event for every sequence number, so that the number a command
was given is the stage its event takes the replay to; and an accepted command is
one replay can reduce (`AcceptedReducible`).

`AuthorityProofs` proves, for any members, founders and bounds:

| Theorem | Statement | Callers of governance |
|---|---|---|
| `AuthorityTypeCorrect` | `AuthoritySpec => []AuthorityTypeOK` | any |
| `RevocationsKeepAnOwner` | `AuthoritySpec => []OwnerContinuity` | any |
| `RevocationsActOnPreparedState` | `AuthoritySpec => RevocationActsOnPreparedState` | any |
| `RevocationsNeverEscalate` | `AuthoritySpec => RevocationNeverEscalates` | any |
| `RevocationsStillPreparable` | `AuthoritySpec => RevocationStillPreparable` | any |
| `FoundedRosterIsOwned` | `AuthoritySpec => ImplementsFoundedRoster`, the refinement of `OwnedRoster` | any |
| `ReadersAlwaysAgree` | `AuthoritySpec => []AdmissionAgreesWithComposition` | any |
| `DocumentRevisionAlwaysExact` | `AuthoritySpec => []DocumentRevisionExact` | pass the room's document |
| `TighteningsNeverLost` | `AuthoritySpec => NoLostTightening` | pass the room's document |
| `TighteningsNeverLoosen` | `AuthoritySpec => TighteningNeverLoosens` | pass the room's document |

The last three assume `~PassesHeldPolicy`, that callers of governance pass the
room's document; that governance is not tighten-only where they pass one they
read earlier is what the run `AuthorityHeldPolicy` shows. The other assumptions
are those of `Membership` and `RoomAuthorityAssumption` (a room as it is
founded: first revisions, all active, one record per member, an owner), which
TLC evaluates in every authority run.

The argument: only an update request writes records (`AuthorityWrites`), so the
lemmas about the membership pipeline, stated there for any request and not only
for held ones, carry over: types, and an owner wherever there was one
(`UpdateKeepsAnOwner`). `PreparedCoherent`, every record a context is bound to
is the room's or of an earlier revision, is inductive because a changed record
has the next revision; with it the comparison of revisions in `Revalidated` and
`TargetBound` becomes equality of records. That a revocation takes authority
away is a matter of the role comparison alone. `RevocationStillPreparable` adds
`PreparedUnderFence`: while the room has no document, the policy part of a fence
is the bit of the room policy's fingerprint, and the context was resolved under
the mode and the bit in its fence; equality of fences at execution then makes
both those of the moment. It is not true of rooms with a document, and a counter
once present never goes (`PolicyRevisionStep`). The refinement is
`AuthorityWrites` and `WritingIsOwnedStep`: whoever writes the records, it is an
accepted update that leaves an owner. For governance, `TightenReplaces` says
what an accepted command makes of the document, and `DocumentRevisionExact` is
inductive by itself; it turns the comparison of revisions into equality of
documents. Before governance has accepted a document there is none to lose:
every default has the first revision, so a command composed against the defaults
of one mode may, prepared again, tighten those of another, and
`NoLostTightening` claims nothing of it. `TighteningNeverLoosens` is the lemmas
`CompositionMonotone` and `AdmissionMonotone`, about any two documents of which
the second is nowhere looser: unmet posture and presentation stay unmet, every
effect that was folded is folded still or is replaced by a stricter one, and the
fold is monotone (`StrictestMonotone`).

`StorageProofs` proves, for any keys, modes, classes, sensitivities and
restrictions, any number of records and callers that use any policy for any
class:

| Theorem | Statement |
|---|---|
| `StorageTypeCorrect` | `StorageSpec => []StorageTypeOK` |
| `StrictModesStayInMemory` | `StorageSpec => []StrictModesNeverPersist` |
| `RestrictionsAlwaysTighten` | `StorageSpec => []RestrictionsOnlyTighten` |
| `ArtifactsNeverCarryContent` | `StorageSpec => []ArtifactsCarryNoContent` |
| `OwnPoliciesPlaceWell` | `StorageSpec => OwnPolicyPlacesWell` |

The assumption is `StorageAssumption` (what is enumerated comes from the
tables). The argument: `StorageStep` says that a record is there unchanged, gone,
or written under the policy of the moment; the second and third theorems are then
about `Resolved` alone. `OwnPolicyPlacesWell` is about writes under a policy of
the record's class in a room that does not name memory; neither premise can be
dropped (section 3). That the sensitivity a policy was resolved for does not
matter (`OwnPolicyWrites`) rests on logs being the only class whose write flag
depends on it, and on the barrier refusing content to logs by looking at the
request. That the backend of the record's own policy is memory too is
`MemoryIsTheBaselines`: memory is what the baseline names unless a restriction
named it.

`GateProofs` proves, for any questions, decisions and requests callers come up
with:

| Theorem | Statement |
|---|---|
| `GatesTypeCorrect` | `GatesSpec => []GatesTypeOK` |
| `OwnPoliciesAlwaysHold` | `GatesSpec => []OwnPoliciesHold` |
| `DecisionsKeepTheirScope` | `GatesSpec => []DecisionKeepsItsScope` |
| `NothingEverLoosens` | `GatesSpec => []StricterNeverLoosens` |
| `MatrixAlwaysConflictFree` | `GatesSpec => []MatrixConflictFree` |
| `LayersAlwaysAgree` | `GatesSpec => []LayersAgree` |
| `MatrixOnlyTightens` | a decision of the matrix allows only what the row alone allows |

The assumption is `GatesAssumption`: questions, decisions and requests are of
their types. The argument: what a barrier passes is a matter of the policy and
decision presented, so for each barrier a lemma (`WhatSignalsPass`,
`WhatIndicatorsPass`, `WhatMayBeWritten`, `WhatRequestsPass`) says what passes
it under a typed policy. `OwnPoliciesHold` puts them together: for signals and
notifications the barrier makes the policy the request's own, for writes and
requests it is a premise, and what is claimed of a request under the policy of
another is only what the barrier itself refuses. `DecisionKeepsItsScope` is
strengthened to `ServedWithinScope`: everything a decision was let through for
has the scope and, for signals, the capability of the decision; that the scopes
of different gates are disjoint (`ScopesDisjoint`) does the rest.
`NothingEverLoosens` is one lemma for each gate, and for the matrix `Tight`, row
for row: what Emergency, Ghost or Bunker allow the looser mode of the row allows
too. It is closed under joining tables, and a screen, a risk or a room applied
to both modes preserves it. `MatrixConflictFree` goes the same way. A decision
that allows nothing conflicts with few rules, so what has to be shown is of rows
the rules forbid to allow: `Refuses` says that a table bars some operations in
some modes, group by group and over unions, and `Refused` lists the operations;
a circumstance can only tighten what a row says (`MatrixOnlyTightens`).
`LayersAgree` is about the opposite direction and looks rows up: where a
resolver allows, `RowsOfAllowed` names the rows about it, one lemma for each
gate reads the effect off the row (`SignalsAgree`, `IndicatorsAgree`,
`ClassesAgree`, `TransportsAgree`), and an allowing effect outlives the screen
(`AllowingRowAdmits`).

`RoomLogProofs` proves, for any ids, titles, members, objects and bounds and
either log:

| Theorem | Statement |
|---|---|
| `RoomLogTypeCorrect` | `RoomLogSpec => []RoomLogTypeOK` |
| `LogAlwaysWellSequenced` | `RoomLogSpec => []LogWellSequenced` |
| `RoomsOnlyClose` | `RoomLogSpec => RoomOnlyCloses` |
| `RoomAlwaysRebuildable` | `RoomLogSpec => []RoomRebuildable` |
| `ReplayAlwaysHonoursRedaction` | `RoomLogSpec => []ReplayHonoursRedaction` |

The assumptions are `RoomLogAssumption` (operations and targets callers use are
those of the code, the bounds are numbers) and `RejectedAssumption` (a replay
that throws is not a room). `LogWellSequenced` is not inductive:
an append is judged by the sequence in the log's status, so it is strengthened
by `LogMatchesStatus`, that a memory log's last sequence is its length and a
null log retains nothing. `RoomsOnlyClose` rests on one lemma about the
lifecycle table, `PermittedOnlyCloses`, and on nothing the log refuses.
`RoomRebuildable` is not inductive either, since replay uses the policy of the
day and the policy may change under an unchanged log: the invariant is
`Rebuilt`, that the log replays, under *either* policy, to a room that is the
current one but for its title. Two such rooms stay alike under one more event
whichever policy reduces it (`AlikeAfter`), because no guard of the reducer
looks at a title. That no stage of a redacting replay has a title
(`StagesUntitled`) is an induction over the log alone.

`QueryProofs` proves, for any set of object ids, creation labels, selections,
policies and page sizes:

| Theorem | Statement |
|---|---|
| `QueryTypeCorrect` | `QuerySpec => [](QueryTypeOK /\ FinitelyMany)` |
| `PagesAlwaysPartition` | `QuerySpec => []PagesPartition` |
| `StableWalkAlwaysComplete` | `QuerySpec => []StableWalkComplete` |
| `SearchesFindOnlyReadable` | `QuerySpec => []SearchFindsOnlyReadable` |

The assumptions are those of `RoomObjects`, `RoomQueriesAssumption` (ids are
compared, which numbers stand for, creation labels are numbers, a page has room
for an object) and `InputSelectionsAssumption`. `Ordered` is *a* list of the
selected objects in order, and everything rests on there being one: for a
strict order on a finite set there is (`SortedListExists`, by induction on the
size of the set, taking the greatest member off), and any such list has every
member once (`SortedListComplete`). The ids may be infinitely many, so
`FinitelyMany`, that finitely many objects exist, is an invariant of its own.

A page is described by `Serves`: from the place after the cursor it takes a
piece of the list, moves the cursor to its end, and is the last one exactly when
it reaches the end of the list. `PagesInv` says that the cursor is the last
object served and, of a walk that has kept to one snapshot and policy, that what
it served is a beginning of the list and the list is used up exactly when the
walk is done. Across snapshots the list changes under the cursor, so
`StableInv` is about the order instead: what was served ascends, and of what was
there at first everything is served or is ahead of the cursor. It needs
that a snapshot is behind the projection, in which objects keep their kind and
are never forgotten (`SnapshotBehind`), and that the order of two objects is the
same in all snapshots, which is why the order by revision is excluded.

A search and the reading of content are judged by different matrix rows
and policy flags, in two modes that need not agree; one lemma for the matrix
(`SearchImpliesDetail`, through the rows that `++` joins) and one for the query
policy (`SearchPolicyShowsContent`) say that each is stricter on searches.
`SearchesFindOnlyReadable` needs no invariant.

What stays with TLC: the five runs that end in a counterexample, and that no
model deadlocks, which is a statement about ENABLED. Proved and in no run are
`RecordsAdvance`, `ObjectsAdvance`, `SnapshotsCoherent`, `CommandsCoherent`,
`ArchiveReadOnly` and `DocumentRevisionExact`, which others rest on or follow
from the same lemmas, and `StrictModesNeverPersist`, `ArtifactsCarryNoContent`
and `MatrixOnlyTightens`.

## 5. What is not modelled

- Validation of command fields, sizes and labels; ids' formats; redacted views,
  audit records and reports: functions without state that no property is about.
- `clear` of the membership and object logs, and the governance log, which has
  no replay.
- Contexts prepared for objects and views: no pipeline takes one.
- A second room: every pipeline first compares room ids.
- A caller that keeps its own copy of a projection and forks the history.
- In queries: what is shown of an object besides its content, the filter by
  tag, the order by update label, and the validation of requests.
- In composition: the trace of layers and the wording of reasons, and the
  layers that only ever answer "allow".
- In storage: the format of keys, the cloning of values, labels of time,
  and the null provider and placeholder beyond refusing or keeping nothing.
- Capability attenuation: planned below.
- The link-preview and external-asset policies, which deny everything in every
  mode; reason codes and rationales of the matrix; the format of endpoints,
  URLs and payloads beyond valid and safe.
- Forged decisions: `isPolicyDecision` is membership in a private set, and the
  model has no others than issued ones.
- Applications, UI, the stub packages and the scans of the repository's check
  scripts: no behaviour.

## 6. Plan

1. Membership, its races, replay and proofs. *Done.*
2. Authorization, revocation and governance over it. *Done.*
3. Room log and objects. *Done.*
4. Queries over the object projection. *Done*, except for metadata in views:
   a later version compares what each view shows with what the policy grants.
5. Policy composition, admission and posture, over governance. *Done.*
6. Capability attenuation: descriptors narrowed by object, kind, view and
   count; an attenuated descriptor never allows what its parent does not.
   With `RoomAuthority`'s runs.
7. Storage policy, barrier and memory provider. *Done.*
8. The policy matrix, the barriers of metadata, notifications and the network,
   and their composition. *Done.*
9. Callers that keep their own copy of a projection: what the one shared log
   still promises when histories fork.
10. Proofs of every property of the passing runs, replays and pages included.
   *Done.* Next with each later module its own; for point 6 that attenuation is
   transitive, over chains of any length, with `Recurrence`.

Each module is written with its proofs in mind: parameters are constants with
named assumptions, invariants are conjunctions of named parts, and recursion is
by recursive functions.
