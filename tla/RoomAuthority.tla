-------------------------- MODULE RoomAuthority --------------------------
(***************************************************************************)
(* Prepared authorization over the membership pipeline: a context is       *)
(* prepared against the room as it is, travels with a command, and is      *)
(* revalidated when the command executes.  Two pipelines execute with one: *)
(* the revocation pipeline, which delegates to the membership pipeline,    *)
(* and the governance pipeline, which tightens the room's policy document. *)
(*                                                                         *)
(* Between preparation and execution anything may happen: other commands,  *)
(* mode and policy changes, lifecycle operations, device signals.  The     *)
(* ordinary membership pipeline is one of the things that happen; its own  *)
(* held requests are the subject of Membership, here it acts at once.      *)
(* Callers pass the device's posture signal wherever the code takes one.   *)
(*                                                                         *)
(* Not modelled: contexts prepared for object and query operations (no     *)
(* pipeline of the repository takes them), PolicyDecisions, a second room, *)
(* and a context for another actor than the command's (always refused).    *)
(***************************************************************************)
EXTENDS Membership, RoomLifecycle, PolicyComposition

CONSTANTS
  Founders,          \* who the room starts with, just created
  InputChanges,      \* bound of the model: governance changes tried
  InputLifecycles,   \* bound of the model: lifecycle states visited
  PassesHeldPolicy,  \* does a governance caller pass the document it read
                     \* earlier, or the room's document?
  MaxSignal,         \* bound of the model: device posture signals
  MaxPrepared        \* bound of the model: contexts held at a time

ASSUME RoomAuthorityAssumption ==
  /\ Founders \in [MembershipIds -> Records \cup {NoRecord}]
  /\ \A id \in Present(Founders) :
       /\ Founders[id].revision = 1
       /\ Founders[id].state = "active"
       /\ \A other \in Present(Founders) \ {id} :
            Founders[other].memberRef # Founders[id].memberRef
  /\ ActiveOwners(Founders) # {}
  /\ Retention = "null"  \* the membership log plays no part here
  /\ InputChanges \subseteq Changes
  /\ InputLifecycles \subseteq Lifecycles
  /\ PassesHeldPolicy \in BOOLEAN
  /\ MaxSignal \in Nat
  /\ MaxPrepared \in Nat

\* What a preparation is bound to besides records (RoomAuthorizationRevisionV1).
Fences ==
  [policy : Nat, mode : Modes, lifecycle : Lifecycles,
   atRisk : BOOLEAN, signal : Nat]

\* A revocation command with its PreparedRoomAuthorizationV1.  The command's
\* expectedRevision and the target binding are read off the same record.
Revocations ==
  [command      : {"change_role", "suspend", "remove"},
   actor        : MembershipIds,
   actorRecord  : Records,
   target       : MembershipIds,
   targetRecord : Records,
   role         : Roles,
   fence        : Fences]

\* A governance command with its context; expectedPolicyRevision is read off
\* the document.
Tightenings ==
  [actor       : MembershipIds,
   actorRecord : Records,
   document    : Documents,
   change      : Changes,
   fence       : Fences]

VARIABLES
  lifecycle,       \* roomState.lifecycle
  document,        \* roomState.policyDocument; before there is one, the
                   \* defaults callers derive from the mode they are in
  policyRevision,  \* roomState.policyRevision; 0 while absent
  atRisk,          \* does the device report at_risk?
  signal,          \* signalRevision of its latest signal; 0 before the first
  revocations,     \* prepared revocations held by callers
  tightenings      \* prepared governance updates held by callers

governanceVars == <<document, policyRevision>>
deviceVars     == <<atRisk, signal>>
preparedVars   == <<revocations, tightenings>>
authorityVars  == <<vars, lifecycle, governanceVars, deviceVars, preparedVars>>

AuthorityTypeOK ==
  /\ TypeOK
  /\ lifecycle \in Lifecycles
  /\ document \in Documents
  /\ policyRevision \in Nat
  /\ atRisk \in BOOLEAN
  /\ signal \in Nat
  /\ revocations \subseteq Revocations
  /\ tightenings \subseteq Tightenings

------------------------------------------------------------------------------
(* The fence                                                               *)

\* computeRoomPolicyFingerprintV1: between two policies of one mode and one
\* lifecycle, which are fenced themselves, only content mutation and title
\* redaction can differ.  Titles play no part here; leaving their bit out, the
\* model accepts more contexts than the code.
Fingerprint == IF mutable THEN 1 ELSE 0

\* roomPolicyRevisionOfV1: the counter once there is one.
PolicyFence == IF policyRevision = 0 THEN Fingerprint ELSE policyRevision

\* roomAuthorizationRevisionV1, with the device posture as it is now.
CurrentFence ==
  [policy |-> PolicyFence, mode |-> mode, lifecycle |-> lifecycle,
   atRisk |-> atRisk, signal |-> signal]

\* The posture resolved when no signal is passed: unverified, revision 0.
UnsignalledFence == [CurrentFence EXCEPT !.atRisk = FALSE, !.signal = 0]

\* Fault: the record is matched on everything but its revision.
RevalidatedIgnoringRevision(actor, prepared, cap, fence) ==
  /\ roster[actor] # NoRecord
  /\ roster[actor].memberRef = prepared.actorRecord.memberRef
  /\ roster[actor].state = "active"
  /\ roster[actor].role = prepared.actorRecord.role
  /\ prepared.fence = fence
  /\ cap \in EligibleCaps(roster[actor].role)

\* Fault: the fence is not compared.
RevalidatedIgnoringFence(actor, prepared, cap, fence) ==
  /\ roster[actor] # NoRecord
  /\ roster[actor].memberRef = prepared.actorRecord.memberRef
  /\ roster[actor].state = "active"
  /\ roster[actor].revision = prepared.actorRecord.revision
  /\ roster[actor].role = prepared.actorRecord.role
  /\ cap \in EligibleCaps(roster[actor].role)

\* assertPreparedRoomAuthorizationCurrentV1, its target binding apart.
Revalidated(actor, prepared, cap, fence) ==
  /\ roster[actor] # NoRecord
  /\ roster[actor].memberRef = prepared.actorRecord.memberRef
  /\ roster[actor].state = "active"
  /\ roster[actor].revision = prepared.actorRecord.revision
  /\ roster[actor].role = prepared.actorRecord.role
  /\ prepared.fence = fence
  /\ cap \in EligibleCaps(roster[actor].role)

\* prepareRoomAuthorizationV1 succeeds for this actor and capability.
Preparable(actor, cap) ==
  /\ roster[actor] # NoRecord
  /\ Resolves(roster[actor], cap, mode, mutable)

------------------------------------------------------------------------------
(* The pipelines                                                           *)

\* The request the revocation pipeline delegates: the actor's record is the
\* projection's, its descriptor the prepared one; the command was composed with
\* the preparation, in its mode.
DelegatedRequest(p) ==
  [command |-> p.command, actor |-> p.actor, membership |-> roster[p.actor],
   target |-> p.target, seen |-> p.targetRecord,
   memberRef |-> p.targetRecord.memberRef, role |-> p.role,
   mode |-> p.fence.mode]

\* Fault: a change between incomparable roles is let through.
RestrictiveUnlessExpansive(p) ==
  ChangeDirection(p.command, roster[p.target].role, p.role) # "expansive"

\* The pipeline accepts restrictive and neutral commands only.
RestrictiveNow(p) ==
  ChangeDirection(p.command, roster[p.target].role, p.role)
    \in {"restrictive", "neutral"}

\* The prepared target is the current one, at its revision.
TargetBound(p) == p.targetRecord.revision = roster[p.target].revision

\* applyLocalMembershipRevocationV1; it passes no posture signal.
Revoke(p) ==
  /\ roster[p.target] # NoRecord
  /\ RestrictiveNow(p)
  /\ Revalidated(p.actor, p, CapabilityOf[p.command], UnsignalledFence)
  /\ TargetBound(p)
  /\ UpdateMember(DelegatedRequest(p))
  /\ UNCHANGED <<lifecycle, governanceVars, deviceVars, preparedVars>>

\* The document handed to the governance pipeline as currentPolicy.
PassedPolicy(t) == IF PassesHeldPolicy THEN t.document ELSE document

\* Fault: a candidate passes unless it only loosens.
AcceptedUnlessLooser(current, candidate) == ComparePolicies(current, candidate) # "looser"

Accepted(current, candidate) == ComparePolicies(current, candidate) = "stricter"

\* Fault: expectedPolicyRevision is not compared.
ExpectedRevisionIgnored(t) == TRUE

ExpectedRevision(t) == t.document.revision = PassedPolicy(t).revision

\* applyLocalRoomGovernanceUpdateV1, its caller passing the device's signal;
\* the governance log accepts whatever the pipeline appends.
Tighten(t) ==
  LET candidate == Candidate(PassedPolicy(t), t.change)
  IN  /\ ExpectedRevision(t)
      /\ Revalidated(t.actor, t, "policy.tighten", CurrentFence)
      /\ Accepted(PassedPolicy(t), candidate)
      /\ document' = candidate
      /\ policyRevision' = candidate.revision
      /\ UNCHANGED <<vars, lifecycle, deviceVars, preparedVars>>

------------------------------------------------------------------------------
(* What callers and the device do                                          *)

PrepareRevocation(actor, target) ==
  /\ Cardinality(revocations) + Cardinality(tightenings) < MaxPrepared
  /\ roster[target] # NoRecord
  /\ \E command \in {"change_role", "suspend", "remove"} :
       /\ Preparable(actor, CapabilityOf[command])
       /\ \E role \in IF command = "change_role" THEN InputRoles
                      ELSE {roster[target].role} :
            revocations' = revocations \cup
              {[command |-> command, actor |-> actor,
                actorRecord |-> roster[actor], target |-> target,
                targetRecord |-> roster[target], role |-> role,
                fence |-> CurrentFence]}
  /\ UNCHANGED <<vars, lifecycle, governanceVars, deviceVars, tightenings>>

PrepareTightening(actor) ==
  /\ Cardinality(revocations) + Cardinality(tightenings) < MaxPrepared
  /\ Preparable(actor, "policy.tighten")
  /\ \E change \in InputChanges :
       tightenings' = tightenings \cup
         {[actor |-> actor, actorRecord |-> roster[actor],
           document |-> document, change |-> change, fence |-> CurrentFence]}
  /\ UNCHANGED <<vars, lifecycle, governanceVars, deviceVars, revocations>>

\* After a stale-context error the caller prepares again and retries the same
\* governance command, with the document it had.
PrepareAgain(t) ==
  /\ Preparable(t.actor, "policy.tighten")
  /\ tightenings' = (tightenings \ {t}) \cup
       {[t EXCEPT !.actorRecord = roster[t.actor], !.fence = CurrentFence]}
  /\ UNCHANGED <<vars, lifecycle, governanceVars, deviceVars, revocations>>

\* The ordinary membership pipeline, with a context resolved just now.
UpdateNow(actor, target) ==
  /\ roster[actor] # NoRecord
  /\ roster[target] # NoRecord
  /\ \E command \in UpdateCommands, role \in InputRoles :
       /\ Resolves(roster[actor], CapabilityOf[command], mode, mutable)
       /\ UpdateMember([command |-> command, actor |-> actor,
                        membership |-> roster[actor], target |-> target,
                        seen |-> roster[target],
                        memberRef |-> roster[target].memberRef, role |-> role,
                        mode |-> mode])
  /\ UNCHANGED <<lifecycle, governanceVars, deviceVars, preparedVars>>

\* resolveRoomPolicy denies everything in a locked lifecycle state.  Another
\* mode has other defaults; a document that governance accepted stays.
ResolveRoomPolicy ==
  /\ ResolvePolicy
  /\ lifecycle \in LockedLifecycles => ~mutable'
  /\ document' = IF policyRevision = 0 THEN DefaultDocument(mode') ELSE document
  /\ UNCHANGED <<lifecycle, policyRevision, deviceVars, preparedVars>>

\* A lifecycle operation of the room log.
MoveLifecycle ==
  /\ \E operation \in LifecycleOperations, target \in Lifecycles :
       /\ Permitted(lifecycle, operation, target)
       /\ lifecycle' = LifecycleAfter(lifecycle, operation, target)
  /\ lifecycle' \in InputLifecycles \ {lifecycle}
  /\ UNCHANGED <<vars, governanceVars, deviceVars, preparedVars>>

\* The device reports its posture; every signal has a revision of its own.
SignalPosture ==
  /\ signal < MaxSignal
  /\ signal' = signal + 1
  /\ atRisk' \in BOOLEAN
  /\ UNCHANGED <<vars, lifecycle, governanceVars, preparedVars>>

DropPrepared ==
  /\ \/ \E p \in revocations : revocations' = revocations \ {p} /\ UNCHANGED tightenings
     \/ \E t \in tightenings : tightenings' = tightenings \ {t} /\ UNCHANGED revocations
  /\ UNCHANGED <<vars, lifecycle, governanceVars, deviceVars>>

AuthorityInit ==
  /\ roster = Founders
  /\ log = <<>>
  /\ lastSequence = Cardinality(Present(Founders))
  /\ mode = "standard"
  /\ mutable = TRUE
  /\ held = {}
  /\ lifecycle = "active_local"
  /\ document = DefaultDocument(mode)
  /\ policyRevision = 0
  /\ atRisk = FALSE
  /\ signal = 0
  /\ revocations = {}
  /\ tightenings = {}

AuthorityNext ==
  \/ \E p \in revocations : Revoke(p)
  \/ \E t \in tightenings : Tighten(t)
  \/ \E actor, target \in MembershipIds : PrepareRevocation(actor, target)
  \/ \E actor \in MembershipIds : PrepareTightening(actor)
  \/ \E t \in tightenings : PrepareAgain(t)
  \/ \E actor, target \in MembershipIds : UpdateNow(actor, target)
  \/ ResolveRoomPolicy
  \/ MoveLifecycle
  \/ SignalPosture
  \/ DropPrepared

AuthoritySpec == AuthorityInit /\ [][AuthorityNext]_authorityVars

------------------------------------------------------------------------------
(* Properties                                                              *)

\* Refinement: prepared revocations, racing each other, ordinary updates and
\* everything else that happens to the room, take only steps of the abstract
\* roster: one member at a time, along the lifecycle, an owner remaining
\* (revocation-pipeline over membership-pipeline and membership-reducer).
ImplementsFoundedRoster == Owned!FoundedSpec

\* A revocation that executes finds the room it was prepared against: both
\* records to the letter, the mode and the lifecycle, whatever was changed and
\* changed back in between (assertPreparedRoomAuthorizationCurrentV1).
RevocationActsOnPreparedState ==
  [][\A p \in revocations :
       Revoke(p) => /\ roster[p.actor] = p.actorRecord
                    /\ roster[p.target] = p.targetRecord
                    /\ mode = p.fence.mode
                    /\ lifecycle = p.fence.lifecycle]_authorityVars

\* No escalation smuggling: nobody gains authority from a revocation, even when
\* a role change prepared as a demotion meets another role.
RevocationNeverEscalates ==
  [][\A p \in revocations :
       Revoke(p) =>
         \A id \in MembershipIds :
           roster'[id] # roster[id] =>
             Authority(roster'[id]) \subseteq Authority(roster[id])]_authorityVars

\* "TIGHTEN-ONLY" (governance-pipeline.ts), "explicit, versioned, tighten-only"
\* (docs/SOVEREIGN_ROOMS.md): what governance makes the room's document is
\* stricter than what it was, whatever document its caller passes.
PolicyOnlyTightens ==
  [][\A t \in tightenings :
       Tighten(t) => ComparePolicies(document, document') = "stricter"]_authorityVars

\* Whatever a governance command changes, no operation is composed looser and
\* no sensitive action is admitted afterwards that was not before, in any mode
\* and with or without a device at risk: what comparison calls stricter is so
\* for everything that reads the document.
TighteningNeverLoosens ==
  [][(\E t \in tightenings : Tighten(t)) =>
       \A m \in Modes, risk \in BOOLEAN :
         /\ \A onContent \in BOOLEAN :
              NoLooser(Composed(document', m, risk, onContent),
                       Composed(document, m, risk, onContent))
         /\ \A action \in AdmissionActions :
              Admitted(document', m, risk, action)
                => Admitted(document, m, risk, action)]_authorityVars

\* The two readers of the document agree: content is admitted exactly where the
\* composed policy allows an operation on it, and a device at risk or a mode of
\* emergency takes away from both and adds to neither.
AdmissionAgreesWithComposition ==
  \A m \in Modes, risk \in BOOLEAN :
    /\ \A action \in ContentActions :
         Admitted(document, m, risk, action) <=> Composed(document, m, risk, TRUE).allowed
    /\ \A onContent \in BOOLEAN :
         /\ NoLooser(Composed(document, m, TRUE, onContent),
                     Composed(document, m, risk, onContent))
         /\ ~Composed(document, "emergency", risk, onContent).allowed

\* expectedPolicyRevision prevents lost tightenings: an accepted governance
\* command was written for the document it tightens, or there was none yet to
\* lose and its author read the defaults of another mode.
NoLostTightening ==
  [][\A t \in tightenings :
       Tighten(t) => t.document = document \/ policyRevision = 0]_authorityVars

\* The counter, once present, is the document's revision; until then the
\* document is the default of the mode.  A caller's copy with the revision of an
\* accepted document is that document.
DocumentRevisionExact ==
  /\ policyRevision \in {0, document.revision}
  /\ policyRevision = 0 => document = DefaultDocument(mode)
  /\ \A t \in tightenings :
       /\ t.document.revision <= document.revision
       /\ t.document.revision = document.revision =>
            t.document = document \/ policyRevision = 0

\* What the room documentation promises: tightening of the room policy and of
\* the mode invalidates prepared contexts, so that a revocation executes only
\* where its context could be prepared.  Of rooms without a document only: its
\* counter takes the place of the room policy in the fence.
RevocationStillPreparable ==
  [][\A p \in revocations :
       policyRevision = 0 /\ Revoke(p) => Preparable(p.actor, CapabilityOf[p.command])]_authorityVars
==============================================================================
