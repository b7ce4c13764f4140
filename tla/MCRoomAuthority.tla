------------------------- MODULE MCRoomAuthority -------------------------
(***************************************************************************)
(* RoomAuthority for TLC: a room with two owners, which updates turn into   *)
(* members of any role, and the governance changes worth telling apart.    *)
(***************************************************************************)
EXTENDS RoomAuthority, TLC

TwoOwners ==
  [id \in MembershipIds |->
     [memberRef |-> id, role |-> "owner", state |-> "active", revision |-> 1]]

Symmetric == Permutations(MembershipIds)

\* A feature, and two levels of one field on either side of what a device
\* without protected presentation can satisfy: set to 1 after 2, it loosens.
SomeChanges ==
  {[disable |-> {"actor_refs"}],
   [field |-> "protected_content", level |-> 1],
   [field |-> "protected_content", level |-> 2]}

\* Revocations at length while the room has no document, one context at a time;
\* governance in one mode and lifecycle, with two updates or one and a revocation;
\* one governance command alone across modes, from the defaults of each.
RevocationsAtLength == policyRevision = 0 /\ tightenings = {} /\ Cardinality(revocations) <= 1

\* Only the defaults of Standard allow exact counts.
FromStandard(d) == "exact_counts" \in d.allowed

GovernanceRaces ==
  /\ FromStandard(document)
  /\ \A t \in tightenings : FromStandard(t.document) /\ t.fence.mode = "standard"
  /\ mode = "standard" /\ lifecycle = "active_local" /\ signal = 0 /\ lastSequence <= 3
  /\ \A id \in Present(roster) : roster[id].role # "auditor"
  /\ Cardinality(revocations) <= 1 /\ \A p \in revocations : p.role # "auditor"

GovernanceAcrossModes ==
  /\ roster = Founders /\ revocations = {} /\ Cardinality(tightenings) <= 1
  /\ lifecycle = "active_local" /\ signal = 0

WithinRaces == RevocationsAtLength \/ GovernanceRaces \/ GovernanceAcrossModes

\* AuthorityNext, kept within these bounds action by action.
RacesNext ==
  \/ \E p \in revocations : Revoke(p) /\ WithinRaces'
  \/ \E t \in tightenings : Tighten(t) /\ WithinRaces'
  \/ \E t \in tightenings : PrepareAgain(t) /\ WithinRaces'
  \/ \E actor, target \in MembershipIds : PrepareRevocation(actor, target) /\ WithinRaces'
  \/ \E actor \in MembershipIds : PrepareTightening(actor) /\ WithinRaces'
  \/ \E actor, target \in MembershipIds : UpdateNow(actor, target) /\ WithinRaces'
  \/ ResolveRoomPolicy /\ WithinRaces'
  \/ MoveLifecycle /\ WithinRaces'
  \/ SignalPosture /\ WithinRaces'
  \/ DropPrepared /\ WithinRaces'

RacesSpec == AuthorityInit /\ [][RacesNext]_authorityVars
==============================================================================
