---------------------------- MODULE RoomRoles ----------------------------
(***************************************************************************)
(* The constant level of local room authority: the placeholder roles, the  *)
(* capabilities each role is eligible for, how far a privacy mode and the  *)
(* room policy narrow them, and how two roles compare.  Everything here is *)
(* a pure function in the code, so everything here is an operator.         *)
(***************************************************************************)

\* Membership roles and lifecycle states, without their "_placeholder" and
\* "_local" suffixes.
Roles  == {"owner", "editor", "viewer", "auditor"}
States == {"active", "suspended", "removed"}

ReadCaps == {"summary.read", "object.list", "object.detail.read"}

\* MUTATION_CAPS
MutationCaps ==
  {"object.create", "object.update", "object.redact", "object.archive",
   "object.tombstone"}

\* MEMBERSHIP_MGMT_CAPS
MembershipMgmtCaps ==
  {"membership.add", "membership.change_role", "membership.suspend",
   "membership.reactivate", "membership.remove"}

\* ADMIN_CAPS
AdminCaps == {"policy.tighten", "lifecycle.update"}

RedactedReadCaps ==
  {"membership.list_redacted", "membership.detail_redacted",
   "audit.read_redacted"}

Capabilities ==
  ReadCaps \cup {"object.search_local"} \cup MutationCaps
    \cup MembershipMgmtCaps \cup AdminCaps \cup RedactedReadCaps

\* ROLE_CAPABILITY_ELIGIBILITY: necessary for an operation, never sufficient.
EligibleCaps(role) ==
  CASE role = "owner"   -> Capabilities
    [] role = "editor"  -> ReadCaps \cup {"object.search_local"} \cup MutationCaps
    [] role = "viewer"  -> ReadCaps
    [] role = "auditor" -> {"summary.read", "object.list"} \cup RedactedReadCaps

------------------------------------------------------------------------------
\* Privacy modes.  "standard", "private", "sovereign_room", "offline_capsule"
\* and "ghost" decide every question of this module and of Membership alike;
\* they differ in what may be listed, counted and retained.
Modes == {"standard", "private", "ghost", "bunker", "emergency",
          "offline_capsule", "sovereign_room"}

\* BUNKER_CAPS
BunkerCaps == {"summary.read", "object.list"} \cup RedactedReadCaps

\* isMutation
IsMutation(cap) == cap \in MutationCaps \cup MembershipMgmtCaps \cup AdminCaps

\* resolveRoomLocalCapabilityV1: does the membership record obtain a descriptor
\* for cap in this mode, under a room policy that does or does not allow local
\* content mutation?  A critical device risk denies the same capabilities as a
\* policy that forbids mutation, and is not told apart from it.
Resolves(record, cap, mode, mutable) ==
  /\ record.state = "active"
  /\ cap \in EligibleCaps(record.role)
  /\ mode # "emergency"
  /\ mode = "bunker" => cap \in BunkerCaps
  /\ IsMutation(cap) => mutable

------------------------------------------------------------------------------
\* compareRoleAuthorityV1, by capability set and never by role name.
CompareRoleAuthority(from, to) ==
  LET a == EligibleCaps(from)
      b == EligibleCaps(to)
  IN  CASE a = b -> "equal"
        [] b \subseteq a /\ a # b -> "narrower"
        [] a \subseteq b /\ a # b -> "wider"
        [] OTHER -> "incomparable"

Commands == {"bootstrap", "add", "change_role", "suspend", "reactivate", "remove"}

\* The capability an update command needs (bootstrap needs none: it is
\* authorized by its own decision).
CapabilityOf ==
  [add         |-> "membership.add",
   change_role |-> "membership.change_role",
   suspend     |-> "membership.suspend",
   reactivate  |-> "membership.reactivate",
   remove      |-> "membership.remove"]

\* classifyMembershipChangeDirectionV1
ChangeDirection(command, role, newRole) ==
  CASE command \in {"suspend", "remove"} -> "restrictive"
    [] command \in {"bootstrap", "add", "reactivate"} -> "expansive"
    [] command = "change_role" ->
         LET order == CompareRoleAuthority(role, newRole)
         IN  CASE order = "narrower" -> "restrictive"
               [] order = "wider" -> "expansive"
               [] order = "equal" -> "neutral"
               [] OTHER -> "unknown"

\* What a membership record lets its holder ever do: nothing unless active.
Authority(record) ==
  IF record.state = "active" THEN EligibleCaps(record.role) ELSE {}
==============================================================================
