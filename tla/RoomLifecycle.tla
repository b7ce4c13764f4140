-------------------------- MODULE RoomLifecycle --------------------------
(***************************************************************************)
(* The lifecycle of a room: which operation is permitted in which state,   *)
(* and the state it leads to.  The eleven operations that only mutate room *)
(* content or the member list are told apart by RoomLog, not by the table. *)
(***************************************************************************)

Lifecycles ==
  {"draft", "active_local", "sealed_local", "archived_local",
   "emergency_locked", "deleted_tombstone"}

LifecycleOperations ==
  {"create", "archive", "lock", "delete_tombstone", "policy_update", "audit"}

\* MUTATION_OPERATIONS; "object" stands for the eight placeholder creations.
MutationOperations == {"rename", "add_member", "remove_member", "object"}

Operations == LifecycleOperations \cup MutationOperations

\* LOCK_TARGETS
LockTargets == {"sealed_local", "emergency_locked"}

\* assertValidRoomLifecycleTransition does not throw.  `target' matters to
\* archive and lock alone.
Permitted(current, operation, target) ==
  LET archiving == operation = "archive" /\ target = "archived_local"
      locking   == operation = "lock" /\ target \in LockTargets
  IN  \/ /\ current = "draft"
         /\ operation \in {"create", "policy_update", "delete_tombstone"}
      \/ /\ current = "active_local"
         /\ \/ operation \in MutationOperations
            \/ operation \in {"policy_update", "audit", "delete_tombstone"}
            \/ archiving
            \/ locking
      \/ /\ current = "sealed_local"
         /\ \/ operation \in {"policy_update", "audit", "delete_tombstone"}
            \/ archiving
            \/ locking /\ target = "emergency_locked"
      \/ /\ current = "archived_local"
         /\ operation \in {"policy_update", "audit", "delete_tombstone"}
      \/ /\ current = "emergency_locked"
         /\ operation \in {"audit", "delete_tombstone"}

\* The lifecycle after a permitted operation, as the reducer writes it.
LifecycleAfter(current, operation, target) ==
  IF operation = "create" THEN "active_local"
  ELSE IF operation = "archive" THEN "archived_local"
  ELSE IF operation = "lock" THEN target
  ELSE IF operation = "delete_tombstone" THEN "deleted_tombstone"
  ELSE current

\* Lifecycle states resolveRoomPolicy answers with a deny policy.
LockedLifecycles == {"emergency_locked", "deleted_tombstone"}
==============================================================================
