----------------------------- MODULE MCRoomLog -----------------------------
(***************************************************************************)
(* RoomLog for TLC: event ids and member references are interchangeable.   *)
(***************************************************************************)
EXTENDS RoomLog, TLC

Symmetric == Permutations(EventIds) \cup Permutations(MemberRefs)

\* At least one operation of each effect on the projection.
FewOperations ==
  {"create", "rename", "object", "lock", "delete_tombstone"}
=============================================================================
