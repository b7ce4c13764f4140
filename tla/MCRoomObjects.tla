--------------------------- MODULE MCRoomObjects ---------------------------
(***************************************************************************)
(* RoomObjects for TLC: object ids and texts are interchangeable.          *)
(***************************************************************************)
EXTENDS RoomObjects, TLC

Symmetric == Permutations(ObjectIds) \cup Permutations(Texts)

\* The commands that erase, the one that writes text, sets a status and refers
\* to another object, and one that is meant for another kind than that.
RacingCommands == {"redact", "tombstone", "decision_resolve", "task_update_status"}
==============================================================================
