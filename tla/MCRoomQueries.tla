--------------------------- MODULE MCRoomQueries ---------------------------
(***************************************************************************)
(* RoomQueries for TLC: three objects, two of them created with one label. *)
(***************************************************************************)
EXTENDS RoomQueries

Labels == [id \in ObjectIds |-> IF id = 1 THEN 2 ELSE 1]

\* A listing of everything, one by a condition that changes, and a search.
SomeSelections ==
  {Everything,
   [Everything EXCEPT !.lifecycles = {"active"}, !.statuses["task"] = {"todo"}],
   [Everything EXCEPT !.term = CHOOSE text \in Texts : TRUE]}
==============================================================================
