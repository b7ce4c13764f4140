---------------------------- MODULE OwnedRoster ----------------------------
(***************************************************************************)
(* What the membership component promises, without requests, logs,         *)
(* revisions or policies: every membership id has one standing, a standing *)
(* moves along the lifecycle one member at a time, a removed member stays  *)
(* removed, and no step leaves a room that has members without an owner.   *)
(***************************************************************************)
CONSTANT MembershipIds

VARIABLE standing

Standings == {"absent", "owner", "member", "suspended", "removed"}

\* The standings a member may take next.
Following ==
  [absent    |-> {"owner", "member"},
   owner     |-> {"member", "suspended", "removed"},
   member    |-> {"owner", "suspended", "removed"},
   suspended |-> {"owner", "member", "removed"},
   removed   |-> {}]

Init == standing = [id \in MembershipIds |-> "absent"]

Move(id, s) ==
  /\ s \in Following[standing[id]]
  /\ standing' = [standing EXCEPT ![id] = s]
  /\ \E other \in MembershipIds : standing'[other] = "owner"

Next == \E id \in MembershipIds, s \in Standings : Move(id, s)

Spec == Init /\ [][Next]_standing

\* The same of a room that starts with members, an owner among them.
Founded ==
  /\ standing \in [MembershipIds -> {"absent", "owner", "member"}]
  /\ \E id \in MembershipIds : standing[id] = "owner"

FoundedSpec == Founded /\ [][Next]_standing
==============================================================================
