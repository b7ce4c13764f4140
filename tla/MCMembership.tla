--------------------------- MODULE MCMembership ---------------------------
(***************************************************************************)
(* Membership for TLC: ids and member references are interchangeable.      *)
(***************************************************************************)
EXTENDS Membership, TLC

Symmetric == Permutations(MembershipIds) \cup Permutations(MemberRefs)
==============================================================================
