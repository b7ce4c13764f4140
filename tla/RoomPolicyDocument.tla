------------------------ MODULE RoomPolicyDocument ------------------------
(***************************************************************************)
(* The versioned policy document of a room and the monotonic comparison    *)
(* its governance rests on.  A document is a level for each ranked field   *)
(* (the higher the stricter) and the set of features it still allows.      *)
(***************************************************************************)
EXTENDS Naturals

\* The highest level of each ranked field (SENSITIVITY_RANK, MIN_POSTURE_RANK,
\* PROTECTED_RANK, RETENTION_RANK).
MaxLevel ==
  [sensitivity |-> 3, minimum_posture |-> 4, protected_content |-> 4, retention |-> 2]

Fields == DOMAIN MaxLevel

\* Fields a governance command can set; no command touches the retention.
CommandFields == Fields \ {"retention"}

\* ROOM_DISABLEABLE_FEATURES
Features ==
  {"receipts", "typing", "presence", "exact_counts", "exact_timestamps",
   "actor_refs", "notifications", "local_ai", "network", "direct_peer"}

Levels == {level \in [Fields -> 0..4] : \A f \in Fields : level[f] <= MaxLevel[f]}

Documents == [revision : Nat \ {0}, level : Levels, allowed : SUBSET Features]

\* resolveRoomPolicyDocumentDefaultsV1, at FIRST_ROOM_POLICY_REVISION.
DefaultDocument(mode) ==
  [revision |-> 1,
   level |->
     [sensitivity       |-> IF mode = "bunker" THEN 2 ELSE IF mode = "ghost" THEN 1 ELSE 0,
      minimum_posture   |-> 0,
      protected_content |-> IF mode = "standard" THEN 0
                            ELSE IF mode = "bunker" THEN 3 ELSE 1,
      retention         |-> IF mode \in {"ghost", "bunker"} THEN 2 ELSE 1],
   allowed |->
     (IF mode = "standard" THEN {"exact_counts", "exact_timestamps"} ELSE {})
       \cup (IF mode \in {"standard", "offline_capsule"} THEN {"actor_refs"} ELSE {})]

\* A governance command: disable some features, or set one field.
Disablings == [disable : (SUBSET Features) \ {{}}]
Settings   == {s \in [field : CommandFields, level : 0..4] : s.level <= MaxLevel[s.field]}
Changes    == Disablings \cup Settings

\* buildCandidateRoomPolicyV1; nothing here keeps a setting from loosening.
Candidate(document, change) ==
  LET next == [document EXCEPT !.revision = @ + 1]
  IN  IF "disable" \in DOMAIN change
      THEN [next EXCEPT !.allowed = @ \ change.disable]
      ELSE [next EXCEPT !.level = [@ EXCEPT ![change.field] = change.level]]

\* Some field or feature became more restrictive, or less.
AnyStricter(a, b) ==
  \/ \E f \in Fields : b.level[f] > a.level[f]
  \/ ~(a.allowed \subseteq b.allowed)

AnyLooser(a, b) ==
  \/ \E f \in Fields : b.level[f] < a.level[f]
  \/ ~(b.allowed \subseteq a.allowed)

\* compareRoomPoliciesV1
ComparePolicies(a, b) ==
  IF AnyLooser(a, b)
  THEN IF AnyStricter(a, b) THEN "incomparable" ELSE "looser"
  ELSE IF AnyStricter(a, b) THEN "stricter" ELSE "equal"
==============================================================================
