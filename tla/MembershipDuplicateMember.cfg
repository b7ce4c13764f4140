SPECIFICATION Spec
CONSTANTS
  MembershipIds = {m1, m2, m3}
  MemberRefs = {alice, bob}
  NoRecord = NoRecord
  Rejected = Rejected
  Retention = "null"
  MaxRevision = 3
  MaxLog = 5
  MaxHeld = 1
  InputModes = {"standard"}
  InputRoles = {"owner", "editor"}
SYMMETRY Symmetric
INVARIANT OneActiveRecordPerMember
