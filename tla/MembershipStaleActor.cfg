SPECIFICATION Spec
CONSTANTS
  MembershipIds = {m1, m2}
  MemberRefs = {alice, bob}
  NoRecord = NoRecord
  Rejected = Rejected
  Retention = "null"
  MaxRevision = 3
  MaxLog = 4
  MaxHeld = 2
  InputModes = {"standard"}
  InputRoles = {"owner", "editor"}
SYMMETRY Symmetric
PROPERTY ActorHoldsCurrentCapability
