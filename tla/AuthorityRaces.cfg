SPECIFICATION RacesSpec
CONSTANTS
  ann = ann
  ben = ben
  MembershipIds = {ann, ben}
  MemberRefs = {ann, ben}
  NoRecord = NoRecord
  Rejected = Rejected
  Retention = "null"
  MaxRevision = 3
  MaxLog = 5
  MaxHeld = 0
  InputModes = {"standard", "private"}
  InputRoles = {"owner", "editor", "auditor"}
  Founders <- TwoOwners
  InputChanges <- SomeChanges
  InputLifecycles = {"active_local", "sealed_local"}
  PassesHeldPolicy = FALSE
  MaxSignal = 1
  MaxPrepared = 2
SYMMETRY Symmetric
INVARIANTS
  AuthorityTypeOK
  AdmissionAgreesWithComposition
PROPERTIES
  RevocationActsOnPreparedState
  RevocationNeverEscalates
  RevocationStillPreparable
  ImplementsFoundedRoster
  NoLostTightening
  TighteningNeverLoosens
