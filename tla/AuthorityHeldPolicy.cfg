SPECIFICATION AuthoritySpec
CONSTANTS
  ann = ann
  ben = ben
  MembershipIds = {ann, ben}
  MemberRefs = {ann, ben}
  NoRecord = NoRecord
  Rejected = Rejected
  Retention = "null"
  MaxRevision = 3
  MaxLog = 2
  MaxHeld = 0
  InputModes = {"standard"}
  InputRoles = {"owner", "editor"}
  Founders <- TwoOwners
  InputChanges <- SomeChanges
  InputLifecycles = {"active_local"}
  PassesHeldPolicy = TRUE
  MaxSignal = 0
  MaxPrepared = 2
SYMMETRY Symmetric
PROPERTY PolicyOnlyTightens
