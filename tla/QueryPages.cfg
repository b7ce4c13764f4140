SPECIFICATION QuerySpec
CONSTANTS
  ObjectIds = {1, 2, 3}
  Texts = {t1}
  NoObject = NoObject
  NoContent = NoContent
  Nothing = Nothing
  Rejected = Rejected
  NoWalk = NoWalk
  Retention = "null"
  MaxRevision = 2
  MaxLog = 4
  MaxHeld = 0
  InputModes = {"standard", "emergency"}
  InputKinds = {"task", "file_ref"}
  InputCommands = {"create", "redact", "archive"}
  InputStatuses = {}
  CreatedAt <- Labels
  InputSelections <- SomeSelections
  InputPolicyModes = {"standard", "ghost"}
  InputLimits = {1, 2}
INVARIANTS
  QueryTypeOK
  PagesPartition
  StableWalkComplete
  SearchFindsOnlyReadable
