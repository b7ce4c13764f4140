SPECIFICATION ObjectSpec
CONSTANTS
  ObjectIds = {o1, o2}
  Texts = {t1}
  NoObject = NoObject
  NoContent = NoContent
  Nothing = Nothing
  Rejected = Rejected
  Retention = "memory_only"
  MaxRevision = 3
  MaxLog = 4
  MaxHeld = 2
  InputModes = {"standard"}
  InputKinds = {"message", "task", "decision"}
  InputCommands <- RacingCommands
  InputStatuses = {"done", "superseded"}
SYMMETRY Symmetric
INVARIANTS
  ObjectTypeOK
  StatusFitsKind
  RedactedHasNoContent
  ReferencesResolve
  ObjectsRebuildable
PROPERTIES
  NoLostObjectUpdate
  StrictOnlyErases
  SettledStaysSettled
