SPECIFICATION RoomLogSpec
CONSTANTS
  EventIds = {e1, e2, e3}
  MemberRefs = {alice}
  ObjectIds = {note}
  Titles = {title}
  Nothing = Nothing
  Rejected = Rejected
  InputOperations <- FewOperations
  InputTargets = {"sealed_local"}
  MaxSequence = 3
  MaxInFlight = 2
  MaxSummaries = 2
SYMMETRY Symmetric
INVARIANTS
  RoomLogTypeOK
  LogWellSequenced
  RoomRebuildable
  ReplayHonoursRedaction
PROPERTY RoomOnlyCloses
