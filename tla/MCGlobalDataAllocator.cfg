CONSTANTS
  Object <- MCObject
  Sources <- MCSources
SPECIFICATION Spec
INVARIANTS StoragePlaced AboveStatics
