SPECIFICATION Spec
CONSTANTS
  Lines <- MCLines
  Worlds <- MCWorlds
  MaxDiagnostics = 3
INVARIANTS Delivered ExitTruthful EveryDiagnosticOnce InputsKept
