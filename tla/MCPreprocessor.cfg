SPECIFICATION Spec
CONSTANTS
  Sources <- AllSources
  MaxNesting = 8
  Width = 8
INVARIANTS OutputAsWritten ErrorsAsWritten
