CONSTANTS
  Object <- MCObject
  Units <- MCUnits
  Inputs <- MCInputs
SPECIFICATION Spec
INVARIANTS OneAddress Disjoint HeapAbove Aligned
