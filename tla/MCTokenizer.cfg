SPECIFICATION Spec
CONSTANT Documents <- MCDocuments
INVARIANT TokensAsWritten PositionsExact
PROPERTY ReadsToTheEnd
CHECK_DEADLOCK FALSE
