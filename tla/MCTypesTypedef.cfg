SPECIFICATION Spec
CONSTANT Bits <- MCBits
CONSTANT Specifiers <- TypedefSpecifiers
INVARIANT FieldsApart
CHECK_DEADLOCK FALSE
