SPECIFICATION Spec
CONSTANT Bits <- MCBits
CONSTANT Specifiers <- MCSpecifiers
INVARIANT BoundsAsWritten FieldsApart LayoutAsPromised ConstantSizesAgree
CHECK_DEADLOCK FALSE
