CONSTANTS
    Bits = 3
    MaxTable = 2
    WideSwitch <- MCWide
    Bodies <- MCBodies
    SwitchValues <- MCSwitchValues
SPECIFICATION Spec
INVARIANTS InStep Valid Accepted StackRestored
PROPERTY Arrives
CHECK_DEADLOCK FALSE
