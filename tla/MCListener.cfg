SPECIFICATION Spec
CONSTANTS
    u1 = u1
    u2 = u2
    u3 = u3
    NoPid = NoPid
    Users <- MCUsers
    Settings <- MCSettings
CHECK_DEADLOCK FALSE
INVARIANTS Kept InStep
PROPERTY Answered
