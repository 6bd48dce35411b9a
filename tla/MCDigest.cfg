SPECIFICATION DSpec
CONSTANTS
    NoStamp = NoStamp
    MaxMessages = 3
    DigestSize = 4
    MaxCrashes = 1
    MaxForkFaults = 1
CHECK_DEADLOCK FALSE
INVARIANT DigestedOnce
PROPERTY DigestSent
