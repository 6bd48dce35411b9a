SPECIFICATION Spec
CONSTANTS
    m1 = m1
    m2 = m2
    NoFile = NoFile
    Messages = {m1, m2}
    MaxThreads = 2
    ThreadChoices = {1, 2}
    MaxFaults = 1
CHECK_DEADLOCK FALSE
INVARIANTS Conserved Tracked
PROPERTIES Served
