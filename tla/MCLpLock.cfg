SPECIFICATION Spec
CONSTANTS
    Procs = {p1, p2, p3}
    Locks = {a, b}
SYMMETRY Symmetry
INVARIANTS MutualExclusion NoDeadlock
PROPERTY ImplementsRWLock
