SPECIFICATION Spec
CONSTANTS
    a = a
    b = b
    c = c
    d = d
    i1 = i1
    i2 = i2
    i3 = i3
    s1 = s1
    s2 = s2
    s3 = s3
    p1 = p1
    p2 = p2
    None = None
    List = List
    Mod = Mod
    Lost = Lost
    Messages = {a, b, c, d}
    Attr <- MCAttr
    Settings <- MCSettings
    Listprocs = {p1, p2}
    MaxLines = 1
    LineLength = 2
    MaxMail <- MCMail
    MaxRequests = 3
    MaxCrashes = 1
SYMMETRY MCSymmetry
CHECK_DEADLOCK FALSE
INVARIANTS DecidedOnce OnlyApproved RepeatsFarApart
