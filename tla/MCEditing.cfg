CONSTANTS
  p1 = p1
  p2 = p2
  d1 = d1
  d2 = d2
  o1 = o1
  o2 = o2
  u1 = u1
  u2 = u2
  l1 = l1
  l2 = l2
  Old = Old
  New = New
  None = None
  NoFile = NoFile
  Nobody = Nobody
  Addresses = {1, 2, 3}
  Members = {1, 2}
  Procs = {p1, p2}
  Owners = {o1, o2}
  Manager = o2
  Desks = {d1, d2}
  Settings <- MCSettings
SPECIFICATION MCSpec
SYMMETRY MCSymmetry
CHECK_DEADLOCK FALSE
INVARIANTS MembersKept LockWithStamp RolesTrue OrdinaryLocked
PROPERTIES AsAnswered NothingOverwritten
