CONSTANTS
  f1 = f1
  f2 = f2
  s1 = s1
  s2 = s2
  s3 = s3
  s4 = s4
  s5 = s5
  p1 = p1
  p2 = p2
  g1 = g1
  g2 = g2
  Absent = Absent
  NoBatch = NoBatch
  Files <- MCFiles
  InitSubscribers <- MCSubscribers
  Joining = {s5}
  Leaving = {s1}
  Readers <- MCReaders
  Peers = {p1, p2}
  Groups = {g1, g2}
  NotAGroup = NotAGroup
  MaxRecipients = 2
  Verp = FALSE
  Courses <- MCSettings
SPECIFICATION Spec
CHECK_DEADLOCK FALSE
INVARIANT ReachedOnce
INVARIANT ChildFindsFile
PROPERTY PromiseKept
PROPERTY Finished
