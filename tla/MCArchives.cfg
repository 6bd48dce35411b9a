CONSTANTS
  p1 = p1
  p2 = p2
  a = a
  b = b
  a1 = a1
  b1 = b1
  b2 = b2
  doc = doc
  doc1 = doc1
  doc2 = doc2
  m = m
  memo = memo
  g = g
  u1 = u1
  u2 = u2
  All = All
  NoLine = NoLine
  NoOne = NoOne
  NoAsker = NoAsker
  Askers = {p1, p2}
  Addresses <- Three
  AfdFiles = {memo, g}
  Prefix <- MCPrefix
  Scenes <- MCScenes
  NoText = NoText
  Filers = {p1, p2}
  Files = {a, b, doc}
  Monthly = m
  Names = {a, b, a1, b1, b2, doc, doc1, doc2, m}
  PartName <- MCPart
  MaxParts = 2
  Settings <- MCSettings
  Listprocs = {p1, p2}
  Plans <- MCPlans
  MaxTime = 4
SPECIFICATION MCSpec
SYMMETRY MCSymmetry
CHECK_DEADLOCK FALSE
INVARIANTS DirTrue AsConfigured TablesAgree SettingsKept
PROPERTY NotToldTwice
