CONSTANTS
  m1 = m1
  m2 = m2
  m3 = m3
  NoFile = NoFile
  Torn = Torn
  None = None
  Messages <- MCMessages
  MaxFaults = 2
SPECIFICATION Spec
CHECK_DEADLOCK FALSE
INVARIANT ProcessedOnce
PROPERTY MailProcessed
