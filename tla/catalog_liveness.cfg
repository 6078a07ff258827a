CONSTANTS
  w1 = w1
  w2 = w2
  a = a
  b = b
  bad = bad
  p = p
  q = q
  None = None
  Worker <- Processes
  Content <- OneBody
  Invalid <- Nothing
  Report <- Pages
  Holdable <- Nothing
  IsReport = TRUE
  StrictServer = TRUE
  MaxTime = 1
  Skew = 0
  MissedCheck = 1
SPECIFICATION FairSpec
PROPERTIES LockIsReleased PageIsNoticed
