CONSTANTS
  w1 = w1
  w2 = w2
  a = a
  b = b
  bad = bad
  p = p
  q = q
  None = None
  Worker <- Processes
  Content <- Bodies
  Invalid <- Refused
  Report <- Pages
  Holdable <- Nothing
  IsReport = FALSE
  StrictServer = TRUE
  MaxTime = 5
  Skew = 1
  MissedCheck = 1
SPECIFICATION Spec
SYMMETRY Symmetry
CONSTRAINT OldIsPlain
INVARIANTS ActiveIsTheLiveSnapshot NotModifiedMeansAccepted HealthyMeansServed
