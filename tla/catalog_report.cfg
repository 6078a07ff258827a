CONSTANTS
  w1 = w1
  w2 = w2
  a = a
  b = b
  bad = bad
  p = p
  q = q
  None = None
  Worker <- Processes
  Content <- Bodies
  Invalid <- Refused
  Report <- Pages
  Holdable <- Valid
  IsReport = TRUE
  StrictServer = FALSE
  MaxTime = 1
  Skew = 0
  MissedCheck = 1
SPECIFICATION Spec
SYMMETRY Symmetry
INVARIANTS SessionNotStale AttestationCoversActive
PROPERTIES EvidenceIsKept ImplementsPointer
