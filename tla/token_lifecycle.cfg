CONSTANTS
  Request = {r1, r2, r3}
  Token = {t1, t2, t3}
  Build = {b1}
  None = None
SPECIFICATION Spec
SYMMETRY Symmetry
INVARIANT ChecksHoldAtInsert
PROPERTIES ExplicitTokenIsStable TokenSurvivesReconnect
