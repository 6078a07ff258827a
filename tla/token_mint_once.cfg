CONSTANTS
  Request = {r1, r2}
  Token = {t1, t2}
  Build = {b1}
  None = None
SPECIFICATION Spec
SYMMETRY Symmetry
CHECK_DEADLOCK TRUE
PROPERTY MintOnce
