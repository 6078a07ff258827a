CONSTANTS
  Agent = {a1, a2}
  Build = {b1}
  Stage = {s1, s2}
  Runtime = {m1}
  MaxRev = 2
  None = None
SPECIFICATION Spec
SYMMETRY Symmetry
INVARIANTS AuthorityIsClaimed RunsBindTheirClaim ReportsStayValid
PROPERTY ImplementsPromise
