CONSTANTS
  s1 = s1
  s2 = s2
  a = a
  A = A
  b = b
  None = None
  Session <- Sessions
  Address <- Addresses
  Lower <- LowerCase
  Subject = {g1, g2}
  Nonce = {n1}
  Burst = 3
  Unit = 2
  Rate = 1
  Capacity = 2
  Lifetime = 1
  Skew = 1
  MaxTime = 3
  MaxBack = 1
SPECIFICATION Spec
SYMMETRY Symmetry
INVARIANTS AttemptsAreBounded PatienceIsAdmitted RegistrationsAreSerial OneOperator ChallengeSpentOnce
