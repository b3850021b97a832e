SPECIFICATION Spec
CONSTANTS
  Threads = {t1, t2, t3}
  MaxCalls = 4
  MaxFaults = 2
  MaxRotations = 2
SYMMETRY ThreadSymmetry
INVARIANT TypeOK
INVARIANT Exclusive
INVARIANT ExpiredNeedsRotation
INVARIANT OnceWithoutCuts
PROPERTY StatementsAreSerial
