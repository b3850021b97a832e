SPECIFICATION Spec
CONSTANTS
  Sessions = {s1, s2}
  MaxCalls = 5
  MaxFaults = 1
  MaxUpgrades = 1
SYMMETRY SessionSymmetry
INVARIANT TypeOK
INVARIANT NoMissedStart
INVARIANT TokensAgree
