SPECIFICATION Spec
CONSTANTS
  Workers = {w1, w2, w3}
  Apps = {a1}
  Names = {n1}
  Licenses = {l1}
  Tiers = {small}
  Callers = {FALSE}
  NoLicense = NoLicense
  Pads <- PlainPads
  Requests <- RegisterOnly
  FaultKinds <- AnyFault
  MaxRequests = 3
  MaxFaults = 1
  MaxCrashes = 0
  MaxCreates = 3
SYMMETRY NameSymmetry
INVARIANT OneRowPerApp
