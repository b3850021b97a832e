SPECIFICATION Spec
CONSTANTS
  Workers = {w1, w2}
  Apps = {a1}
  Names = {n1}
  Licenses = {l1}
  Tiers = {small}
  Callers = {FALSE}
  NoLicense = NoLicense
  Pads <- PlainPads
  Requests <- LicenseOnly
  FaultKinds <- NoFault
  MaxRequests = 3
  MaxFaults = 0
  MaxCrashes = 0
  MaxCreates = 1
INVARIANT LicenseKeyBacked
