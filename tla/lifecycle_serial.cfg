SPECIFICATION Spec
CONSTANTS
  Workers = {w1}
  Apps = {a1}
  Names = {n1}
  Licenses = {l1}
  Tiers = {small, large}
  Callers = {FALSE, TRUE}
  NoLicense = NoLicense
  Pads <- PlainPads
  Requests <- EveryRequest
  FaultKinds <- AnyFault
  MaxRequests = 4
  MaxFaults = 1
  MaxCrashes = 1
  MaxCreates = 2
INVARIANT LicenseKeyBacked
PROPERTY AlteredMeansInStep
