SPECIFICATION Spec
CONSTANTS
  Workers = {w1}
  Apps = {a1}
  Names = {n1}
  Licenses = {l1}
  Tiers = {small}
  Callers = {FALSE}
  NoLicense = NoLicense
  Pads <- PlainPads
  Requests <- ConstantsOnly
  FaultKinds <- AnyFault
  MaxRequests = 3
  MaxFaults = 1
  MaxCrashes = 0
  MaxCreates = 1
INVARIANT ReadyMountsConstants
