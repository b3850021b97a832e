SPECIFICATION FairSpec
CONSTANTS
  Workers = {w1, w2}
  Apps = {a1}
  Names = {n1}
  Licenses = {l1}
  Tiers = {small}
  Callers = {FALSE}
  NoLicense = NoLicense
  Pads <- PlainPads
  Requests <- EveryRequest
  FaultKinds <- Unreported
  MaxRequests = 3
  MaxFaults = 1
  MaxCrashes = 0
  MaxCreates = 1
PROPERTY JobsEnd
PROPERTY StatusSettles
