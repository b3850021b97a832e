SPECIFICATION Spec
CONSTANTS
  Workers = {w1, w2}
  Apps = {a1}
  Names = {n1, n2}
  Licenses = {l1}
  Tiers = {small}
  Callers = {FALSE, TRUE}
  NoLicense = NoLicense
  Pads <- PlainPads
  Requests <- EveryRequest
  FaultKinds <- AnyFault
  MaxRequests = 3
  MaxFaults = 1
  MaxCrashes = 1
  MaxCreates = 1
SYMMETRY NameSymmetry
INVARIANT TypeOK
INVARIANT StrandedOnlyByLostWrite
INVARIANT SecretsBacked
PROPERTY RowOutlivesResources
