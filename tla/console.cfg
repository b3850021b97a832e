SPECIFICATION ConsoleSpec
CONSTANTS
  Sessions = {s1}
  Workers = {w1, w2}
  Apps = {a1}
  Names = {}
  Licenses = {l1, l2}
  Tiers = {small}
  Callers = {FALSE}
  NoLicense = NoLicense
  Pads <- NoPads
  Requests <- EveryRequest
  FaultKinds <- AnsweredFaults
  MaxRequests = 3
  MaxFaults = 1
  MaxCrashes = 1
  MaxCreates = 1
SYMMETRY ConsoleSymmetry
INVARIANT GatedTasksDoNotOverlap
PROPERTY GatedReadyMeansInStep
