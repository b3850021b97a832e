SPECIFICATION Spec
CONSTANTS
  Names = {n1, n2}
  Others = {other}
  CurrentZip = CurrentZip
  MaxUploads = 3
  MaxDeploys = 2
  MaxDeaths = 2
SYMMETRY NameSymmetry
INVARIANT TypeOK
INVARIANT ParsedPadRuns
INVARIANT ConstantsReachRuntime
