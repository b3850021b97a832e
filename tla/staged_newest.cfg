SPECIFICATION Spec
CONSTANTS
  Names = {n1}
  Others = {other}
  CurrentZip = CurrentZip
  MaxUploads = 2
  MaxDeploys = 1
  MaxDeaths = 0
INVARIANT NewestIsDeployed
