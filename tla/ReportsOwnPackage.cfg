\* The instance of InstallsEnd, for safety.
SPECIFICATION MCSpec
CONSTANTS
  Own = "own"
  Procs = {1, 2}
  Pkgs = {"a", "b"}
  MaxVersion = 2
  Modes <- MCModes
  Jobs <- MCJobs
  Attempts = 2
  None = none
  Updated = {}
  Present = {}
  Listed = {}
  OtherGroups = {}
  Removable = {}
  Faulty = {}
  MaxPlans = 5
  Asked = {"ends"}
INVARIANT ReportsOwnPackage
CHECK_DEADLOCK FALSE
