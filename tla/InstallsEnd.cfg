\* As the plans in Installs, with fair controllers and an API that does not list versions.
SPECIFICATION MCFairSpec
CONSTANTS
  Own = "own"
  Procs = {1, 2}
  Pkgs = {"a", "b"}
  MaxVersion = 2
  Modes <- MCModes
  Jobs <- MCJobs
  Attempts = 2
  None = none
  Updated = {}
  Present = {}
  Listed = {}
  OtherGroups = {}
  Removable = {}
  Faulty = {}
  MaxPlans = 5
  Asked = {"ends"}
PROPERTY EveryRunEndsUnlessStuck
CHECK_DEADLOCK FALSE
