\* Two runs of install and upgrade in a namespace with any operator groups, and while
\* OLM plans for the namespace as a whole.
SPECIFICATION MCSpec
CONSTANTS
  Own = "own"
  Procs = {1, 2}
  Pkgs = {"a", "b"}
  MaxVersion = 2
  Modes <- MCModes
  Jobs <- MCJobs
  Attempts = 2
  None = none
  Updated = {"a"}
  Present = {"a"}
  Listed = {"a"}
  OtherGroups = {"other"}
  Removable = {"b"}
  Faulty = {1, 2}
  MaxPlans = 3
  Asked = {"groups", "plans"}
INVARIANTS
  TypeOK
  GroupSuits
  ConflictMeansContention
  ApprovalMovesForward
  DoneMeansInstalled
PROPERTY InstallsAsPlanned
CHECK_DEADLOCK FALSE
