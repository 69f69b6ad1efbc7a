\* Pairs of commands for catalogs and extensions, with another user and calls that fail.
SPECIFICATION MCFairSpec
CONSTANTS
  Unset = unset
  None = none
  Procs = {1, 2}
  Catalogs = {"c1", "c2"}
  Extensions = {"e1"}
  Sources = {"s1"}
  Digests = {}
  Malformed = {"bad"}
  Foreign = {"~2"}
  Jobs <- MCJobs
  Faulty = {1, 2}
  MaxObjects = 8
  Alphabet <- MCAlphabet
  Contents <- MCContents
  ServicePorts <- MCPorts
  UrlPort = 443
  MaxPods = 2
  MaxMeddling = 1
  ImageLabels <- MCImageLabels
  Olds <- MCOlds
  Package = "op"
  Touchable = {"c1", "e1", "s1"}
  NewSpecs <- MCNewSpecs
  Asked = {"creates", "updates", "installs", "upgrades", "searches", "sources"}
INVARIANTS
  TypeOK
  FailedAddLeavesNothing
  
  InstalledAsAsked
  SearchTellsAll
  SearchShowsWhatIsThere
  PreferredFirst
PROPERTIES
  UpdateKeepsOthers
  CreatesAndUndoes
  EveryRunEndsUnlessStuck
CHECK_DEADLOCK FALSE
