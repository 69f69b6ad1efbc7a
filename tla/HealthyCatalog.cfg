\* The documentation: the clean-up of create is for catalogs that never become healthy.
SPECIFICATION MCFairSpec
CONSTANTS
  Unset = unset
  None = none
  Procs = {1, 2}
  Catalogs = {"c1", "c2"}
  Extensions = {"e1"}
  Sources = {"s1"}
  Digests = {}
  Malformed = {"bad"}
  Foreign = {"~2"}
  Jobs <- MCJobs
  Faulty = {}
  MaxObjects = 8
  Alphabet <- MCAlphabet
  Contents <- MCContents
  ServicePorts <- MCPorts
  UrlPort = 443
  MaxPods = 2
  MaxMeddling = 0
  ImageLabels <- MCImageLabels
  Olds <- MCOlds
  Package = "op"
  Touchable = {"c1", "e1", "s1"}
  NewSpecs <- MCNewSpecs
  Asked = {"creates"}
PROPERTY HealthyCatalogEndsWait
CHECK_DEADLOCK FALSE
