\* The help text: subscription and operator group go even if the operator is not found.
SPECIFICATION MCSpec
CONSTANTS
  Sub = "sub"
  Operator = "operator"
  Crd = "crd"
  NoCSV = nocsv
  Nil = nil
  OtherSubs = {}
  CSVs = {"csv1"}
  Operands = {"cr1"}
  InScope = {"cr1"}
  Finalized = {"cr1"}
  Extras = {}
  Groups = {"og1"}
  Upgrades = {}
  Owning = {"csv1"}
  Flags = {"delete-operator-groups"}
  MaxRuns = 1
  Asked = {"notFound"}
INVARIANT NotFoundIsNoError
CHECK_DEADLOCK FALSE
