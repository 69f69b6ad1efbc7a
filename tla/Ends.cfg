\* Does the command end without its deadline?
SPECIFICATION MCFairSpec
CONSTANTS
  Sub = "sub"
  Operator = "operator"
  Crd = "crd"
  NoCSV = nocsv
  Nil = nil
  OtherSubs = {}
  CSVs = {"csv1", "csv2"}
  Operands = {"cr1"}
  InScope = {"cr1"}
  Finalized = {"cr1"}
  Extras = {}
  Groups = {"og1"}
  Upgrades = {"csv2"}
  Owning = {"csv1"}
  Flags = {"delete-operator"}
  MaxRuns = 1
  Asked = {"ends"}
PROPERTY EndsUnlessStuck
CHECK_DEADLOCK FALSE
