\* The poll in deleteOperator allows for nil Components, the loop before it does not.
SPECIFICATION MCSpec
CONSTANTS
  Sub = "sub"
  Operator = "operator"
  Crd = "crd"
  NoCSV = nocsv
  Nil = nil
  OtherSubs = {}
  CSVs = {"csv1"}
  Operands = {"cr1"}
  InScope = {"cr1"}
  Finalized = {"cr1"}
  Extras = {}
  Groups = {"og1"}
  Upgrades = {}
  Owning = {"csv1"}
  Flags = {"delete-operator"}
  MaxRuns = 1
  Asked = {"recreate"}
INVARIANT NoNilDereference
CHECK_DEADLOCK FALSE
