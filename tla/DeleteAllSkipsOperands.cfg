\* The help text: the operands finish finalizing before the operator is deleted.
SPECIFICATION MCSpec
CONSTANTS
  Sub = "sub"
  Operator = "operator"
  Crd = "crd"
  NoCSV = nocsv
  Nil = nil
  OtherSubs = {}
  CSVs = {"csv1"}
  Operands = {"cr1"}
  InScope = {"cr1"}
  Finalized = {"cr1"}
  Extras = {}
  Groups = {"og1"}
  Upgrades = {}
  Owning = {"csv1"}
  Flags = {"delete-operator"}
  MaxRuns = 1
  Asked = {"operands"}
INVARIANT OperandsFinalizeFirst
CHECK_DEADLOCK FALSE
