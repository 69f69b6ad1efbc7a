\* One package being upgraded, operands in and out of scope; a namespace shared
\* with other packages, where the command is run twice and anything may be missing;
\* and the deletion of all, with the Operator and another subscription coming and going.
SPECIFICATION MCSpec
CONSTANTS
  Sub = "sub"
  Operator = "operator"
  Crd = "crd"
  NoCSV = nocsv
  Nil = nil
  OtherSubs = {"other"}
  CSVs = {"csv1", "csv2"}
  Operands = {"cr1", "cr2"}
  InScope = {"cr1"}
  Finalized = {"cr1"}
  Extras = {"role"}
  Groups = {"og1", "og2"}
  Upgrades = {"csv2"}
  Owning = {"csv1", "csv2"}
  Flags = {"delete-operator", "delete-operator-groups"}
  MaxRuns = 2
  Asked = {"upgrade", "shared", "all"}
INVARIANTS
  TypeOK
  AbortSparesEverything
  OperatorOutlivesOperands
  SubscriptionFirst
  OnlyChosenOperands
  OperatorObjectLast
  DoneMeansGone
  UsedGroupsSurvive
  NoSubscriptionNoTeardown
PROPERTIES
  InStages
  OperatorAfterComponents
CHECK_DEADLOCK FALSE
