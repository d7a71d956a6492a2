SPECIFICATION Spec
CONSTANTS
  Label = {"a"}
  Namespace = {"n1", "n2"}
  Config = {"n1/x", "n1/y"}
  ConfigNamespace <- Homes
  Rank <- Order
  ModelValidation = {"m"}
  Labellings <- LabelSets
  Specs <- ThreeSpecs
  FirstSpecs <- OneOrTwo
  FirstNamespaces <- TwoNamespaces
  FirstMVs <- OneMV
  MaxEdits = 1
  MaxFaults = 1
  NoConfig = "none"
INVARIANT TCTypeOK
INVARIANT NothingForgotten
INVARIANT OneWinner
PROPERTY OthersUndisturbed
PROPERTY Rests
CHECK_DEADLOCK FALSE
