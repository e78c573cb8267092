CONSTANTS
  c1 = c1
  c2 = c2
  c3 = c3
  n1 = n1
  n2 = n2
  small = small
  large = large
  Configs = {c1, c2}
  Names <- MCNames
  NameOf <- MCNameOf
  ContractOf <- MCContractOf
  StageOrder <- MCStageOrder
  ArGraphs <- MCArGraphs
  ArCores <- MCArCores
  ReleasePath = TRUE
  PowerLoss = TRUE
  NoFile = NoFile
  Damaged = Damaged
  Requests <- MCRequests
  Counts <- MCCounts
  MaxCommands = 3
SPECIFICATION PartsSpec
INVARIANTS
  OneModel
  CompletedRunHasModels
  OtherBuildsSound
  CommandSound
PROPERTIES
  ImplementsWork
  BuildsComplete
