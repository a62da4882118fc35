CONSTANTS
  Counts = {0, 1, 3, 32, 33}
  MaxRecords = 3
  InputNames <- MCInputNames
  NewNames <- MCNewNames
  InputShapes <- MCInputs
  WeightShapes <- MCWeights
  RawShapes <- MCRawShapes
  Reshapes <- MCReshapes
  Perms <- MCPerms
  Cuts <- MCCuts
  Convs <- MCConvs
  Axes <- MCAxes
  InputTypes = {"Fp16"}
  CastTypes = {"Fp32"}
  UnaryOps = {"relu"}
  BinaryOps = {"add"}
  IntRange = 65536
  MaxSources = 2
  MaxOps = 2
SPECIFICATION MilSpec
INVARIANTS
  SingleAssignment
  DeadOpsExact
  ShapesTrue
  TrafficExact
  SavedPairReads
  FileReadsBack
CHECK_DEADLOCK FALSE
