SPECIFICATION FairSpec
CONSTANTS
  N = 3
  MaxBatches = 2
  IfcOwl = {3}
  Sidecar = {1}
  Modes = {"stream", "partition", "collect", "joined", "separate"}
  SerCap = 1
  MayFail = TRUE
INVARIANTS SuccessMeansComplete MarkersTellTheTruth
PROPERTIES RunEnds
