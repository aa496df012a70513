SPECIFICATION FairSpec
CONSTANTS
  Conns = {c1, c2}
  MaxReruns = 1
INVARIANTS
  DependenciesOutliveRequests
  ReleasedOnReturn
  NilMeansClean
  FailureReported
  NoSpuriousFailure
PROPERTIES
  CutOnlyAtDeadline
  StopReturns
  ServeFailureStops
