CONSTANTS
  None = None
  U32 = 1048576
  Machines <- MCMachines
  Models <- MCModels
  Options <- MCOptions
  Scale = 524
  Rates <- MCRates
  Measurements <- MCMeasurements
  Factors <- MCFactors
  Profiles <- MCProfiles
  Requests <- MCRequests
SPECIFICATION EvaluateSpec
INVARIANTS FirstThatFits MemoryExists UsableCoversEffectiveInPool
  ProvenanceIsEarned NoFasterThanItsPools
  SizeOutweighsTheLabel CompositeIsAnAverage CollapseIsEnough ContextIsCreditedWhereItRuns
CHECK_DEADLOCK FALSE
