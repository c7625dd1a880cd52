CONSTANTS
  None = None
  U32 = 1048576
  Machines <- MCMachines
  Models <- MoeModels
  Options <- DefaultOptions
  Scale = 524
  Rates <- MCRates
  Measurements <- MCMeasurements
  Factors <- MCFactors
  Profiles <- MCProfiles
  Requests <- MCRequests
SPECIFICATION EvaluateSpec
INVARIANT OnlyActiveWeightsMove
CHECK_DEADLOCK FALSE
