CONSTANTS
  None = None
  U32 = 1048576
  Machines <- MoeMachines
  Models <- NearModels
  Options <- DefaultOptions
  Scale = 524
  Rates <- MCRates
  Measurements <- MCMeasurements
  Factors <- MCFactors
  Profiles <- MCProfiles
  Requests <- MCRequests
SPECIFICATION EvaluateSpec
INVARIANT LogWithinATenth
CHECK_DEADLOCK FALSE
