CONSTANTS
  None = None
  U32 = 1048576
  Machines <- MoeMachines
  Models <- MoeModels
  Options <- DefaultOptions
SPECIFICATION Spec
INVARIANTS UsableCoversEffective
CHECK_DEADLOCK FALSE
