CONSTANTS
  Relations <- Six
  Cardinalities <- SixCardinalities
  SourceCosts = {0}
  Graphs <- SixGraphs
  Enumerators = {"DPccp"}
  MaxRestarts = 0
  Configurations <- MCConfigurations
SPECIFICATION MCSpec
INVARIANTS BestPlans
CHECK_DEADLOCK FALSE
