CONSTANTS
  Relations <- Four
  Cardinalities <- MCCardinalities
  SourceCosts = {0}
  Graphs <- MCGraphs
  Enumerators = {"AStar", "HeuristicSearch"}
  MaxRestarts = 0
  Configurations <- BeamConfigurations
SPECIFICATION MCSpec
INVARIANTS KeepsCheapestPath
CHECK_DEADLOCK FALSE
