CONSTANTS
  Relations <- Four
  Cardinalities <- MCCardinalities
  SourceCosts = {0}
  Graphs <- MCGraphs
  Enumerators <- AllEnumerators
  MaxRestarts = 1
  Configurations <- MCConfigurations
SPECIFICATION MCSpec
INVARIANTS CostsHonest BestPlans LinearizedBest NoCrossProducts ConditionsAppliedOnce CommittedPlan PlanAsFound
PROPERTIES ImplementsPlanTable
CHECK_DEADLOCK FALSE
