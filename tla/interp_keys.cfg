CONSTANTS
  Domain = {0, 1}
  C = 2
  CharKeys = TRUE
  Plans <- CharPlans
  Maps <- TheMaps
  Keys <- CharKeySet
  Hash <- CharHash
  Values <- TheValues
  Capacities = {1, 4}
  NoElement = NoElement
SPECIFICATION Spec
INVARIANTS ResultCorrect
