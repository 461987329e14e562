CONSTANTS
  Domain = {0, 1}
  C = 2
  CharKeys = FALSE
  Plans <- ThePlans
  Maps <- TheMaps
  Keys = {0, 1}
  Hash <- TheHash
  Values <- TheValues
  Capacities = {1, 4}
  NoElement = NoElement
SPECIFICATION Spec
INVARIANTS ResultCorrect InsistsHold LookupsComplete
PROPERTIES NothingLost
