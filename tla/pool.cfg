\* Three callers, two entities, fair scheduling.
CONSTANTS
  t1 = t1
  t2 = t2
  t3 = t3
  a = a
  b = b
  Threads <- MCThreads
  Entities <- MCEntities
  NoEntity = NoEntity
  MaxProxies = 1
SPECIFICATION FairSpec
INVARIANTS TypeOK HintValid NoRace CountExact
PROPERTY CallsReturn
