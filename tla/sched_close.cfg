\* A client is waiting when the scheduler is destroyed.
CONSTANTS
  t1 = t1
  t2 = t2
  None = None
  Txns <- Two
  NumCommands <- Autocommit
  SentinelReads = {"fault"}
  ExecuteOutcomes = {"ok"}
  Closing = "any"
SPECIFICATION Spec
INVARIANT StopsRunningTransaction
CHECK_DEADLOCK FALSE
