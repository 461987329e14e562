\* Two clients: push() reads the sentinel of the list.
CONSTANTS
  t1 = t1
  t2 = t2
  None = None
  Txns <- Two
  NumCommands <- Autocommit
  SentinelReads = {"fault"}
  ExecuteOutcomes = {"ok"}
  Closing = "never"
SPECIFICATION Spec
INVARIANT QueueIsThreadSafe
CHECK_DEADLOCK FALSE
