\* A session of two commands, a client with one, a destructor at any time, fair scheduling.
CONSTANTS
  t1 = t1
  t2 = t2
  None = None
  Txns <- Two
  NumCommands <- SessionAndOne
  SentinelReads = {"fault", "differ"}
  ExecuteOutcomes = {"ok", "throw"}
  Closing = "any"
SPECIFICATION FairSpec
INVARIANTS TypeOK PromiseExact TransactionsAlive TimestampOrder OneWorkerSuffices
PROPERTIES AnswersFinal NothingPoppedAfterClose ImplementsSerialExecution FuturesReady DestructorReturns
CHECK_DEADLOCK FALSE
