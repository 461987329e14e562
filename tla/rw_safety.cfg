\* Every call from every thread, safety, refinement and progress.
CONSTANTS
  t1 = t1
  t2 = t2
  t3 = t3
  t4 = t4
  Threads <- Four
  MayCall <- AnyCall
  Handle = "reader_writer_lock"
SPECIFICATION FairSpec
INVARIANTS TypeOK CountersExact InsistsHold
PROPERTIES WritersFirst ImplementsRWLock WriterProgress ReaderProgress
