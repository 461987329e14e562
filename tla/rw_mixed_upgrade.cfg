\* One plain writer next to upgraders: the upgrade may sleep forever.
CONSTANTS
  t1 = t1
  t2 = t2
  t3 = t3
  t4 = t4
  Threads <- Three
  MayCall <- OneWriter
  Handle = "reader_writer_lock"
SPECIFICATION FairSpec
PROPERTY UpgradeTerminates
