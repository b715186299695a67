SPECIFICATION FairSpec
CONSTANTS
  t1 = t1
  t2 = t2
  r1 = r1
  Thread <- MCThread
  Reader <- MCReader
  Hash <- MCHash
  Keep = 2
  LastGen = 9
  MaxAsks = 3
  MaxFaults = 1
CHECK_DEADLOCK FALSE
INVARIANTS HeadIsStored HistoryIsTrue ServedWasHead RetentionIsKept
PROPERTIES ImplementsHead PushIsAnswered
