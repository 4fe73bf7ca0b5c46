SPECIFICATION FairSpec
CONSTANTS
  t1 = t1
  t2 = t2
  t3 = t3
  c1 = c1
  c2 = c2
  m1 = m1
  m2 = m2
  m3 = m3
  Tasks <- MCTasks
  Cids <- MCCids
  Mutexes <- MCMutexes
  NoCid = NoCid
  NoMutex = NoMutex
  IdleLimit = 1
  Sweep = TRUE
PROPERTIES
  AbsSpec
  NoStarvation
  QuietEntriesEvicted
