SPECIFICATION FairSpec
CONSTANTS
  Files <- MCFiles
  MaxWorkers = 4
  Messages = {m1, m2}
  MaxAttempts = 2
  TickMs = 500
  WeChatMs = 5000
INVARIANTS
  TypeOK
  CheckCatches
  ProbedBeforeServing
  LateNeedsCause
  RetryLateNeedsCause
PROPERTIES
  DrainEnds
CHECK_DEADLOCK FALSE
