SPECIFICATION FairSpec
CONSTANTS
  a1 = a1
  a2 = a2
  a3 = a3
  c1 = c1
  c2 = c2
  Asks = {a1, a2, a3}
  Cids = {c1, c2}
  CidOf <- AllButLast
  NoAsk = NoAsk
  Open = Open
  Closed = Closed
  Noise = Noise
  NotUtf8 = NotUtf8
  PipeCap = 1
  OutCap = 2
  Cancels = TRUE
INVARIANTS
  NoLeak
  FailedMeansDead
  ConversationIsolation
  MismatchNeedsCancel
  TornNeedsCancel
  FailFast
PROPERTIES
  DeadChildFailsFast
CHECK_DEADLOCK FALSE
