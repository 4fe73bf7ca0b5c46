SPECIFICATION FairSpec
CONSTANTS
  t1 = t1
  t2 = t2
  Tasks <- MCTasks
  N = 2
  Wrap = 5
INVARIANTS
  ErrorNeedsContention
  OneFailurePerCooldown
PROPERTIES
  LiveBridgeKept
  CheckoutReturns
