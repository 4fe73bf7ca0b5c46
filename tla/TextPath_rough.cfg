SPECIFICATION FairSpec
CONSTANTS
  m1 = m1
  m2 = m2
  f1 = f1
  Msgs = {m1, m2}
  Fans = {f1}
  FanOf <- MCFanOf
  Kinds <- MCKinds
  WithId = {m1}
  Deliveries <- RetryFirst
  Workers = {w1, w2}
  NoFan = NoFan
  None = None
  Canned = Canned
  Texts = {some, other}
  Cards = {card, newer}
  Timeouts = TRUE
  Disconnects = TRUE
  Crashes = TRUE
INVARIANTS
  OneCallUnlessDropped
  RetrySameText
  MisfitIsLate
  OverlapIsLate
PROPERTIES
  TurnLostIsLate
  EveryPostAnswered
CHECK_DEADLOCK FALSE
