SPECIFICATION Spec
CONSTANTS
  Scopes <- MCScopes
  Tags <- MCTags
  DateWords <- MCDateWords
  Events <- MCEvents
  Digests <- MCDigests
  Messages <- MCMessages
  AiAnswers <- MCAiAnswers
  Dictionary <- MCDictionary
  AiFallback = TRUE
  CardLimit = 2
  CardReady = TRUE
  MaxDay = 8
  NoTag = NoTag
  Blank = Blank
  NoSnapshot = NoSnapshot
INVARIANTS
  RangeAgreesWithDays
  FewerConditionsMoreRows
PROPERTIES
  FirstMatchesShown
