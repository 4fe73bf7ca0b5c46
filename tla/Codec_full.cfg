SPECIFICATION TextSpec
CONSTANTS
  Block = 2
  Alnum = {"a", "b"}
  Wide = {"z"}
  Alphabet <- MCAlphabet
  MaxLen <- MCMaxLen
  Words <- MCWords
  AppId <- MCAppId
  MaxString = 2
  MaxDepth = 1
  MaxMembers <- MCMaxMembers
INVARIANTS
  RepliesReadWhole
  OpensOnlySealed
  WholeWords
  FindsTheObject
CHECK_DEADLOCK FALSE
