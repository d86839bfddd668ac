SPECIFICATION ReaderSpec
CONSTANTS
  Letters = {"a", "e", "f", "i", "l", "n", "s"}
  Digits = {"1"}
  Others = {"#"}
  MaxTokens = 5
  LineBytes = 5
  MaxSourceBytes = 6
  Texts <- MCTexts
INVARIANTS
  ReaderTypeOK
  TokensInPlace
  NothingLost
  LinesArriveWhole
PROPERTIES
  ReadsToTheEnd
CHECK_DEADLOCK FALSE
