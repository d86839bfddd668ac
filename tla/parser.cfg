SPECIFICATION ParsingSpec
CONSTANTS
  MaxInt = 12
  MaxParseDepth = 7
  MaxAstNodes = 25
  MaxStatements = 9
  MaxListItems = 5
  Lines <- MCLines
  LaterLines <- MCLaterLines
  MaxLines = 2
INVARIANTS
  ParsedAsWritten
  SpellingParsesBack
  NodesCounted
CHECK_DEADLOCK FALSE
