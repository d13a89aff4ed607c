SPECIFICATION Spec
CONSTANTS
  MaxLine = 4
  Text <- MCText
  Welcome = "welcome"
  Backtrack = 4
  SigLen = 2
  Threshold = 3
  Catchup = 1
  MaxEmptied = 1
INVARIANT
  ErasedLinesWereParsed
