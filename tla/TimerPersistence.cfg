CONSTANTS
  Ann = Ann
  Bob = Bob
  Char = {Ann, Bob}
  NoChar = NoChar
  Duration <- MCDuration
  CampDelay = 1
  MaxTime = 2
  MaxEnd = 4
SYMMETRY Swap
SPECIFICATION Spec
INVARIANTS TypeOK OwnRowsOnly
PROPERTIES CampKeepsSnapshot NothingHiddenUnsaved RelogRestoresBuffs
CHECK_DEADLOCK FALSE
