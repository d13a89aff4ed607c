CONSTANTS
  Ann = Ann
  Bob = Bob
  Char = {Ann, Bob}
  NoChar = NoChar
  Duration <- MCDuration
  CampDelay = 1
  MaxTime = 3
  MaxEnd = 6
SYMMETRY Swap
SPECIFICATION Spec
PROPERTIES DrainKeepsBuffs
CHECK_DEADLOCK FALSE
