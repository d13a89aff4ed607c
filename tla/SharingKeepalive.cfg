\* Two characters, one of them switched to while the other's keepalive runs.
SPECIFICATION SendsSpec
CONSTANTS
  Char = {Ann, Bob}
  NoChar = NoChar
INVARIANT OffGatesLocation
CHECK_DEADLOCK FALSE
