SPECIFICATION Spec
CONSTANTS
  MaxVersion = 3
  Overlap = TRUE
INVARIANT
  NeverTorn
