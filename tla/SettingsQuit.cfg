SPECIFICATION Spec
CONSTANTS
  MaxVersion = 3
  Overlap = FALSE
INVARIANT
  QuitKeepsEverything
