SPECIFICATION Spec
CONSTANTS
  MaxVersion = 3
  Overlap = FALSE
INVARIANTS
  TypeOK
  NeverTorn
  NothingForgotten
  QuitLosesOnlyInFlight
PROPERTIES
  EventuallySaved
