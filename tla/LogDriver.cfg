SPECIFICATION Spec
CONSTANTS
  p1 = p1
  p2 = p2
  addFirst = addFirst
  addSecond = addSecond
  removeFirst = removeFirst
  gui1 = gui1
  net1 = net1
  Driver = driver
  Gui = gui1
  Parser <- MCParser
  Cmd <- MCCmd
  Caller <- MCCaller
  Change <- MCChange
  MaxLines = 2
  QuietStart = TRUE
  Readable = TRUE
INVARIANTS
  TypeOK
  CallerMeansNoDriver
  NothingStranded
  NoParserSkipped
PROPERTIES
  QueueOrder
  KeepsPromise
