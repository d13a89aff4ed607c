\* Eleven components, one at a time.
SPECIFICATION ServicesSpec
CONSTANTS
  Server = {Green, Blue}
  NoServer = NoServer
  Sock = {s1, s2}
  NoSock = NoSock
  MaxChanges = 2
  MaxSends = 1
  MaxFaults = 1
  MaxWork = 2
  Plugin = {p}
  MaxRuns = 2
  MaxLaunches = 2
  MaxCommands = 4
  Attacker = {You}
  Damage = {1, 2}
  Window = {1, 2}
  Retention = 2
  MaxTime = 4
  MaxHits = 3
  MaxFights = 1
  Target = {Tank}
  Digits = {1, 2, 3}
  Letters = {1, 26, 28, 52}
  Content = {1, 2}
  Nothing = Nothing
  MaxWrites = 2
  MaxQueue = 2
  MaxClaims = 2
  MaxLost = 1
  MaxPending = 2
  MaxTexts = 4
  PluginId = {p, q}
  Version = {1, 2}
  NoCopy = NoCopy
  Half = Half
  Trigger = {mez}
  Duration = 3
  MaxTimers = 2
  MaxBars = 4
  Conn = {c1, c2}
  Player = {Ann, Bob}
  NoPlayer = NoPlayer
  Group = {g}
  NoGroup = NoGroup
  Zone = {north, south}
  MaxWaypoints = 1
INVARIANTS
  ServicesTypeOK
  StaleGroupIsClosing
  OneEscapes
  HooksFollowStatus
  RowsFollowStatus
  StrangersAsk
  BestWindowExact
  LibraryCatchesUp
  OneJobStrays
  OneLink
  AtMostOneMore
  OldCopySurvives
  TimersAreShown
  ZonesHaveSenders
PROPERTIES
  HubSettles
  UploadAnswered
  WarnsWhenNext
CHECK_DEADLOCK FALSE
