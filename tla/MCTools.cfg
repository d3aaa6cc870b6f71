\* Every small program and part, with the sizes MCTools gives it.
CONSTANTS
  Windows = {1, 2, 3}
  Television = {3}
  Levels = {6, 10}
  MaxPipe = 3
  Codes = {1, 5}
  MaxAddresses = 3
  BufferMax = 2
  MaxSignals = 1
  Second = 2
  Delay = 1
  MaxNoise = 3
  MaxQueue = 2
  Arguments <- SomeArguments
  Paths <- SomePaths
  Values <- SomeValues
  Names <- SomePlaces
  MaxDirs = 2
  PathMax = 2
  PathLength = 8
  Lengths = {0, 1, 2, 3}
  MaxWords = 5
  MaxEnv = 1
  MaxChunks = 1
  MaxUptime = 3
  MaxSessions = 3
  Phrases <- SomeNames
  Numbers <- SomeNumbers
  IntLen = 2
  MaxConstraints = 2
  Requests <- SomeRequests
  MaxInput = 6
  Tracks = {1, 2}
  MaxPlaylist = 2
  Devices = {1}
  MaxChanges = 1
SPECIFICATION MCSpec
INVARIANTS ConnectionUsable WordsArrive PartAsSent OnlyFocusedActive CommandDetached StatusPassedOn
  CountedAtMostOnce CutsComments NamesDirectory AnswerTaken OriginalKept ParsedAsGiven
PROPERTIES ChangesAtTheEnd RestoredAsRead
CHECK_DEADLOCK FALSE
