SPECIFICATION PartsSpec
CONSTANTS
  a1 = a1
  NoAction = NoAction
  MaxEvents = 2
  Ids = {0, 1, 2, 3}
  Actions = {a1}
  Kinds = {"ONCE"}
  Window = "win"
  Careful = FALSE
  MaxDepth = 2
  Files = {"a", "A", "b", "c"}
  Upper <- MCUpper
  MaxMru = 2
  MaxMade = 6
  MaxClears = 2
  PageLength = 3
  FileStates <- MCFileStates
  Places = {2}
  Settings <- MCSettings
  MaxRecCount = 5
  MaxWorks = 2
  AppendToNone = FALSE
PROPERTY SlotsAreARegistry
PROPERTY MenuIsRecentFiles
PROPERTY BrowseIsCursor
CHECK_DEADLOCK FALSE
