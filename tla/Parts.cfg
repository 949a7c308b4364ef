SPECIFICATION PartsSpec
CONSTANTS
  Sessions = {1, 2, 3}
  Worlds <- ProviderWorlds
  KeyLen = 5
  Texts <- KeyTexts
  SSIDs = {"home", "work", "cafe"}
  EndpointLists <- PeerEndpoints
  Answers <- FoundAddresses
  Processes = {"app", "net"}
  LogLines = 3
  MaxLogged = 3
  MaxStarts = 4
  Names = {"a", "b", "c"}
  MaxNumberOfTunnels = 2
  MaxActivations = 4
  ConfigNames = {1, 2, 3}
  FileLists <- ImportedLists
  Tokens <- HighlightTokens
  Beginnings <- HighlightBeginnings
  MaxTokens = 3
INVARIANTS
  NoDeviceLingers
  HandleIsOwn
  EndpointsFollowPath
  ReasonIsOfAttempt
  ReadAsSaid
  WrittenIsReadBack
  EverythingIsMarkedOnce
  ErrorsAreTheWrongLines
  RulesSayTheOption
  OptionIsReadBack
  AddressesAreRecognised
  NewestFirst
  ResolutionIsTrue
  SilenceMeansAllAdded
  SettledLogIsKept
  OneTextPerKey
  HexIsReadAndWritten
CHECK_DEADLOCK FALSE
