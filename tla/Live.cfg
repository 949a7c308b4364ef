SPECIFICATION FairSpec
CONSTANTS
  Tunnels = {1, 2}
  RecursionLimit = 2
  MaxNotes = 1
  MaxCalls = 0
  Worlds <- LiveWorlds
PROPERTIES
  ComesToRest
