SPECIFICATION FairSpec
CONSTANTS
  Tunnels = {1, 2}
  RecursionLimit = 8
  MaxNotes = 1
  MaxCalls = 1
  Worlds <- AddingWorlds
PROPERTIES
  RestartEnds
