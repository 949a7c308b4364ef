SPECIFICATION Spec
CONSTANTS
  Tunnels = {1, 2}
  RecursionLimit = 2
  MaxNotes = 1
  MaxCalls = 0
  Worlds <- RoughWorlds
INVARIANTS
  TypeOK
  AtMostOneWaiting
  NoLostWakeup
