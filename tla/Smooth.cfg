SPECIFICATION Spec
CONSTANTS
  Tunnels = {1, 2, 3}
  RecursionLimit = 2
  MaxNotes = 1
  MaxCalls = 1
  Worlds <- SmoothWorlds
INVARIANTS
  AtMostOneWaiting
  OneInOperation
  ActivatingIsTrying
  AttemptIsAnswered
  VerdictIsTrue
PROPERTIES
  ImplementsSlot
