SPECIFICATION Spec
CONSTANTS
  Ids = {1, 2}
  Refs = {1, 2, 3, 4, 5, 6, 7, 8}
  Slots = {1, 2, 3, 4}
  Names = {a, b}
  ProfileNames = {p}
  Bodies = {x, y}
  Worlds <- StoreWorlds
SYMMETRY Interchangeable
INVARIANTS
  TypeOK
  SavedIsKept
  NothingLeftBehind
  ListIsStored
  NamesAreUnique
