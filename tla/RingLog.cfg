SPECIFICATION Spec
CONSTANTS
  Writers = {w1, w2}
  MaxLines = 3
  IndexRange = 6
  MaxMessages = 4
  FirstIndex = 4
  Lapping = FALSE
  Mortal = {w2}
INVARIANTS
  TypeOK
  LineIsWhole
  ExportIsTail
  ShownInOrder
