SPECIFICATION Spec
CONSTANTS
  Writers = {w1, w2}
  MaxLines = 2
  IndexRange = 6
  MaxMessages = 4
  FirstIndex = 4
  Lapping = TRUE
  Mortal = {}
INVARIANTS
  WritersDoNotClash
