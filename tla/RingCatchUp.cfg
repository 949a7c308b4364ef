SPECIFICATION FairSpec
CONSTANTS
  Writers = {w1, w2}
  MaxLines = 3
  IndexRange = 6
  MaxMessages = 3
  FirstIndex = 4
  Lapping = FALSE
  Mortal = {}
PROPERTIES
  CatchesUp
