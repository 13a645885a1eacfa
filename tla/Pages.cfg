CONSTANTS
  MostCards = 15
  Cards <- AllCards
  Listings <- EveryDeckSize
  SmallSizes <- FirstSizes
  LargestSize <- SmallLargest
  Parallelism = 2
  Hidden = Hidden  Blank = Blank
SPECIFICATION Spec
INVARIANTS CardsShowTheirFace HiddenFaceStays OnlyLargestOverflow
