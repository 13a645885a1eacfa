CONSTANTS
  MostCards = 2
  Cards <- AllCards
  Listings <- SideboardedCard
  SmallSizes <- RealSizes
  LargestSize <- RealLargest
  Parallelism = 10
  Hidden = Hidden  Blank = Blank
SPECIFICATION Spec
INVARIANTS CardsShowTheirFace
