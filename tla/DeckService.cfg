CONSTANTS
  Requests = {t1, t2, t3}
  Users = {u1, u2}
  Urls = {l1}
  DeckIds = {d1, d2, d3}
  m1 = m1  m2 = m2  s1 = s1
  Entries = {m1, m2, s1}
  PileOf <- SmallPiles
  Contents <- TwoLists
  Unborn = Unborn  Deleted = Deleted
  NoRequest = NoRequest  NoDeck = NoDeck  Null = Null
SPECIFICATION Spec
SYMMETRY Interchangeable
INVARIANTS TypeOK JsonMatchesEntries CleanDecksAreWhole DeletedStaysDeleted
PROPERTIES OnlyOwnerTouches
