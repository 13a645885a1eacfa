CONSTANTS
  u1 = u1  u2 = u2  u3 = u3
  Urls = {u1, u2, u3}
  Limit = 3
  boss = boss  partner = partner  land = land  red = red
  OracleIds = {boss, partner, land}
  Colors = {red}
  ColorsOf <- MCColors
  Legal = {boss, partner, land}
  Leads = {boss, partner}
  Printings <- MCPrintings
  MaxCopies = 3
  DeckSize = 2
  Bad = Bad
  MaxRows = 2
  a = a  b = b  t1 = t1  t2 = t2  o1 = o1  o2 = o2  o3 = o3
  Cards = {a, b, t1, t2}
  DeckCards = {a, b}
  Oracles = {o1, o2, o3}
  OracleOf <- TwoPrintings
  MaxParts <- OneWithTwo
  l1 = l1  l2 = l2  image = image
  Loads = {l1, l2}
  Images = {image}
  CardOf <- SameCard
  Ladder <- ThreeFormats
  MaxHops = 2
  Gap = 2
  NoLoad = NoLoad
  r1 = r1  r2 = r2  r3 = r3
  Renders = {r1, r2, r3}
  DeckImages = 4
  AtOnce = 2
SPECIFICATION WorkSpec
INVARIANTS ResultsAreRight MemoryHeld
PROPERTIES ImagesStay WorkEnds
CHECK_DEADLOCK FALSE
