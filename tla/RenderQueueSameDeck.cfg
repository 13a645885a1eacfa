CONSTANTS
  r1 = r1  r2 = r2  r3 = r3  r4 = r4
  d1 = d1  d2 = d2  d3 = d3  d4 = d4
  Renders = {r1, r2, r3}
  Decks = {d1, d2}
  DeckOf <- TwoOfOne
  U16Max = 65535
  NoRender = NoRender
SPECIFICATION Spec
PROPERTY AllListenersTold
