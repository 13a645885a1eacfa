CONSTANTS
  a = a
  Decks = {a}
  NoDeck = NoDeck
  MaxJobs = 2
  MaxBreaks = 4
SPECIFICATION Spec
INVARIANTS ScreenIsTrue LinksLead
PROPERTIES ListArrives BarsEnd
CHECK_DEADLOCK FALSE
