CONSTANTS
  Null = Null
  p1 = p1  p2 = p2
  Procs = {p1, p2}
  N = 3
  Statements <- Lengths
  Repeatable <- CanRepeat
  MaxStarts = 2
  f1 = f1  f2 = f2  cards = cards  pages = pages  r1 = r1  page = page
  Files = {f1, f2}
  Folders = {cards, pages}
  FolderOf <- SomeFolders
  Workers = 2
  Spare = {r1}
  Savers = {page}
  NameOf <- FirstName
  MaxRuns = 2
  o1 = o1  o2 = o2  n1 = n1  n2 = n2
  site = site  form = form  other = other
  OldIds = {o1, o2}
  NewIds = {n1, n2}
  Urls = {site, form, other}
  Canon <- Forms
  MaxImports = 2
  MaxCleanups = 1
  MaxAdds = 1
  MaxDeletes = 1
  Cards = 3
  MaxVersion = 3
  MaxFaults = 2
SPECIFICATION LineSpec
INVARIANTS SuccessMeansDone 
PROPERTIES NothingLost OneVersionAtATime CommandsEnd
CHECK_DEADLOCK FALSE
