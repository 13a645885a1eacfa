CONSTANTS
  t1 = t1  t2 = t2  ann = ann  bob = bob  old = old  new = new  s1 = s1  s2 = s2
  Tabs = {t1, t2}
  Users = {ann, bob}
  Names = {old, new}
  SessionIds = {s1, s2}
  Null = Null
  RedisDays = 1
  CookieDays = 2
  MaxDay = 2
SPECIFICATION Spec
SYMMETRY Alike
INVARIANT CookiesWork
PROPERTY OneUserEach
CHECK_DEADLOCK FALSE
