CONSTANTS
  c1 = c1  c2 = c2
  list1 = list1  list2 = list2  import1 = import1  import2 = import2  delete2 = delete2  download1 = download1
  Conns = {c1, c2}
  Messages = {list1, import1, list2, delete2}
  Downloads = {download1}
  ConnOf <- SomeConns
  KindOf <- SomeKinds
  PoolSize = 2
SPECIFICATION FairSpec
INVARIANTS TypeOK PoolAccounted OnlyListsBlockThePool
PROPERTY EverythingSettles
CHECK_DEADLOCK FALSE
