SPECIFICATION Spec
CONSTANTS
  UUID = {1, 2}
  NoRow = NoRow
  NoData = NoData
  f1 = f1
  f2 = f2
  i1 = i1
  Feeds = {f1, f2}
  Images = {i1}
  Size <- MCSize
  LIMITSIZE = 3
  LIMITKEY = 2
  RETRIEVE_LIMIT = 1
  POOL_LIMIT = 2
  SqlMayFail = FALSE
  MayRestart = FALSE
INVARIANTS
  TypeOK
  SpaceIsCounted
  CacheIsCurrent
  NeedFeedIsLive
  NeverWedged
PROPERTY StoreSpec
