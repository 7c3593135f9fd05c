SPECIFICATION FairSpec
CONSTANTS
  UUID = {1, 2, 3}
  NoRow = NoRow
  POOL_LIMIT = 2
  RETRIEVE_LIMIT = 2
  SqlMayFail = FALSE
  MAX_PENDING_LIST_SIZE = 1
  MAX_MESSAGE_TO_UPDATE = 2
  MAX_BUFFER_IMAGE_SIZE = 2
  ImageSizes = {1, 2}
  Commands <- MCCommands
  StoredRows <- MCStoredRows
INVARIANTS
  TypeOK
  CacheIsPrefix
  ConsistentMeansWhole
  CleanerArmed
PROPERTIES
  CronKeepsRows
  EmptyMeansDone
  PromiseSpec
  PoolIsFlushed
  Drains
