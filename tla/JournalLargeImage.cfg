SPECIFICATION FairSpec
CONSTANTS
  UUID = {1, 2}
  NoRow = NoRow
  POOL_LIMIT = 2
  RETRIEVE_LIMIT = 2
  SqlMayFail = FALSE
  MAX_PENDING_LIST_SIZE = 1
  MAX_MESSAGE_TO_UPDATE = 2
  MAX_BUFFER_IMAGE_SIZE = 2
  ImageSizes = {3}
  Commands <- MCFeedImage
  StoredRows <- MCStoredRows
PROPERTY Drains
