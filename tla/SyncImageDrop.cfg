SPECIFICATION Spec
CONSTANTS
  UUID = {1, 2, 3}
  NoRow = NoRow
  NoData = NoData
  NotReady = NotReady
  Feeds = {f1, f2}
  FirstUuids = {1, 3}
  FirstFeeds = {f1}
  Images = {i1}
  MAX_WRITE_BUFFER = 2
  MAX_MESSAGE_TO_UPDATE = 1
  MaxEvents = 3
INVARIANT DroppedImagesGo
CHECK_DEADLOCK FALSE
