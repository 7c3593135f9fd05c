SPECIFICATION Spec
CONSTANTS
  UUID = {1, 2}
  NoRow = NoRow
  Getters = {g1}
  Writers = {w1}
  RunAhead = runAhead
  FeedCron = feedCron
  JorCron = jorCron
  Nobody = Nobody
  MAX_MESSAGE_TO_UPDATE = 1
  MaxUpdates = 3
PROPERTY RunAheadFillsNext
