\* The whole session, from server_start() to the return of scrcpy().
CONSTANTS
  MaxAttempts = 2
  Files = {f1, f2}
  QueueCap = 1
  NONE = NONE
  MaxToggles = 2
SPECIFICATION FairSpec
INVARIANTS
  ReleasedAll
  NoUseAfterDestroy
PROPERTIES
  NothingStartedAfterStop
  EndIsReached
