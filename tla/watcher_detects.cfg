SPECIFICATION WatcherSpec
CONSTANTS
  MaxChanges = 2
  MaxRestores = 0
INVARIANTS
  ChangesDetected
CHECK_DEADLOCK FALSE
