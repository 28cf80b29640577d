SPECIFICATION FairSpec
CONSTANTS
  Incident = {a}
  MaxRevision = 2
  MaxLog = 3
  MaxFaults = 1
  BATCH = 1
  PruneAll = FALSE
  PruneInRead = FALSE
  MaxDisconnects = 2
INVARIANTS NothingSkipped FedOnce NewestShown PageIsCurrent CursorCovers
PROPERTY PageCatchesUp
CHECK_DEADLOCK FALSE
