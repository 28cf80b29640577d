SPECIFICATION Spec
CONSTANTS
  Incident = {a, b}
  MaxRevision = 2
  MaxLog = 3
  MaxFaults = 1
  BATCH = 1
  PruneAll = TRUE
  PruneInRead = FALSE
  MaxDisconnects = 2
INVARIANT PageIsCurrent
CHECK_DEADLOCK FALSE
