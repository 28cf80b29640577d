SPECIFICATION FairSpec
CONSTANTS
  SEQUENCE_BLOCK = 1
  SegmentBytes = 1
  MaxBytes = 2
  FlowBytes = 1
  HealthBytes = 1
  MaxHealth = 1
  PowerCuts = FALSE
  RenameDurable = TRUE
  MaxSeq = 2
  MaxCrashes = 1
  MaxFailures = 2
  MaxCopies = 1
PROPERTY EventuallyDelivered
