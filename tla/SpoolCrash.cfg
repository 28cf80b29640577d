SPECIFICATION Spec
CONSTANTS
  SEQUENCE_BLOCK = 2
  SegmentBytes = 2
  MaxBytes = 4
  FlowBytes = 1
  HealthBytes = 2
  MaxHealth = 1
  PowerCuts = TRUE
  RenameDurable = TRUE
  MaxSeq = 4
  MaxCrashes = 1
  MaxFailures = 0
  MaxCopies = 1
INVARIANTS NoEventVanishes NumbersNeverReused WatermarkIsDelivered LossAccounted SpoolBounded
PROPERTY ImplementsOutbox
