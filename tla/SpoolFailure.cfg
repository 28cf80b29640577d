SPECIFICATION Spec
CONSTANTS
  SEQUENCE_BLOCK = 2
  SegmentBytes = 2
  MaxBytes = 4
  FlowBytes = 1
  HealthBytes = 2
  MaxHealth = 1
  PowerCuts = FALSE
  RenameDurable = TRUE
  MaxSeq = 4
  MaxCrashes = 0
  MaxFailures = 1
  MaxCopies = 2
INVARIANTS NothingStranded LatestReportSurvives
PROPERTY SendsGoForward
