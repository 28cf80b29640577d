SPECIFICATION Spec
CONSTANTS
  MaxReports = 3
  MaxSensorFaults = 1
  MaxReaderFaults = 1
INVARIANT HealthIsNewest
PROPERTY LossStaysVisible
CHECK_DEADLOCK FALSE
