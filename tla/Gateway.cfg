SPECIFICATION Spec
CONSTANTS
  Enabled = {a, b}
  Disabled = {off}
  Device = {d, e}
  None = None
  Broken = Broken
  MaxFaults = 3
  MaxRequests = 6
INVARIANTS SnapshotWasGood AcceptIsGuarded OneConfigServed BlockKept
CHECK_DEADLOCK FALSE
