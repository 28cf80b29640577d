SPECIFICATION Spec
CONSTANTS
  Horizon = {short, long}
  Threshold <- MCThreshold
  ClearNum = 1
  ClearDen = 2
  MediumRatio = 2
  HighRatio = 4
  HoldMs = 3
  CooldownMs = 4
  TICK_MS = 2
  Value = {0, 2, 6}
  ViewSkew = 1
  TimerDelay = 1
  MaxNow = 10
  MaxViews = 3
  Short = short
INVARIANTS SilenceResolves IncidentIsCurrent TransitionIdsUnique
PROPERTIES ResolveHeld CooldownDecides
CHECK_DEADLOCK FALSE
