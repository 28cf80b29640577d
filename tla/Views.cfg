SPECIFICATION Spec
CONSTANTS
  Target = {t1, t2}
  ShortHorizon = 1
  LongHorizon = 2
  Lateness = 4
  FirstTick = 1
  Tick = 1
  TimerDelay = 1
  MaxLag = 1
  MaxNow = 7
  MaxFlows = 3
  MaxResent = 1
  MaxQueue = 1
SYMMETRY TargetSymmetry
INVARIANTS WindowIsExact AggregatesMatch RestoreSame DownstreamCurrent SilenceForgets CountedOnce
CHECK_DEADLOCK FALSE
