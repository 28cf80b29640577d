SPECIFICATION Spec
CONSTANTS
  Target = {t1}
  ShortHorizon = 1
  LongHorizon = 6
  Lateness = 4
  FirstTick = 1
  Tick = 2
  TimerDelay = 0
  MaxLag = 2
  MaxNow = 6
  MaxFlows = 2
  MaxResent = 1
  MaxQueue = 1
INVARIANT ClockBehindWall
CHECK_DEADLOCK FALSE
