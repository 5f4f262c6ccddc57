SPECIFICATION RaceSpec
CONSTANTS
  t1 = t1
  t2 = t2
  Timers <- TheTimers
  NULL = NULL
  Values <- TheValues
  MaxTick = 7
  MaxCalls = 0
INVARIANT CalledAtTheEnd
