SPECIFICATION Spec
CONSTANTS
  t1 = t1
  t2 = t2
  t3 = t3
  Timers <- TheTimers
  NULL = NULL
  Values <- TheValues
  MaxTick = 6
  MaxCalls = 2
SYMMETRY Symmetry
INVARIANTS TypeOK Acyclic ExpiredAreCalled OnlyHeadRuns AlarmAhead NotLate
PROPERTY OthersUndisturbed
