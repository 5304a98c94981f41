SPECIFICATION Spec
CONSTANTS
  hz = 2
  SCHED_TICK_SECS = 2
  SCHED_TICK_SHIFT = 1
  tickincr = 10
  StatTicks = 1
  Word = 64
  SCHED_INTERACT_HALF = 3
  sched_interact = 2
  PRI_MIN_TIMESHARE = 0
  PRI_MAX_TIMESHARE = 7
  PRIO_MAX = 1
  Elapsed = {0, 3, 4, 27, 63}
INVARIANTS
  UsageInWindow
  HistoryBounded
PROPERTIES
  PriorityOfItsClass
