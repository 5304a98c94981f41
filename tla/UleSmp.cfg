SPECIFICATION Spec
CONSTANTS
  t1 = t1
  t2 = t2
  Cpu = {0, 1}
  Thread = {t1, t2}
  Choosy = {t2}
  Prio <- MCPrio
  PRI_MAX_INTERACT = 1
  PRI_MIN_IDLE = 3
  PRI_MAX_IDLE = 4
  steal_thresh = 1
INVARIANTS
  NoSleepOnWork
  EachThreadOnce
  NoDeadlyEmbrace
  AffinityKept
