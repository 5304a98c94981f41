SPECIFICATION FairSpec
CONSTANTS
  t1 = t1
  t2 = t2
  t3 = t3
  Thread <- ThreeThreads
  NoThread = NoThread
  IdleThread = IdleThread
  RQ_NQS = 4
  RQ_PPQ = 6
  Discipline = "sorted"
  Prio <- OneBatch
  PRI_MIN_BATCH = 4
  PRI_MAX_BATCH = 7
  PRI_MAX_IDLE = 11
  preempt_thresh = 2
  sched_slice = 1
  sched_slice_min = 1
  SCHED_SLICE_MIN_DIVISOR = 6
  Splatter = TRUE
  Affine <- OneAffine
  NoLoad <- NoneAffine
PROPERTIES
  TimeshareProgress
