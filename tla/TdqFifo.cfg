SPECIFICATION Spec
CONSTANTS
  t1 = t1
  t2 = t2
  t3 = t3
  Thread <- TwoThreads
  NoThread = NoThread
  IdleThread = IdleThread
  RQ_NQS = 4
  RQ_PPQ = 3
  Discipline = "fifo"
  Prio <- ThreeClasses
  PRI_MIN_BATCH = 4
  PRI_MAX_BATCH = 7
  PRI_MAX_IDLE = 11
  preempt_thresh = 2
  sched_slice = 2
  sched_slice_min = 1
  SCHED_SLICE_MIN_DIVISOR = 6
  Splatter = FALSE
  Affine <- OneAffine
  NoLoad <- OneNoLoad
INVARIANTS
  TypeOK
  StatusMatchesQueues
  QueueMembership
  OneRunning
  LoadExact
  TransferableExact
  RotationWindow
  ClassOfQueue
  LowpriCovers
PROPERTIES
  DrainingQueueShrinks
