SPECIFICATION Spec
CONSTANTS
  t1 = t1
  t2 = t2
  Thread <- TwoThreads
  Entries = 4
  Slots = 8
INVARIANT
  OnlyAccessTimes
