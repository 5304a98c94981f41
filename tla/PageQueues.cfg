SPECIFICATION Spec
CONSTANTS
 Kernel = {"clock", "fifo_log"}
 p1 = p1
 p2 = p2
 Page <- TwoPages
 NoPage = NoPage
INVARIANTS WriteProtected NeverStranded
PROPERTIES NoLostWrite ReclaimedAlone
SYMMETRY PageSymmetry
