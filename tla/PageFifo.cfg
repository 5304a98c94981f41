SPECIFICATION Spec
CONSTANTS
 Kernel = {"fifo_log"}
 p1 = p1
 p2 = p2
 Page <- TwoPages
 NoPage = NoPage
PROPERTY FreedUnmapped
SYMMETRY PageSymmetry
