SPECIFICATION FairSpec
CONSTANTS
 Kernel = {"clock", "fifo_log"}
 Threads = 2
 Pages = 2
 FreeTarget = 2
 FreeMin = 1
 FreeReserved = 0
 WakeupThresh = 1
 InactiveTarget = 0
 ScanLaundryWeight = 2
 MaxDeficit = 1
 MaxTouch = 1
INVARIANT NoLostWakeup
PROPERTY WaiterWoken
