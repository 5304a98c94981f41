SPECIFICATION FairSpec
CONSTANTS
 Domain = {"d0", "d1"}
 OomSeq = 1
 Pages = 2
 FreeTarget = 2
 MaxDeficit = 1
 MaxTouch = 1
 ShortfallCycles = 2
 BackgroundTarget = 1
 BackgroundMax = 1
 BackgroundRate = 1
 MaxWakeups = 1
INVARIANTS
 LaundryLocals
 VotesExact
PROPERTIES
 KillUnanimous
 KeepsPromise
