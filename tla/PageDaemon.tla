----------------------------- MODULE PageDaemon -----------------------------
(***************************************************************************)
(* The page daemon of asgn3 with the threads that wait for free pages:      *)
(* vm_pageout_worker, vm_pageout_scan, pagedaemon_wakeup, pagedaemon_wait   *)
(* and vm_pageout_oom over numbers of pages.  The laundry thread does what  *)
(* LaundryRequest promises.  The kernel is one of three files that mode.sh  *)
(* installs:                                                                *)
(*   "clock"      vm_pageout.c                                              *)
(*   "clock_log"  vm_pageout_log.c                                          *)
(*   "fifo_log"   vm_pageout_fifo_log.c                                     *)
(***************************************************************************)
EXTENDS LaundryRequest

CONSTANTS
  Kernel,             \* the kernels that are checked
  Threads,            \* how many user threads there are
  FreeReserved, FreeMin, WakeupThresh, InactiveTarget,
  ScanLaundryWeight   \* act_scan_laundry_weight

ASSUME PageDaemonAssumption ==
  /\ Threads \in Nat
  /\ Kernel \subseteq {"clock", "clock_log", "fifo_log"}
  /\ FreeReserved \in Nat /\ FreeReserved < FreeMin /\ FreeMin < FreeTarget
  /\ WakeupThresh \in Nat
  /\ InactiveTarget \in Nat /\ ScanLaundryWeight \in Nat \ {0}

\* A user thread runs, calls pagedaemon_wakeup (reads the flag, sets it), after
\* which it goes on or waits, or is about to wait, or waits.
Step == {"run", "read", "set", "read_and_wait", "set_and_wait", "wait", "vmwait"}

VARIABLES
  kernel,
  at,       \* how many user threads are at each step
  wanted,   \* vm_pageout_wanted
  needed,   \* vm_pages_needed
  wpc,      \* where the page daemon is
  pass,     \* the level of its scan, 0 or at least 1
  met,      \* target_met
  scan      \* locals of its scan

workerVars == <<wpc, pass, met, scan>>
vars == <<requestVars, kernel, at, wanted, needed, workerVars>>

NoScan == [starting |-> 0,  \* starting_page_shortage
           shortage |-> 0,  \* page_shortage, and inactq_shortage later
           extra    |-> 0,  \* deficit + addl_page_shortage; pages passed over
           left     |-> 0]  \* maxscan

Init ==
  /\ RequestInit
  /\ kernel \in Kernel
  /\ at = [x \in Step |-> IF x = "run" THEN Threads ELSE 0]
  /\ wanted = FALSE /\ needed = FALSE
  /\ wpc = "top" /\ pass = 0 /\ met = TRUE /\ scan = NoScan

vm_page_count_min == page["free"] < FreeMin

\* vm_page_queue_free_mtx: the page daemon holds it from the top of its loop
\* until it scans or sleeps.  Others take it for single steps.
MutexFree == wpc \notin {"check", "doze"}

\* A user thread goes from one step to another.
Goes(from, to) == at[from] > 0 /\ at' = [at EXCEPT ![from] = @ - 1, ![to] = @ + 1]

\* wakeup(&vm_cnt.v_free_count)
Woken == [at EXCEPT !["run"] = @ + at["vmwait"], !["vmwait"] = 0]

\* vm_page_free, k times: pages are moved to the free lists; at the minimum the
\* threads that wait are woken.
FreePages(from, k) ==
  /\ MutexFree
  /\ k <= page[from]
  /\ page' = Moved(page, from, "free", k)
  /\ IF needed /\ page'["free"] >= FreeMin
     THEN needed' = FALSE /\ at' = Woken
     ELSE UNCHANGED <<needed, at>>

FreePage(from) == FreePages(from, 1)
-----------------------------------------------------------------------------
(* User threads.                                                            *)

\* vm_page_alloc takes a page, and wakes the page daemon when few are left.
Alloc ==
  /\ MutexFree
  /\ page["free"] > FreeReserved
  /\ page' = Moved(page, "free", "active", 1)
  /\ \/ page'["free"] < WakeupThresh /\ Goes("run", "read")
     \/ page'["free"] >= WakeupThresh /\ at["run"] > 0 /\ UNCHANGED at
  /\ UNCHANGED <<touch, request, asleep, due, kernel, wanted, needed, workerVars>>

\* vm_page_alloc fails: it wakes the page daemon, and the thread is to wait.
AllocFails ==
  /\ MutexFree
  /\ page["free"] <= FreeReserved
  /\ Goes("run", "read_and_wait")
  /\ UNCHANGED <<page, touch, request, asleep, due, kernel, wanted, needed, workerVars>>

\* A thread gives back a page that it has.
Release ==
  /\ at["run"] > 0
  /\ \E from \in Place \ {"free"} : FreePage(from)
  /\ UNCHANGED <<touch, request, asleep, due, kernel, wanted, workerVars>>

\* wakeup(&vm_pageout_wanted): it starts a scan of level 1 if it sleeps.
WakeDaemon ==
  /\ wanted' = TRUE
  /\ IF wpc = "psleep" THEN wpc' = "scan" /\ pass' = 1 ELSE UNCHANGED <<wpc, pass>>
  /\ UNCHANGED <<met, scan>>

\* pagedaemon_wakeup: the flag is read without a lock ...
WakeupRead ==
  /\ \/ Goes("read", IF wanted THEN "run" ELSE "set")
     \/ Goes("read_and_wait", IF wanted THEN "wait" ELSE "set_and_wait")
  /\ UNCHANGED <<requestVars, kernel, wanted, needed, workerVars>>

\* ... and then set.
WakeupSet ==
  /\ Goes("set", "run") \/ Goes("set_and_wait", "wait")
  /\ WakeDaemon
  /\ UNCHANGED <<requestVars, kernel, needed>>

\* pagedaemon_wait wakes the page daemon although the flag may be set already:
\* when that was done without the mutex, the wakeup may have been lost.
\* Mutant for NoLostWakeup: the flag alone is trusted.
MustWake_FlagAlone == ~wanted
MustWake == ~wanted \/ ~needed

\* With the mutex of the free lists.
Wait ==
  /\ MutexFree
  /\ Goes("wait", "vmwait")
  /\ IF MustWake THEN WakeDaemon ELSE UNCHANGED <<wanted, workerVars>>
  /\ needed' = TRUE
  /\ UNCHANGED <<requestVars, kernel>>
-----------------------------------------------------------------------------
(* The page daemon.                                                         *)

\* The top of the loop: who waits in vain is woken, and the flag is cleared
\* unless the target was missed.  (met is assigned anew by the next scan.)
Top ==
  /\ wpc = "top"
  /\ wanted' = (wanted /\ ~met)
  /\ IF needed /\ ~vm_page_count_min
     THEN needed' = FALSE /\ at' = Woken
     ELSE UNCHANGED <<needed, at>>
  /\ wpc' = "check"
  /\ met' = FALSE
  /\ UNCHANGED <<requestVars, kernel, pass, scan>>

\* The flag, which threads set without the mutex, is read again: scan (the pause
\* before it is any time the scan takes to begin), or sleep if nobody waits.
Check ==
  /\ wpc = "check"
  /\ wpc' = IF wanted \/ needed THEN "scan" ELSE "doze"
  /\ pass' = IF wanted \/ needed THEN 1 ELSE pass
  /\ UNCHANGED <<requestVars, kernel, at, wanted, needed, met, scan>>

\* mtx_sleep: what the flag has become meanwhile is not looked at.
Doze ==
  /\ wpc = "doze" /\ wpc' = "psleep"
  /\ UNCHANGED <<requestVars, kernel, at, wanted, needed, pass, met, scan>>

\* After a second of sleep it scans at level 0.
TimerEnds ==
  /\ wpc = "psleep"
  /\ pass' = 0
  /\ wpc' = "scan"
  /\ UNCHANGED <<requestVars, kernel, at, wanted, needed, met, scan>>

\* Mutant for WaiterWoken: vm_pageout.c as vm_pageout_log.c is.
HasShortage_Logged == kernel = "fifo_log"

\* The log line of vm_pageout_log.c has become the else branch, and what was the
\* else branch is always executed; the fifo kernel has dropped the test.
HasShortage ==
  CASE kernel = "clock"     -> pass > 0
    [] kernel = "clock_log" -> FALSE
    [] kernel = "fifo_log"  -> TRUE

\* The handlers of vm_lowmem and uma_reclaim: the caches of the kernel may give
\* pages back, now and then when the level is at least 1.
CachesDrained ==
  \/ UNCHANGED <<page, at, needed>>
  \/ pass > 0 /\ \E k \in 1 .. Pages : FreePages("active", k)

\* How many pages to free, and how many there are to look at.  (pass is not read
\* again before it is assigned anew.)
ScanBegins ==
  /\ wpc = "scan"
  /\ CachesDrained
  /\ \E deficit \in IF HasShortage THEN Deficit ELSE {0} :
       LET short == IF HasShortage THEN vm_paging_target' + deficit ELSE 0
       IN  scan' = [starting |-> short, shortage |-> short,
                    extra |-> IF kernel = "fifo_log" THEN 0 ELSE deficit,
                    left |-> page["inactive"]]
  /\ wpc' = "inactive" /\ pass' = 0
  /\ UNCHANGED <<touch, request, asleep, due, kernel, wanted, met>>

Visited == [scan EXCEPT !.left = Max({@ - 1, 0})]

\* The fifo kernel scans the inactive queue to its end, whatever the shortage.
InactiveEnds ==
  \/ scan.left = 0 \/ page["inactive"] = 0
  \/ scan.shortage <= 0 /\ kernel # "fifo_log"

\* A page of the inactive queue that nothing stands against is freed.
InactiveFreed ==
  /\ wpc = "inactive" /\ ~InactiveEnds
  /\ FreePage("inactive")
  /\ scan' = [Visited EXCEPT !.shortage = @ - 1]
  /\ UNCHANGED <<touch, request, asleep, due, kernel, wanted, wpc, pass, met>>

\* One that has been used: it is dirty and goes to the laundry, or referenced
\* and becomes active again (the fifo kernel does not look), or it is held or
\* busy and counts as shortage in the active scan.
InactiveUsed ==
  /\ wpc = "inactive" /\ ~InactiveEnds
  /\ touch > 0 /\ touch' = touch - 1
  /\ \/ page' = Moved(page, "inactive", "laundry", 1) /\ scan' = Visited
     \/ /\ kernel # "fifo_log"
        /\ page' = Moved(page, "inactive", "active", 1) /\ scan' = Visited
     \/ UNCHANGED page /\ scan' = [Visited EXCEPT !.extra =
                                           IF kernel = "fifo_log" THEN 0 ELSE @ + 1]
  /\ UNCHANGED <<request, asleep, due, kernel, at, wanted, needed, wpc, pass, met>>

\* After enough scans that freed nothing (OomVote) the largest process is
\* killed.  Its threads give their pages back like any other; what matters here
\* is that vm_pageout_oom wakes all that wait.
MayKill ==
  \/ scan.starting > 0 /\ scan.starting = scan.shortage /\ at' = Woken
  \/ UNCHANGED at

\* The inactive queue is done: a request to the laundry, the out-of-memory
\* vote and the shortage of inactive pages.  met already has what the scan of
\* the clock kernels will return.
InactiveDone ==
  LET inactive == page["inactive"] + page["laundry"] \div ScanLaundryWeight
      short    == InactiveTarget - inactive + vm_paging_target + scan.extra
  IN  /\ wpc = "inactive" /\ InactiveEnds
      /\ IF request = "idle" /\ scan.starting > 0
         THEN Request(scan.shortage) ELSE UNCHANGED <<request, asleep>>
      /\ MayKill
      /\ met' = (scan.shortage <= 0)
      /\ scan' = IF kernel = "fifo_log" THEN [NoScan EXCEPT !.shortage = scan.shortage]
                  ELSE [NoScan EXCEPT !.shortage = ScanLaundryWeight * short]
      /\ wpc' = IF kernel = "fifo_log" THEN "active" ELSE "count"
      /\ UNCHANGED <<queueVars, due, kernel, wanted, needed, pass>>

\* The shortage was read off the counters without a lock.  With the queue's lock
\* the clock kernels count the active pages: by then there may be others.
ActiveBegins ==
  /\ wpc = "count" /\ wpc' = "active"
  /\ scan' = [scan EXCEPT !.left = page["active"]]
  /\ UNCHANGED <<requestVars, kernel, at, wanted, needed, pass, met>>

\* The fifo kernel has no limit but the end of the queue.
ActiveEnds ==
  \/ scan.shortage <= 0 \/ page["active"] <= scan.extra
  \/ scan.left = 0 /\ kernel # "fifo_log"

\* A page that cannot be locked or has left the queue is passed over.
ActiveSkipped ==
  /\ wpc = "active" /\ ~ActiveEnds
  /\ touch > 0 /\ touch' = touch - 1
  /\ scan' = [Visited EXCEPT !.extra = @ + 1]
  /\ UNCHANGED <<page, request, asleep, due, kernel, at, wanted, needed, wpc,
                 pass, met>>

\* The clock kernels, short of inactive pages: a page that is not used becomes
\* inactive if it is clean and goes to the laundry if it is dirty.
ActiveClock ==
  /\ wpc = "active" /\ ~ActiveEnds /\ kernel # "fifo_log"
  /\ \/ /\ page' = Moved(page, "active", "inactive", 1)
        /\ scan' = [Visited EXCEPT !.shortage = @ - ScanLaundryWeight]
        /\ UNCHANGED touch
     \/ /\ page' = Moved(page, "active", "laundry", 1)
        /\ scan' = [Visited EXCEPT !.shortage = @ - 1]
        /\ UNCHANGED touch
     \/ /\ touch > 0 /\ touch' = touch - 1
        /\ scan' = Visited /\ UNCHANGED page
  /\ UNCHANGED <<request, asleep, due, kernel, at, wanted, needed, wpc, pass, met>>

\* The fifo kernel frees a clean page and launders a dirty one, and counts both.
ActiveFifo ==
  /\ wpc = "active" /\ ~ActiveEnds /\ kernel = "fifo_log"
  /\ \/ FreePage("active")
     \/ page' = Moved(page, "active", "laundry", 1) /\ UNCHANGED <<needed, at>>
  /\ scan' = [Visited EXCEPT !.shortage = @ - 1]
  /\ UNCHANGED <<touch, request, asleep, due, kernel, wanted, wpc, pass, met>>

\* The idle poll of the clock kernels visits a page while nothing is short.
ActivePolled ==
  /\ wpc = "active" /\ scan.left > 0 /\ page["active"] > 0
  /\ scan.shortage <= 0 /\ kernel # "fifo_log"
  /\ page' = Moved(page, "active", "inactive", 1)
  /\ scan' = Visited
  /\ UNCHANGED <<touch, request, asleep, due, kernel, at, wanted, needed, wpc, pass, met>>

\* The scan returns whether the target was met.
ScanEnds ==
  /\ wpc = "active" /\ ActiveEnds
  /\ met' = IF kernel = "fifo_log" THEN scan.shortage <= 0 ELSE met
  /\ scan' = NoScan /\ wpc' = "top"
  /\ UNCHANGED <<requestVars, kernel, at, wanted, needed, pass>>
-----------------------------------------------------------------------------
Worker ==
  \/ Top \/ Check \/ Doze \/ TimerEnds \/ ScanBegins \/ InactiveFreed \/ InactiveUsed \/ InactiveDone
  \/ ActiveBegins \/ ActiveClock \/ ActiveSkipped \/ ActiveFifo \/ ActivePolled \/ ScanEnds

Waiting == WakeupRead \/ WakeupSet \/ Wait

User == Alloc \/ AllocFails \/ Release \/ Waiting

Laundering == LaundryNext /\ UNCHANGED <<kernel, at, wanted, needed, workerVars>>

\* A page of the laundry that turns out to be clean is freed there.
LaundryFrees ==
  /\ ~asleep
  /\ FreePage("laundry")
  /\ UNCHANGED <<touch, request, asleep, due, kernel, wanted, workerVars>>

Next == Worker \/ Laundering \/ LaundryFrees \/ User

Spec == Init /\ [][Next]_vars

\* Kernel threads run, pauses and sleeps end, a thread that is to wait does so,
\* and the laundry keeps its promise.
Fairness ==
  /\ WF_vars(Worker)
  /\ WF_vars(Waiting)
  /\ LaundryFairness

FairSpec == Spec /\ Fairness
-----------------------------------------------------------------------------
TypeOK ==
  /\ page \in [Place -> 0 .. Pages] /\ touch \in 0 .. MaxTouch
  /\ request \in {"idle", "background", "shortfall"} /\ {asleep, due} \subseteq BOOLEAN
  /\ kernel \in Kernel /\ at \in [Step -> 0 .. Threads]
  /\ {wanted, needed, met} \subseteq BOOLEAN /\ pass \in {0, 1}
  /\ wpc \in {"top", "check", "doze", "psleep", "scan", "inactive", "count", "active"}

\* A thread sleeps in VM_WAIT only while the page daemon knows of it and is not
\* asleep itself, although the flag that wakes it is set without the mutex and
\* at times when nobody listens.
NoLostWakeup == at["vmwait"] > 0 => needed /\ wpc # "psleep"

\* A thread that waits for free pages is woken: the scans, the laundry and the
\* kills end with pages at the minimum or with a wakeup.
WaiterWoken == at["vmwait"] > 0 ~> at["vmwait"] = 0
=============================================================================
