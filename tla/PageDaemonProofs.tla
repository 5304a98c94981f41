-------------------------- MODULE PageDaemonProofs --------------------------
(***************************************************************************)
(* The page daemon and the threads that wait for free pages, for any number *)
(* of pages and threads and any of the kernels: the counters keep their     *)
(* sums, and no thread waits for a page daemon that sleeps.                 *)
(*                                                                         *)
(* NoLostWakeup is not inductive: that nobody waits says nothing of         *)
(* vm_pages_needed, and a daemon that is about to sleep holds the mutex, so *)
(* what was true when it read the flags has to stay true.  Known has both.  *)
(***************************************************************************)
EXTENDS PageDaemon, TLAPS

\* Every page is in one place: all of them are v_page_count.
Paged(p) ==
  /\ p \in [Place -> Nat]
  /\ p["free"] + p["active"] + p["inactive"] + p["laundry"] = Pages

\* Every thread is at one step.
Stepped(a) ==
  /\ a \in [Step -> Nat]
  /\ a["run"] + a["read"] + a["set"] + a["read_and_wait"] + a["set_and_wait"]
       + a["wait"] + a["vmwait"] = Threads

\* The locals of the scan.  What it passes over is never negative: a page is
\* taken from a queue of more than that many.
Scanned(s) == s \in [starting : Int, shortage : Int, extra : Nat, left : Nat]

Typed ==
  /\ touch \in 0 .. MaxTouch
  /\ request \in {"idle", "background", "shortfall"}
  /\ asleep \in BOOLEAN /\ due \in BOOLEAN
  /\ kernel \in Kernel
  /\ wanted \in BOOLEAN /\ needed \in BOOLEAN /\ met \in BOOLEAN
  /\ pass \in {0, 1}
  /\ wpc \in {"top", "check", "doze", "psleep", "scan", "inactive", "count", "active"}

\* Who waits has set vm_pages_needed, and while it is set the page daemon
\* neither sleeps nor is about to.
Known ==
  /\ at["vmwait"] > 0 => needed
  /\ wpc \in {"doze", "psleep"} => ~needed

Counted == Paged(page) /\ Stepped(at) /\ Scanned(scan)

Inv == Counted /\ Typed /\ Known

-----------------------------------------------------------------------------
(* The helpers.                                                             *)

\* Max of two numbers is one of them: the loops count down to 0.
LEMMA MaxOfTwo ==
  ASSUME NEW i \in Int
  PROVE  Max({i, 0}) \in Nat
<1>1. \E x \in {i, 0} : \A y \in {i, 0} : x >= y  OBVIOUS
<1>2. Max({i, 0}) \in {i, 0} /\ \A y \in {i, 0} : Max({i, 0}) >= y
    BY <1>1 DEF Max
<1> QED BY <1>2

\* Pages that are there can be moved, and none is lost.
LEMMA MovedKeeps ==
  ASSUME NEW p, Paged(p), NEW from \in Place, NEW to \in Place,
         from # to, NEW k \in Nat, k <= p[from]
  PROVE  Paged(Moved(p, from, to, k))
<1> DEFINE r == Moved(p, from, to, k)
<1>1. \A x \in Place : r[x] = IF x = from THEN p[x] - k ELSE IF x = to THEN p[x] + k ELSE p[x]
  BY DEF Paged, Moved
<1>2. r = [x \in Place |-> r[x]]
  BY DEF Paged, Moved
<1> HIDE DEF r
<1>3. r \in [Place -> Nat]
  BY <1>1, <1>2 DEF Paged
<1>4. r["free"] + r["active"] + r["inactive"] + r["laundry"] = Pages
  BY <1>1 DEF Paged, Place
<1> QED BY <1>3, <1>4 DEF Paged, r

\* A thread that goes from one step to another is still one thread.
LEMMA GoesKeeps ==
  ASSUME Stepped(at), NEW from \in Step, NEW to \in Step, from # to, Goes(from, to)
  PROVE  Stepped(at') /\ (to # "vmwait" => at'["vmwait"] <= at["vmwait"])
<1>1. \A x \in Step : at'[x] = IF x = from THEN at[x] - 1 ELSE IF x = to THEN at[x] + 1 ELSE at[x]
  BY DEF Stepped, Goes
<1>2. DOMAIN at' = Step /\ at' = [x \in Step |-> at'[x]]
  BY DEF Stepped, Goes
<1>3. at[from] > 0
  BY DEF Goes
<1>4. at' \in [Step -> Nat]
  BY <1>1, <1>2, <1>3 DEF Stepped
<1>5. at'["run"] + at'["read"] + at'["set"] + at'["read_and_wait"] + at'["set_and_wait"]
        + at'["wait"] + at'["vmwait"] = Threads
  BY <1>1, <1>3 DEF Stepped, Step
<1>6. to # "vmwait" => at'["vmwait"] <= at["vmwait"]
  BY <1>1, <1>3 DEF Stepped, Step
<1> QED BY <1>4, <1>5, <1>6 DEF Stepped

\* wakeup(&vm_cnt.v_free_count) leaves nobody waiting.
LEMMA WokenKeeps ==
  ASSUME Stepped(at)
  PROVE  Stepped(Woken) /\ Woken["vmwait"] = 0
  BY DEF Stepped, Woken, Step

\* vm_page_free: the pages keep their sum, and if vm_pages_needed is cleared
\* nobody waits.
LEMMA FreePagesKeep ==
  ASSUME Inv, NEW from \in Place \ {"free"}, NEW k \in Nat, FreePages(from, k)
  PROVE  /\ Paged(page') /\ Stepped(at') /\ needed' \in BOOLEAN
         /\ at'["vmwait"] > 0 => needed'
         /\ needed' => needed
<1>1. Paged(page')
  <2>1. k <= page[from] /\ page' = Moved(page, from, "free", k)
      BY DEF FreePages
  <2> QED BY <2>1, MovedKeeps DEF Inv, Counted, Place
<1>2. \/ needed' = FALSE /\ at' = Woken
      \/ needed' = needed /\ at' = at
    BY DEF FreePages
<1>3. CASE needed' = FALSE /\ at' = Woken
    <2>1. Stepped(Woken) /\ Woken["vmwait"] = 0
    BY WokenKeeps DEF Inv, Counted
  <2>2. Stepped(at') /\ at'["vmwait"] = 0
    BY <1>3, <2>1
  <2>3. ~(at'["vmwait"] > 0)
    BY <2>2
  <2> QED BY <1>1, <1>3, <2>2, <2>3, Zenon
<1>4. CASE needed' = needed /\ at' = at
    BY <1>1, <1>4 DEF Inv, Counted, Typed, Known
<1> QED BY <1>2, <1>3, <1>4

\* One page that is freed.
LEMMA FreePageKeeps ==
  ASSUME Inv, NEW from \in Place \ {"free"}, FreePage(from)
  PROVE  /\ Paged(page') /\ Stepped(at') /\ needed' \in BOOLEAN
         /\ at'["vmwait"] > 0 => needed'
         /\ needed' => needed
<1>1. FreePages(from, 1) /\ 1 \in Nat
  BY DEF FreePage
<1> QED BY <1>1, FreePagesKeep

\* All pages are free, all threads run, and nobody waits.
LEMMA InitInv == Init => Inv
<1> SUFFICES ASSUME Init PROVE Inv
  OBVIOUS
<1> USE DEF Init, RequestInit, QueueInit
<1>1. Paged(page)
  BY LaundryRequestAssumption DEF Paged, Place
<1>2. Stepped(at)
  BY PageDaemonAssumption DEF Stepped, Step
<1>3. Scanned(scan)
  BY DEF Scanned, NoScan
<1>4. Typed
  <2>1. touch \in 0 .. MaxTouch
    BY LaundryRequestAssumption
  <2>2. /\ request = "idle" /\ asleep = FALSE /\ due = FALSE /\ kernel \in Kernel
        /\ wanted = FALSE /\ needed = FALSE /\ met = TRUE /\ pass = 0 /\ wpc = "top"
    OBVIOUS
  <2> QED BY <2>1, <2>2, Zenon DEF Typed
<1>5. Known
  BY DEF Known, Step
<1> QED BY <1>1, <1>2, <1>3, <1>4, <1>5 DEF Inv, Counted

-----------------------------------------------------------------------------
(* User threads.                                                            *)

\* An allocation takes a page of the free lists; nobody begins to wait.
LEMMA AllocInv == ASSUME Inv, Alloc \/ AllocFails PROVE Inv'
<1>1. /\ UNCHANGED <<touch, request, asleep, due, kernel, wanted, needed, wpc, pass, met, scan>>
      /\ \/ Goes("run", "read") \/ Goes("run", "read_and_wait") \/ at' = at
  BY DEF Alloc, AllocFails, workerVars
<1>2. Paged(page')
  <2>1. CASE Alloc
    <3>1. page["free"] \in Nat /\ page["free"] > 0 /\ page' = Moved(page, "free", "active", 1)
      BY <2>1, PageDaemonAssumption DEF Alloc, Inv, Counted, Paged, Place
    <3> QED BY <3>1, MovedKeeps DEF Inv, Counted, Place
  <2>2. CASE AllocFails
    BY <2>2 DEF AllocFails, Inv, Counted
  <2> QED BY <2>1, <2>2
<1>3. Stepped(at') /\ at'["vmwait"] <= at["vmwait"]
  BY <1>1, GoesKeeps DEF Inv, Counted, Step, Stepped
<1>4. Known'
  BY <1>1, <1>3 DEF Inv, Counted, Stepped, Step, Known
<1> QED BY <1>1, <1>2, <1>3, <1>4 DEF Inv, Counted, Typed

\* A thread frees a page that it has.
LEMMA ReleaseInv == ASSUME Inv, Release PROVE Inv'
<1>1. UNCHANGED <<touch, request, asleep, due, kernel, wanted, wpc, pass, met, scan>>
  BY DEF Release, workerVars
<1>2. PICK from \in Place \ {"free"} : FreePage(from)
  BY DEF Release
<1>3. Known'
  BY <1>1, <1>2, FreePageKeeps DEF Inv, Known
<1> QED BY <1>1, <1>2, <1>3, FreePageKeeps DEF Inv, Counted, Typed

\* pagedaemon_wakeup reads the flag: a thread goes on, none begins to sleep.
LEMMA WakeupReadInv == ASSUME Inv, WakeupRead PROVE Inv'
<1>1. UNCHANGED <<page, touch, request, asleep, due, kernel, wanted, needed, wpc, pass, met, scan>>
  BY DEF WakeupRead, requestVars, queueVars, workerVars
<1>2. \E from \in {"read", "read_and_wait"}, to \in {"run", "set", "wait", "set_and_wait"} :
         Goes(from, to)
  BY DEF WakeupRead
<1>3. Stepped(at') /\ at'["vmwait"] <= at["vmwait"]
  BY <1>2, GoesKeeps DEF Inv, Counted, Step
<1>4. Known'
  BY <1>1, <1>3 DEF Inv, Counted, Stepped, Step, Known
<1> QED BY <1>1, <1>3, <1>4 DEF Inv, Counted, Typed

\* It sets the flag: a page daemon that sleeps is up, one that dozes stays, and
\* vm_pages_needed is as it was.
LEMMA WakeupSetInv == ASSUME Inv, WakeupSet PROVE Inv'
<1>1. UNCHANGED <<page, touch, request, asleep, due, kernel, needed, met, scan>>
  BY DEF WakeupSet, WakeDaemon, requestVars, queueVars
<1>2. /\ wanted' = TRUE
      /\ \/ wpc' = "scan" /\ pass' = 1
         \/ wpc' = wpc /\ pass' = pass
  BY DEF WakeupSet, WakeDaemon
<1>3. \E from \in {"set", "set_and_wait"}, to \in {"run", "wait"} : Goes(from, to)
  BY DEF WakeupSet
<1>4. Stepped(at') /\ at'["vmwait"] <= at["vmwait"]
  BY <1>3, GoesKeeps DEF Inv, Counted, Step
<1>5. Known'
  BY <1>1, <1>2, <1>4 DEF Inv, Counted, Stepped, Step, Known
<1> QED BY <1>1, <1>2, <1>4, <1>5 DEF Inv, Counted, Typed

\* pagedaemon_wait: a page daemon that sleeps did not know of anybody, so it is
\* woken whatever the flag says.
LEMMA WaitInv == ASSUME Inv, Wait PROVE Inv'
<1>1. UNCHANGED <<page, touch, request, asleep, due, kernel, met, scan>> /\ needed' = TRUE
  BY DEF Wait, WakeDaemon, requestVars, queueVars, workerVars
<1>2. /\ wanted' \in {wanted, TRUE}
      /\ \/ wpc' = "scan" /\ pass' = 1
         \/ wpc' = wpc /\ pass' = pass /\ wpc # "psleep"
  BY DEF Wait, WakeDaemon, MustWake, workerVars, Inv, Known
<1>3. wpc \notin {"doze", "check"}
  BY DEF Wait, MutexFree
<1>4. Stepped(at')
  BY GoesKeeps DEF Wait, Inv, Counted, Step
<1>5. Known'
  BY <1>1, <1>2, <1>3 DEF Inv, Known
<1>6. Typed'
  BY <1>1, <1>2 DEF Inv, Typed
<1> QED BY <1>1, <1>4, <1>5, <1>6 DEF Inv, Counted

-----------------------------------------------------------------------------
(* The page daemon at the top of its loop.                                  *)

\* The top of the loop: with vm_pages_needed all that wait are woken.
LEMMA TopInv == ASSUME Inv, Top PROVE Inv'
<1>1. /\ UNCHANGED <<page, touch, request, asleep, due, kernel, pass, scan>>
      /\ wanted' = (wanted /\ ~met) /\ wpc' = "check" /\ met' = FALSE
  BY DEF Top, requestVars, queueVars
<1>2. \/ needed' = FALSE /\ at' = Woken
      \/ needed' = needed /\ at' = at
  BY DEF Top
<1>3. Stepped(Woken) /\ Woken["vmwait"] = 0
  BY WokenKeeps DEF Inv, Counted
<1>4. Stepped(at') /\ (at'["vmwait"] > 0 => needed')
  BY <1>2, <1>3 DEF Inv, Counted, Known
<1>5. Typed'
  BY <1>1, <1>2 DEF Inv, Typed
<1>6. Known'
  BY <1>1, <1>4 DEF Known
<1> QED BY <1>1, <1>4, <1>5, <1>6 DEF Inv, Counted

\* It goes to sleep only if nobody waits.
LEMMA CheckInv == ASSUME Inv, Check \/ Doze \/ TimerEnds PROVE Inv'
<1>1. UNCHANGED <<page, touch, request, asleep, due, kernel, at, wanted, needed, met, scan>>
  BY DEF Check, Doze, TimerEnds, requestVars, queueVars
<1>2. /\ pass' \in {pass, 0, 1}
      /\ \/ wpc' = "scan"
         \/ wpc' = "doze" /\ ~needed
         \/ wpc' = "psleep" /\ wpc = "doze"
  BY DEF Check, Doze, TimerEnds
<1>3. Known'
  BY <1>1, <1>2 DEF Inv, Known
<1>4. Typed'
  BY <1>1, <1>2 DEF Inv, Typed
<1> QED BY <1>1, <1>3, <1>4 DEF Inv, Counted

-----------------------------------------------------------------------------
(* The scan.                                                                *)

\* A page is visited.
LEMMA VisitedKeeps ==
  ASSUME Scanned(scan)
  PROVE  /\ Scanned(Visited) /\ Visited.shortage = scan.shortage
         /\ Visited.extra = scan.extra
<1> DEFINE m == Max({scan.left - 1, 0})
<1>1. scan.left - 1 \in Int
  BY DEF Scanned
<1>2. m \in Nat
  BY <1>1, MaxOfTwo
<1>3. Visited = [scan EXCEPT !.left = m]
  BY DEF Visited
<1> HIDE DEF m
<1> QED BY <1>2, <1>3 DEF Scanned

\* While the active scan is not at its end there are active pages.
LEMMA ActiveLeft ==
  ASSUME Inv, ~ActiveEnds
  PROVE  page["active"] \in Nat /\ page["active"] > 0
BY DEF ActiveEnds, Inv, Counted, Paged, Place, Scanned

\* ... and while the inactive scan is not, inactive ones.
LEMMA InactiveLeft ==
  ASSUME Inv, ~InactiveEnds
  PROVE  page["inactive"] \in Nat /\ page["inactive"] > 0
BY DEF InactiveEnds, Inv, Counted, Paged, Place

\* The caches give pages back; the shortage and the number of pages to look at are
\* read.
LEMMA ScanBeginsInv == ASSUME Inv, ScanBegins PROVE Inv'
<1>1. /\ UNCHANGED <<touch, request, asleep, due, kernel, wanted, met>>
      /\ wpc' = "inactive" /\ pass' = 0 /\ CachesDrained
  BY DEF ScanBegins
<1>2. /\ Paged(page') /\ Stepped(at') /\ needed' \in BOOLEAN
      /\ at'["vmwait"] > 0 => needed'
  <2>1. CASE UNCHANGED <<page, at, needed>>
    BY <2>1 DEF Inv, Counted, Typed, Known
  <2>2. CASE \E k \in 1 .. Pages : FreePages("active", k)
    BY <2>2, FreePagesKeep, LaundryRequestAssumption DEF Place
  <2> QED BY <1>1, <2>1, <2>2 DEF CachesDrained
<1>3. PICK deficit \in IF HasShortage THEN Deficit ELSE {0} :
        scan' = [starting |-> IF HasShortage THEN vm_paging_target' + deficit ELSE 0,
                 shortage |-> IF HasShortage THEN vm_paging_target' + deficit ELSE 0,
                 extra |-> IF kernel = "fifo_log" THEN 0 ELSE deficit,
                 left |-> page["inactive"]]
  BY DEF ScanBegins
<1>4. deficit \in Nat
  BY LaundryRequestAssumption DEF Deficit
<1>5. vm_paging_target' + deficit \in Int /\ page["inactive"] \in Nat
  BY <1>2, <1>4, LaundryRequestAssumption DEF vm_paging_target, Inv, Counted, Paged, Place
<1>6. Scanned(scan')
  BY <1>3, <1>4, <1>5 DEF Scanned
<1>7. Typed' /\ Known'
  BY <1>1, <1>2 DEF Inv, Typed, Known
<1> QED BY <1>2, <1>6, <1>7 DEF Inv, Counted

\* A page that is freed may wake those that wait.
LEMMA InactiveFreedInv == ASSUME Inv, InactiveFreed PROVE Inv'
<1>1. /\ UNCHANGED <<touch, request, asleep, due, kernel, wanted, wpc, pass, met>>
      /\ FreePage("inactive") /\ scan' = [Visited EXCEPT !.shortage = @ - 1]
  BY DEF InactiveFreed
<1>2. /\ Paged(page') /\ Stepped(at') /\ needed' \in BOOLEAN
      /\ at'["vmwait"] > 0 => needed'
      /\ needed' => needed
  BY <1>1, FreePageKeeps DEF Place
<1>3. Scanned(Visited)
  BY VisitedKeeps DEF Inv, Counted
<1>4. Scanned(scan')
  <2> HIDE DEF Visited
  <2> QED BY <1>1, <1>3 DEF Scanned
<1>5. Typed' /\ Known'
  BY <1>1, <1>2 DEF Inv, Typed, Known
<1> QED BY <1>2, <1>4, <1>5 DEF Inv, Counted

\* A page in use moves on or is passed over, and is one less to get in the way.
LEMMA InactiveUsedInv == ASSUME Inv, InactiveUsed PROVE Inv'
<1>1. /\ UNCHANGED <<request, asleep, due, kernel, at, wanted, needed, wpc, pass, met>>
      /\ touch > 0 /\ touch' = touch - 1 /\ ~InactiveEnds
  BY DEF InactiveUsed
<1>2. \/ page' = Moved(page, "inactive", "laundry", 1)
      \/ page' = Moved(page, "inactive", "active", 1)
      \/ page' = page
  BY DEF InactiveUsed
<1>3. Paged(page')
  BY <1>1, <1>2, InactiveLeft, MovedKeeps DEF Inv, Counted, Place
<1>4. Scanned(Visited)
  BY VisitedKeeps DEF Inv, Counted
<1>5. \/ scan' = Visited
      \/ scan' = [Visited EXCEPT !.extra = 0]
      \/ scan' = [Visited EXCEPT !.extra = @ + 1]
  BY DEF InactiveUsed
<1>6. Scanned(scan')
  BY <1>4, <1>5 DEF Scanned
<1>7. touch' \in 0 .. MaxTouch
  BY <1>1, LaundryRequestAssumption DEF Inv, Typed
<1>8. Typed' /\ Known'
  BY <1>1, <1>7 DEF Inv, Typed, Known
<1> QED BY <1>1, <1>3, <1>6, <1>8 DEF Inv, Counted

\* After the inactive queue a kill may wake all that wait; the shortage of the
\* active scan may be of either sign.
LEMMA InactiveDoneInv == ASSUME Inv, InactiveDone PROVE Inv'
<1> DEFINE short == InactiveTarget - (page["inactive"] + page["laundry"] \div ScanLaundryWeight)
                      + vm_paging_target + scan.extra
<1>1. /\ UNCHANGED <<page, touch, due, kernel, wanted, needed, pass>>
      /\ met' \in BOOLEAN
      /\ wpc' = IF kernel = "fifo_log" THEN "active" ELSE "count"
  BY DEF InactiveDone, queueVars, Inv, Counted, Scanned
<1>2. \/ scan' = [NoScan EXCEPT !.shortage = scan.shortage]
      \/ scan' = [NoScan EXCEPT !.shortage = ScanLaundryWeight * short]
  BY DEF InactiveDone
<1>3. short \in Int
  <2>1. page["inactive"] \in Nat /\ page["laundry"] \in Nat /\ page["free"] \in Nat
        /\ scan.extra \in Nat
    BY DEF Inv, Counted, Paged, Place, Scanned
  <2>2. page["laundry"] \div ScanLaundryWeight \in Int
    BY <2>1, PageDaemonAssumption
  <2> QED BY <2>1, <2>2, PageDaemonAssumption, LaundryRequestAssumption DEF vm_paging_target
<1> HIDE DEF short
<1>4. ScanLaundryWeight * short \in Int /\ scan.shortage \in Int
  BY <1>3, PageDaemonAssumption DEF Inv, Counted, Scanned
<1>5. Scanned(scan')
  BY <1>2, <1>4 DEF Scanned, NoScan
<1>6. /\ request' \in {request, "shortfall", "background"}
      /\ asleep' \in {asleep, FALSE}
  BY DEF InactiveDone, Request
<1>7. at' = Woken \/ at' = at
  BY DEF InactiveDone, MayKill
<1>8. Stepped(at') /\ at'["vmwait"] <= at["vmwait"]
  BY <1>7, WokenKeeps DEF Inv, Counted, Stepped, Step
<1>9. Known'
  BY <1>1, <1>8 DEF Inv, Counted, Stepped, Step, Known
<1>10. Typed'
  BY <1>1, <1>6 DEF Inv, Typed
<1> QED BY <1>1, <1>5, <1>8, <1>9, <1>10 DEF Inv, Counted

\* The active pages are counted.
LEMMA ActiveBeginsInv == ASSUME Inv, ActiveBegins PROVE Inv'
<1>1. /\ UNCHANGED <<page, touch, request, asleep, due, kernel, at, wanted, needed, pass, met>>
      /\ wpc' = "active" /\ scan' = [scan EXCEPT !.left = page["active"]]
  BY DEF ActiveBegins, requestVars, queueVars
<1>2. page["active"] \in Nat
  BY DEF Inv, Counted, Paged, Place
<1>3. Scanned(scan')
  BY <1>1, <1>2 DEF Inv, Counted, Scanned
<1>4. Typed' /\ Known'
  BY <1>1 DEF Inv, Typed, Known
<1> QED BY <1>1, <1>3, <1>4 DEF Inv, Counted

\* A page that is passed over counts as extra.
LEMMA ActiveSkippedInv == ASSUME Inv, ActiveSkipped PROVE Inv'
<1>1. /\ UNCHANGED <<page, request, asleep, due, kernel, at, wanted, needed, wpc, pass, met>>
      /\ touch > 0 /\ touch' = touch - 1
      /\ scan' = [Visited EXCEPT !.extra = @ + 1]
  BY DEF ActiveSkipped
<1>2. Scanned(Visited)
  BY VisitedKeeps DEF Inv, Counted
<1>3. Scanned(scan')
  BY <1>1, <1>2 DEF Scanned
<1>4. touch' \in 0 .. MaxTouch
  BY <1>1, LaundryRequestAssumption DEF Inv, Typed
<1>5. Typed' /\ Known'
  BY <1>1, <1>4 DEF Inv, Typed, Known
<1> QED BY <1>1, <1>3, <1>5 DEF Inv, Counted

\* The clock kernels take a page off the active queue, which has one.
LEMMA ActiveClockInv == ASSUME Inv, ActiveClock PROVE Inv'
<1>1. UNCHANGED <<request, asleep, due, kernel, at, wanted, needed, wpc, pass, met>> /\ ~ActiveEnds
  BY DEF ActiveClock
<1>2. \/ page' = Moved(page, "active", "inactive", 1)
      \/ page' = Moved(page, "active", "laundry", 1)
      \/ page' = page
  BY DEF ActiveClock
<1>3. Paged(page')
  BY <1>1, <1>2, ActiveLeft, MovedKeeps DEF Inv, Counted, Place
<1>4. \/ scan' = [Visited EXCEPT !.shortage = @ - ScanLaundryWeight]
      \/ scan' = [Visited EXCEPT !.shortage = @ - 1]
      \/ scan' = Visited
  BY DEF ActiveClock
<1>5. Scanned(Visited)
  BY VisitedKeeps DEF Inv, Counted
<1>6. Scanned(scan')
  BY <1>4, <1>5, PageDaemonAssumption DEF Scanned
<1>7. \/ touch' = touch
      \/ touch > 0 /\ touch' = touch - 1
  BY DEF ActiveClock
<1>8. touch' \in 0 .. MaxTouch
  BY <1>7, LaundryRequestAssumption DEF Inv, Typed
<1>9. Typed' /\ Known'
  BY <1>1, <1>8 DEF Inv, Typed, Known
<1> QED BY <1>1, <1>3, <1>6, <1>9 DEF Inv, Counted

\* The fifo kernel frees it or launders it.
LEMMA ActiveFifoInv == ASSUME Inv, ActiveFifo PROVE Inv'
<1>1. /\ UNCHANGED <<touch, request, asleep, due, kernel, wanted, wpc, pass, met>>
      /\ ~ActiveEnds /\ scan' = [Visited EXCEPT !.shortage = @ - 1]
  BY DEF ActiveFifo
<1>2. /\ Paged(page') /\ Stepped(at') /\ needed' \in BOOLEAN
      /\ at'["vmwait"] > 0 => needed'
      /\ needed' => needed
  <2>1. CASE FreePage("active")
    BY <2>1, FreePageKeeps DEF Place
  <2>2. CASE page' = Moved(page, "active", "laundry", 1) /\ UNCHANGED <<needed, at>>
    <3>1. Paged(page')
      BY <1>1, <2>2, ActiveLeft, MovedKeeps DEF Inv, Counted, Place
    <3> QED BY <2>2, <3>1 DEF Inv, Counted, Typed, Known
  <2> QED BY <2>1, <2>2 DEF ActiveFifo
<1>3. Scanned(Visited)
  BY VisitedKeeps DEF Inv, Counted
<1>4. Scanned(scan')
  BY <1>1, <1>3 DEF Scanned
<1>5. Typed' /\ Known'
  BY <1>1, <1>2 DEF Inv, Typed, Known
<1> QED BY <1>2, <1>4, <1>5 DEF Inv, Counted

\* The idle poll takes a page that is there.
LEMMA ActivePolledInv == ASSUME Inv, ActivePolled PROVE Inv'
<1>1. /\ UNCHANGED <<touch, request, asleep, due, kernel, at, wanted, needed, wpc, pass, met>>
      /\ page["active"] > 0 /\ page' = Moved(page, "active", "inactive", 1)
      /\ scan' = Visited
  BY DEF ActivePolled
<1>2. page["active"] \in Nat
  BY DEF Inv, Counted, Paged, Place
<1>3. Paged(page')
  BY <1>1, <1>2, MovedKeeps DEF Inv, Counted, Place
<1>4. Scanned(scan')
  BY <1>1, VisitedKeeps DEF Inv, Counted
<1>5. Typed' /\ Known'
  BY <1>1 DEF Inv, Typed, Known
<1> QED BY <1>1, <1>3, <1>4, <1>5 DEF Inv, Counted

\* The scan is over: it says whether the target was met.
LEMMA ScanEndsInv == ASSUME Inv, ScanEnds PROVE Inv'
<1>1. /\ UNCHANGED <<page, touch, request, asleep, due, kernel, at, wanted, needed, pass>>
      /\ scan' = NoScan /\ wpc' = "top"
  BY DEF ScanEnds, requestVars, queueVars
<1>2. Scanned(scan')
  BY <1>1 DEF Scanned, NoScan
<1>3. met' \in BOOLEAN
  <2>1. (scan.shortage <= 0) \in BOOLEAN /\ met \in BOOLEAN
    BY DEF Inv, Typed
  <2>2. met' = IF kernel = "fifo_log" THEN scan.shortage <= 0 ELSE met
    BY DEF ScanEnds
  <2> QED BY <2>1, <2>2, Zenon
<1>4. Typed' /\ Known'
  BY <1>1, <1>3 DEF Inv, Typed, Known
<1> QED BY <1>1, <1>2, <1>4 DEF Inv, Counted

-----------------------------------------------------------------------------
(* The laundry.                                                             *)

\* The laundry moves pages; what they were taken for is counted in touch.
LEMMA LaunderedKeeps ==
  ASSUME Inv, NEW written \in Nat, NEW back \in Nat, NEW skipped \in Nat,
         Laundered(written, back, skipped)
  PROVE  Paged(page') /\ touch' \in 0 .. MaxTouch
<1> DEFINE q == Moved(page, "laundry", "inactive", written)
<1>1. /\ written + back + skipped <= page["laundry"] /\ back + skipped <= touch
      /\ page' = Moved(q, "laundry", "active", back) /\ touch' = touch - back - skipped
  BY DEF Laundered
<1>2. page["laundry"] \in Nat
  BY DEF Inv, Counted, Paged, Place
<1>3. Paged(q)
  BY <1>1, <1>2, MovedKeeps DEF Inv, Counted, Place
<1>4. q["laundry"] = page["laundry"] - written
  BY DEF Moved, Inv, Counted, Paged, Place
<1> HIDE DEF q
<1>5. Paged(page')
  BY <1>1, <1>2, <1>3, <1>4, MovedKeeps DEF Place
<1>6. touch' \in 0 .. MaxTouch
  BY <1>1, LaundryRequestAssumption DEF Inv, Typed
<1> QED BY <1>5, <1>6

\* What the laundry does is no business of those that wait.
LEMMA LaunderingInv == ASSUME Inv, Laundering PROVE Inv'
<1>1. UNCHANGED <<kernel, at, wanted, needed, wpc, pass, met, scan>>
  BY DEF Laundering, workerVars
<1>2. Paged(page') /\ touch' \in 0 .. MaxTouch
  <2>1. CASE Launder
    <3>1. PICK written \in 0 .. Pages, back \in 0 .. MaxTouch, skipped \in 0 .. MaxTouch :
            Laundered(written, back, skipped)
      BY <2>1 DEF Launder
    <3> QED BY <3>1, LaunderedKeeps, LaundryRequestAssumption
  <2>2. CASE Take \/ Rest \/ Sleep
    BY <2>2 DEF Take, Rest, Sleep, queueVars, Inv, Counted, Typed
  <2> QED BY <2>1, <2>2 DEF Laundering, LaundryNext
<1>3. /\ request' \in {request, "idle"} /\ asleep' \in BOOLEAN /\ due' \in BOOLEAN
  <2>1. CASE Launder
    BY <2>1 DEF Launder, Inv, Typed
  <2>2. CASE Take
    BY <2>2 DEF Take, Inv, Typed
  <2>3. CASE Rest
    BY <2>3 DEF Rest, Inv, Typed
  <2>4. CASE Sleep
    BY <2>4 DEF Sleep
  <2> QED BY <2>1, <2>2, <2>3, <2>4 DEF Laundering, LaundryNext
<1>4. Typed' /\ Known'
  BY <1>1, <1>2, <1>3 DEF Inv, Typed, Known
<1> QED BY <1>1, <1>2, <1>4 DEF Inv, Counted

\* When it frees a page it wakes them.
LEMMA LaundryFreesInv == ASSUME Inv, LaundryFrees PROVE Inv'
<1>1. FreePage("laundry")
      /\ UNCHANGED <<touch, request, asleep, due, kernel, wanted, wpc, pass, met, scan>>
  BY DEF LaundryFrees, workerVars
<1>2. /\ Paged(page') /\ Stepped(at') /\ needed' \in BOOLEAN
      /\ at'["vmwait"] > 0 => needed'
      /\ needed' => needed
  BY <1>1, FreePageKeeps DEF Place
<1>3. Typed' /\ Known'
  BY <1>1, <1>2 DEF Inv, Typed, Known
<1> QED BY <1>1, <1>2, <1>3 DEF Inv, Counted
-----------------------------------------------------------------------------
\* Every step keeps the invariant.
LEMMA NextInv == Inv /\ [Next]_vars => Inv'
<1> SUFFICES ASSUME Inv, [Next]_vars PROVE Inv'
  OBVIOUS
<1>1. CASE Worker
  BY <1>1, TopInv, CheckInv, ScanBeginsInv, InactiveFreedInv, InactiveUsedInv, InactiveDoneInv,
     ActiveBeginsInv, ActiveClockInv, ActiveSkippedInv, ActiveFifoInv, ActivePolledInv,
     ScanEndsInv DEF Worker
<1>2. CASE Laundering
  BY <1>2, LaunderingInv
<1>3. CASE User
  BY <1>3, AllocInv, ReleaseInv, WakeupReadInv, WakeupSetInv, WaitInv DEF User, Waiting
<1>4. CASE LaundryFrees
  BY <1>4, LaundryFreesInv
<1>5. CASE UNCHANGED vars
  BY <1>5 DEF vars, requestVars, queueVars, workerVars, Inv, Counted, Typed, Known
<1> QED BY <1>1, <1>2, <1>3, <1>4, <1>5 DEF Next

\* The inductive invariant of the page daemon.
THEOREM DaemonInvariant == Spec => []Inv
BY InitInv, NextInv, PTL DEF Spec

\* The counters stay in their ranges: no page and no thread is lost or counted
\* twice by the steps that move them.
THEOREM DaemonTyped == Spec => []TypeOK
<1>1. Inv => TypeOK
  <2> SUFFICES ASSUME Inv PROVE TypeOK
    OBVIOUS
  <2>1. \A x \in Place : page[x] \in 0 .. Pages
    BY LaundryRequestAssumption DEF Inv, Counted, Paged, Place
  <2>2. page \in [Place -> 0 .. Pages]
    BY <2>1 DEF Inv, Counted, Paged
  <2>3. \A x \in Step : at[x] \in 0 .. Threads
    BY PageDaemonAssumption DEF Inv, Counted, Stepped, Step
  <2>4. at \in [Step -> 0 .. Threads]
    BY <2>3 DEF Inv, Counted, Stepped
  <2>5. Typed
    BY DEF Inv
  <2>6. {asleep, due} \subseteq BOOLEAN /\ {wanted, needed, met} \subseteq BOOLEAN
    BY <2>5 DEF Typed
  <2> QED BY <2>2, <2>4, <2>5, <2>6, Zenon DEF TypeOK, Typed
<1> QED BY <1>1, DaemonInvariant, PTL

\* pagedaemon_wait never misses: no thread sleeps in VM_WAIT while the page
\* daemon sleeps, or while vm_pages_needed does not say so.
THEOREM WakeupNotLost == Spec => []NoLostWakeup
<1>1. Inv => NoLostWakeup
  BY DEF Inv, Known, NoLostWakeup
<1> QED BY <1>1, DaemonInvariant, PTL
=============================================================================
