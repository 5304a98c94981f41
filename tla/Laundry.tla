------------------------------ MODULE Laundry ------------------------------
(***************************************************************************)
(* The laundry thread of vm_pageout.c, vm_pageout_laundry_worker, over      *)
(* numbers of pages, beside the page daemons of all domains: they move      *)
(* pages, post requests and vote for an out-of-memory kill (OomVote).       *)
(***************************************************************************)
EXTENDS OomVote

CONSTANTS
  Pages, FreeTarget, MaxDeficit, MaxTouch,  \* see LaundryRequest
  ShortfallCycles,  \* VM_LAUNDER_RATE / VM_INACT_SCAN_RATE
  BackgroundTarget, \* vm_background_launder_target
  BackgroundMax,    \* vm_background_launder_max, in pages
  BackgroundRate,   \* vm_background_launder_rate, in pages per turn
  MaxWakeups        \* bound: wakeups counted since the last laundering

ASSUME LaundryAssumption ==
  /\ Pages \in Nat /\ FreeTarget \in 0 .. Pages /\ MaxDeficit \in Nat /\ MaxTouch \in Nat
  /\ ShortfallCycles \in Nat \ {0}
  /\ {BackgroundTarget, BackgroundMax, BackgroundRate} \subseteq Nat
  /\ MaxWakeups \in Nat \ {0}

Unset == -1   \* last_target before its first assignment

VARIABLES
  page, touch, request,  \* see LaundryRequest
  lpc,    \* where the laundry thread is
  l,      \* its local variables
  since   \* wakeups - last_launder, at most MaxWakeups

laundryVars == <<page, touch, request, lpc, l, since>>
vars == <<laundryVars, oomVars>>

\* The promise, with this thread's state behind it.
Promise == INSTANCE LaundryRequest WITH
  asleep <- lpc = "launds",
  due    <- \/ lpc = "top" /\ l.shortfall > 0
            \/ l.in_shortfall /\ (l.cycle > 0 \/ l.launder > 0) /\ l.target > 0

vm_laundry_target == Promise!vm_laundry_target

Init ==
  /\ Promise!QueueInit
  /\ OomInit
  /\ request = "idle" /\ lpc = "top" /\ since = 0
  /\ l = [target |-> 0, last_target |-> Unset, shortfall |-> 0,
          in_shortfall |-> FALSE, cycle |-> 0, launder |-> 0]
-----------------------------------------------------------------------------
\* The root of the square at or below num.
isqrt(num) == Max({r \in 0 .. num : r * r <= num})

\* Laundering in shortfall: a share of the target that grows with each turn.
Urgent(x) == [x EXCEPT !.launder = x.target \div x.cycle, !.cycle = @ - 1]

\* The shortfall is over: no more cycles, or the target met.
\* Mutant for LaundryLocals: the target of the shortfall is kept.
Relaxed_KeepTarget(x) == [x EXCEPT !.in_shortfall = FALSE]
Relaxed(x) == IF x.in_shortfall THEN [x EXCEPT !.in_shortfall = FALSE, !.target = 0] ELSE x

\* There is no need to launder: a run begins when many pages are dirty for the
\* wakeups since the last, and stops when it has gone on without a wakeup.
Background(x) ==
  LET nclean == page["inactive"] + page["free"]
      begins == /\ x.target = 0 /\ since # 0
                /\ page["laundry"] * isqrt(since) >= nclean
      target == IF begins THEN BackgroundTarget ELSE x.target
      goal   == IF since = 0 /\ x.last_target - target >= BackgroundMax THEN 0 ELSE target
  IN  IF target = 0 THEN [x EXCEPT !.target = 0, !.launder = 0]
      ELSE [x EXCEPT !.target = goal, !.launder = Min({BackgroundRate, goal}),
                     !.last_target = IF since # 0 THEN target ELSE @]

\* The first half of a turn: how many pages to launder.
Decide ==
  /\ lpc = "top"
  /\ \/ /\ l.shortfall > 0
        /\ l' = Urgent([l EXCEPT !.in_shortfall = TRUE, !.cycle = ShortfallCycles,
                                 !.target = l.shortfall])
        /\ since' = 0
     \/ /\ l.shortfall <= 0 /\ l.in_shortfall
        /\ l.cycle # 0 /\ vm_laundry_target > 0
        /\ l' = Urgent(l)
        /\ since' = 0
     \/ /\ l.shortfall <= 0
        /\ ~l.in_shortfall \/ l.cycle = 0 \/ vm_laundry_target <= 0
        /\ l' = Background(Relaxed(l))
        /\ since' = IF l'.target > 0 THEN 0 ELSE since
  /\ lpc' = IF l'.launder > 0 THEN "launder" ELSE "lock"
  /\ UNCHANGED <<page, touch, request>>

\* vm_pageout_launder and the pause after it.  A cluster may hold more pages
\* than were asked for; in the background a page found in use counts, too.
Launder ==
  /\ lpc = "launder"
  /\ \E written \in 0 .. page["laundry"], back, skipped \in 0 .. touch :
       LET done == written + (IF l.in_shortfall THEN 0 ELSE back)
       IN  /\ Promise!Laundered(written, back, skipped)
           /\ done >= l.launder \/ written + back + skipped = page["laundry"]
           /\ l' = [l EXCEPT !.target = @ - Min({done, @}), !.launder = 0]
  /\ lpc' = "lock"
  /\ UNCHANGED <<request, since>>

NothingToDo == l.target = 0 /\ request = "idle"

\* The second half, with the queue lock: sleep if there is nothing to do ...
Sleep ==
  /\ lpc = "lock" /\ NothingToDo
  /\ lpc' = "launds"
  /\ UNCHANGED <<page, touch, request, l, since>>

\* The request is done with when there is no target.
\* Mutant for KeepsPromise: it is dropped in the middle of a shortfall.
Answered_Always(target) == "idle"
Answered(target) == IF target = 0 THEN "idle" ELSE request

\* ... and take the request, unless it is made in the middle of a shortfall.
Answer ==
  LET takes  == request = "shortfall" /\ (~l.in_shortfall \/ l.cycle = 0)
      target == IF takes THEN 0 ELSE l.target
  IN  /\ lpc = "woken" \/ (lpc = "lock" /\ ~NothingToDo)
      /\ \E deficit \in Promise!Deficit :
           l' = [l EXCEPT !.shortfall = IF takes THEN vm_laundry_target + deficit ELSE 0,
                          !.target = target]
      /\ request' = Answered(target)
      /\ lpc' = "top"
      /\ UNCHANGED <<page, touch, since>>

LaundryNext == Decide \/ Launder \/ Sleep \/ Answer
-----------------------------------------------------------------------------
(* The page daemons and everybody else.                                     *)

\* A page daemon that was woken is counted.
Woken ==
  /\ since' = Min({since + 1, MaxWakeups})
  /\ UNCHANGED <<page, touch, request, lpc, l>>

\* The end of a scan of the inactive queue: vm_laundry_request was idle when
\* the daemon looked at it, before it had the queue lock.
Post ==
  /\ \E shortage \in {0, 1} :
       request' = IF shortage > 0 THEN "shortfall"
                  ELSE IF request # "shortfall" THEN "background" ELSE request
  /\ lpc' = IF lpc = "launds" THEN "woken" ELSE lpc
  /\ UNCHANGED <<page, touch, l, since>>

\* How the scan of a domain may end: there was nothing to free, or some of it
\* was freed, or none.
Vote(d) ==
  /\ \/ MightBeOom(d, 0, 0) \/ MightBeOom(d, 1, 2) \/ MightBeOom(d, 2, 2)
     \/ CastVote(d) \/ Recall(d) \/ TakeBack(d)
  /\ UNCHANGED laundryVars

Others ==
  /\ \E from, to \in Promise!Place :
       page[from] > 0 /\ page' = Promise!Moved(page, from, to, 1)
  /\ UNCHANGED <<touch, request, lpc, l, since>>

Next ==
  \/ (LaundryNext \/ Woken \/ Post \/ Others) /\ UNCHANGED oomVars
  \/ \E d \in Domain : Vote(d)

Spec == Init /\ [][Next]_vars

FairSpec == Spec /\ WF_vars(LaundryNext /\ UNCHANGED oomVars)
-----------------------------------------------------------------------------
TypeOK ==
  /\ OomTypeOK
  /\ page \in [Promise!Place -> 0 .. Pages] /\ touch \in 0 .. MaxTouch
  /\ request \in {"idle", "background", "shortfall"}
  /\ lpc \in {"top", "launder", "lock", "launds", "woken"}
  /\ since \in 0 .. MaxWakeups

\* The two assertions at the top of the loop hold (no target or cycle below 0),
\* the division by shortfall_cycle is never by 0, and last_target, which has no
\* first value, is set before a background run reads it.
LaundryLocals ==
  /\ l.target >= 0 /\ l.cycle >= 0
  /\ l.launder > 0 => lpc = "launder"
  /\ lpc = "top" /\ l.target > 0 /\ ~l.in_shortfall => l.last_target # Unset

\* The laundry thread keeps the promise that the page daemon relies on: with its
\* targets, cycles and background runs, which preempt and outlast each other, it
\* sleeps only without a request, and takes and answers requests in the end.
KeepsPromise == Promise!RequestSpec
=============================================================================
