--------------------------- MODULE LaundryRequest ---------------------------
(***************************************************************************)
(* What the laundry thread of vm_pageout.c promises the page daemon, who    *)
(* asks for laundering in vm_laundry_request.  It does not sleep while      *)
(* there is a request.  A request made in shortfall it may drop while it    *)
(* still attends to an earlier one, but not for ever; once it has taken one *)
(* it does not come to rest before it has tried to launder, unless the      *)
(* target is met meanwhile.  Laundry implements this, PageDaemon relies on  *)
(* it.                                                                      *)
(*                                                                         *)
(* What the pages are used for meanwhile is left to chance: a page may be   *)
(* found referenced, held or busy, or its write may fail.  Each time touch  *)
(* is one less.                                                             *)
(***************************************************************************)
EXTENDS Integers, FiniteSetsExt

CONSTANTS Pages,      \* v_page_count
          FreeTarget, \* v_free_target
          MaxDeficit, \* bound: vm_pageout_deficit, see Deficit
          MaxTouch    \* bound: times the use of a page gets in the way

ASSUME LaundryRequestAssumption ==
  Pages \in Nat /\ FreeTarget \in 0 .. Pages /\ MaxDeficit \in Nat /\ MaxTouch \in Nat

Place == {"free", "active", "inactive", "laundry"}

VARIABLES
  page,     \* how many pages are in each place
  touch,
  request,  \* vm_laundry_request
  asleep,   \* the laundry thread sleeps
  due       \* it has taken a shortfall and has not tried to launder for it

queueVars   == <<page, touch>>
requestVars == <<queueVars, request, asleep, due>>

vm_paging_target  == FreeTarget - page["free"]
vm_laundry_target == vm_paging_target

\* vm_pageout_deficit as it is read: allocations that have failed since it was
\* last cleared count up, and it may be any number.
Deficit == 0 .. MaxDeficit

\* k pages moved from one place to another.
Moved(p, from, to, k) == [p EXCEPT ![from] = @ - k, ![to] = @ + k]

QueueInit ==
  /\ page = [x \in Place |-> IF x = "free" THEN Pages ELSE 0]
  /\ touch = MaxTouch

RequestInit ==
  /\ QueueInit
  /\ request = "idle" /\ asleep = FALSE /\ due = FALSE

Owed == due /\ vm_laundry_target > 0

\* Pages are written and become inactive, or are used and become active, or
\* are skipped.  (One that is found clean is freed and counts for nothing: Others.)
Laundered(written, back, skipped) ==
  /\ written + back + skipped <= page["laundry"]
  /\ back + skipped <= touch
  /\ page' = Moved(Moved(page, "laundry", "inactive", written), "laundry", "active", back)
  /\ touch' = touch - back - skipped

\* It tries to launder, and some page is written unless use gets in the way.
Launder ==
  /\ ~asleep
  /\ \E written \in 0 .. Pages, back, skipped \in 0 .. MaxTouch :
       /\ Laundered(written, back, skipped)
       /\ written + back + skipped > 0 \/ page["laundry"] = 0
  /\ due' \in {FALSE, due}
  /\ UNCHANGED <<request, asleep>>

\* It takes a request that was made in shortfall ...
Take ==
  /\ ~asleep /\ request = "shortfall" /\ ~Owed
  /\ \E deficit \in Deficit : due' = (vm_laundry_target + deficit > 0)
  /\ request' = "idle"
  /\ UNCHANGED <<queueVars, asleep>>

\* ... or finishes or goes on with what it does.
Rest ==
  /\ ~asleep /\ ~Owed
  /\ due' = FALSE
  /\ request' \in {"idle", request}
  /\ UNCHANGED <<queueVars, asleep>>

Sleep ==
  /\ ~asleep /\ request = "idle" /\ ~Owed
  /\ due' = FALSE
  /\ asleep' = TRUE
  /\ UNCHANGED <<queueVars, request>>

LaundryNext == Launder \/ Take \/ Rest \/ Sleep

\* The page daemon's request, made with the queue lock.
Request(shortage) ==
  /\ request' = IF shortage > 0 THEN "shortfall"
                ELSE IF request # "shortfall" THEN "background" ELSE request
  /\ asleep' = FALSE

\* Anybody else moves pages, and a scan of the laundry frees clean ones.
Others ==
  /\ \E from, to \in Place : page[from] > 0 /\ page' = Moved(page, from, to, 1)
  /\ UNCHANGED touch
  /\ UNCHANGED <<request, asleep, due>>

RequestNext ==
  \/ LaundryNext
  \/ \E s \in {0, 1} : Request(s) /\ UNCHANGED <<queueVars, due>>
  \/ Others

\* Requests in shortfall made again and again are taken; what is owed is
\* laundered; and while there are dirty pages a request is attended to.
LaundryFairness ==
  /\ SF_requestVars(Take)
  /\ WF_requestVars(Owed /\ Launder)
  /\ WF_requestVars(/\ page["laundry"] > 0
                    /\ Launder \/ Take \/ (Rest /\ request' = "idle"))

\* What it never does, and what it does in the end.
RequestSafety == RequestInit /\ [][RequestNext]_requestVars

RequestSpec == RequestSafety /\ LaundryFairness
=============================================================================
