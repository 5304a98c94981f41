------------------------------ MODULE UlePrio -------------------------------
(***************************************************************************)
(* The history that ULE keeps of a thread and the priority it computes from *)
(* it (sched_ule.c): the time it ran and slept of its own will, scored by   *)
(* sched_interact_score, and the share of a sliding window of ticks that it *)
(* used, kept by sched_pctcpu_update.                                       *)
(*                                                                         *)
(* One thread is followed; in a fork, the parent or the child.  Only        *)
(* differences of ticks matter, so the tick counter itself is not a         *)
(* variable: an action says how many ticks have passed since ts_ltick.  The *)
(* counter and the times are words that wrap around.                        *)
(***************************************************************************)
EXTENDS Integers

CONSTANTS
  hz, SCHED_TICK_SECS, SCHED_TICK_SHIFT,
  tickincr,                \* ts_runtime of one tick of statclock
  StatTicks,               \* ticks of hardclock between two of statclock, at most
  Word,                    \* the number of values of an int
  SCHED_INTERACT_HALF, sched_interact,
  PRI_MIN_TIMESHARE, PRI_MAX_TIMESHARE,
  PRIO_MAX,                \* nice values are -PRIO_MAX .. PRIO_MAX
  Elapsed                  \* how many ticks may pass unseen

SHL(n) == n * 2^SCHED_TICK_SHIFT

SCHED_TICK_TARG    == hz * SCHED_TICK_SECS
SCHED_TICK_MAX     == SCHED_TICK_TARG + hz
SCHED_SLP_RUN_MAX  == SHL(hz * 5)
SCHED_SLP_RUN_FORK == SHL(hz \div 2)

SCHED_PRI_NRESV    == 2 * PRIO_MAX
PRI_TIMESHARE_RANGE == PRI_MAX_TIMESHARE - PRI_MIN_TIMESHARE + 1
PRI_INTERACT_RANGE == (PRI_TIMESHARE_RANGE - SCHED_PRI_NRESV) \div 2
PRI_MIN_INTERACT   == PRI_MIN_TIMESHARE
PRI_MAX_INTERACT   == PRI_MIN_TIMESHARE + PRI_INTERACT_RANGE - 1
PRI_MIN_BATCH      == PRI_MIN_TIMESHARE + PRI_INTERACT_RANGE
PRI_MAX_BATCH      == PRI_MAX_TIMESHARE
SCHED_PRI_MIN      == PRI_MIN_BATCH + SCHED_PRI_NRESV \div 2
SCHED_PRI_MAX      == PRI_MAX_BATCH - SCHED_PRI_NRESV \div 2
SCHED_PRI_RANGE    == SCHED_PRI_MAX - SCHED_PRI_MIN + 1

\* The clock of statistics is faster than the window is long, and a word holds the
\* longest history with what one call adds to it, and a window with what is added.
ASSUME UlePrioAssumption ==
  /\ hz \in Nat /\ hz > 1 /\ SCHED_TICK_SECS \in Nat \ {0}
  /\ SCHED_TICK_SHIFT \in Nat /\ 2^SCHED_TICK_SHIFT \in Nat \ {0}
  /\ tickincr \in Nat /\ StatTicks \in 0 .. SCHED_TICK_TARG
  /\ Word \in Nat /\ Elapsed \subseteq 0 .. Word - 1
  /\ Word > 2 * SCHED_SLP_RUN_MAX + 1 + tickincr
  /\ Word > 2 * (SCHED_TICK_TARG + SCHED_TICK_MAX)
  /\ SCHED_INTERACT_HALF \in Nat \ {0} /\ sched_interact \in Nat \ {0}
  /\ PRI_MIN_TIMESHARE \in Nat /\ PRI_MAX_TIMESHARE \in Nat /\ PRIO_MAX \in Nat
  /\ SCHED_PRI_MIN <= SCHED_PRI_MAX /\ PRI_INTERACT_RANGE > 0

VARIABLES
  at,       \* "running", "queued" or "asleep"
  runtime, slptime, \* ts_runtime, ts_slptime
  ticks,    \* ts_ticks
  window,   \* ts_ltick - ts_ftick
  slept,    \* while asleep, the ticks from td_slptick to ts_ltick
  wrapped,  \* a sleep was too long for ts_slptime, and the history has not recovered
  timeshare,\* the class is PRI_TIMESHARE
  nice,     \* p_nice
  pri       \* td_base_user_pri

vars == <<at, runtime, slptime, ticks, window, slept, wrapped, timeshare, nice, pri>>

Signed(n) == IF n >= Word \div 2 THEN n - Word ELSE n
-----------------------------------------------------------------------------
(* The arithmetic.                                                          *)

Larger(a, b)  == IF a > b THEN a ELSE b
Smaller(a, b) == IF a < b THEN a ELSE b

\* sched_interact_score.
sched_interact_score(run, slp) ==
  IF sched_interact <= SCHED_INTERACT_HALF /\ run >= slp THEN SCHED_INTERACT_HALF
  ELSE
  CASE run > slp ->
         2 * SCHED_INTERACT_HALF - slp \div Larger(1, run \div SCHED_INTERACT_HALF)
    [] slp > run -> run \div Larger(1, slp \div SCHED_INTERACT_HALF)
    [] run = slp /\ run > 0 -> SCHED_INTERACT_HALF
    [] OTHER -> 0

\* SCHED_PRI_TICKS: the ticks used, of as many as there are priorities.
SCHED_PRI_TICKS(tk, win) ==
  LET total == Larger(win, hz)
      per   == (total + SCHED_PRI_RANGE - 1) \div SCHED_PRI_RANGE
  IN  (tk \div 2^SCHED_TICK_SHIFT) \div per

\* The two ways to a priority in sched_priority.
InteractivePri(score) ==
  PRI_MIN_INTERACT
    + ((PRI_MAX_INTERACT - PRI_MIN_INTERACT + 1) \div sched_interact) * score

\* Mutant for PriorityOfItsClass: no room is kept for the nice values.
BatchPri_NoReserve(tk, win, n) ==
  PRI_MIN_BATCH + Smaller(SCHED_PRI_TICKS(tk, win), SCHED_PRI_RANGE - 1) + n
BatchPri(tk, win, n) ==
  SCHED_PRI_MIN + Smaller(SCHED_PRI_TICKS(tk, win), SCHED_PRI_RANGE - 1) + n

Score(run, slp, n) == Larger(0, sched_interact_score(run, slp) + n)

\* sched_priority and sched_user_prio.
sched_priority(run, slp, tk, win, n) ==
  IF ~timeshare THEN pri
  ELSE IF Score(run, slp, n) < sched_interact
       THEN InteractivePri(Score(run, slp, n)) ELSE BatchPri(tk, win, n)

\* sched_interact_update: <<ts_runtime, ts_slptime>>.
\* Mutant for HistoryBounded: a fifth is enough in every case.
sched_interact_update_NeverHalved(run, slp) ==
  LET sum == (run + slp) % Word
  IN  CASE sum < SCHED_SLP_RUN_MAX -> <<run, slp>>
        [] sum > 2 * SCHED_SLP_RUN_MAX ->
             IF run > slp THEN <<SCHED_SLP_RUN_MAX, 1>> ELSE <<1, SCHED_SLP_RUN_MAX>>
        [] OTHER -> <<(run \div 5) * 4, (slp \div 5) * 4>>
sched_interact_update(run, slp) ==
  LET sum == (run + slp) % Word
  IN  CASE sum < SCHED_SLP_RUN_MAX -> <<run, slp>>
        [] sum > 2 * SCHED_SLP_RUN_MAX ->
             IF run > slp THEN <<SCHED_SLP_RUN_MAX, 1>> ELSE <<1, SCHED_SLP_RUN_MAX>>
        [] sum > (SCHED_SLP_RUN_MAX \div 5) * 6 /\ sum <= 2 * SCHED_SLP_RUN_MAX ->
             <<run \div 2, slp \div 2>>
        [] OTHER -> <<(run \div 5) * 4, (slp \div 5) * 4>>

\* sched_interact_fork.
sched_interact_fork(run, slp) ==
  LET sum   == Signed((run + slp) % Word)
      ratio == sum \div SCHED_SLP_RUN_FORK
  IN  IF sum > SCHED_SLP_RUN_FORK THEN <<run \div ratio, slp \div ratio>>
      ELSE <<run, slp>>

\* sched_pctcpu_update, n ticks after ts_ltick: <<ts_ticks, ts_ltick - ts_ftick>>.
\* Mutant for UsageInWindow: the first comparison is signed.
sched_pctcpu_update_Signed(tk, win, n, run) ==
  LET used == IF run THEN SHL(n) ELSE 0
  IN  CASE Signed(n) >= SCHED_TICK_TARG -> <<used, SCHED_TICK_TARG>>
        [] Signed(n) < SCHED_TICK_TARG /\ Signed((n + win) % Word) >= SCHED_TICK_MAX ->
             <<(tk \div win) * (SCHED_TICK_TARG - n) + used, SCHED_TICK_TARG>>
        [] OTHER -> <<tk + used, Signed((win + n) % Word)>>
sched_pctcpu_update(tk, win, n, run) ==
  LET used == IF run THEN SHL(n) ELSE 0
  IN  CASE n >= SCHED_TICK_TARG -> <<used, SCHED_TICK_TARG>>
        [] n < SCHED_TICK_TARG /\ Signed((n + win) % Word) >= SCHED_TICK_MAX ->
             <<(tk \div win) * (SCHED_TICK_TARG - n) + used, SCHED_TICK_TARG>>
        [] OTHER -> <<tk + used, Signed((win + n) % Word)>>
-----------------------------------------------------------------------------
(* What happens to a thread.                                                *)

Init ==
  /\ at = "running" /\ timeshare = TRUE /\ nice = 0 /\ pri = PRI_MIN_TIMESHARE
  /\ runtime = 0 /\ slptime = 0 /\ ticks = 0 /\ window = 0
  /\ slept = 0 /\ wrapped = FALSE

\* Time is brought up to date, n ticks after the last time.
Updated(n) ==
  LET u == sched_pctcpu_update(ticks, window, n, at = "running")
  IN  ticks' = u[1] /\ window' = u[2]

\* A running thread is seen by the clock at least every StatTicks ticks.
Since == IF at = "running" THEN 0 .. StatTicks ELSE Elapsed

\* What sched_interact_update leaves at most.
Limit == SCHED_SLP_RUN_MAX + 1

\* The history becomes <<run, slp>> and the priority follows it.
Scored(hist, wraps) ==
  /\ runtime' = hist[1] /\ slptime' = hist[2]
  /\ wrapped' = (wraps /\ hist[1] + hist[2] > Limit)
  /\ pri' = sched_priority(hist[1], hist[2], ticks', window', nice)

\* After an addition, as a word.
Accounted(run, slp) == sched_interact_update(run % Word, slp % Word)

\* sched_clock, for a thread that is charged and for one that is not.
Clock(n) ==
  /\ at = "running" /\ Updated(n)
  /\ IF timeshare THEN Scored(Accounted(runtime + tickincr, slptime), wrapped)
     ELSE UNCHANGED <<runtime, slptime, wrapped, pri>>
  /\ UNCHANGED <<at, slept, timeshare, nice>>

\* sched_switch away from the thread, which is still runnable.
SwitchOut(n) ==
  /\ at = "running" /\ at' = "queued" /\ Updated(n)
  /\ UNCHANGED <<runtime, slptime, slept, wrapped, timeshare, nice, pri>>

\* sched_switch to the thread.
SwitchIn(n) ==
  /\ at = "queued" /\ at' = "running" /\ Updated(n)
  /\ UNCHANGED <<runtime, slptime, slept, wrapped, timeshare, nice, pri>>

\* sched_sleep, which notes the time, and sched_switch.
Sleep(n) ==
  /\ at = "running" /\ at' = "asleep" /\ slept' = 0 /\ Updated(n)
  /\ UNCHANGED <<runtime, slptime, wrapped, timeshare, nice, pri>>

\* sched_wakeup: the sleep counts, unless it was within a tick or began when the
\* counter was zero; then sched_add computes the priority.
WakeupSlept(n) ==
  LET s == slptime + SHL((slept + n) % Word)
  IN  /\ at = "asleep" /\ (slept + n) % Word # 0
      /\ at' = "queued" /\ slept' = 0 /\ Updated(n)
      /\ Scored(Accounted(runtime, s), wrapped \/ runtime + s >= Word)
      /\ UNCHANGED <<timeshare, nice>>

WakeupAtOnce ==
  /\ at = "asleep" /\ at' = "queued" /\ slept' = 0
  /\ pri' = sched_priority(runtime, slptime, ticks, window, nice)
  /\ UNCHANGED <<runtime, slptime, ticks, window, wrapped, timeshare, nice>>

\* sched_pctcpu, for a thread in any state; bounded to once in a sleep.
Inquire(n) ==
  /\ slept = 0 /\ Updated(n)
  /\ slept' = IF at = "asleep" THEN (slept + n) % Word ELSE slept
  /\ UNCHANGED <<at, runtime, slptime, wrapped, timeshare, nice, pri>>

\* sched_nice.
Nice(n) ==
  /\ nice' = n
  /\ pri' = sched_priority(runtime, slptime, ticks, window, n)
  /\ UNCHANGED <<at, runtime, slptime, ticks, window, slept, wrapped, timeshare>>

\* sched_class.
Class ==
  /\ timeshare' = ~timeshare
  /\ UNCHANGED <<at, runtime, slptime, ticks, window, slept, wrapped, nice, pri>>

\* sched_fork, and the parent goes on ...
ForkParent(n) ==
  /\ at = "running" /\ Updated(n)
  /\ Scored(Accounted(runtime + tickincr, slptime), wrapped)
  /\ UNCHANGED <<at, slept, timeshare, nice>>

\* ... or the child.
ForkChild(n) ==
  /\ at = "running" /\ at' = "queued" /\ Updated(n)
  /\ Scored(sched_interact_fork(runtime, slptime), wrapped)
  /\ UNCHANGED <<slept, timeshare, nice>>

\* sched_exit_thread of a child that has run for c.
Exit(c) ==
  /\ UNCHANGED <<ticks, window>>
  /\ Scored(Accounted(runtime + c, slptime), wrapped)
  /\ UNCHANGED <<at, slept, timeshare, nice>>

Next ==
  \/ \E n \in Since :
       \/ Clock(n) \/ SwitchOut(n) \/ SwitchIn(n) \/ Sleep(n) \/ WakeupSlept(n)
       \/ Inquire(n) \/ ForkParent(n) \/ ForkChild(n)
  \/ WakeupAtOnce \/ Class
  \/ \E n \in -PRIO_MAX .. PRIO_MAX : Nice(n)
  \/ \E c \in {tickincr, SCHED_SLP_RUN_MAX} : Exit(c)

Spec == Init /\ [][Next]_vars
-----------------------------------------------------------------------------
(* Properties.                                                              *)

\* The assertions of sched_priority: a score below sched_interact means a priority
\* of the interactive half, any other one of the batch half.
OfTheScore ==
  IF Score(runtime, slptime, nice) < sched_interact
  THEN pri \in PRI_MIN_INTERACT .. PRI_MAX_INTERACT
  ELSE pri \in PRI_MIN_BATCH .. PRI_MAX_BATCH

\* No handler changes what the score is made of, or the priority, of a timesharing
\* thread and leaves it with a priority of the other half than the new score's,
\* whatever its usage and nice value are; other classes keep their priority.
PriorityFollows ==
  IF timeshare THEN UNCHANGED <<runtime, slptime, nice, pri>> \/ OfTheScore'
  ELSE UNCHANGED pri
PriorityOfItsClass == [][PriorityFollows]_vars

\* ts_ticks never counts more than the window that it is divided by, nor less
\* than nothing, and the window is not empty when it is scaled back, though the
\* tick counter wraps and a thread is not seen for most of its period.
UsageInWindow ==
  /\ ticks \in 0 .. SHL(window)
  /\ window \in 0 .. SCHED_TICK_MAX

\* sched_interact_update keeps the history within SCHED_SLP_RUN_MAX and one tick,
\* whoever adds to it, unless a sleep did not fit the word.
HistoryBounded == ~wrapped => runtime + slptime <= Limit
=============================================================================
