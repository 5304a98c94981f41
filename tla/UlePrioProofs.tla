--------------------------- MODULE UlePrioProofs ---------------------------
(***************************************************************************)
(* The safety of UlePrio for every rate of the clock, length of the window, *)
(* width of a word and range of priorities: the priority follows the score, *)
(* the ticks used stay in their window, the history in its bound.           *)
(***************************************************************************)
EXTENDS UlePrio, TLAPS

\* What one scheduler call knows of the rest of the history: types, beside the
\* three properties.
Typed ==
  /\ at \in {"running", "queued", "asleep"}
  /\ runtime \in Nat /\ slptime \in Nat /\ slept \in Nat
  /\ wrapped \in BOOLEAN /\ timeshare \in BOOLEAN
  /\ nice \in -PRIO_MAX .. PRIO_MAX

\* The inductive invariant.
PrioInv == Typed /\ UsageInWindow /\ HistoryBounded
-----------------------------------------------------------------------------
(* Arithmetic.                                                              *)

\* A quotient: its multiple is at most the number, and it is at most the number.
LEMMA Quotient ==
  ASSUME NEW x \in Nat, NEW d \in Nat \ {0}
  PROVE  x \div d \in Nat /\ d * (x \div d) <= x /\ x \div d <= x
<1>1. x \div d \in Int /\ d * (x \div d) <= x /\ x < d * (x \div d) + d
  OBVIOUS
<1>2. x \div d \in Nat
  BY <1>1
<1>3. \A k \in Nat : k <= d * k
  OBVIOUS
<1> QED
  BY <1>1, <1>2, <1>3

\* A product grows with each factor.
LEMMA Product ==
  ASSUME NEW a \in Nat, NEW b \in Nat, NEW c \in Nat, a <= b
  PROVE  a * c <= b * c /\ c * a <= c * b /\ a * c \in Nat
OBVIOUS

\* Reduction to a word.
LEMMA Reduced ==
  ASSUME NEW x \in Nat
  PROVE  /\ (x % Word) \in Nat /\ (x % Word) < Word
         /\ x < Word => (x % Word) = x
<1>1. Word \in Nat \ {0}
  BY UlePrioAssumption DEF SHL, SCHED_TICK_TARG, SCHED_TICK_MAX
<1> QED
  BY <1>1

\* What the constants are: the window, the history and the priorities.
LEMMA Constants ==
  /\ SCHED_TICK_TARG \in Nat \ {0} /\ SCHED_TICK_MAX \in Nat
  /\ SCHED_TICK_MAX = SCHED_TICK_TARG + hz
  /\ SCHED_SLP_RUN_MAX \in Nat \ {0} /\ SCHED_SLP_RUN_FORK \in Nat \ {0}
  /\ SCHED_SLP_RUN_MAX = 5 * (SCHED_SLP_RUN_MAX \div 5)
  /\ PRI_INTERACT_RANGE \in Nat \ {0} /\ SCHED_PRI_RANGE \in Nat \ {0}
  /\ SCHED_PRI_MIN = PRI_MIN_BATCH + PRIO_MAX
  /\ SCHED_PRI_MAX = PRI_MAX_BATCH - PRIO_MAX
  /\ PRI_MIN_BATCH \in Int /\ PRI_MAX_BATCH \in Int
<1>1. SCHED_TICK_TARG \in Nat \ {0} /\ SCHED_TICK_MAX = SCHED_TICK_TARG + hz
  BY UlePrioAssumption DEF SCHED_TICK_TARG, SCHED_TICK_MAX
<1>2. hz \div 2 \in Nat \ {0} /\ hz * 5 \in Nat \ {0}
  BY UlePrioAssumption
<1>3. SCHED_SLP_RUN_MAX \in Nat \ {0} /\ SCHED_SLP_RUN_FORK \in Nat \ {0}
  BY <1>2, UlePrioAssumption DEF SCHED_SLP_RUN_MAX, SCHED_SLP_RUN_FORK, SHL
<1>4. SCHED_SLP_RUN_MAX = 5 * (SCHED_SLP_RUN_MAX \div 5)
  <2>1. PICK k \in Nat : k = hz * 2^SCHED_TICK_SHIFT
    BY UlePrioAssumption
  <2>2. SCHED_SLP_RUN_MAX = 5 * k
    BY <2>1, UlePrioAssumption DEF SCHED_SLP_RUN_MAX, SHL
  <2> QED
    BY <2>2
<1>5. PRI_TIMESHARE_RANGE \in Int /\ SCHED_PRI_NRESV \in Nat
      /\ SCHED_PRI_NRESV \div 2 = PRIO_MAX
  BY UlePrioAssumption DEF PRI_TIMESHARE_RANGE, SCHED_PRI_NRESV
<1>6. PRI_INTERACT_RANGE \in Nat \ {0}
  BY <1>5, UlePrioAssumption DEF PRI_INTERACT_RANGE
<1>7. PRI_MIN_BATCH \in Int /\ PRI_MAX_BATCH \in Int
  BY <1>6, UlePrioAssumption DEF PRI_MIN_BATCH, PRI_MAX_BATCH
<1>8. SCHED_PRI_RANGE \in Nat \ {0}
  BY <1>5, <1>7, UlePrioAssumption DEF SCHED_PRI_RANGE, SCHED_PRI_MIN, SCHED_PRI_MAX
<1> QED
  BY <1>1, <1>3, <1>4, <1>5, <1>6, <1>7, <1>8, UlePrioAssumption
     DEF SCHED_PRI_MIN, SCHED_PRI_MAX
-----------------------------------------------------------------------------
(* The priority.                                                            *)

\* Any history has a score.
LEMMA ScoreIsNumber ==
  ASSUME NEW run \in Nat, NEW slp \in Nat, NEW n \in -PRIO_MAX .. PRIO_MAX
  PROVE  Score(run, slp, n) \in Nat
<1> DEFINE A == Larger(1, run \div SCHED_INTERACT_HALF)
           B == Larger(1, slp \div SCHED_INTERACT_HALF)
<1>1. SCHED_INTERACT_HALF \in Nat \ {0} /\ PRIO_MAX \in Nat
  BY UlePrioAssumption
<1>2. run \div SCHED_INTERACT_HALF \in Nat /\ slp \div SCHED_INTERACT_HALF \in Nat
  BY <1>1, Quotient
<1>3. A \in Nat \ {0} /\ B \in Nat \ {0}
  BY <1>2 DEF Larger
<1>4. slp \div A \in Nat /\ run \div B \in Nat
  BY <1>3, Quotient
<1>5. sched_interact_score(run, slp) \in Int
  BY <1>1, <1>4 DEF sched_interact_score
<1> QED
  BY <1>1, <1>5 DEF Score, Larger

\* A score below the threshold gives a priority of the interactive half.
LEMMA InteractiveInRange ==
  ASSUME NEW score \in Nat, score < sched_interact
  PROVE  InteractivePri(score) \in PRI_MIN_INTERACT .. PRI_MAX_INTERACT
<1> DEFINE d == PRI_INTERACT_RANGE \div sched_interact
<1>1. sched_interact \in Nat \ {0} /\ PRI_INTERACT_RANGE \in Nat \ {0}
      /\ PRI_MIN_TIMESHARE \in Nat
  BY UlePrioAssumption, Constants
<1>2. d \in Nat /\ sched_interact * d <= PRI_INTERACT_RANGE
  BY <1>1, Quotient
<1>3. PRI_MAX_INTERACT - PRI_MIN_INTERACT + 1 = PRI_INTERACT_RANGE
  BY <1>1 DEF PRI_MAX_INTERACT, PRI_MIN_INTERACT
<1>4. (score + 1) * d <= sched_interact * d /\ (score + 1) * d \in Nat
  BY <1>1, <1>2, Product
<1>5. (score + 1) * d = d * score + d /\ d * score \in Nat
  BY <1>2
<1>6. d * score < PRI_INTERACT_RANGE
  BY <1>1, <1>2, <1>4, <1>5
<1> HIDE DEF d
<1>7. InteractivePri(score) = PRI_MIN_TIMESHARE + d * score
  BY <1>3 DEF InteractivePri, PRI_MIN_INTERACT, d
<1> QED
  BY <1>1, <1>5, <1>6, <1>7 DEF PRI_MIN_INTERACT, PRI_MAX_INTERACT

\* Any usage and any nice value give a priority of the batch half.
LEMMA BatchInRange ==
  ASSUME NEW tk \in Nat, NEW win \in Nat, NEW n \in -PRIO_MAX .. PRIO_MAX
  PROVE  BatchPri(tk, win, n) \in PRI_MIN_BATCH .. PRI_MAX_BATCH
<1> DEFINE per == (Larger(win, hz) + SCHED_PRI_RANGE - 1) \div SCHED_PRI_RANGE
           share == SCHED_PRI_TICKS(tk, win)
<1>1. SCHED_PRI_RANGE \in Nat \ {0} /\ PRIO_MAX \in Nat /\ hz \in Nat /\ hz > 1
      /\ 2^SCHED_TICK_SHIFT \in Nat \ {0}
  BY Constants, UlePrioAssumption
<1>2. Larger(win, hz) \in Nat /\ Larger(win, hz) >= 1
  BY <1>1 DEF Larger
<1>3. per \in Nat
  BY <1>1, <1>2, Quotient
<1>4. per # 0
  <2>1. Larger(win, hz) + SCHED_PRI_RANGE - 1 >= SCHED_PRI_RANGE
    BY <1>1, <1>2
  <2> QED
    BY <2>1, <1>1, <1>2
<1>5. tk \div 2^SCHED_TICK_SHIFT \in Nat
  BY <1>1, Quotient
<1>6. share \in Nat
  BY <1>3, <1>4, <1>5, Quotient DEF SCHED_PRI_TICKS
<1> HIDE DEF share
<1>7. Smaller(share, SCHED_PRI_RANGE - 1) \in 0 .. SCHED_PRI_RANGE - 1
  BY <1>1, <1>6 DEF Smaller
<1>8. BatchPri(tk, win, n) = SCHED_PRI_MIN + Smaller(share, SCHED_PRI_RANGE - 1) + n
  BY DEF BatchPri, share
<1> QED
  BY <1>1, <1>7, <1>8, Constants DEF SCHED_PRI_RANGE

\* Whatever the history, the usage and the nice value, the priority that
\* sched_priority computes follows them.
LEMMA PriorityOK ==
  ASSUME runtime' \in Nat, slptime' \in Nat, ticks' \in Nat, window' \in Nat,
         nice' \in -PRIO_MAX .. PRIO_MAX,
         pri' = sched_priority(runtime', slptime', ticks', window', nice')
  PROVE  PriorityFollows
<1>1. Score(runtime', slptime', nice') \in Nat
  BY ScoreIsNumber
<1>2. CASE ~timeshare
  BY <1>2 DEF sched_priority, PriorityFollows
<1>3. CASE timeshare /\ Score(runtime', slptime', nice') < sched_interact
  <2>1. pri' \in PRI_MIN_INTERACT .. PRI_MAX_INTERACT
    BY <1>1, <1>3, InteractiveInRange DEF sched_priority
  <2> QED BY <1>3, <2>1 DEF PriorityFollows, OfTheScore
<1>4. CASE timeshare /\ ~(Score(runtime', slptime', nice') < sched_interact)
  <2>1. pri' \in PRI_MIN_BATCH .. PRI_MAX_BATCH
    BY <1>4, BatchInRange DEF sched_priority
  <2> QED BY <1>4, <2>1 DEF PriorityFollows, OfTheScore
<1> QED
  BY <1>2, <1>3, <1>4
-----------------------------------------------------------------------------
(* The history.                                                             *)

\* sched_interact_update yields numbers, and within the limit when the sum of
\* what it is given is that of a word.
LEMMA UpdateOK ==
  ASSUME NEW run \in Nat, NEW slp \in Nat,
         NEW h, h = sched_interact_update(run, slp)
  PROVE  /\ h[1] \in Nat /\ h[2] \in Nat
         /\ run + slp < Word => h[1] + h[2] <= Limit
<1> DEFINE R == SCHED_SLP_RUN_MAX
           sum == (run + slp) % Word
<1>1. R \in Nat \ {0} /\ Limit = R + 1 /\ R = 5 * (R \div 5)
  BY Constants DEF Limit
<1>2. sum \in Nat /\ (run + slp < Word => sum = run + slp)
  BY Reduced
<1> HIDE DEF R, sum
<1>3. /\ run \div 5 \in Nat /\ 5 * (run \div 5) <= run
      /\ slp \div 5 \in Nat /\ 5 * (slp \div 5) <= slp
      /\ R \div 5 \in Nat /\ 5 * (R \div 5) <= R
      /\ run \div 2 \in Nat /\ 2 * (run \div 2) <= run
      /\ slp \div 2 \in Nat /\ 2 * (slp \div 2) <= slp
  BY <1>1
<1>4. CASE sum < R
  <2>1. h = <<run, slp>>
    BY <1>1, <1>2, <1>4 DEF sched_interact_update, R, sum
  <2> QED
    BY <1>1, <1>2, <1>4, <2>1
<1>5. CASE sum > 2 * R
  <2>1. h = <<R, 1>> \/ h = <<1, R>>
    BY <1>1, <1>2, <1>5 DEF sched_interact_update, R, sum
  <2> QED
    BY <1>1, <2>1
<1>6. CASE sum > (R \div 5) * 6 /\ R <= sum /\ sum <= 2 * R
  <2>1. h = <<run \div 2, slp \div 2>>
    BY <1>1, <1>2, <1>6 DEF sched_interact_update, R, sum
  <2> QED
    BY <1>1, <1>2, <1>3, <1>6, <2>1
<1>7. CASE sum <= (R \div 5) * 6 /\ R <= sum /\ sum <= 2 * R
  <2>1. h = <<(run \div 5) * 4, (slp \div 5) * 4>>
    BY <1>1, <1>2, <1>7, <1>3 DEF sched_interact_update, R, sum
  <2> QED
    BY <1>1, <1>2, <1>3, <1>7, <2>1
<1> QED
  BY <1>1, <1>2, <1>3, <1>4, <1>5, <1>6, <1>7

\* The same after an addition to a history within the limit.
LEMMA AccountedOK ==
  ASSUME NEW run \in Nat, NEW slp \in Nat,
         NEW h, h = Accounted(run, slp)
  PROVE  /\ h[1] \in Nat /\ h[2] \in Nat
         /\ run + slp < Word => h[1] + h[2] <= Limit
<1>1. (run % Word) \in Nat /\ (slp % Word) \in Nat
  BY Reduced
<1>2. h = sched_interact_update(run % Word, slp % Word)
  BY DEF Accounted
<1>3. ASSUME run + slp < Word
      PROVE  (run % Word) = run /\ (slp % Word) = slp
  BY <1>3, Reduced, UlePrioAssumption
<1> QED
  BY <1>1, <1>2, <1>3, UpdateOK

\* sched_interact_fork never lengthens the history.
LEMMA ForkOK ==
  ASSUME NEW run \in Nat, NEW slp \in Nat,
         NEW h, h = sched_interact_fork(run, slp)
  PROVE  /\ h[1] \in Nat /\ h[2] \in Nat
         /\ h[1] + h[2] <= run + slp
<1> DEFINE sum == Signed((run + slp) % Word)
           ratio == sum \div SCHED_SLP_RUN_FORK
<1>1. SCHED_SLP_RUN_FORK \in Nat \ {0} /\ Word \in Nat
  BY Constants, UlePrioAssumption
<1>2. sum \in Int
  BY <1>1, Reduced DEF Signed
<1> HIDE DEF sum
<1>3. CASE sum > SCHED_SLP_RUN_FORK
  <2>1. ratio \in Nat \ {0}
    BY <1>1, <1>2, <1>3
  <2>2. h = <<run \div ratio, slp \div ratio>>
    BY <1>3 DEF sched_interact_fork, sum
  <2> HIDE DEF ratio
  <2>3. /\ run \div ratio \in Nat /\ run \div ratio <= run
        /\ slp \div ratio \in Nat /\ slp \div ratio <= slp
    BY <2>1, Quotient
  <2> QED
    BY <2>2, <2>3
<1>4. CASE ~(sum > SCHED_SLP_RUN_FORK)
  <2>1. h = <<run, slp>>
    BY <1>4 DEF sched_interact_fork, sum
  <2> QED
    BY <2>1
<1> QED
  BY <1>3, <1>4
-----------------------------------------------------------------------------
(* The window.                                                              *)

\* A number of ticks, as ts_ticks counts it.
LEMMA TicksScale ==
  /\ \A n \in Nat : SHL(n) \in Nat
  /\ \A m, n \in Nat : SHL(m + n) = SHL(m) + SHL(n)
  /\ \A m, n \in Nat : m <= n => SHL(m) <= SHL(n)
<1> DEFINE S == 2^SCHED_TICK_SHIFT
<1>1. S \in Nat
  BY UlePrioAssumption
<1> HIDE DEF S
<1>2. \A n : SHL(n) = n * S
  BY DEF SHL, S
<1>3. \A m, n \in Nat : m <= n => m * S <= n * S
  BY <1>1, Product
<1>4. \A m, n \in Nat : (m + n) * S = m * S + n * S /\ n * S \in Nat
  BY <1>1
<1> QED
  BY <1>2, <1>3, <1>4

\* sched_pctcpu_update counts no more ticks than its window has, and the window
\* stays bounded, also when the counter has wrapped.
LEMMA PctcpuOK ==
  ASSUME NEW n \in 0 .. Word - 1, NEW run \in BOOLEAN, UsageInWindow,
         run => n <= SCHED_TICK_TARG,
         NEW u, u = sched_pctcpu_update(ticks, window, n, run)
  PROVE  u[1] \in 0 .. SHL(u[2]) /\ u[2] \in 0 .. SCHED_TICK_MAX
<1> DEFINE used == IF run THEN SHL(n) ELSE 0
           T == SCHED_TICK_TARG
           M == SCHED_TICK_MAX
           S == 2^SCHED_TICK_SHIFT
<1>1. /\ T \in Nat \ {0} /\ M = T + hz /\ hz \in Nat \ {0} /\ S \in Nat \ {0}
      /\ Word \in Nat /\ Word > 2 * (T + M)
  BY Constants, UlePrioAssumption
<1>2. n \in Nat /\ n < Word /\ ticks \in 0 .. SHL(window) /\ window \in 0 .. M
  BY <1>1 DEF UsageInWindow
<1>3. /\ used \in Nat /\ used <= SHL(n) /\ SHL(window) \in Nat
  BY <1>2, TicksScale
<1> HIDE DEF used, T, M, S
<1>4. ASSUME n < T
      PROVE  Signed((n + window) % Word) = n + window
  <2>1. n + window < T + M /\ n + window \in Nat
    BY <1>1, <1>2, <1>4
  <2>2. ((n + window) % Word) = n + window
    BY <1>1, <2>1, Reduced
  <2>3. ~(n + window >= Word \div 2)
    BY <1>1, <2>1
  <2> QED
    BY <2>2, <2>3 DEF Signed
<1>5. CASE n >= T
  <2>1. u = <<used, T>>
    BY <1>5, <1>1, <1>2 DEF sched_pctcpu_update, used, T
  <2>2. used <= SHL(T)
    <3>1. CASE run
      <4>1. n = T
        BY <1>1, <1>2, <1>5, <3>1 DEF T
      <4> QED
        BY <1>3, <4>1
    <3>2. CASE ~run
      BY <1>1, <3>2, TicksScale DEF used
    <3> QED
      BY <3>1, <3>2
  <2> QED
    BY <1>1, <1>3, <2>1, <2>2, TicksScale DEF M
<1>6. CASE n < T /\ n + window >= M
  <2> DEFINE v == ticks \div window
  <2>1. u = <<v * (T - n) + used, T>>
    BY <1>4, <1>6, <1>1, <1>2 DEF sched_pctcpu_update, used, T, M
  <2>2. window \in Nat \ {0} /\ ticks \in Nat /\ ticks <= window * S
    BY <1>1, <1>2, <1>6, TicksScale DEF SHL, S
  <2>3. v \in Nat /\ window * v <= ticks
    BY <2>2, Quotient
  <2> HIDE DEF v
  <2>4. v <= S
    <3> SUFFICES ASSUME v >= S + 1
        PROVE  FALSE
      BY <1>1, <2>3
    <3>1. window * (S + 1) <= window * v
      BY <1>1, <2>2, <2>3, Product
    <3>2. window * (S + 1) = window * S + window
      BY <1>1, <2>2
    <3> QED
      BY <1>1, <2>2, <2>3, <3>1, <3>2
  <2>5. v * (T - n) <= S * (T - n) /\ v * (T - n) \in Nat
    BY <1>1, <1>2, <1>6, <2>3, <2>4, Product
  <2>6. S * (T - n) = SHL(T - n)
    BY <1>1, <1>2, <1>6 DEF SHL, S
  <2>7. T - n \in Nat /\ (T - n) + n = T
    BY <1>1, <1>2, <1>6
  <2>8. /\ SHL(T - n) \in Nat /\ SHL(n) \in Nat
        /\ SHL(T) = SHL(T - n) + SHL(n)
    BY <1>2, <2>7, TicksScale
  <2>9. v * (T - n) + used \in 0 .. SHL(T)
    BY <1>3, <2>5, <2>6, <2>8
  <2> QED
    BY <1>1, <2>1, <2>9 DEF M
<1>7. CASE n < T /\ n + window < M
  <2>1. n + window = window + n
    BY <1>2, <1>1
  <2>2. u = <<ticks + used, window + n>>
    BY <1>4, <1>7, <1>1, <1>2, <2>1 DEF sched_pctcpu_update, used, T, M
  <2>3. SHL(window + n) = SHL(window) + SHL(n) /\ SHL(n) \in Nat
    BY <1>1, <1>2, TicksScale
  <2> QED
    BY <1>1, <1>2, <1>3, <1>7, <2>1, <2>2, <2>3 DEF M
<1> QED
  BY <1>1, <1>2, <1>5, <1>6, <1>7
-----------------------------------------------------------------------------
(* The handlers.                                                            *)

LEMMA InitInv == Init => PrioInv
<1> SUFFICES ASSUME Init
    PROVE  PrioInv
  OBVIOUS
<1>1. Typed
  <2>1. nice \in -PRIO_MAX .. PRIO_MAX
    BY UlePrioAssumption DEF Init
  <2>2. wrapped \in BOOLEAN /\ timeshare \in BOOLEAN
    BY DEF Init
  <2> QED
    BY <2>1, <2>2 DEF Init, Typed
<1>3. UsageInWindow
  BY Constants, TicksScale DEF Init, UsageInWindow
<1>4. HistoryBounded
  BY Constants DEF Init, HistoryBounded, Limit
<1> QED
  BY <1>1, <1>3, <1>4 DEF PrioInv

\* Bringing the time up to date keeps the usage in its window.
LEMMA UpdatedOK ==
  ASSUME PrioInv, NEW n \in Since, Updated(n)
  PROVE  UsageInWindow' /\ ticks' \in Nat /\ window' \in Nat
<1> DEFINE u == sched_pctcpu_update(ticks, window, n, at = "running")
<1>1. UsageInWindow /\ (at = "running") \in BOOLEAN
  BY DEF PrioInv
<1>2. n \in 0 .. Word - 1 /\ (at = "running" => n <= SCHED_TICK_TARG)
  BY UlePrioAssumption, Constants DEF Since
<1>3. ticks' = u[1] /\ window' = u[2]
  BY DEF Updated
<1>4. u[1] \in 0 .. SHL(u[2]) /\ u[2] \in 0 .. SCHED_TICK_MAX
  BY <1>1, <1>2, PctcpuOK
<1> HIDE DEF u
<1>5. window' \in Nat
  BY <1>3, <1>4, Constants
<1>6. SHL(window') \in Nat
  BY <1>5, TicksScale
<1> QED
  BY <1>3, <1>4, <1>5, <1>6 DEF UsageInWindow

\* A history that is recorded is a number, and bounded unless it has wrapped; the
\* priority follows it.
LEMMA ScoredOK ==
  ASSUME PrioInv, NEW hist, NEW wraps \in BOOLEAN, Scored(hist, wraps), nice' = nice,
         hist[1] \in Nat, hist[2] \in Nat, ticks' \in Nat, window' \in Nat,
         ~wraps => hist[1] + hist[2] <= Limit
  PROVE  /\ PriorityFollows /\ HistoryBounded'
         /\ runtime' \in Nat /\ slptime' \in Nat /\ wrapped' \in BOOLEAN
<1>1. /\ runtime' = hist[1] /\ slptime' = hist[2]
      /\ wrapped' = (wraps /\ hist[1] + hist[2] > Limit)
      /\ pri' = sched_priority(hist[1], hist[2], ticks', window', nice)
  BY DEF Scored
<1>2. PriorityFollows
  BY <1>1, PriorityOK DEF PrioInv, Typed
<1>3. Limit \in Nat
  BY Constants DEF Limit
<1>4. wrapped' \in BOOLEAN /\ (wrapped' <=> wraps /\ hist[1] + hist[2] > Limit)
  BY <1>1
<1>5. ~wrapped' => hist[1] + hist[2] <= Limit
  BY <1>3, <1>4
<1>6. HistoryBounded'
  BY <1>1, <1>3, <1>5 DEF HistoryBounded, Limit
<1> QED
  BY <1>1, <1>2, <1>4, <1>6

\* What one call may add to a history, unless a sleep did not fit the word.
LEMMA AddedOK ==
  ASSUME PrioInv, NEW c \in Nat, c <= SCHED_SLP_RUN_MAX \/ c = tickincr,
         NEW h, h = Accounted(runtime + c, slptime)
  PROVE  /\ h[1] \in Nat /\ h[2] \in Nat
         /\ ~wrapped => h[1] + h[2] <= Limit
<1>1. runtime \in Nat /\ slptime \in Nat /\ runtime + c \in Nat
  BY DEF PrioInv, Typed
<1>2. SCHED_SLP_RUN_MAX \in Nat /\ Word \in Nat /\ tickincr \in Nat
      /\ Word > 2 * SCHED_SLP_RUN_MAX + 1 + tickincr
  BY Constants, UlePrioAssumption
<1>3. ~wrapped => runtime + c + slptime < Word
  BY <1>1, <1>2 DEF PrioInv, HistoryBounded, Limit
<1> QED
  BY <1>1, <1>3, AccountedOK

\* The handlers that touch neither history nor priority.
LEMMA SwitchInv ==
  ASSUME PrioInv, NEW n \in Since,
         SwitchOut(n) \/ SwitchIn(n) \/ Sleep(n) \/ Inquire(n)
  PROVE  PrioInv' /\ PriorityFollows
<1>1. Updated(n) /\ UNCHANGED <<runtime, slptime, wrapped, timeshare, nice, pri>>
  BY DEF SwitchOut, SwitchIn, Sleep, Inquire
<1>2. UsageInWindow'
  BY <1>1, UpdatedOK
<1>3. n \in Nat
  BY UlePrioAssumption, Constants DEF Since
<1>4. at' \in {"running", "queued", "asleep"} /\ slept' \in Nat
  <2>1. slept \in Nat /\ at \in {"running", "queued", "asleep"}
        /\ ((slept + n) % Word) \in Nat
    BY <1>3, Reduced DEF PrioInv, Typed
  <2> QED
    BY <2>1 DEF SwitchOut, SwitchIn, Sleep, Inquire
<1>5. Typed'
  BY <1>1, <1>4 DEF PrioInv, Typed
<1>6. PriorityFollows /\ HistoryBounded'
  BY <1>1 DEF PrioInv, PriorityFollows, HistoryBounded
<1> QED
  BY <1>2, <1>5, <1>6 DEF PrioInv

\* sched_clock and sched_fork.
LEMMA ChargeInv ==
  ASSUME PrioInv, NEW n \in Since, Clock(n) \/ ForkParent(n) \/ ForkChild(n)
  PROVE  PrioInv' /\ PriorityFollows
<1>1. Updated(n) /\ slept' = slept /\ timeshare' = timeshare /\ nice' = nice
      /\ at' \in {"running", "queued"}
  BY DEF Clock, ForkParent, ForkChild
<1>2. UsageInWindow' /\ ticks' \in Nat /\ window' \in Nat
  BY <1>1, UpdatedOK
<1>3. /\ PriorityFollows /\ HistoryBounded'
      /\ runtime' \in Nat /\ slptime' \in Nat /\ wrapped' \in BOOLEAN
  <2>1. CASE Scored(Accounted(runtime + tickincr, slptime), wrapped)
    BY <1>1, <1>2, <2>1, AddedOK, ScoredOK, UlePrioAssumption DEF PrioInv, Typed
  <2>2. CASE Scored(sched_interact_fork(runtime, slptime), wrapped)
    <3> DEFINE h == sched_interact_fork(runtime, slptime)
    <3>1. runtime \in Nat /\ slptime \in Nat /\ wrapped \in BOOLEAN
          /\ (~wrapped => runtime + slptime <= Limit) /\ Limit \in Nat
      BY Constants DEF PrioInv, Typed, HistoryBounded, Limit
    <3>2. h[1] \in Nat /\ h[2] \in Nat /\ h[1] + h[2] <= runtime + slptime
      BY <3>1, ForkOK
    <3> HIDE DEF h
    <3>3. ~wrapped => h[1] + h[2] <= Limit
      BY <3>1, <3>2
    <3>4. Scored(h, wrapped)
      BY <2>2 DEF h
    <3> QED
      BY <1>1, <1>2, <3>1, <3>2, <3>3, <3>4, ScoredOK
  <2>3. CASE UNCHANGED <<runtime, slptime, wrapped, pri>>
    BY <1>1, <2>3 DEF PrioInv, Typed, PriorityFollows, HistoryBounded
  <2> QED
    BY <2>1, <2>2, <2>3 DEF Clock, ForkParent, ForkChild
<1>4. Typed'
  BY <1>1, <1>3 DEF PrioInv, Typed
<1> QED
  BY <1>2, <1>3, <1>4 DEF PrioInv

\* sched_wakeup after a sleep that counts.
LEMMA WakeupSleptInv ==
  ASSUME PrioInv, NEW n \in Since, WakeupSlept(n)
  PROVE  PrioInv' /\ PriorityFollows
<1> DEFINE t == slptime + SHL((slept + n) % Word)
           wraps == wrapped \/ runtime + t >= Word
           h == Accounted(runtime, t)
<1>1. n \in Nat /\ Word \in Nat
  BY UlePrioAssumption, Constants DEF Since
<1>2. runtime \in Nat /\ slptime \in Nat /\ slept \in Nat /\ wrapped \in BOOLEAN
  BY DEF PrioInv, Typed
<1>3. t \in Nat
  <2>1. ((slept + n) % Word) \in Nat
    BY <1>1, <1>2, Reduced
  <2>2. SHL((slept + n) % Word) \in Nat
    BY <2>1, TicksScale
  <2> QED
    BY <1>2, <2>2
<1>4. at' = "queued" /\ slept' = 0 /\ Updated(n) /\ Scored(h, wraps)
      /\ timeshare' = timeshare /\ nice' = nice
  BY DEF WakeupSlept
<1> HIDE DEF t
<1>5. UsageInWindow' /\ ticks' \in Nat /\ window' \in Nat
  BY <1>4, UpdatedOK
<1>6. h[1] \in Nat /\ h[2] \in Nat /\ (runtime + t < Word => h[1] + h[2] <= Limit)
  BY <1>2, <1>3, AccountedOK
<1>7. wraps \in BOOLEAN /\ (~wraps => runtime + t < Word)
  BY <1>1, <1>2, <1>3
<1> HIDE DEF h, wraps
<1>8. /\ PriorityFollows /\ HistoryBounded'
      /\ runtime' \in Nat /\ slptime' \in Nat /\ wrapped' \in BOOLEAN
  BY <1>4, <1>5, <1>6, <1>7, ScoredOK
<1>9. Typed'
  BY <1>4, <1>8 DEF PrioInv, Typed
<1> QED
  BY <1>5, <1>8, <1>9 DEF PrioInv

\* The handlers that leave the window alone.
LEMMA UntimedInv ==
  ASSUME PrioInv,
         \/ WakeupAtOnce \/ Class
         \/ \E n \in -PRIO_MAX .. PRIO_MAX : Nice(n)
         \/ \E c \in {tickincr, SCHED_SLP_RUN_MAX} : Exit(c)
  PROVE  PrioInv' /\ PriorityFollows
<1>1. ticks' = ticks /\ window' = window
  BY DEF WakeupAtOnce, Class, Nice, Exit
<1>2. UsageInWindow' /\ ticks \in Nat /\ window \in Nat
  BY <1>1, Constants, TicksScale DEF PrioInv, UsageInWindow
<1>3. CASE WakeupAtOnce
  <2>1. PriorityFollows
    BY <1>1, <1>2, <1>3, PriorityOK DEF WakeupAtOnce, PrioInv, Typed
  <2> QED
    BY <1>2, <1>3, <2>1 DEF WakeupAtOnce, PrioInv, Typed, HistoryBounded
<1>4. CASE Class
  <2>1. PriorityFollows
    BY <1>4 DEF Class, PriorityFollows
  <2> QED
    BY <1>2, <1>4, <2>1 DEF Class, PrioInv, Typed, HistoryBounded
<1>5. ASSUME NEW n \in -PRIO_MAX .. PRIO_MAX, Nice(n)
      PROVE  PrioInv' /\ PriorityFollows
  <2>1. PriorityFollows
    BY <1>1, <1>2, <1>5, PriorityOK DEF Nice, PrioInv, Typed
  <2> QED
    BY <1>2, <1>5, <2>1 DEF Nice, PrioInv, Typed, HistoryBounded
<1>6. ASSUME NEW c \in {tickincr, SCHED_SLP_RUN_MAX}, Exit(c)
      PROVE  PrioInv' /\ PriorityFollows
  <2>1. c \in Nat /\ (c <= SCHED_SLP_RUN_MAX \/ c = tickincr)
    BY Constants, UlePrioAssumption
  <2>2. Scored(Accounted(runtime + c, slptime), wrapped) /\ wrapped \in BOOLEAN /\ nice' = nice
    BY <1>6 DEF Exit, PrioInv, Typed
  <2>3. /\ PriorityFollows /\ HistoryBounded'
        /\ runtime' \in Nat /\ slptime' \in Nat /\ wrapped' \in BOOLEAN
    BY <1>1, <1>2, <2>1, <2>2, AddedOK, ScoredOK
  <2>4. Typed'
    BY <1>6, <2>3 DEF Exit, PrioInv, Typed
  <2> QED
    BY <1>2, <2>3, <2>4 DEF PrioInv
<1> QED
  BY <1>3, <1>4, <1>5, <1>6

\* Every step keeps the invariant.
LEMMA NextInv == PrioInv /\ [Next]_vars => PrioInv' /\ PriorityFollows
<1> SUFFICES ASSUME PrioInv, [Next]_vars
    PROVE  PrioInv' /\ PriorityFollows
  OBVIOUS
<1>1. CASE UNCHANGED vars
  BY <1>1 DEF vars, PrioInv, Typed, PriorityFollows, UsageInWindow, HistoryBounded
<1>2. ASSUME NEW n \in Since,
             \/ Clock(n) \/ SwitchOut(n) \/ SwitchIn(n) \/ Sleep(n) \/ WakeupSlept(n)
             \/ Inquire(n) \/ ForkParent(n) \/ ForkChild(n)
      PROVE  PrioInv' /\ PriorityFollows
  BY <1>2, SwitchInv, ChargeInv, WakeupSleptInv
<1>3. CASE \/ WakeupAtOnce \/ Class
           \/ \E n \in -PRIO_MAX .. PRIO_MAX : Nice(n)
           \/ \E c \in {tickincr, SCHED_SLP_RUN_MAX} : Exit(c)
  BY <1>3, UntimedInv
<1> QED
  BY <1>1, <1>2, <1>3 DEF Next
-----------------------------------------------------------------------------
(* The theorems.                                                            *)

\* The invariant of the history, its window and the priority.
THEOREM PrioInvariance == Spec => []PrioInv
BY InitInv, NextInv, PTL DEF Spec

\* The assertions of sched_priority, each in its branch: for any history, usage and
\* nice value a timesharing thread gets a priority of the half that its score chooses,
\* and no handler changes the score without it.
THEOREM PriorityCorrect == Spec => PriorityOfItsClass
<1>1. PrioInv /\ [Next]_vars => [PriorityFollows]_vars
  BY NextInv
<1> QED
  BY <1>1, PrioInvariance, PTL DEF Spec, PriorityOfItsClass

\* sched_pctcpu_update: ts_ticks counts no more than its window, for any window,
\* tick rate and width of the tick counter.
THEOREM UsageCorrect == Spec => []UsageInWindow
<1>1. PrioInv => UsageInWindow
  BY DEF PrioInv
<1> QED
  BY <1>1, PrioInvariance, PTL

\* sched_interact_update: the history stays in its bound, whoever adds to it.
THEOREM HistoryCorrect == Spec => []HistoryBounded
<1>1. PrioInv => HistoryBounded
  BY DEF PrioInv
<1> QED
  BY <1>1, PrioInvariance, PTL
=============================================================================
