-------------------------------- MODULE Tdq --------------------------------
(***************************************************************************)
(* One processor's thread queue (struct tdq) of the ULE scheduler of asgn2, *)
(* sched_ule.c and its "splatter" variant sched_ule_2.c, with the thread    *)
(* that runs on the processor and the handlers that change either of them.  *)
(*                                                                         *)
(* Every handler runs under the tdq lock and is one action, except          *)
(* sched_switch where it drops the lock half way (tdq_trysteal,             *)
(* sched_switch_migrate): those are two actions with field "leaving"        *)
(* between them, in which the other processors go on.                       *)
(*                                                                         *)
(* Threads that sleep, have exited or are on another processor's queue are  *)
(* "off"; one that another processor is sending here is "inbound".          *)
(* Priorities are the kernel's: a smaller number is more important.         *)
(***************************************************************************)
EXTENDS RunQueue, FiniteSets

CONSTANTS
  IdleThread,      \* the processor's idle thread, never on a queue
  Prio,            \* the priorities that threads are given
  PRI_MIN_BATCH,   \* realtime queue below, timeshare queue from here ...
  PRI_MAX_BATCH,   \* ... to here, idle queue above
  PRI_MAX_IDLE,
  preempt_thresh,
  sched_slice, sched_slice_min, SCHED_SLICE_MIN_DIVISOR,
  Splatter,        \* TRUE: sched_ule_2.c, FALSE: sched_ule.c
  Affine,          \* threads whose cpuset holds only this processor
  NoLoad           \* threads with TDF_NOLOAD

PRI_MIN_IDLE     == PRI_MAX_BATCH + 1
PRI_MAX_INTERACT == PRI_MIN_BATCH - 1
PRI_BATCH_RANGE  == PRI_MAX_BATCH - PRI_MIN_BATCH + 1

ASSUME TdqAssumption ==
  /\ IdleThread \notin Thread \cup {NoThread}
  /\ PRI_MIN_BATCH \in Nat /\ PRI_MAX_BATCH \in Nat /\ PRI_MAX_IDLE \in Nat
  /\ PRI_MIN_BATCH <= PRI_MAX_BATCH /\ PRI_MAX_BATCH < PRI_MAX_IDLE
  /\ PRI_MAX_IDLE < RQ_NQS * RQ_PPQ
  /\ 256 % RQ_NQS = 0          \* the u_char index wraps without a seam
  /\ Prio \subseteq 0 .. PRI_MAX_IDLE
  /\ preempt_thresh \in Nat
  /\ sched_slice \in Nat \ {0} /\ sched_slice_min \in Nat \ {0}
  /\ SCHED_SLICE_MIN_DIVISOR \in Nat
  /\ Splatter \in BOOLEAN
  /\ Affine \subseteq Thread
  /\ NoLoad \subseteq Thread
  /\ IsFiniteSet(Thread)

Class == {"realtime", "timeshare", "idle"}

CpuState == [
  rq           : [Class -> RunQ],          \* tdq_realtime, tdq_timeshare, tdq_idle
  idx          : Index,                    \* tdq_idx: where threads are inserted
  ridx         : Index,                    \* tdq_ridx: where threads are removed
  load         : Int,
  sysload      : Int,
  transferable : Int,
  lowpri       : 0 .. PRI_MAX_IDLE,
  ipipending   : BOOLEAN,
  ipi          : BOOLEAN,                  \* an IPI_PREEMPT is on its way
  cur          : Thread \cup {IdleThread}, \* pc_curthread
  leaving      : {"no", "steal", "migrate"},
  needresched  : BOOLEAN,                  \* TDF_NEEDRESCHED of cur
  sliceend     : BOOLEAN,                  \* TDF_SLICEEND of cur
  owepreempt   : BOOLEAN,                  \* td_owepreempt of cur
  state        : [Thread -> {"off", "inbound", "runq", "running"}],
  prio         : [Thread -> Prio],         \* td_priority
  runq         : [Thread -> Class \cup {"none"}], \* ts_runq while queued
  rqindex      : [Thread -> Index],        \* td_rqindex while queued
  xfer         : [Thread -> BOOLEAN],      \* TSF_XFERABLE
  pinned       : [Thread -> BOOLEAN],      \* td_pinned # 0
  slice        : [Thread -> Int]]          \* ts_slice

VARIABLE s

vars == <<s>>

\* tdq_setup: every thread off, the processor idle.
Init ==
  \E p \in [Thread -> Prio] :
    s = [rq |-> [c \in Class |-> runq_init], idx |-> 0, ridx |-> 0,
         load |-> 0, sysload |-> 0, transferable |-> 0, lowpri |-> PRI_MAX_IDLE,
         ipipending |-> FALSE, ipi |-> FALSE, cur |-> IdleThread, leaving |-> "no",
         needresched |-> FALSE, sliceend |-> FALSE, owepreempt |-> FALSE,
         state |-> [t \in Thread |-> "off"], prio |-> p,
         runq |-> [t \in Thread |-> "none"],
         rqindex |-> [t \in Thread |-> 0],
         xfer |-> [t \in Thread |-> FALSE],
         pinned |-> [t \in Thread |-> FALSE],
         slice |-> [t \in Thread |-> 0]]
-----------------------------------------------------------------------------
(* The helpers: functions from a processor state to the changed one.        *)

CurPrio(q) == IF q.cur = IdleThread THEN PRI_MAX_IDLE ELSE q.prio[q.cur]

sched_shouldpreempt(pri, cpri, remote) ==
  /\ pri < cpri
  /\ \/ cpri >= PRI_MIN_IDLE
     \/ /\ preempt_thresh # 0
        /\ \/ pri <= preempt_thresh
           \/ remote /\ pri <= PRI_MAX_INTERACT /\ cpri > PRI_MAX_INTERACT

RunqClass(pri) ==
  IF pri < PRI_MIN_BATCH THEN "realtime"
  ELSE IF pri <= PRI_MAX_BATCH THEN "timeshare" ELSE "idle"

\* rnd stands for arc4random() / 0xffffffff, an unsigned division: 0 or 1.
Rnd == IF Splatter THEN {0, 1} ELSE {0}

SplatterPri(rnd) == PRI_MIN_BATCH + (PRI_MAX_BATCH - PRI_MIN_BATCH) * rnd

BatchPri(pri, rnd) == IF Splatter THEN SplatterPri(rnd) ELSE pri

\* Mutant for DrainingQueueShrinks: the queue that drains takes new threads.
TimeshareIndex_IntoDraining(q, pri, flags) ==
  IF flags \cap {"BORROWING", "PREEMPTED"} # {} THEN q.ridx
  ELSE ((RQ_NQS * (pri - PRI_MIN_BATCH)) \div PRI_BATCH_RANGE + q.idx) % RQ_NQS

\* The timeshare queue a thread enters; 255 and 256 are the u_char cast.
TimeshareIndex(q, pri, flags) ==
  LET i == ((RQ_NQS * (pri - PRI_MIN_BATCH)) \div PRI_BATCH_RANGE + q.idx)
              % RQ_NQS
  IN  IF flags \cap {"BORROWING", "PREEMPTED"} # {} THEN q.ridx
      ELSE IF q.ridx # q.idx /\ i = q.ridx THEN ((i + 255) % 256) % RQ_NQS
      ELSE i

EntryIndex(q, t, flags, rnd) ==
  IF RunqClass(q.prio[t]) = "timeshare"
  THEN TimeshareIndex(q, BatchPri(q.prio[t], rnd), flags)
  ELSE PriIndex(q.prio[t])

\* Mutant for TransferableExact: pinned threads are counted too.
tdq_runq_add_CountPinned(q, t, flags, rnd) ==
  LET c == RunqClass(q.prio[t])
      i == EntryIndex(q, t, flags, rnd)
  IN  [q EXCEPT !.rq[c] = runq_add_pri(@, t, i, q.prio, flags),
                !.state[t] = "runq", !.runq[t] = c, !.rqindex[t] = i,
                !.xfer[t] = @ \/ ~ q.pinned[t], !.transferable = @ + 1]

tdq_runq_add(q, t, flags, rnd) ==
  LET c == RunqClass(q.prio[t])
      i == EntryIndex(q, t, flags, rnd)
  IN  [q EXCEPT !.rq[c] = runq_add_pri(@, t, i, q.prio, flags),
                !.state[t] = "runq", !.runq[t] = c, !.rqindex[t] = i,
                !.xfer[t] = @ \/ ~ q.pinned[t],
                !.transferable = IF q.pinned[t] THEN @ ELSE @ + 1]

\* ts_runq and td_rqindex are dead once the thread is off the queue: they are
\* reset here, where the code leaves the old values that nothing reads.
tdq_runq_rem(q, t) ==
  LET c == q.runq[t]
      i == q.rqindex[t]
  IN  [q EXCEPT !.rq[c] = runq_remove(@, t, i),
                !.ridx = IF c = "timeshare" /\ q.idx # q.ridx
                         THEN runq_next_idx(q.rq[c], t, i, @) ELSE @,
                !.runq[t] = "none", !.rqindex[t] = 0,
                !.xfer[t] = FALSE,
                !.transferable = IF q.xfer[t] THEN @ - 1 ELSE @]

tdq_load_add(q, t) ==
  [q EXCEPT !.load = @ + 1, !.sysload = IF t \in NoLoad THEN @ ELSE @ + 1]

tdq_load_rem(q, t) ==
  [q EXCEPT !.load = @ - 1, !.sysload = IF t \in NoLoad THEN @ ELSE @ - 1]

tdq_slice(sysload) ==
  IF sysload - 1 >= SCHED_SLICE_MIN_DIVISOR THEN sched_slice_min
  ELSE IF sysload - 1 <= 1 THEN sched_slice
  ELSE sched_slice \div (sysload - 1)

tdq_choose(q) ==
  LET r == runq_choose(q.rq["realtime"])
      b == runq_choose_from(q.rq["timeshare"], q.ridx)
  IN  IF r # NoThread THEN r
      ELSE IF b # NoThread THEN b
      ELSE runq_choose(q.rq["idle"])

\* Mutant for LowpriCovers: the running thread is forgotten.
tdq_setlowpri_QueueOnly(q) ==
  LET t == tdq_choose(q)
  IN  [q EXCEPT !.lowpri = IF t = NoThread THEN PRI_MAX_IDLE ELSE q.prio[t]]

tdq_setlowpri(q) ==
  LET t == tdq_choose(q)
  IN  [q EXCEPT !.lowpri = IF t = NoThread \/ q.prio[t] > CurPrio(q)
                           THEN CurPrio(q) ELSE q.prio[t]]

tdq_add(q, t, flags, rnd) ==
  tdq_load_add(tdq_runq_add(
    [q EXCEPT !.lowpri = IF q.prio[t] < @ THEN q.prio[t] ELSE @],
    t, flags, rnd), t)

sched_rem(q, t) ==
  LET q1 == [tdq_load_rem(tdq_runq_rem(q, t), t) EXCEPT !.state[t] = "off"]
  IN  IF q.prio[t] = q.lowpri THEN tdq_setlowpri(q1) ELSE q1

\* Mutant for QueueMembership: the chosen thread stays linked.
sched_choose_StillQueued(q, t) ==
  IF t = NoThread
  THEN [q EXCEPT !.lowpri = PRI_MAX_IDLE, !.cur = IdleThread]
  ELSE [q EXCEPT !.lowpri = q.prio[t], !.cur = t, !.state[t] = "running"]

\* choosethread: the thread t of tdq_choose leaves its queue and runs.
sched_choose(q, t) ==
  IF t = NoThread
  THEN [q EXCEPT !.lowpri = PRI_MAX_IDLE, !.cur = IdleThread]
  ELSE [tdq_runq_rem(q, t) EXCEPT !.lowpri = q.prio[t], !.cur = t,
                                  !.state[t] = "running"]

sched_setpreempt(q, t) ==
  [q EXCEPT !.needresched = @ \/ q.prio[t] < CurPrio(q),
            !.owepreempt = @ \/ sched_shouldpreempt(q.prio[t], CurPrio(q), FALSE)]

\* woken: the idle loop, or the machine's idle wakeup, needs no IPI.
tdq_notify(q, t, woken) ==
  IF /\ ~ q.ipipending
     /\ sched_shouldpreempt(q.prio[t], CurPrio(q), TRUE)
     /\ ~ (q.cur = IdleThread /\ woken)
  THEN [q EXCEPT !.ipipending = TRUE, !.ipi = TRUE] ELSE q
-----------------------------------------------------------------------------
(* sched_switch.                                                           *)

\* Its first lines: the flags of the outgoing thread are spent.
ClearFlags(q) ==
  [q EXCEPT !.needresched = FALSE, !.sliceend = FALSE, !.owepreempt = FALSE]

\* The outgoing thread can still run (or is the idle thread) and stays here.
Requeued(q, preempt, rnd) ==
  LET preempted == ~ q.sliceend /\ preempt
      flags == {"OURSELF", "YIELDING"} \cup IF preempted THEN {"PREEMPTED"} ELSE {}
  IN  IF q.cur = IdleThread THEN ClearFlags(q)
      ELSE tdq_runq_add(ClearFlags(q), q.cur, flags, rnd)

\* The last lines: the next thread runs.
RunNext(q) == \E t \in {tdq_choose(q)} : s' = sched_choose(q, t)

SwitchRunnable(q, preempt) ==
  \E rnd \in Rnd : \E q1 \in {Requeued(q, preempt, rnd)} : RunNext(q1)

\* Mutant for LoadExact: the load keeps counting the thread.
SwitchLeave_KeepLoad(q) == [ClearFlags(q) EXCEPT !.state[q.cur] = "off"]

\* It sleeps, exits or moves to another processor: its load leaves first.
SwitchLeave(q) == [tdq_load_rem(ClearFlags(q), q.cur) EXCEPT !.state[q.cur] = "off"]

\* This processor's code runs: not between the two halves of a switch.
Here == s.leaving = "no"

Running == Here /\ s.cur # IdleThread

(* The reasons to switch. *)

\* Return to user mode with TDF_NEEDRESCHED set (ast() in trap.c).
Ast ==
  /\ Running /\ s.needresched
  /\ SwitchRunnable(s, FALSE)

\* The last critical section ends with td_owepreempt set.
CriticalExit ==
  /\ Here /\ s.owepreempt
  /\ SwitchRunnable(s, TRUE)

SchedRelinquish ==
  /\ Running
  /\ SwitchRunnable(s, FALSE)

\* The handler of IPI_PREEMPT, whoever sent it; the first outcome is the
\* nested one, when it interrupted a critical section.
SchedPreempt ==
  LET q == [s EXCEPT !.ipipending = FALSE, !.ipi = FALSE]
  IN  /\ Here /\ s.ipi
      /\ IF CurPrio(q) > q.lowpri
         THEN \/ s' = [q EXCEPT !.owepreempt = TRUE]
              \/ SwitchRunnable(q, TRUE)
         ELSE s' = q

\* The idle thread sees load and switches to it.
IdleSwitch ==
  /\ Here /\ s.cur = IdleThread /\ s.load > 0
  /\ SwitchRunnable(s, FALSE)

\* The running thread sleeps; an empty queue makes the processor look for a
\* thread to steal with the tdq lock dropped.
SwitchSleep ==
  LET q == SwitchLeave(s)
  IN  /\ Running
      /\ IF q.load = 0 THEN s' = [q EXCEPT !.leaving = "steal"] ELSE RunNext(q)

\* The running thread has exited.
SchedThrow ==
  /\ Running
  /\ RunNext([SwitchLeave(s) EXCEPT !.pinned[s.cur] = FALSE])

\* A binding or a cpuset sends the running thread to another processor; it is
\* unbound again before it can come back.
SchedMigrate ==
  /\ Running
  /\ s' = [SwitchLeave(s) EXCEPT !.leaving = "migrate", !.pinned[s.cur] = FALSE]

\* The second half: the lock is held again and the next thread is chosen.
SwitchFinish ==
  /\ s.leaving # "no"
  /\ RunNext([s EXCEPT !.leaving = "no"])

\* Mutant for OneRunning: the running thread is woken again.
Off_OrRunning(t) == s.state[t] # "runq"

\* A thread that can come to this queue: not the one leaving.
Off(t) == s.state[t] = "off" /\ t # s.cur

\* tdq_trysteal found a thread, and none was added meanwhile.
SwitchFinishStolen(t) ==
  /\ s.leaving = "steal" /\ s.load = 0 /\ Off(t) /\ ~ s.pinned[t]
  /\ \E rnd \in Rnd :
       \E q \in {tdq_add([s EXCEPT !.leaving = "no"], t, {"YIELDING"}, rnd)} : RunNext(q)
-----------------------------------------------------------------------------
(* Threads coming and going.                                                *)

\* sched_add by code running on this processor, in sched_wakeup and others.
AddHere(q, t, flags, rnd) == sched_setpreempt(tdq_add(q, t, flags, rnd), t)

\* The same by another processor that picked this one.
AddRemote(q, t, flags, rnd, woken) == tdq_notify(tdq_add(q, t, flags, rnd), t, woken)

SchedWakeup(t) ==
  /\ Off(t)
  /\ LET q == [s EXCEPT !.slice[t] = 0]
     IN \E rnd \in Rnd :
          \/ Here /\ s' = AddHere(q, t, {}, rnd)
          \/ \E woken \in BOOLEAN : s' = AddRemote(q, t, {}, rnd, woken)

\* The running thread creates t, which starts with most of a slice used.
SchedFork(t) ==
  /\ Running /\ Off(t) /\ ~ s.pinned[t]
  /\ LET q == [s EXCEPT !.slice[t] = tdq_slice(s.sysload) - sched_slice_min]
     IN \E rnd \in Rnd : s' = AddHere(q, t, {}, rnd)

\* tdq_move from another processor's queue: by this idle processor's
\* tdq_idled (then it switches at once) or by the balancer elsewhere.
StealByIdle(t) ==
  /\ Here /\ s.cur = IdleThread /\ s.load = 0 /\ Off(t) /\ ~ s.pinned[t]
  /\ \E rnd \in Rnd : \E q \in {tdq_add(s, t, {"YIELDING"}, rnd)} : SwitchRunnable(q, FALSE)

BalanceIn(t) ==
  /\ Off(t) /\ ~ s.pinned[t]
  /\ \E rnd \in Rnd :
       \/ Here /\ s' = tdq_add(s, t, {"YIELDING"}, rnd)
       \/ \E woken \in BOOLEAN : s' = AddRemote(s, t, {"YIELDING"}, rnd, woken)

(* Another processor's sched_switch sends its running thread here, by the    *)
(* thread's binding or cpuset (sched_switch_migrate).                        *)

\* A free thread was preempted there before the end of its slice; only a more
\* important thread preempts.  Its lock is blocked from here to MigrateIn.
PreemptedElsewhere(t) ==
  /\ Off(t) /\ ~ s.pinned[t]
  /\ \E p \in Prio : p < s.prio[t]
  /\ s' = [s EXCEPT !.state[t] = "inbound"]

\* It arrives with the flags its sched_switch computed.
MigrateIn(t) ==
  /\ s.state[t] = "inbound"
  /\ \E rnd \in Rnd, woken \in BOOLEAN :
       s' = AddRemote(s, t, {"OURSELF", "YIELDING", "PREEMPTED"}, rnd, woken)

\* One that was not preempted arrives, bound to this processor or not.
YieldIn(t) ==
  /\ Off(t) /\ ~ s.pinned[t]
  /\ \E bound \in BOOLEAN, rnd \in Rnd, woken \in BOOLEAN :
       s' = AddRemote([s EXCEPT !.pinned[t] = bound], t, {"OURSELF", "YIELDING"},
                      rnd, woken)

\* sched_rem took t off another processor's queue, and sched_add chose this
\* one: sched_thread_priority made t more important, or sched_affinity.
RequeuedIn(t) ==
  /\ Off(t) /\ ~ s.pinned[t]
  /\ \E p \in Prio, flags \in {{}, {"BORROWING"}}, rnd \in Rnd :
       LET q == [s EXCEPT !.prio[t] = p]
       IN  /\ IF flags = {} THEN p = s.prio[t] ELSE p < s.prio[t]
           /\ \/ Here /\ s' = AddHere(q, t, flags, rnd)
              \/ \E woken \in BOOLEAN : s' = AddRemote(q, t, flags, rnd, woken)

CanSteal(q, t) == ~ q.pinned[t] /\ t \notin Affine

\* The positions of rq from queue i on, and the first of a set of them.
Slots(rq, i) == {a \in Index \X (1 .. Cardinality(Thread)) :
                   a[1] >= i /\ a[2] <= Len(rq.rq_queues[a[1]])}
At(rq, slot) == rq.rq_queues[slot[1]][slot[2]]
Before(a, b) == a[1] < b[1] \/ (a[1] = b[1] /\ a[2] <= b[2])
FirstSlot(slots) == CHOOSE a \in slots : \A b \in slots : Before(a, b)

runq_steal(q, c) ==
  LET ok == {a \in Slots(q.rq[c], 0) : CanSteal(q, At(q.rq[c], a))}
  IN  IF ok = {} THEN NoThread ELSE At(q.rq[c], FirstSlot(ok))

\* The scan from start wraps around once.  The very first thread it meets is
\* passed over, and taken only when it was the only one met.
runq_steal_from(q, c, start) ==
  LET rq    == q.rq[c]
      pass1 == Slots(rq, start)
      pass2 == IF start = 0 THEN {} ELSE Slots(rq, 0)
      skip1 == IF pass1 = {} THEN {} ELSE {FirstSlot(pass1)}
      skip2 == IF pass1 = {} /\ pass2 # {} THEN {FirstSlot(pass2)} ELSE {}
      Ok(slots) == {a \in slots : CanSteal(q, At(rq, a))}
      only  == IF Cardinality(pass1) + Cardinality(pass2) = 1
               THEN Ok(pass1 \cup pass2) ELSE {}
  IN  IF Ok(pass1 \ skip1) # {} THEN At(rq, FirstSlot(Ok(pass1 \ skip1)))
      ELSE IF Ok(pass2 \ skip2) # {} THEN At(rq, FirstSlot(Ok(pass2 \ skip2)))
      ELSE IF only # {} THEN At(rq, FirstSlot(only))
      ELSE NoThread

tdq_steal(q) ==
  LET r == runq_steal(q, "realtime")
      b == runq_steal_from(q, "timeshare", q.ridx)
  IN  IF r # NoThread THEN r ELSE IF b # NoThread THEN b
      ELSE runq_steal(q, "idle")

\* tdq_move to another processor, which saw transferable threads here.
StolenAway ==
  LET t == tdq_steal(s)
  IN  /\ s.transferable # 0 /\ t # NoThread
      /\ s' = sched_rem(s, t)
-----------------------------------------------------------------------------
(* Priorities, ticks and binding.                                           *)

\* Mutant for ClassOfQueue: the comparison is the wrong way round.
MustRequeue_Worse(t, p) == s.state[t] = "runq" /\ p > s.prio[t]

\* A queued thread that becomes more important is removed and added again.
MustRequeue(t, p) == s.state[t] = "runq" /\ p < s.prio[t]

\* The thread lock is blocked while sched_switch moves the thread or looks for
\* another one: nobody changes the thread meanwhile.
Blocked(t) == s.state[t] = "inbound" \/ (t = s.cur /\ ~ Here)

\* sched_thread_priority, for sched_prio, sched_lend_prio, sched_unlend_prio.
\* The thread that MustRequeue is queued on a processor of sched_add's choice.
SetPriority(t, p) ==
  LET q1 == [s EXCEPT !.prio[t] = p]
      qr == [sched_rem(s, t) EXCEPT !.prio[t] = p]
      q2 == [q1 EXCEPT !.lowpri = p]
  IN  /\ ~ Blocked(t) /\ p # s.prio[t]
      /\ IF MustRequeue(t, p)
         THEN \/ \E rnd \in Rnd :
                   \/ Here /\ s' = AddHere(qr, t, {"BORROWING"}, rnd)
                   \/ \E woken \in BOOLEAN :
                        s' = AddRemote(qr, t, {"BORROWING"}, rnd, woken)
              \/ CanSteal(s, t) /\ s' = qr
         ELSE IF s.state[t] = "running"
         THEN s' = IF p < s.lowpri THEN q2
                   ELSE IF s.lowpri = s.prio[t] THEN tdq_setlowpri(q1) ELSE q1
         ELSE s' = q1

\* Return to user mode: the user priority replaces a kernel one.
SchedUserret(p) ==
  /\ Running /\ p # s.prio[s.cur]
  /\ s' = tdq_setlowpri([s EXCEPT !.prio[s.cur] = p])

SchedBind ==
  /\ Running /\ ~ s.pinned[s.cur]
  /\ s' = [s EXCEPT !.pinned[s.cur] = TRUE]

SchedUnbind ==
  /\ Running /\ s.pinned[s.cur]
  /\ s' = [s EXCEPT !.pinned[s.cur] = FALSE]

\* Mutant for TypeOK: the index runs past the last queue.
NextIdx_NoWrap(i) == i + 1

NextIdx(i) == (i + 1) % RQ_NQS

\* Mutant for RotationWindow: the insert index never waits.
Rotate_EveryTick(q) == [q EXCEPT !.idx = NextIdx(@)]

\* The insert index advances once the remove index has caught up with it.
Rotate(q) ==
  IF q.idx # q.ridx THEN q
  ELSE [q EXCEPT !.idx = NextIdx(@),
                 !.ridx = IF q.rq["timeshare"].rq_queues[@] = <<>>
                          THEN NextIdx(@) ELSE @]

\* One stathz tick: the indices rotate and the slice is charged.
SchedClock ==
  LET q == Rotate(s)
      spent == q.slice[q.cur] + 1 >= tdq_slice(q.sysload)
  IN  /\ Here
      /\ s' = IF q.cur = IdleThread THEN q
              ELSE IF spent
              THEN [q EXCEPT !.slice[q.cur] = 0, !.needresched = TRUE,
                             !.sliceend = TRUE]
              ELSE [q EXCEPT !.slice[q.cur] = @ + 1]

\* The cpuset of t changes and leaves this processor out.  A queued thread is
\* removed and added again, here only if it is pinned; the running one is made
\* to switch, with an IPI that tdq_ipipending does not know of if t is not self.
SchedAffinity(t) ==
  /\ t \notin Affine
  /\ \/ /\ s.state[t] = "runq"
        /\ LET q == sched_rem(s, t)
           IN  IF ~ s.pinned[t] THEN s' = q
               ELSE \E rnd \in Rnd :
                      \/ Here /\ s' = AddHere(q, t, {}, rnd)
                      \/ \E woken \in BOOLEAN : s' = AddRemote(q, t, {}, rnd, woken)
     \/ /\ Running /\ s.cur = t
        /\ \E self \in BOOLEAN :
             s' = [s EXCEPT !.needresched = TRUE, !.ipi = @ \/ ~ self]
-----------------------------------------------------------------------------
Next ==
  \/ Ast \/ CriticalExit \/ SchedRelinquish \/ SchedPreempt \/ IdleSwitch
  \/ SwitchSleep \/ SchedThrow \/ SchedMigrate \/ SwitchFinish
  \/ SchedBind \/ SchedUnbind \/ SchedClock \/ StolenAway
  \/ \E t \in Thread : \/ SwitchFinishStolen(t) \/ SchedWakeup(t) \/ SchedFork(t)
                       \/ StealByIdle(t) \/ BalanceIn(t) \/ PreemptedElsewhere(t)
                       \/ MigrateIn(t) \/ YieldIn(t) \/ RequeuedIn(t)
                       \/ SchedAffinity(t)
                       \/ \E p \in Prio : SetPriority(t, p)
  \/ \E p \in Prio : SchedUserret(p)

Spec == Init /\ [][Next]_vars

\* The clock ticks and an IPI arrives, held up only while interrupts are off
\* in the middle of a switch; a thread asked to reschedule returns to user
\* mode, the idle thread loops, a switch completes.
Fairness ==
  /\ SF_vars(SchedClock) /\ SF_vars(SchedPreempt)
  /\ WF_vars(Ast) /\ WF_vars(CriticalExit)
  /\ WF_vars(IdleSwitch) /\ WF_vars(SwitchFinish)

FairSpec == Spec /\ Fairness
-----------------------------------------------------------------------------
(* What must hold.                                                          *)

\* The queue, the indices, the counters and the threads have their types.
TypeOK == s \in CpuState

\* A status bit is set exactly for the queues that hold a thread: runq_choose
\* trusts the bits and takes the head without looking (its KASSERT).
StatusMatchesQueues ==
  \A c \in Class, i \in Index :
    i \in s.rq[c].rq_status <=> s.rq[c].rq_queues[i] # <<>>

\* A thread is linked into the one queue that ts_runq and td_rqindex name
\* while it is TD_ON_RUNQ, into none otherwise, and never twice: the place
\* runq_remove_idx looks for it at, whatever changed since it was queued.
QueueMembership ==
  \A c \in Class, i \in Index :
    LET q == s.rq[c].rq_queues[i]
    IN  /\ IsInjective(q)
        /\ \A t \in Thread :
             t \in ToSet(q) <=> /\ s.state[t] = "runq"
                               /\ s.runq[t] = c /\ s.rqindex[t] = i

\* One thread runs, and it is the one the processor names: the others are
\* queued or off.  In the middle of a switch nothing runs.
OneRunning ==
  \A t \in Thread : s.state[t] = "running" <=> (s.cur = t /\ s.leaving = "no")

\* tdq_load counts the running thread and the queued ones, and tdq_sysload
\* those of them without TDF_NOLOAD: neither misses one on any path through
\* sched_switch, or cpus would idle with work queued.
LoadExact ==
  LET here == {t \in Thread : s.state[t] \in {"runq", "running"}}
  IN  s.load = Cardinality(here) /\ s.sysload = Cardinality(here \ NoLoad)

\* tdq_transferable counts the queued threads another processor may take.
TransferableExact ==
  s.transferable = Cardinality({t \in Thread : s.state[t] = "runq" /\ ~ s.pinned[t]})

\* The insert index is at most one queue ahead of the remove index, the "one
\* slot difference between idx and ridx while we wait for threads to drain".
RotationWindow == s.idx \in {s.ridx, (s.ridx + 1) % RQ_NQS}

\* KASSERTs of tdq_choose: lowering a queued thread's priority never leaves a
\* thread on a queue that promises a worse class than it has.
ClassOfQueue ==
  \A t \in Thread :
    /\ s.runq[t] = "timeshare" => s.prio[t] >= PRI_MIN_BATCH
    /\ s.runq[t] = "idle" => s.prio[t] >= PRI_MIN_IDLE

\* tdq_lowpri, which other processors and sched_preempt read without more, is
\* never less important than the running thread.
LowpriCovers == Here => s.lowpri <= CurPrio(s)

\* While the queue at ridx drains it gains only a thread preempted before its
\* slice ended, here or on the processor that sends it, or one made more
\* important; every other thread, stolen, woken or new, goes to another queue.
DrainingQueueShrinks ==
  [][s.idx # s.ridx /\ s'.ridx = s.ridx =>
       LET q  == ToSet(s.rq["timeshare"].rq_queues[s.ridx])
           q1 == ToSet(s'.rq["timeshare"].rq_queues[s.ridx])
       IN  \A t \in q1 \ q : \/ s.cur = t /\ ~ s.sliceend
                            \/ s.state[t] = "inbound"
                            \/ s'.prio[t] < s.prio[t]]_vars

\* Every thread that must stay on this processor leaves the timeshare queue,
\* while only timeshare threads exist and the others come, go, are stolen or
\* requeued: the rotation gives "all threads a chance to run" (sched_clock).
TimeshareProgress ==
  \A t \in Affine : s.runq[t] = "timeshare" ~> s.runq[t] # "timeshare"
=============================================================================
