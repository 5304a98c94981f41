------------------------------- MODULE UleSmp -------------------------------
(***************************************************************************)
(* ULE on several processors (sched_ule.c): waking a thread on another      *)
(* processor and telling it (sched_add, tdq_notify), the idle thread        *)
(* (sched_idletd, tdq_idled), stealing on the way to idle (tdq_trysteal),   *)
(* moving threads for balance, binding and affinity, and the locks of two   *)
(* thread queues.  What one thread queue does by itself is in Tdq; here it  *)
(* is a set of threads, of which the most important runs next.              *)
(*                                                                         *)
(* What is done under one lock is one action.  A processor that holds the   *)
(* lock of another, or spins for two, is between actions.  The two words    *)
(* that are written and read without a lock, tdq_cpu_idle and tdq_load, may *)
(* stay in the writer's store buffer until its next fence.                  *)
(***************************************************************************)
EXTENDS Integers, FiniteSets, FiniteSetsExt

CONSTANTS
  Cpu,         \* processors, in the order of the addresses of their queues
  Thread,
  Choosy,      \* threads that are bound, or given another cpuset, while the model runs
  Prio,        \* td_priority of each thread
  PRI_MAX_INTERACT, PRI_MIN_IDLE, PRI_MAX_IDLE,
  steal_thresh

Idle == "idle"    \* the idle thread of a processor

ASSUME UleSmpAssumption ==
  /\ Cpu \subseteq Nat /\ 0 \in Cpu
  /\ IsFiniteSet(Thread) /\ Choosy \subseteq Thread /\ Idle \notin Thread
  /\ PRI_MAX_INTERACT \in Nat /\ PRI_MIN_IDLE \in Nat /\ PRI_MAX_IDLE \in Nat
  /\ PRI_MIN_IDLE <= PRI_MAX_IDLE /\ Prio \in [Thread -> 0 .. PRI_MAX_IDLE]
  /\ steal_thresh \in Nat

Nobody == -1

VARIABLES
  cur,     \* pc_curthread
  queue,   \* the threads in the run queues of a tdq
  load,    \* tdq_load
  late,    \* the last addition to tdq_load is not visible to others yet
  idle,    \* tdq_cpu_idle
  lateIdle,\* it is set, but that is not visible to others yet
  ipi,     \* tdq_ipipending, with the interrupt on its way
  lock,    \* who holds tdq_lock over several actions
  ts_cpu, mask, bound,  \* of a thread: ts_cpu, td_cpuset, TSF_BOUND and td_pinned
  ipc,     \* where the idle thread of a processor is
  tried,   \* not in mask of tdq_idled: processors that had nothing for this one
  victim,  \* and the processor it found
  h        \* what a processor does with interrupts off

vars == <<cur, queue, load, late, idle, lateIdle, ipi, lock, ts_cpu, mask, bound, ipc,
          tried, victim, h>>

Nothing == [pc |-> "none", op |-> "none", td |-> Idle, to |-> Nobody,
            high |-> Nobody, hmask |-> {}, lmask |-> {}, anylow |-> TRUE]

Init ==
  /\ cur = [c \in Cpu |-> Idle]
  /\ queue = [c \in Cpu |-> {}] /\ load = [c \in Cpu |-> 0]
  /\ late = [c \in Cpu |-> FALSE]
  /\ idle = [c \in Cpu |-> FALSE] /\ lateIdle = [c \in Cpu |-> FALSE]
  /\ ipi = [c \in Cpu |-> FALSE] /\ lock = [c \in Cpu |-> Nobody]
  /\ ts_cpu = [t \in Thread |-> 0]
  /\ mask = [t \in Thread |-> Cpu] /\ bound = [t \in Thread |-> FALSE]
  /\ ipc = [c \in Cpu |-> "loop"] /\ tried = [c \in Cpu |-> {}]
  /\ victim = [c \in Cpu |-> Nobody]
  /\ h = [c \in Cpu |-> Nothing]

queueVars  == <<queue, load, late>>
flagVars   == <<idle, lateIdle, ipi>>
threadVars == <<ts_cpu, mask, bound>>
idleVars   == <<ipc, tried, victim>>

pri(t) == IF t = Idle THEN PRI_MAX_IDLE ELSE Prio[t]

\* pc_curthread is on its way off this processor.
Leaving(c) == h[c].op \in {"try", "migrate"}
Runs(c, t) == cur[c] = t /\ ~Leaving(c)

\* Neither running nor queued nor on its way to a queue.
Off(t) == \A c \in Cpu : cur[c] # t /\ t \notin queue[c] /\ h[c].td # t

THREAD_CAN_MIGRATE(t)  == ~bound[t]
THREAD_CAN_SCHED(t, c) == c \in mask[t]

transferable(c) == Cardinality({t \in queue[c] : THREAD_CAN_MIGRATE(t)})
lowpri(c)       == Min({pri(t) : t \in queue[c] \cup {cur[c]}})

\* tdq_load as another processor may read it without the lock.
Seen(c) == IF late[c] THEN {load[c], load[c] - 1} ELSE {load[c]}
-----------------------------------------------------------------------------
(* Choosing a processor, with unlocked reads.  The topology is one group;   *)
(* sched_random breaks ties.                                                *)

\* sched_highest: the processors with the highest load that have a thread to give.
sched_highest(among, minload) ==
  LET fit == {c \in among : load[c] >= minload /\ transferable(c) > 0}
  IN  {c \in fit : \A d \in fit : load[d] <= load[c]}

\* sched_lowest: of the processors that run nothing better than p, one with the
\* lowest load, and of those the preferred one.
sched_lowest(among, p, maxload, prefer) ==
  LET fit   == {c \in among : lowpri(c) > p /\ load[c] <= maxload}
      least == {c \in fit : \A d \in fit : load[c] <= load[d]}
  IN  IF prefer \in least THEN {prefer} ELSE least

\* sched_pickcpu, on processor self: the choices there are.  Whether the thread's
\* affinity to its last processor has expired is a matter of time.
sched_pickcpu(t, self) ==
  LET last   == ts_cpu[t]
      better == sched_lowest(mask[t], pri(t), Cardinality(Thread), last)
      any    == sched_lowest(mask[t], -1, Cardinality(Thread), last)
      lowest == IF better # {} THEN better ELSE any
      here(c) == /\ THREAD_CAN_SCHED(t, self) /\ lowpri(self) > pri(t)
                 /\ lowpri(c) < PRI_MIN_IDLE /\ load[self] <= load[c] + 1
  IN  IF ~THREAD_CAN_MIGRATE(t) THEN {last}
      ELSE {IF here(c) THEN self ELSE c : c \in lowest}
           \cup {c \in mask[t] : c = last /\ lowpri(c) >= PRI_MIN_IDLE}
-----------------------------------------------------------------------------
(* Locks.                                                                   *)

\* A processor takes handlers and interrupts only between those it began.
Open(c) == h[c].pc = "none"

\* A single action with the queue's lock.
Unlocked(c) == lock[c] = Nobody

\* The two queues of a lock pair, in the order of the arguments.
One(c) == IF h[c].op = "balance" THEN h[c].high ELSE IF h[c].op = "migrate" THEN h[c].to ELSE c
Two(c) == IF h[c].op = "migrate" THEN c ELSE h[c].to

\* tdq_lock_pair: the queue at the lower address first.
\* Mutant for NoDeadlyEmbrace: in the order of the arguments.
First_AsGiven(one, two) == one
First(one, two) == Min({one, two})

LockOne(c) ==
  LET a == First(One(c), Two(c))
  IN  /\ h[c].pc = "lock_one" /\ Unlocked(a)
      /\ lock' = [lock EXCEPT ![a] = c]
      /\ h' = [h EXCEPT ![c].pc = "lock_two"]
      /\ UNCHANGED <<cur, queueVars, flagVars, threadVars, idleVars>>

LockTwo(c) ==
  LET a == First(One(c), Two(c))
      b == CHOOSE x \in {One(c), Two(c)} : x # a
  IN  /\ h[c].pc = "lock_two" /\ Unlocked(b)
      /\ lock' = [lock EXCEPT ![b] = c]
      /\ h' = [h EXCEPT ![c].pc = "both"]
      /\ UNCHANGED <<cur, queueVars, flagVars, threadVars, idleVars>>

Released(c) == [d \in Cpu |-> IF lock[d] = c THEN Nobody ELSE lock[d]]
-----------------------------------------------------------------------------
(* Switching threads and moving them.                                       *)

\* choosethread: the most important of the threads queued, or the idle thread.
Best(q, c) ==
  IF q[c] = {} THEN {Idle} ELSE {t \in q[c] : \A u \in q[c] : pri(t) <= pri(u)}

\* The end of sched_switch: processor c runs a thread of its queue.
Switches(c, q) ==
  \E t \in Best(q, c) :
    cur' = [cur EXCEPT ![c] = t] /\ queue' = [q EXCEPT ![c] = @ \ {t}]

\* tdq_steal: the threads that may go from one processor to another.  It may
\* also miss one behind one that may not.
\* Mutant for AffinityKept: the cpuset of the thread is not looked at.
Stealable_Anywhere(from, to) == {t \in queue[from] : THREAD_CAN_MIGRATE(t)}
Stealable(from, to) ==
  {t \in queue[from] : THREAD_CAN_MIGRATE(t) /\ THREAD_CAN_SCHED(t, to)}
NoneStolen(from, to) == Stealable(from, to) # queue[from] \/ queue[from] = {}

\* tdq_move.
\* Mutant for EachThreadOnce: the thread is not told.
ToldCpu_Old(t, to) == ts_cpu
ToldCpu(t, to) == [ts_cpu EXCEPT ![t] = to]
MovedQueue(t, from, to) == [queue EXCEPT ![from] = @ \ {t}, ![to] = @ \cup {t}]
Moves(t, from, to) ==
  /\ load' = [load EXCEPT ![from] = @ - 1, ![to] = @ + 1]
  /\ ts_cpu' = ToldCpu(t, to)

\* What was found without the lock no longer holds.
Stale(v) == load[v] < steal_thresh \/ transferable(v) = 0
-----------------------------------------------------------------------------
(* Telling another processor.                                               *)

\* sched_shouldpreempt for another processor, with preemption for nothing but
\* interactive threads.
sched_shouldpreempt(p, cp) ==
  /\ p < cp
  /\ cp >= PRI_MIN_IDLE \/ (p <= PRI_MAX_INTERACT /\ cp > PRI_MAX_INTERACT)

\* The first half of tdq_notify: is there a reason to tell d?
tdq_notify(d, t) == ~ipi[d] /\ sched_shouldpreempt(pri(t), pri(cur[d]))

\* The fence.  Mutant for NoSleepOnWork: there is none.
Fence_None(l) == l
Fence(l) == FALSE

NotifyFence(c) ==
  /\ h[c].pc = "fence"
  /\ late' = [late EXCEPT ![h[c].to] = Fence(@)]
  /\ h' = [h EXCEPT ![c].pc = "wake"]
  /\ UNCHANGED <<cur, queue, load, flagVars, threadVars, lock, idleVars>>

\* What follows tdq_notify in each of its callers, q being the queues with the
\* thread added.  A thread that migrates keeps its lock until this processor has
\* switched, so no other runs it before.
NotifyDone(c, q) ==
  CASE h[c].op = "add" ->
         /\ h' = [h EXCEPT ![c] = Nothing] /\ lock' = Released(c)
         /\ queue' = q /\ UNCHANGED cur
    [] h[c].op = "migrate" ->
         /\ h' = [h EXCEPT ![c] = Nothing] /\ lock' = Released(c)
         /\ Switches(c, q)
    [] h[c].op = "balance" ->
         /\ h' = [h EXCEPT ![c].pc = "high", ![c].td = Idle, ![c].to = Nobody,
                           ![c].high = Nobody, ![c].hmask = @ \ {h[c].to}]
         /\ lock' = Released(c) /\ queue' = q /\ UNCHANGED cur

\* The second half: an idle processor is woken through cpu_idle_wakeup if that
\* can be done, any other by an interrupt.
NotifyWake(c) ==
  LET d == h[c].to
  IN  /\ h[c].pc = "wake"
      /\ NotifyDone(c, queue)
      /\ late' = [late EXCEPT ![d] = FALSE]
      /\ \/ /\ cur[d] = Idle /\ (~idle[d] \/ lateIdle[d])
            /\ UNCHANGED <<ipi, ipc>>
         \/ /\ cur[d] = Idle /\ idle[d] /\ ~lateIdle[d]
            /\ ipc' = [ipc EXCEPT ![d] = IF @ = "asleep" THEN "clear" ELSE @]
            /\ UNCHANGED ipi
         \/ /\ cur[d] # Idle \/ (idle[d] /\ ~lateIdle[d])
            /\ ipi' = [ipi EXCEPT ![d] = TRUE]
            /\ UNCHANGED ipc
      /\ UNCHANGED <<load, idle, lateIdle, threadVars, tried, victim>>
-----------------------------------------------------------------------------
(* Handlers of any processor.                                               *)

Starts(c, op, t, d) == [h EXCEPT ![c] = [Nothing EXCEPT
   !.pc = IF op = "add" THEN "add" ELSE "lock_one", !.op = op, !.td = t, !.to = d]]

\* An interrupt ends the sleep in cpu_idle.
Interrupted(c) == [ipc EXCEPT ![c] = IF @ = "asleep" THEN "clear" ELSE @]

\* sched_wakeup by the running thread or an interrupt handler: sched_add picks
\* a processor with the thread's lock ...
SchedWakeup(c, t) ==
  /\ Open(c) /\ Off(t)
  /\ \E d \in sched_pickcpu(t, c) :
       /\ h' = Starts(c, "add", t, d)
       /\ ts_cpu' = [ts_cpu EXCEPT ![t] = d]
  /\ ipc' = Interrupted(c)
  /\ UNCHANGED <<cur, queueVars, flagVars, lock, mask, bound, tried, victim>>

\* ... adds the thread there with the lock of that queue, and tells a processor
\* other than its own.  Its own idle thread it preempts at once, for any thread
\* that is more important (sched_setpreempt).
SchedAdd(c) ==
  LET t == h[c].td
      d == h[c].to
      q == [queue EXCEPT ![d] = @ \cup {t}]
  IN  /\ h[c].pc = "add" /\ lock[d] \in {Nobody, c}
      /\ load' = [load EXCEPT ![d] = @ + 1]
      /\ \/ /\ d = c /\ h' = [h EXCEPT ![c] = Nothing] /\ lock' = Released(c)
            /\ IF cur[c] = Idle /\ pri(t) < PRI_MAX_IDLE
               THEN Switches(c, q) ELSE queue' = q /\ UNCHANGED cur
            /\ UNCHANGED late
         \/ /\ d # c /\ tdq_notify(d, t)
            /\ queue' = q /\ UNCHANGED cur
            /\ late' = [late EXCEPT ![d] = TRUE]
            /\ lock' = [lock EXCEPT ![d] = c]
            /\ h' = [h EXCEPT ![c].pc = "fence"]
         \/ /\ d # c /\ ~tdq_notify(d, t)
            /\ NotifyDone(c, q)
            /\ UNCHANGED late
      /\ UNCHANGED <<flagVars, threadVars, idleVars>>

\* sched_switch of thread t of processor c that stays runnable: it is queued here
\* or, when it is assigned elsewhere, migrates.
Requeued(c, t) ==
  /\ Switches(c, [queue EXCEPT ![c] = @ \cup {t}])
  /\ ts_cpu' = [ts_cpu EXCEPT ![t] = c]
  /\ UNCHANGED <<load, h>>

Migrates(c, t, d) ==
  /\ load' = [load EXCEPT ![c] = @ - 1]
  /\ ts_cpu' = [ts_cpu EXCEPT ![t] = d]
  /\ h' = Starts(c, "migrate", t, d)
  /\ UNCHANGED <<cur, queue>>

SwitchRunnable(c, t, ds) ==
  \/ c \in ds /\ Requeued(c, t)
  \/ \E d \in ds \ {c} : Migrates(c, t, d)

\* Where the running thread t is assigned to: elsewhere if it may no longer run here.
Assigned(c, t) ==
  IF THREAD_CAN_MIGRATE(t) /\ ~THREAD_CAN_SCHED(t, ts_cpu[t])
  THEN sched_pickcpu(t, c) ELSE {ts_cpu[t]}

\* mi_switch with a runnable thread, at the end of a slice, a preemption by a
\* thread added here, or a flag that sched_affinity set.
SchedSwitch(c) ==
  /\ Open(c) /\ cur[c] # Idle /\ Unlocked(c)
  /\ SwitchRunnable(c, cur[c], Assigned(c, cur[c]))
  /\ UNCHANGED <<late, flagVars, lock, mask, bound, idleVars>>

\* sched_preempt: the interrupt that tdq_notify sent.
SchedPreempt(c) ==
  /\ ipi[c] /\ Open(c) /\ Unlocked(c)
  /\ ipi' = [ipi EXCEPT ![c] = FALSE]
  /\ ipc' = Interrupted(c)
  /\ \/ /\ pri(cur[c]) > lowpri(c) /\ cur[c] # Idle
        /\ SwitchRunnable(c, cur[c], Assigned(c, cur[c]))
     \/ /\ pri(cur[c]) > lowpri(c) /\ cur[c] = Idle
        /\ Switches(c, queue) /\ UNCHANGED <<load, ts_cpu, h>>
     \/ /\ pri(cur[c]) <= lowpri(c)
        /\ UNCHANGED <<cur, queue, load, ts_cpu, h>>
  /\ UNCHANGED <<late, idle, lateIdle, lock, mask, bound, tried, victim>>

\* sched_switch_migrate: with both locks.
Migrate(c) ==
  LET t == h[c].td
      d == h[c].to
      q == [queue EXCEPT ![d] = @ \cup {t}]
  IN  /\ h[c].pc = "both" /\ h[c].op = "migrate"
      /\ load' = [load EXCEPT ![d] = @ + 1]
      /\ IF tdq_notify(d, t)
         THEN /\ h' = [h EXCEPT ![c].pc = "fence", ![c].td = Idle] /\ queue' = q
              /\ late' = [late EXCEPT ![d] = TRUE]
              /\ UNCHANGED <<cur, lock>>
         ELSE NotifyDone(c, q) /\ UNCHANGED late
      /\ UNCHANGED <<flagVars, threadVars, idleVars>>

\* sched_throw, or sched_switch of a thread that goes to sleep: with nothing left
\* to run it drops the lock of the queue to steal first.
SchedSleep(c) ==
  /\ Open(c) /\ cur[c] # Idle /\ Unlocked(c)
  /\ load' = [load EXCEPT ![c] = @ - 1]
  /\ \/ Switches(c, queue) /\ UNCHANGED h
     \/ /\ load[c] = 1 /\ UNCHANGED <<cur, queue>>
        /\ h' = [h EXCEPT ![c] = [Nothing EXCEPT !.pc = "search", !.op = "try"]]
  /\ UNCHANGED <<late, flagVars, lock, threadVars, idleVars>>

\* sched_bind of the running thread, and sched_unbind.
SchedBind(c) ==
  LET t == cur[c]
  IN  /\ Open(c) /\ t \in Choosy /\ Unlocked(c)
      /\ \/ /\ bound' = [bound EXCEPT ![t] = TRUE]
            /\ \/ UNCHANGED <<cur, queue, load, ts_cpu, h>>
               \/ \E d \in Cpu \ {c} : Migrates(c, t, d)
         \/ /\ bound[t] /\ bound' = [bound EXCEPT ![t] = FALSE]
            /\ UNCHANGED <<cur, queue, load, ts_cpu, h>>
      /\ UNCHANGED <<late, flagVars, lock, mask, idleVars>>

\* sched_affinity after a change of td_cpuset, with the thread's lock: a thread
\* that is queued where it may not be is taken off ...
SchedAffinity(c, t) ==
  /\ Open(c) /\ cur[c] # Idle
  /\ Off(t) \/ \E d \in Cpu : (Runs(d, t) \/ t \in queue[d]) /\ Unlocked(d)
  /\ \E m \in SUBSET Cpu \ {{}, mask[t]} :
       LET from == {d \in Cpu \ m : t \in queue[d]}
       IN /\ mask' = [mask EXCEPT ![t] = m]
          /\ queue' = [d \in Cpu |-> IF d \in from THEN queue[d] \ {t} ELSE queue[d]]
          /\ load' = [d \in Cpu |-> IF d \in from THEN load[d] - 1 ELSE load[d]]
          /\ lock' = [d \in Cpu |-> IF d \in from THEN c ELSE lock[d]]
          /\ h' = IF from = {} THEN h
                  ELSE [h EXCEPT ![c] = [Nothing EXCEPT !.pc = "readd", !.op = "add", !.td = t]]
  /\ UNCHANGED <<cur, late, flagVars, ts_cpu, bound, idleVars>>

\* ... and added again.
SchedReadd(c) ==
  LET t == h[c].td
  IN  /\ h[c].pc = "readd"
      /\ \E d \in sched_pickcpu(t, c) :
           /\ h' = Starts(c, "add", t, d)
           /\ ts_cpu' = [ts_cpu EXCEPT ![t] = d]
           /\ lock' = [e \in Cpu |-> IF lock[e] = c /\ e # d THEN Nobody ELSE lock[e]]
      /\ UNCHANGED <<cur, queueVars, flagVars, mask, bound, idleVars>>
-----------------------------------------------------------------------------
(* Stealing on the way to idle: tdq_trysteal.                               *)

Others(c) == Cpu \ {c}

\* Without a lock: is a victim worth the locks?
TrySearch(c) ==
  LET victims == sched_highest(Others(c), steal_thresh)
  IN  /\ h[c].pc = "search" /\ h[c].op = "try"
      /\ \/ \E n \in Seen(c) :
              /\ n > 0 \/ victims = {}
              /\ Unlocked(c)
              /\ h' = [h EXCEPT ![c] = Nothing] /\ Switches(c, queue)
         \/ \E v \in victims :
              /\ 0 \in Seen(c)
              /\ h' = [h EXCEPT ![c].pc = "lock_one", ![c].to = v]
              /\ UNCHANGED <<cur, queue>>
      /\ UNCHANGED <<load, late, flagVars, lock, threadVars, idleVars>>

\* With both locks: what was seen may have changed.
TrySteal(c) ==
  LET v == h[c].to
  IN  /\ h[c].pc = "both" /\ h[c].op = "try"
      /\ h' = [h EXCEPT ![c] = Nothing] /\ lock' = Released(c)
      /\ \/ /\ load[c] > 0 \/ Stale(v) \/ NoneStolen(v, c)
            /\ Switches(c, queue)
            /\ UNCHANGED <<load, late, ts_cpu>>
         \/ \E t \in Stealable(v, c) :
              /\ load[c] = 0 /\ ~Stale(v)
              /\ Moves(t, v, c) /\ UNCHANGED late
              /\ Switches(c, MovedQueue(t, v, c))
      /\ UNCHANGED <<flagVars, mask, bound, idleVars>>
-----------------------------------------------------------------------------
(* The idle thread: sched_idletd.                                           *)

IdleAt(c, step) == Open(c) /\ cur[c] = Idle /\ ipc[c] = step
GoesOn(c, step) == ipc' = [ipc EXCEPT ![c] = step]

\* The top of the loop: switch to a thread that was added, or look for one to
\* steal, or not if no thread has run since that was tried in vain.
IdleLoop(c) ==
  /\ IdleAt(c, "loop")
  /\ \/ /\ \E n \in Seen(c) : n > 0
        /\ Unlocked(c) /\ Switches(c, queue) /\ UNCHANGED idleVars
     \/ /\ 0 \in Seen(c) /\ UNCHANGED <<cur, queue>>
        /\ GoesOn(c, "search") \/ GoesOn(c, "rest")
        /\ UNCHANGED <<tried, victim>>
  /\ UNCHANGED <<load, late, flagVars, lock, threadVars, h>>

\* tdq_idled returns.
Idled(c) == tried' = [tried EXCEPT ![c] = {}]

\* tdq_idled without a lock.
IdleSearch(c) ==
  LET victims == sched_highest(Others(c) \ tried[c], steal_thresh)
  IN  /\ IdleAt(c, "search")
      /\ \/ /\ \E n \in Seen(c) : n > 0
            /\ GoesOn(c, "loop") /\ Idled(c) /\ UNCHANGED victim
         \/ /\ 0 \in Seen(c) /\ victims = {}
            /\ GoesOn(c, "rest") /\ Idled(c) /\ UNCHANGED victim
         \/ /\ 0 \in Seen(c)
            /\ \E v \in victims : victim' = [victim EXCEPT ![c] = v]
            /\ GoesOn(c, "pair") /\ UNCHANGED tried
      /\ UNCHANGED <<cur, queueVars, flagVars, lock, threadVars, h>>

IdleLock(c) ==
  /\ IdleAt(c, "pair")
  /\ h' = Starts(c, "idled", Idle, victim[c])
  /\ victim' = [victim EXCEPT ![c] = Nobody]
  /\ GoesOn(c, "search")
  /\ UNCHANGED <<cur, queueVars, flagVars, lock, threadVars, tried>>

\* tdq_idled with both locks: a thread was added here; or what was found is
\* stale, or this processor has run a thread since; or a thread can be moved; or
\* none may come here.
IdleSteal(c) ==
  LET v == h[c].to
  IN  /\ h[c].pc = "both" /\ h[c].op = "idled"
      /\ h' = [h EXCEPT ![c] = Nothing] /\ lock' = Released(c)
      /\ \/ /\ load[c] > 0
            /\ Switches(c, queue) /\ GoesOn(c, "loop") /\ Idled(c)
            /\ UNCHANGED <<load, late, ts_cpu>>
         \/ /\ load[c] = 0
            /\ UNCHANGED <<cur, queueVars, ts_cpu, ipc, tried>>
         \/ \E t \in Stealable(v, c) :
              /\ load[c] = 0 /\ ~Stale(v)
              /\ Moves(t, v, c) /\ Switches(c, MovedQueue(t, v, c))
              /\ UNCHANGED late
              /\ GoesOn(c, "loop") /\ Idled(c)
         \/ /\ load[c] = 0 /\ ~Stale(v) /\ NoneStolen(v, c)
            /\ tried' = [tried EXCEPT ![c] = @ \cup {v}]
            /\ UNCHANGED <<cur, queueVars, ts_cpu, ipc>>
      /\ UNCHANGED <<flagVars, mask, bound, victim>>

\* The processor is going to sleep: tdq_cpu_idle, the fence, a last look at the
\* load, and cpu_idle, which looks again with interrupts off (sched_runnable).
IdleRest(c) ==
  /\ IdleAt(c, "rest")
  /\ \/ GoesOn(c, "loop") /\ UNCHANGED <<idle, lateIdle>>
     \/ /\ 0 \in Seen(c) /\ GoesOn(c, "flag")
        /\ idle' = [idle EXCEPT ![c] = TRUE] /\ lateIdle' = [lateIdle EXCEPT ![c] = TRUE]
  /\ UNCHANGED <<cur, queueVars, ipi, lock, threadVars, tried, victim, h>>

IdleFence(c) ==
  /\ IdleAt(c, "flag")
  /\ lateIdle' = [lateIdle EXCEPT ![c] = Fence(@)]
  /\ GoesOn(c, "recheck")
  /\ UNCHANGED <<cur, queueVars, idle, ipi, lock, threadVars, tried, victim, h>>

IdleRecheck(c) ==
  /\ IdleAt(c, "recheck")
  /\ \/ \E n \in Seen(c) : n > 0 /\ GoesOn(c, "clear")
     \/ 0 \in Seen(c) /\ GoesOn(c, "halt")
  /\ UNCHANGED <<cur, queueVars, flagVars, lock, threadVars, tried, victim, h>>

CpuIdle(c) ==
  /\ IdleAt(c, "halt")
  /\ \/ \E n \in Seen(c) : n > 0 /\ GoesOn(c, "clear")
     \/ 0 \in Seen(c) /\ GoesOn(c, "asleep")
  /\ UNCHANGED <<cur, queueVars, flagVars, lock, threadVars, tried, victim, h>>

IdleClear(c) ==
  /\ IdleAt(c, "clear")
  /\ idle' = [idle EXCEPT ![c] = FALSE] /\ lateIdle' = [lateIdle EXCEPT ![c] = FALSE]
  /\ GoesOn(c, "loop")
  /\ UNCHANGED <<cur, queueVars, ipi, lock, threadVars, tried, victim, h>>
-----------------------------------------------------------------------------
(* The long-term balancer: sched_balance_group, on processor 0.             *)

SchedBalance(c) ==
  /\ c = 0 /\ Open(c) /\ Unlocked(c)
  /\ h' = [h EXCEPT ![c] = [Nothing EXCEPT !.pc = "high", !.op = "balance", !.hmask = Cpu]]
  /\ ipc' = Interrupted(c)
  /\ UNCHANGED <<cur, queueVars, flagVars, lock, threadVars, tried, victim>>

\* A donor: with no other left, the round ends.
BalanceHigh(c) ==
  LET highs == sched_highest(h[c].hmask, 2)
  IN  /\ h[c].pc = "high" /\ Unlocked(c)
      /\ \/ /\ \A d \in highs : h[c].hmask = {d}
            /\ h' = [h EXCEPT ![c] = Nothing]
         \/ \E d \in highs :
              /\ h[c].hmask # {d}
              /\ h' = [h EXCEPT ![c].pc = "low", ![c].high = d, ![c].anylow = TRUE,
                                ![c].hmask = @ \ {d}, ![c].lmask = h[c].hmask \ {d}]
      /\ UNCHANGED <<cur, queueVars, flagVars, lock, threadVars, idleVars>>

\* A receiver: with none at all the round ends, with none left the next donor.
BalanceLow(c) ==
  LET lows == sched_lowest(h[c].lmask, -1, load[h[c].high] - 1, h[c].high)
  IN  /\ h[c].pc = "low"
      /\ \/ /\ lows = {} /\ h[c].anylow /\ Unlocked(c)
            /\ h' = [h EXCEPT ![c] = Nothing]
         \/ /\ lows = {} /\ ~h[c].anylow
            /\ h' = [h EXCEPT ![c].pc = "high", ![c].high = Nobody, ![c].lmask = {}, ![c].anylow = TRUE]
         \/ \E d \in lows : h' = [h EXCEPT ![c].pc = "lock_one", ![c].to = d]
      /\ UNCHANGED <<cur, queueVars, flagVars, lock, threadVars, idleVars>>

\* sched_balance_pair with both locks.
BalancePair(c) ==
  LET high == h[c].high
      low  == h[c].to
      may  == transferable(high) > 0 /\ load[high] > load[low]
  IN  /\ h[c].pc = "both" /\ h[c].op = "balance"
      /\ \/ /\ ~may \/ NoneStolen(high, low)
            /\ h' = [h EXCEPT ![c].pc = "low", ![c].to = Nobody, ![c].anylow = FALSE,
                              ![c].lmask = @ \ {low}]
            /\ lock' = Released(c)
            /\ UNCHANGED <<cur, queueVars, ts_cpu>>
         \/ \E t \in Stealable(high, low) :
              /\ may /\ Moves(t, high, low)
              /\ IF low # c /\ tdq_notify(low, t)
                 THEN /\ queue' = MovedQueue(t, high, low)
                      /\ late' = [late EXCEPT ![low] = TRUE]
                      /\ h' = [h EXCEPT ![c].pc = "fence"]
                      /\ UNCHANGED <<cur, lock>>
                 ELSE NotifyDone(c, MovedQueue(t, high, low)) /\ UNCHANGED late
      /\ UNCHANGED <<flagVars, mask, bound, idleVars>>
-----------------------------------------------------------------------------
\* A store buffer is written back.
Drain ==
  /\ \E c \in Cpu :
       \/ late[c] /\ late' = [late EXCEPT ![c] = FALSE] /\ UNCHANGED lateIdle
       \/ lateIdle[c] /\ lateIdle' = [lateIdle EXCEPT ![c] = FALSE] /\ UNCHANGED late
  /\ UNCHANGED <<cur, queue, load, idle, ipi, lock, threadVars, idleVars, h>>

Next ==
  \/ \E c \in Cpu :
       \/ LockOne(c) \/ LockTwo(c) \/ NotifyFence(c) \/ NotifyWake(c)
       \/ \E t \in Thread : SchedWakeup(c, t)
       \/ \E t \in Choosy : SchedAffinity(c, t)
       \/ SchedAdd(c) \/ SchedReadd(c) \/ SchedPreempt(c) \/ SchedSwitch(c) \/ Migrate(c)
       \/ SchedSleep(c) \/ SchedBind(c)
       \/ TrySearch(c) \/ TrySteal(c)
       \/ IdleLoop(c) \/ IdleSearch(c) \/ IdleLock(c) \/ IdleSteal(c) \/ IdleRest(c) \/ IdleFence(c)
       \/ IdleRecheck(c) \/ CpuIdle(c) \/ IdleClear(c)
       \/ SchedBalance(c) \/ BalanceHigh(c) \/ BalanceLow(c) \/ BalancePair(c)
  \/ Drain

Spec == Init /\ [][Next]_vars
-----------------------------------------------------------------------------
\* Properties.

\* There is a thread in queue q that is more important than the idle thread.
HasWork(q) == \E t \in q : pri(t) < PRI_MAX_IDLE

\* No processor sleeps in cpu_idle with such a thread queued, unless the interrupt
\* is on its way or tdq_notify is about to see tdq_cpu_idle: the fences of
\* tdq_notify and sched_idletd order the two unlocked accesses.  For a thread of
\* priority PRI_MAX_IDLE the code sends nothing: it waits for the next interrupt.
NoSleepOnWork ==
  \A c \in Cpu : cur[c] = Idle /\ ipc[c] = "asleep" /\ HasWork(queue[c]) =>
    ipi[c] \/ \E d \in Cpu : h[d].pc \in {"fence", "wake"} /\ h[d].to = c

\* Whatever is woken, stolen, balanced and migrated at once, a thread is in one
\* place, the one where sched_rem and tdq_notify will look (ts_cpu), and tdq_load
\* of a processor is the number of the threads that it has.
EachThreadOnce ==
  /\ \A c \in Cpu :
       load[c] = Cardinality({t \in Thread : t \in queue[c] \/ Runs(c, t)})
  /\ \A c \in Cpu : \A t \in queue[c] :
       ts_cpu[t] = c /\ \A d \in Cpu : ~Runs(d, t) /\ (t \in queue[d] => d = c)
  /\ \A c, d \in Cpu, t \in Thread : Runs(c, t) /\ Runs(d, t) => c = d

\* Two processors that take the same two queues never hold one each.
NoDeadlyEmbrace ==
  \A c, d \in Cpu :
    c # d /\ h[c].pc = "lock_two" /\ h[d].pc = "lock_two" =>
      {One(c), Two(c)} # {One(d), Two(d)}

\* A thread waits only on a processor its cpuset allows, or where it is bound,
\* though sched_affinity, sched_bind, tdq_steal and sched_pickcpu each look at it
\* at another time.
AffinityKept ==
  \A c \in Cpu : \A t \in queue[c] : c \in mask[t] \/ bound[t]
=============================================================================
