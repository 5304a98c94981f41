---------------------------- MODULE UleSmpProofs ----------------------------
(***************************************************************************)
(* Proofs about UleSmp, for any processors and any finite set of threads.    *)
(* The inductive invariant Inv has four parts: the types and what the step   *)
(* of a processor says of the rest of it (Shape), where every thread is and  *)
(* that the loads count them (Places), what the words read without a lock    *)
(* say of a sleeping processor (Flags), and the order of locks (Locks).      *)
(***************************************************************************)
EXTENDS UleSmp, FiniteSetTheorems, TLAPS

\* What a processor does with interrupts off.
Doing == [pc : {"none", "add", "readd", "lock_one", "lock_two", "both", "fence", "wake",
                "search", "high", "low"},
          op : {"none", "add", "migrate", "try", "idled", "balance"},
          td : Thread \cup {Idle}, to : Cpu \cup {Nobody}, high : Cpu \cup {Nobody},
          hmask : SUBSET Cpu, lmask : SUBSET Cpu, anylow : BOOLEAN]

\* The types of the variables.
TypeOK ==
  /\ cur \in [Cpu -> Thread \cup {Idle}] /\ queue \in [Cpu -> SUBSET Thread]
  /\ load \in [Cpu -> Int] /\ late \in [Cpu -> BOOLEAN]
  /\ idle \in [Cpu -> BOOLEAN] /\ lateIdle \in [Cpu -> BOOLEAN] /\ ipi \in [Cpu -> BOOLEAN]
  /\ lock \in [Cpu -> Cpu \cup {Nobody}]
  /\ ts_cpu \in [Thread -> Cpu] /\ mask \in [Thread -> SUBSET Cpu] /\ bound \in [Thread -> BOOLEAN]
  /\ ipc \in [Cpu -> {"loop", "search", "pair", "rest", "flag", "recheck", "halt", "asleep", "clear"}]
  /\ tried \in [Cpu -> SUBSET Cpu] /\ victim \in [Cpu -> Cpu \cup {Nobody}]
  /\ h \in [Cpu -> Doing]

\* What the step of a processor says of the rest of what it does.
Step(c, x) ==
  /\ x.pc = "none" => x = Nothing
  /\ x.pc = "readd" => x.op = "add" /\ x.td \in Thread
  /\ x.pc = "add" => x.op = "add" /\ x.td \in Thread /\ x.to \in Cpu
  /\ x.pc \in {"lock_one", "lock_two", "both"} =>
       /\ x.op \in {"migrate", "try", "idled", "balance"} /\ x.to \in Cpu
       /\ x.op = "migrate" => x.td \in Thread
       /\ x.op = "balance" => x.high \in Cpu /\ x.high # x.to /\ x.high \notin x.lmask
       /\ x.op # "balance" => x.to # c
  /\ x.pc \in {"fence", "wake"} =>
       /\ x.op \in {"add", "migrate", "balance"} /\ x.to \in Cpu
  /\ x.pc = "search" => x.op = "try"
  /\ x.pc \in {"high", "low"} => x.op = "balance"
  /\ x.pc = "low" => x.high \in Cpu /\ x.high \notin x.lmask

\* The types, the steps, and a processor steals from others only.
Shape ==
  /\ TypeOK
  /\ \A c \in Cpu : Step(c, h[c])
  /\ \A c \in Cpu : ipc[c] = "pair" => victim[c] \in Others(c)

\* The thread that a processor has taken off a queue and not yet put on another.
InHand(c, t) ==
  /\ h[c].td = t
  /\ h[c].pc \in {"add", "readd"} \/ (h[c].op = "migrate" /\ h[c].pc \in {"lock_one", "lock_two", "both"})

\* The threads that a processor runs or has queued.
Here(c) == {t \in Thread : t \in queue[c] \/ Runs(c, t)}

\* A thread knows the processor it is on, and may be there.
Allowed(t, c) == ts_cpu[t] = c /\ (c \in mask[t] \/ bound[t])

\* A thread is here or in hand, once.  A thread in hand is meant for a processor where
\* it may be, unless one is still to be chosen (sched_affinity).
Places ==
  /\ \A c \in Cpu : load[c] = Cardinality(Here(c))
  /\ \A c, d \in Cpu : \A t \in Thread : t \in Here(c) /\ t \in Here(d) => c = d
  /\ \A c \in Cpu : \A t \in queue[c] : ~Runs(c, t) /\ Allowed(t, c)
  /\ \A c, d \in Cpu : \A t \in Thread : InHand(c, t) => t \notin Here(d)
  /\ \A c, d \in Cpu : \A t \in Thread : InHand(c, t) /\ InHand(d, t) => c = d
  /\ \A c \in Cpu : \A t \in Thread : InHand(c, t) /\ h[c].pc # "readd" => Allowed(t, h[c].to)
  /\ \A c \in Cpu : h[c].op = "idled" => cur[c] = Idle

\* A processor that is going to sleep has said so before it looks for the last time, and
\* an addition to a load that is not visible yet is before its fence.
Flags ==
  /\ \A c \in Cpu : ipc[c] = "asleep" => cur[c] = Idle /\ Open(c)
  /\ \A c \in Cpu : ipc[c] \in {"recheck", "halt", "asleep", "clear"} => idle[c] /\ ~lateIdle[c]
  /\ \A c \in Cpu : ipc[c] = "flag" => idle[c]
  /\ \A c \in Cpu : late[c] => \E d \in Cpu : h[d].pc = "fence" /\ h[d].to = c
  /\ NoSleepOnWork

\* A processor that waits for its second lock has the first.
Locks == \A c \in Cpu : h[c].pc = "lock_two" => lock[First(One(c), Two(c))] = c
-----------------------------------------------------------------------------
\* sched_pickcpu chooses a processor of the thread's cpuset, or the one it is bound to.
LEMMA PickFacts ==
  ASSUME TypeOK, NEW t \in Thread, NEW self \in Cpu, NEW d \in sched_pickcpu(t, self)
  PROVE  d \in Cpu /\ (d \in mask[t] \/ (bound[t] /\ d = ts_cpu[t]))
<1> DEFINE last   == ts_cpu[t]
           better == sched_lowest(mask[t], pri(t), Cardinality(Thread), last)
           any    == sched_lowest(mask[t], -1, Cardinality(Thread), last)
           lowest == IF better # {} THEN better ELSE any
<1>1. last \in Cpu /\ mask[t] \subseteq Cpu
  BY DEF TypeOK
<1>2. better \subseteq mask[t] /\ any \subseteq mask[t]
  BY DEF sched_lowest
<1>3. lowest \subseteq mask[t]
  BY <1>2
<1>4. CASE ~THREAD_CAN_MIGRATE(t)
  BY <1>1, <1>4 DEF sched_pickcpu, THREAD_CAN_MIGRATE
<1>5. CASE THREAD_CAN_MIGRATE(t)
  <2> HIDE DEF better, any, lowest
  <2>1. \/ \E c \in lowest : d = c \/ (d = self /\ THREAD_CAN_SCHED(t, self))
        \/ d \in mask[t]
    BY <1>5 DEF sched_pickcpu, lowest, better, any, last
  <2> QED BY <2>1, <1>1, <1>3 DEF THREAD_CAN_SCHED
<1> QED BY <1>4, <1>5

\* The end of sched_switch takes one thread off the queue of its processor, if there is one.
LEMMA SwitchTypes ==
  ASSUME TypeOK, NEW c \in Cpu, NEW q \in [Cpu -> SUBSET Thread], Switches(c, q)
  PROVE  /\ cur' \in [Cpu -> Thread \cup {Idle}] /\ queue' \in [Cpu -> SUBSET Thread]
         /\ \A d \in Cpu \ {c} : cur'[d] = cur[d] /\ queue'[d] = q[d]
         /\ queue'[c] \subseteq q[c] /\ cur'[c] \notin queue'[c]
         /\ cur'[c] = Idle <=> q[c] = {}
         /\ cur'[c] # Idle => q[c] = queue'[c] \cup {cur'[c]}
<1>1. PICK t \in Best(q, c) : cur' = [cur EXCEPT ![c] = t] /\ queue' = [q EXCEPT ![c] = @ \ {t}]
  BY DEF Switches
<1>2. IF q[c] = {} THEN t = Idle ELSE t \in q[c]
  BY DEF Best
<1>3. Idle \notin Thread
  BY UleSmpAssumption
<1> QED BY <1>1, <1>2, <1>3 DEF TypeOK

\* With interrupts on a processor does nothing and has no thread in hand.
LEMMA NothingFacts ==
  /\ Nothing \in Doing /\ \A c : Step(c, Nothing)
  /\ Nothing.pc = "none" /\ Nothing.op = "none" /\ Nothing.td = Idle /\ Nothing.to = Nobody
BY DEF Nothing, Doing, Step

\* A processor begins to wake a thread, to let one migrate, or to steal.
LEMMA StartsFacts ==
  ASSUME TypeOK, NEW c \in Cpu, NEW op \in {"add", "migrate", "idled"},
         NEW t \in Thread \cup {Idle}, NEW d \in Cpu, h' = Starts(c, op, t, d),
         op \in {"add", "migrate"} => t \in Thread, op = "add" \/ d # c
  PROVE  /\ h' \in [Cpu -> Doing] /\ Step(c, h'[c]) /\ \A e \in Cpu \ {c} : h'[e] = h[e]
         /\ h'[c].pc = (IF op = "add" THEN "add" ELSE "lock_one")
         /\ h'[c].op = op /\ h'[c].td = t /\ h'[c].to = d
<1> DEFINE pc == IF op = "add" THEN "add" ELSE "lock_one"
           x  == [Nothing EXCEPT !.pc = pc, !.op = op, !.td = t, !.to = d]
<1>1. h' = [h EXCEPT ![c] = x]
  BY DEF Starts
<1>2. pc \in {"add", "lock_one"} /\ (pc = "add" <=> op = "add")
  OBVIOUS
<1> HIDE DEF pc
<1>3. /\ x \in Doing /\ x.pc = pc /\ x.op = op /\ x.td = t /\ x.to = d
  BY <1>2 DEF Doing, Nothing
<1> HIDE DEF x
<1>4. Step(c, x)
  BY <1>2, <1>3 DEF Step
<1>5. h' \in [Cpu -> Doing] /\ h'[c] = x /\ \A e \in Cpu \ {c} : h'[e] = h[e]
  BY <1>1, <1>3 DEF TypeOK
<1> QED BY <1>3, <1>4, <1>5 DEF pc

\* A processor goes on to its next step.
LEMMA GoesFacts ==
  ASSUME TypeOK, NEW c \in Cpu,
         NEW pc \in {"none", "add", "readd", "lock_one", "lock_two", "both", "fence", "wake",
                     "search", "high", "low"},
         h' = [h EXCEPT ![c].pc = pc]
  PROVE  /\ h' \in [Cpu -> Doing] /\ \A e \in Cpu \ {c} : h'[e] = h[e]
         /\ h'[c].pc = pc /\ h'[c].op = h[c].op /\ h'[c].td = h[c].td /\ h'[c].to = h[c].to
         /\ h'[c].high = h[c].high /\ h'[c].lmask = h[c].lmask
<1> DEFINE x == [h[c] EXCEPT !.pc = pc]
<1>1. h[c] \in Doing /\ h' = [h EXCEPT ![c] = x]
  BY DEF TypeOK
<1>2. x \in Doing /\ x.pc = pc /\ x.op = h[c].op /\ x.td = h[c].td /\ x.to = h[c].to /\ x.high = h[c].high
      /\ x.lmask = h[c].lmask
  BY <1>1 DEF Doing
<1> HIDE DEF x
<1>3. h' \in [Cpu -> Doing] /\ h'[c] = x /\ \A e \in Cpu \ {c} : h'[e] = h[e]
  BY <1>1, <1>2 DEF TypeOK
<1> QED BY <1>2, <1>3

\* The types and the step of one processor are enough: the others do what they did.
LEMMA ShapeBy ==
  ASSUME Shape, TypeOK', NEW c \in Cpu, Step(c, h'[c]), \A e \in Cpu \ {c} : h'[e] = h[e],
         \A e \in Cpu : ipc'[e] = "pair" => ipc[e] = "pair" /\ victim'[e] = victim[e]
  PROVE  Shape'
BY DEF Shape

\* An interrupt gets a processor out of cpu_idle and changes no other idle thread.
LEMMA InterruptedFacts ==
  ASSUME TypeOK, NEW c \in Cpu, ipc' = Interrupted(c)
  PROVE  /\ ipc' \in [Cpu -> {"loop", "search", "pair", "rest", "flag", "recheck", "halt", "asleep", "clear"}]
         /\ ipc'[c] = IF ipc[c] = "asleep" THEN "clear" ELSE ipc[c]
         /\ \A e \in Cpu \ {c} : ipc'[e] = ipc[e]
BY DEF TypeOK, Interrupted

\* A processor that drops its locks leaves those of others.
LEMMA ReleasedFacts ==
  ASSUME TypeOK, NEW c \in Cpu
  PROVE  Released(c) \in [Cpu -> Cpu \cup {Nobody}]
         /\ \A d \in Cpu : lock[d] # c => Released(c)[d] = lock[d]
BY DEF TypeOK, Released

\* tdq_lock_pair goes from one step to the next.
LEMMA LockShape ==
  ASSUME Shape, NEW c \in Cpu, LockOne(c) \/ LockTwo(c)
  PROVE  /\ Shape' /\ \A e \in Cpu \ {c} : h'[e] = h[e]
         /\ h'[c].op = h[c].op /\ h'[c].td = h[c].td /\ h'[c].to = h[c].to /\ h'[c].high = h[c].high
         /\ h[c].pc \in {"lock_one", "lock_two"} /\ h'[c].pc \in {"lock_two", "both"}
<1>1. PICK pc \in {"lock_two", "both"} : h' = [h EXCEPT ![c].pc = pc]
  BY DEF LockOne, LockTwo
<1>2. h[c].pc \in {"lock_one", "lock_two"} /\ Step(c, h[c]) /\ TypeOK
  BY DEF LockOne, LockTwo, Shape
<1>3. /\ h' \in [Cpu -> Doing] /\ \A e \in Cpu \ {c} : h'[e] = h[e]
      /\ h'[c].pc = pc /\ h'[c].op = h[c].op /\ h'[c].td = h[c].td /\ h'[c].to = h[c].to
      /\ h'[c].high = h[c].high /\ h'[c].lmask = h[c].lmask
  BY <1>1, <1>2, GoesFacts
<1>4. Step(c, h'[c])
  BY <1>2, <1>3 DEF Step
<1>5. UNCHANGED <<cur, queue, load, late, idle, lateIdle, ipi, ts_cpu, mask, bound, ipc, tried, victim>>
  BY DEF LockOne, LockTwo, queueVars, flagVars, threadVars, idleVars
<1>6. lock' \in [Cpu -> Cpu \cup {Nobody}]
  <2>1. \E a : lock' = [lock EXCEPT ![a] = c]
    BY DEF LockOne, LockTwo
  <2> QED BY <1>2, <2>1 DEF TypeOK
<1>7. TypeOK'
  BY <1>2, <1>3, <1>5, <1>6 DEF TypeOK
<1> QED BY <1>2, <1>3, <1>4, <1>5, <1>7, ShapeBy

\* So does the fence of tdq_notify.
LEMMA FenceShape ==
  ASSUME Shape, NEW c \in Cpu, NotifyFence(c)
  PROVE  /\ Shape' /\ \A e \in Cpu \ {c} : h'[e] = h[e]
         /\ h'[c].op = h[c].op /\ h'[c].td = h[c].td /\ h'[c].to = h[c].to /\ h'[c].high = h[c].high
         /\ h[c].pc = "fence" /\ h'[c].pc = "wake"
<1>2. h[c].pc = "fence" /\ Step(c, h[c]) /\ TypeOK /\ h' = [h EXCEPT ![c].pc = "wake"]
  BY DEF NotifyFence, Shape
<1>3. /\ h' \in [Cpu -> Doing] /\ \A e \in Cpu \ {c} : h'[e] = h[e]
      /\ h'[c].pc = "wake" /\ h'[c].op = h[c].op /\ h'[c].td = h[c].td /\ h'[c].to = h[c].to
      /\ h'[c].high = h[c].high
  BY <1>2, GoesFacts
<1>4. Step(c, h'[c])
  BY <1>2, <1>3 DEF Step
<1>5. UNCHANGED <<cur, queue, load, lock, idle, lateIdle, ipi, ts_cpu, mask, bound, ipc, tried, victim>>
  BY DEF NotifyFence, flagVars, threadVars, idleVars
<1>6. late' \in [Cpu -> BOOLEAN]
  BY <1>2 DEF NotifyFence, TypeOK, Fence
<1>7. TypeOK'
  BY <1>2, <1>3, <1>5, <1>6 DEF TypeOK
<1> QED BY <1>2, <1>3, <1>4, <1>5, <1>7, ShapeBy

\* The end of tdq_notify: the processor has nothing more to do, or the balancer goes on.
LEMMA DoneFacts ==
  ASSUME Shape, NEW c \in Cpu, NEW q \in [Cpu -> SUBSET Thread], NotifyDone(c, q),
         h[c].op \in {"add", "migrate", "balance"}
  PROVE  /\ h' \in [Cpu -> Doing] /\ Step(c, h'[c]) /\ \A e \in Cpu \ {c} : h'[e] = h[e]
         /\ h'[c].pc \in {"none", "high"} /\ h'[c].td = Idle
         /\ h'[c].op = (IF h[c].op = "balance" THEN "balance" ELSE "none")
         /\ h[c].op = "migrate" => Switches(c, q)
         /\ h[c].op # "migrate" => queue' = q /\ cur' = cur
         /\ cur' \in [Cpu -> Thread \cup {Idle}] /\ queue' \in [Cpu -> SUBSET Thread]
         /\ lock' = Released(c) /\ lock' \in [Cpu -> Cpu \cup {Nobody}]
<1>0. TypeOK
  BY DEF Shape
<1>1. CASE h[c].op = "add"
  <2>1. h' = [h EXCEPT ![c] = Nothing] /\ lock' = Released(c) /\ queue' = q /\ cur' = cur
    BY <1>1 DEF NotifyDone
  <2>2. h' \in [Cpu -> Doing] /\ h'[c] = Nothing /\ \A e \in Cpu \ {c} : h'[e] = h[e]
    BY <1>0, <2>1, NothingFacts DEF TypeOK
  <2> QED BY <1>0, <1>1, <2>1, <2>2, NothingFacts, ReleasedFacts DEF TypeOK
<1>2. CASE h[c].op = "migrate"
  <2>1. h' = [h EXCEPT ![c] = Nothing] /\ lock' = Released(c) /\ Switches(c, q)
    BY <1>2 DEF NotifyDone
  <2>2. h' \in [Cpu -> Doing] /\ h'[c] = Nothing /\ \A e \in Cpu \ {c} : h'[e] = h[e]
    BY <1>0, <2>1, NothingFacts DEF TypeOK
  <2> QED BY <1>0, <1>2, <2>1, <2>2, NothingFacts, ReleasedFacts, SwitchTypes
<1>3. CASE h[c].op = "balance"
  <2> DEFINE k == h[c].hmask \ {h[c].to}
             x == [h[c] EXCEPT !.pc = "high", !.td = Idle, !.to = Nobody, !.high = Nobody, !.hmask = k]
  <2>1. h' = [h EXCEPT ![c] = x] /\ lock' = Released(c) /\ queue' = q /\ cur' = cur
    BY <1>0, <1>3 DEF NotifyDone, TypeOK, Doing
  <2>2. k \in SUBSET Cpu /\ h[c] \in Doing
    BY <1>0 DEF TypeOK, Doing
  <2> HIDE DEF k
  <2>3. x \in Doing /\ x.pc = "high" /\ x.op = "balance" /\ x.td = Idle
    BY <1>3, <2>2 DEF Doing
  <2> HIDE DEF x
  <2>4. Step(c, x)
    BY <2>3 DEF Step
  <2>5. h' \in [Cpu -> Doing] /\ h'[c] = x /\ \A e \in Cpu \ {c} : h'[e] = h[e]
    BY <1>0, <2>1, <2>3 DEF TypeOK
  <2> QED BY <1>0, <1>3, <2>1, <2>3, <2>4, <2>5, ReleasedFacts DEF TypeOK
<1> QED BY <1>1, <1>2, <1>3

\* tdq_notify ends and its caller goes on.
LEMMA WakeShape ==
  ASSUME Shape, NEW c \in Cpu, NotifyWake(c)
  PROVE  Shape'
<1>1. /\ h[c].pc = "wake" /\ NotifyDone(c, queue) /\ h[c].op \in {"add", "migrate", "balance"}
      /\ TypeOK /\ Step(c, h[c]) /\ queue \in [Cpu -> SUBSET Thread]
  BY DEF NotifyWake, Shape, Step, TypeOK
<1>2. /\ h' \in [Cpu -> Doing] /\ Step(c, h'[c]) /\ \A e \in Cpu \ {c} : h'[e] = h[e]
      /\ cur' \in [Cpu -> Thread \cup {Idle}] /\ queue' \in [Cpu -> SUBSET Thread]
      /\ lock' \in [Cpu -> Cpu \cup {Nobody}]
  BY <1>1, DoneFacts
<1>3. late' \in [Cpu -> BOOLEAN] /\ ipi' \in [Cpu -> BOOLEAN]
  BY <1>1 DEF NotifyWake, TypeOK
<1>4. /\ ipc' \in [Cpu -> {"loop", "search", "pair", "rest", "flag", "recheck", "halt", "asleep", "clear"}]
      /\ \A e \in Cpu : ipc'[e] = "pair" => ipc[e] = "pair"
  BY <1>1 DEF NotifyWake, TypeOK
<1>5. UNCHANGED <<load, idle, lateIdle, ts_cpu, mask, bound, tried, victim>>
  BY DEF NotifyWake, threadVars
<1>6. TypeOK'
  BY <1>1, <1>2, <1>3, <1>4, <1>5 DEF TypeOK
<1> QED BY <1>1, <1>2, <1>4, <1>5, <1>6, ShapeBy

\* sched_wakeup chooses a processor and has the thread in hand.
LEMMA WakeupShape ==
  ASSUME Shape, NEW c \in Cpu, NEW t \in Thread, SchedWakeup(c, t)
  PROVE  /\ Shape'
         /\ \E d \in Cpu : /\ d \in mask[t] \/ (bound[t] /\ d = ts_cpu[t])
                           /\ h' \in [Cpu -> Doing] /\ Step(c, h'[c]) /\ \A e \in Cpu \ {c} : h'[e] = h[e]
                           /\ h'[c].pc = "add" /\ h'[c].op = "add" /\ h'[c].td = t /\ h'[c].to = d
                           /\ ts_cpu' = [ts_cpu EXCEPT ![t] = d]
<1>0. TypeOK
  BY DEF Shape
<1>1. PICK d \in sched_pickcpu(t, c) : h' = Starts(c, "add", t, d) /\ ts_cpu' = [ts_cpu EXCEPT ![t] = d]
  BY DEF SchedWakeup
<1>2. d \in Cpu /\ (d \in mask[t] \/ (bound[t] /\ d = ts_cpu[t]))
  BY <1>0, PickFacts
<1>3. /\ h' \in [Cpu -> Doing] /\ Step(c, h'[c]) /\ \A e \in Cpu \ {c} : h'[e] = h[e]
      /\ h'[c].pc = "add" /\ h'[c].op = "add" /\ h'[c].td = t /\ h'[c].to = d
  BY <1>0, <1>1, <1>2, StartsFacts
<1>4. UNCHANGED <<cur, queue, load, late, idle, lateIdle, ipi, lock, mask, bound, tried, victim>>
  BY DEF SchedWakeup, queueVars, flagVars
<1>5. /\ ipc' \in [Cpu -> {"loop", "search", "pair", "rest", "flag", "recheck", "halt", "asleep", "clear"}]
      /\ \A e \in Cpu : ipc'[e] = "pair" => ipc[e] = "pair"
  BY <1>0, InterruptedFacts DEF SchedWakeup
<1>6. TypeOK'
  BY <1>0, <1>1, <1>2, <1>3, <1>4, <1>5 DEF TypeOK
<1> QED BY <1>1, <1>2, <1>3, <1>4, <1>5, <1>6, ShapeBy

\* sched_add puts the thread on the queue.
LEMMA AddShape ==
  ASSUME Shape, NEW c \in Cpu, SchedAdd(c)
  PROVE  Shape' /\ \A e \in Cpu \ {c} : h'[e] = h[e]
<1> DEFINE t == h[c].td
           d == h[c].to
           q == [queue EXCEPT ![d] = @ \cup {t}]
<1>0. TypeOK /\ Step(c, h[c]) /\ h[c].pc = "add" /\ h[c].op = "add" /\ t \in Thread /\ d \in Cpu
  BY DEF Shape, SchedAdd, Step
<1>1. q \in [Cpu -> SUBSET Thread]
  BY <1>0 DEF TypeOK
<1>2. UNCHANGED <<idle, lateIdle, ipi, ts_cpu, mask, bound, ipc, tried, victim>> /\ load' \in [Cpu -> Int]
  BY <1>0 DEF SchedAdd, flagVars, threadVars, idleVars, TypeOK
<1>3. CASE /\ d = c /\ h' = [h EXCEPT ![c] = Nothing] /\ lock' = Released(c)
           /\ Switches(c, q) \/ (queue' = q /\ UNCHANGED cur)
           /\ UNCHANGED late
  <2>1. h' \in [Cpu -> Doing] /\ Step(c, h'[c]) /\ \A e \in Cpu \ {c} : h'[e] = h[e]
    BY <1>0, <1>3, NothingFacts DEF TypeOK
  <2>2. cur' \in [Cpu -> Thread \cup {Idle}] /\ queue' \in [Cpu -> SUBSET Thread]
    BY <1>0, <1>1, <1>3, SwitchTypes DEF TypeOK
  <2>3. TypeOK'
    BY <1>0, <1>2, <1>3, <2>1, <2>2, ReleasedFacts DEF TypeOK
  <2> QED BY <1>2, <2>1, <2>3, ShapeBy
<1>4. CASE /\ queue' = q /\ UNCHANGED cur
           /\ late' = [late EXCEPT ![d] = TRUE]
           /\ lock' = [lock EXCEPT ![d] = c]
           /\ h' = [h EXCEPT ![c].pc = "fence"]
  <2>1. /\ h' \in [Cpu -> Doing] /\ \A e \in Cpu \ {c} : h'[e] = h[e]
        /\ h'[c].pc = "fence" /\ h'[c].op = "add" /\ h'[c].to = d
    BY <1>0, <1>4, GoesFacts
  <2>2. Step(c, h'[c])
    BY <1>0, <2>1 DEF Step
  <2>3. TypeOK'
    BY <1>0, <1>1, <1>2, <1>4, <2>1 DEF TypeOK
  <2> QED BY <1>2, <2>1, <2>2, <2>3, ShapeBy
<1>5. CASE NotifyDone(c, q) /\ UNCHANGED late
  <2>1. /\ h' \in [Cpu -> Doing] /\ Step(c, h'[c]) /\ \A e \in Cpu \ {c} : h'[e] = h[e]
        /\ cur' \in [Cpu -> Thread \cup {Idle}] /\ queue' \in [Cpu -> SUBSET Thread]
        /\ lock' \in [Cpu -> Cpu \cup {Nobody}]
    BY <1>0, <1>1, <1>5, DoneFacts
  <2>2. TypeOK'
    BY <1>0, <1>2, <1>5, <2>1 DEF TypeOK
  <2> QED BY <1>2, <2>1, <2>2, ShapeBy
<1> QED BY <1>3, <1>4, <1>5 DEF SchedAdd

\* A running thread migrates, or stays runnable where it is.
LEMMA MigratesFacts ==
  ASSUME TypeOK, NEW c \in Cpu, NEW t \in Thread, NEW d \in Cpu \ {c}, Migrates(c, t, d)
  PROVE  /\ h' \in [Cpu -> Doing] /\ Step(c, h'[c]) /\ \A e \in Cpu \ {c} : h'[e] = h[e]
         /\ h'[c].pc = "lock_one" /\ h'[c].op = "migrate" /\ h'[c].td = t /\ h'[c].to = d
         /\ load' = [load EXCEPT ![c] = @ - 1] /\ load' \in [Cpu -> Int]
         /\ ts_cpu' = [ts_cpu EXCEPT ![t] = d] /\ ts_cpu' \in [Thread -> Cpu]
         /\ cur' = cur /\ queue' = queue
<1>1. h' = Starts(c, "migrate", t, d)
  BY DEF Migrates
<1>2. /\ h' \in [Cpu -> Doing] /\ Step(c, h'[c]) /\ \A e \in Cpu \ {c} : h'[e] = h[e]
      /\ h'[c].pc = "lock_one" /\ h'[c].op = "migrate" /\ h'[c].td = t /\ h'[c].to = d
  BY <1>1, StartsFacts
<1> QED BY <1>2 DEF Migrates, TypeOK

\* A running thread is assigned to a processor that it may run on.
LEMMA AssignedFacts ==
  ASSUME TypeOK, NEW c \in Cpu, cur[c] \in Thread, NEW d \in Assigned(c, cur[c])
  PROVE  d \in Cpu /\ (d \in mask[cur[c]] \/ bound[cur[c]])
<1>1. CASE THREAD_CAN_MIGRATE(cur[c]) /\ ~THREAD_CAN_SCHED(cur[c], ts_cpu[cur[c]])
  <2>1. d \in sched_pickcpu(cur[c], c)
    BY <1>1 DEF Assigned
  <2> QED BY <2>1, PickFacts
<1>2. CASE ~(THREAD_CAN_MIGRATE(cur[c]) /\ ~THREAD_CAN_SCHED(cur[c], ts_cpu[cur[c]]))
  <2>1. d = ts_cpu[cur[c]]
    BY <1>2 DEF Assigned
  <2> QED BY <1>2, <2>1 DEF TypeOK, THREAD_CAN_MIGRATE, THREAD_CAN_SCHED
<1> QED BY <1>1, <1>2

\* sched_switch of a thread that stays runnable keeps the types.
LEMMA RunnableFacts ==
  ASSUME Shape, NEW c \in Cpu, cur[c] # Idle, Open(c),
         SwitchRunnable(c, cur[c], Assigned(c, cur[c]))
  PROVE  /\ h' \in [Cpu -> Doing] /\ Step(c, h'[c]) /\ \A e \in Cpu \ {c} : h'[e] = h[e]
         /\ load' \in [Cpu -> Int] /\ ts_cpu' \in [Thread -> Cpu]
         /\ cur' \in [Cpu -> Thread \cup {Idle}] /\ queue' \in [Cpu -> SUBSET Thread]
         /\ cur[c] \in Thread
<1> DEFINE t == cur[c]
<1>1. TypeOK /\ t \in Thread /\ Step(c, h[c])
  BY DEF Shape, TypeOK
<1>2. CASE Requeued(c, t)
  <2> DEFINE q == [queue EXCEPT ![c] = @ \cup {t}]
  <2>1. q \in [Cpu -> SUBSET Thread] /\ Switches(c, q)
    BY <1>1, <1>2 DEF TypeOK, Requeued
  <2>2. cur' \in [Cpu -> Thread \cup {Idle}] /\ queue' \in [Cpu -> SUBSET Thread]
    BY <1>1, <2>1, SwitchTypes
  <2>3. ts_cpu' = [ts_cpu EXCEPT ![t] = c] /\ load' = load /\ h' = h
    BY <1>2 DEF Requeued
  <2> QED BY <1>1, <2>2, <2>3 DEF TypeOK
<1>3. CASE \E d \in Assigned(c, t) \ {c} : Migrates(c, t, d)
  BY <1>1, <1>3, AssignedFacts, MigratesFacts DEF TypeOK
<1> QED BY <1>2, <1>3 DEF SwitchRunnable

\* mi_switch of the running thread.
LEMMA SwitchShape ==
  ASSUME Shape, NEW c \in Cpu, SchedSwitch(c)
  PROVE  Shape'
<1>1. /\ h' \in [Cpu -> Doing] /\ Step(c, h'[c]) /\ \A e \in Cpu \ {c} : h'[e] = h[e]
      /\ load' \in [Cpu -> Int] /\ ts_cpu' \in [Thread -> Cpu]
      /\ cur' \in [Cpu -> Thread \cup {Idle}] /\ queue' \in [Cpu -> SUBSET Thread]
  BY RunnableFacts DEF SchedSwitch
<1>2. UNCHANGED <<late, idle, lateIdle, ipi, lock, mask, bound, ipc, tried, victim>>
  BY DEF SchedSwitch, flagVars, idleVars
<1>3. TypeOK'
  BY <1>1, <1>2 DEF Shape, TypeOK
<1> QED BY <1>1, <1>2, <1>3, ShapeBy

\* The interrupt of tdq_notify.
LEMMA PreemptShape ==
  ASSUME Shape, NEW c \in Cpu, SchedPreempt(c)
  PROVE  Shape'
<1>0. TypeOK /\ Step(c, h[c])
  BY DEF Shape
<1>1. /\ h' \in [Cpu -> Doing] /\ Step(c, h'[c]) /\ \A e \in Cpu \ {c} : h'[e] = h[e]
      /\ load' \in [Cpu -> Int] /\ ts_cpu' \in [Thread -> Cpu]
      /\ cur' \in [Cpu -> Thread \cup {Idle}] /\ queue' \in [Cpu -> SUBSET Thread]
  <2>1. CASE cur[c] # Idle /\ SwitchRunnable(c, cur[c], Assigned(c, cur[c]))
    BY <2>1, RunnableFacts DEF SchedPreempt
  <2>2. CASE Switches(c, queue) /\ UNCHANGED <<load, ts_cpu, h>>
    BY <1>0, <2>2, SwitchTypes DEF TypeOK
  <2>3. CASE UNCHANGED <<cur, queue, load, ts_cpu, h>>
    BY <1>0, <2>3 DEF TypeOK
  <2> QED BY <2>1, <2>2, <2>3 DEF SchedPreempt
<1>2. /\ ipc' \in [Cpu -> {"loop", "search", "pair", "rest", "flag", "recheck", "halt", "asleep", "clear"}]
      /\ \A e \in Cpu : ipc'[e] = "pair" => ipc[e] = "pair"
  BY <1>0, InterruptedFacts DEF SchedPreempt
<1>3. UNCHANGED <<late, idle, lateIdle, lock, mask, bound, tried, victim>> /\ ipi' \in [Cpu -> BOOLEAN]
  BY <1>0 DEF SchedPreempt, TypeOK
<1>4. TypeOK'
  BY <1>0, <1>1, <1>2, <1>3 DEF TypeOK
<1> QED BY <1>1, <1>2, <1>3, <1>4, ShapeBy

\* sched_switch_migrate, with both locks.
LEMMA MigrateShape ==
  ASSUME Shape, NEW c \in Cpu, Migrate(c)
  PROVE  Shape' /\ \A e \in Cpu \ {c} : h'[e] = h[e]
<1> DEFINE t == h[c].td
           d == h[c].to
           q == [queue EXCEPT ![d] = @ \cup {t}]
<1>0. TypeOK /\ Step(c, h[c]) /\ h[c].pc = "both" /\ h[c].op = "migrate" /\ t \in Thread /\ d \in Cpu
  BY DEF Shape, Migrate, Step
<1>1. q \in [Cpu -> SUBSET Thread]
  BY <1>0 DEF TypeOK
<1>2. UNCHANGED <<idle, lateIdle, ipi, ts_cpu, mask, bound, ipc, tried, victim>> /\ load' \in [Cpu -> Int]
  BY <1>0 DEF Migrate, flagVars, threadVars, idleVars, TypeOK
<1>3. CASE /\ h' = [h EXCEPT ![c].pc = "fence", ![c].td = Idle] /\ queue' = q
           /\ late' = [late EXCEPT ![d] = TRUE]
           /\ UNCHANGED <<cur, lock>>
  <2> DEFINE x == [h[c] EXCEPT !.pc = "fence", !.td = Idle]
  <2>1. h[c] \in Doing /\ h' = [h EXCEPT ![c] = x]
    BY <1>0, <1>3 DEF TypeOK
  <2>2. x \in Doing /\ x.pc = "fence" /\ x.op = "migrate" /\ x.to = d
    BY <1>0, <2>1 DEF Doing
  <2> HIDE DEF x
  <2>3. h' \in [Cpu -> Doing] /\ h'[c] = x /\ \A e \in Cpu \ {c} : h'[e] = h[e]
    BY <1>0, <2>1, <2>2 DEF TypeOK
  <2>4. Step(c, h'[c])
    BY <1>0, <2>2, <2>3 DEF Step
  <2>5. TypeOK'
    BY <1>0, <1>1, <1>2, <1>3, <2>3 DEF TypeOK
  <2> QED BY <1>2, <2>3, <2>4, <2>5, ShapeBy
<1>4. CASE NotifyDone(c, q) /\ UNCHANGED late
  <2>1. /\ h' \in [Cpu -> Doing] /\ Step(c, h'[c]) /\ \A e \in Cpu \ {c} : h'[e] = h[e]
        /\ cur' \in [Cpu -> Thread \cup {Idle}] /\ queue' \in [Cpu -> SUBSET Thread]
        /\ lock' \in [Cpu -> Cpu \cup {Nobody}]
    BY <1>0, <1>1, <1>4, DoneFacts
  <2>2. TypeOK'
    BY <1>0, <1>2, <1>4, <2>1 DEF TypeOK
  <2> QED BY <1>2, <2>1, <2>2, ShapeBy
<1> QED BY <1>3, <1>4 DEF Migrate

\* The running thread goes to sleep.
LEMMA SleepShape ==
  ASSUME Shape, NEW c \in Cpu, SchedSleep(c)
  PROVE  Shape' /\ \A e \in Cpu \ {c} : h'[e] = h[e]
<1>0. TypeOK /\ Step(c, h[c])
  BY DEF Shape
<1>1. UNCHANGED <<late, idle, lateIdle, ipi, lock, ts_cpu, mask, bound, ipc, tried, victim>>
      /\ load' \in [Cpu -> Int]
  BY <1>0 DEF SchedSleep, flagVars, threadVars, idleVars, TypeOK
<1>2. CASE Switches(c, queue) /\ UNCHANGED h
  <2>1. cur' \in [Cpu -> Thread \cup {Idle}] /\ queue' \in [Cpu -> SUBSET Thread]
    BY <1>0, <1>2, SwitchTypes DEF TypeOK
  <2>2. TypeOK'
    BY <1>0, <1>1, <1>2, <2>1 DEF TypeOK
  <2> QED BY <1>0, <1>1, <1>2, <2>2, ShapeBy
<1>3. CASE /\ UNCHANGED <<cur, queue>>
           /\ h' = [h EXCEPT ![c] = [Nothing EXCEPT !.pc = "search", !.op = "try"]]
  <2> DEFINE x == [Nothing EXCEPT !.pc = "search", !.op = "try"]
  <2>1. x \in Doing /\ x.pc = "search" /\ x.op = "try"
    BY DEF Nothing, Doing
  <2> HIDE DEF x
  <2>2. h' \in [Cpu -> Doing] /\ h'[c] = x /\ \A e \in Cpu \ {c} : h'[e] = h[e]
    BY <1>0, <1>3, <2>1 DEF TypeOK, x
  <2>3. Step(c, h'[c])
    BY <2>1, <2>2 DEF Step
  <2>4. TypeOK'
    BY <1>0, <1>1, <1>3, <2>2 DEF TypeOK
  <2> QED BY <1>0, <1>1, <2>2, <2>3, <2>4, ShapeBy
<1> QED BY <1>2, <1>3 DEF SchedSleep

\* The running thread is bound, or no longer.
LEMMA BindShape ==
  ASSUME Shape, NEW c \in Cpu, SchedBind(c)
  PROVE  Shape' /\ \A e \in Cpu \ {c} : h'[e] = h[e]
<1> DEFINE t == cur[c]
<1>0. TypeOK /\ Step(c, h[c]) /\ t \in Thread
  BY UleSmpAssumption DEF Shape, SchedBind
<1>1. UNCHANGED <<late, idle, lateIdle, ipi, lock, mask, ipc, tried, victim>>
  BY DEF SchedBind, flagVars, idleVars
<1>2. bound' \in [Thread -> BOOLEAN]
  BY <1>0 DEF SchedBind, TypeOK
<1>3. CASE UNCHANGED <<cur, queue, load, ts_cpu, h>>
  <2>1. TypeOK'
    BY <1>0, <1>1, <1>2, <1>3 DEF TypeOK
  <2> QED BY <1>0, <1>1, <1>3, <2>1, ShapeBy
<1>4. CASE \E d \in Cpu \ {c} : Migrates(c, t, d)
  <2>1. /\ h' \in [Cpu -> Doing] /\ Step(c, h'[c]) /\ \A e \in Cpu \ {c} : h'[e] = h[e]
        /\ load' \in [Cpu -> Int] /\ ts_cpu' \in [Thread -> Cpu] /\ cur' = cur /\ queue' = queue
    BY <1>0, <1>4, MigratesFacts
  <2>2. TypeOK'
    BY <1>0, <1>1, <1>2, <2>1 DEF TypeOK
  <2> QED BY <1>1, <2>1, <2>2, ShapeBy
<1> QED BY <1>3, <1>4 DEF SchedBind

\* A change of the cpuset may take a thread off its queue.
LEMMA AffinityShape ==
  ASSUME Shape, NEW c \in Cpu, NEW t \in Thread, SchedAffinity(c, t)
  PROVE  Shape' /\ \A e \in Cpu \ {c} : h'[e] = h[e]
<1>0. TypeOK /\ Step(c, h[c])
  BY DEF Shape
<1>1. PICK m \in SUBSET Cpu : LET from == {d \in Cpu \ m : t \in queue[d]} IN
          /\ mask' = [mask EXCEPT ![t] = m]
          /\ queue' = [d \in Cpu |-> IF d \in from THEN queue[d] \ {t} ELSE queue[d]]
          /\ load' = [d \in Cpu |-> IF d \in from THEN load[d] - 1 ELSE load[d]]
          /\ lock' = [d \in Cpu |-> IF d \in from THEN c ELSE lock[d]]
          /\ h' = IF from = {} THEN h
                  ELSE [h EXCEPT ![c] = [Nothing EXCEPT !.pc = "readd", !.op = "add", !.td = t]]
  BY DEF SchedAffinity
<1>2. /\ mask' \in [Thread -> SUBSET Cpu] /\ queue' \in [Cpu -> SUBSET Thread]
      /\ load' \in [Cpu -> Int] /\ lock' \in [Cpu -> Cpu \cup {Nobody}]
  BY <1>0, <1>1 DEF TypeOK
<1>3. UNCHANGED <<cur, late, idle, lateIdle, ipi, ts_cpu, bound, ipc, tried, victim>>
  BY DEF SchedAffinity, flagVars, idleVars
<1> DEFINE x == [Nothing EXCEPT !.pc = "readd", !.op = "add", !.td = t]
<1>4. h' = h \/ h' = [h EXCEPT ![c] = x]
  BY <1>1
<1>5. x \in Doing /\ x.pc = "readd" /\ x.op = "add" /\ x.td = t
  BY DEF Nothing, Doing
<1> HIDE DEF x
<1>6. Step(c, x)
  BY <1>5 DEF Step
<1>7. h' \in [Cpu -> Doing] /\ Step(c, h'[c]) /\ \A e \in Cpu \ {c} : h'[e] = h[e]
  BY <1>0, <1>4, <1>5, <1>6 DEF TypeOK
<1>8. TypeOK'
  BY <1>0, <1>2, <1>3, <1>7 DEF TypeOK
<1> QED BY <1>0, <1>3, <1>7, <1>8, ShapeBy

\* That thread is given a processor again.
LEMMA ReaddShape ==
  ASSUME Shape, NEW c \in Cpu, SchedReadd(c)
  PROVE  /\ Shape'
         /\ \E d \in Cpu : /\ d \in mask[h[c].td] \/ (bound[h[c].td] /\ d = ts_cpu[h[c].td])
                           /\ \A e \in Cpu \ {c} : h'[e] = h[e]
                           /\ h'[c].pc = "add" /\ h'[c].op = "add" /\ h'[c].td = h[c].td /\ h'[c].to = d
                           /\ ts_cpu' = [ts_cpu EXCEPT ![h[c].td] = d]
<1> DEFINE t == h[c].td
<1>0. TypeOK /\ Step(c, h[c]) /\ h[c].pc = "readd" /\ t \in Thread
  BY DEF Shape, SchedReadd, Step
<1>1. PICK d \in sched_pickcpu(t, c) :
        /\ h' = Starts(c, "add", t, d) /\ ts_cpu' = [ts_cpu EXCEPT ![t] = d]
        /\ lock' = [e \in Cpu |-> IF lock[e] = c /\ e # d THEN Nobody ELSE lock[e]]
  BY DEF SchedReadd
<1>2. d \in Cpu /\ (d \in mask[t] \/ (bound[t] /\ d = ts_cpu[t]))
  BY <1>0, PickFacts
<1>3. /\ h' \in [Cpu -> Doing] /\ Step(c, h'[c]) /\ \A e \in Cpu \ {c} : h'[e] = h[e]
      /\ h'[c].pc = "add" /\ h'[c].op = "add" /\ h'[c].td = t /\ h'[c].to = d
  BY <1>0, <1>1, <1>2, StartsFacts
<1>4. UNCHANGED <<cur, queue, load, late, idle, lateIdle, ipi, mask, bound, ipc, tried, victim>>
  BY DEF SchedReadd, queueVars, flagVars, idleVars
<1>5. TypeOK'
  BY <1>0, <1>1, <1>2, <1>3, <1>4 DEF TypeOK
<1> QED BY <1>0, <1>1, <1>2, <1>3, <1>4, <1>5, ShapeBy

\* tdq_trysteal finds a victim or gives up.
LEMMA SearchShape ==
  ASSUME Shape, NEW c \in Cpu, TrySearch(c)
  PROVE  Shape'
<1>0. TypeOK /\ Step(c, h[c]) /\ h[c].pc = "search" /\ h[c].op = "try"
  BY DEF Shape, TrySearch
<1>1. UNCHANGED <<load, late, idle, lateIdle, ipi, lock, ts_cpu, mask, bound, ipc, tried, victim>>
  BY DEF TrySearch, flagVars, threadVars, idleVars
<1>2. CASE h' = [h EXCEPT ![c] = Nothing] /\ Switches(c, queue)
  <2>1. h' \in [Cpu -> Doing] /\ Step(c, h'[c]) /\ \A e \in Cpu \ {c} : h'[e] = h[e]
    BY <1>0, <1>2, NothingFacts DEF TypeOK
  <2>2. cur' \in [Cpu -> Thread \cup {Idle}] /\ queue' \in [Cpu -> SUBSET Thread]
    BY <1>0, <1>2, SwitchTypes DEF TypeOK
  <2>3. TypeOK'
    BY <1>0, <1>1, <2>1, <2>2 DEF TypeOK
  <2> QED BY <1>1, <2>1, <2>3, ShapeBy
<1>3. CASE \E v \in sched_highest(Others(c), steal_thresh) :
             h' = [h EXCEPT ![c].pc = "lock_one", ![c].to = v] /\ UNCHANGED <<cur, queue>>
  <2>1. PICK v \in Others(c) :
             h' = [h EXCEPT ![c].pc = "lock_one", ![c].to = v] /\ UNCHANGED <<cur, queue>>
    BY <1>3 DEF sched_highest
  <2> DEFINE x == [h[c] EXCEPT !.pc = "lock_one", !.to = v]
  <2>2. h[c] \in Doing /\ h' = [h EXCEPT ![c] = x] /\ v \in Cpu /\ v # c
    BY <1>0, <2>1 DEF TypeOK, Others
  <2>3. x \in Doing /\ x.pc = "lock_one" /\ x.op = "try" /\ x.to = v
    BY <1>0, <2>2 DEF Doing
  <2> HIDE DEF x
  <2>4. Step(c, x)
    BY <2>2, <2>3 DEF Step
  <2>5. h' \in [Cpu -> Doing] /\ h'[c] = x /\ \A e \in Cpu \ {c} : h'[e] = h[e]
    BY <1>0, <2>2, <2>3 DEF TypeOK
  <2>6. TypeOK'
    BY <1>0, <1>1, <2>1, <2>5 DEF TypeOK
  <2> QED BY <1>1, <2>4, <2>5, <2>6, ShapeBy
<1> QED BY <1>2, <1>3 DEF TrySearch

\* tdq_move from one processor to another.
LEMMA MoveFacts ==
  ASSUME TypeOK, NEW from \in Cpu, NEW to \in Cpu, from # to, NEW t \in Stealable(from, to), Moves(t, from, to)
  PROVE  /\ t \in Thread /\ t \in queue[from] /\ to \in mask[t]
         /\ MovedQueue(t, from, to) \in [Cpu -> SUBSET Thread]
         /\ MovedQueue(t, from, to)[from] = queue[from] \ {t}
         /\ MovedQueue(t, from, to)[to] = queue[to] \cup {t}
         /\ \A d \in Cpu \ {from, to} : MovedQueue(t, from, to)[d] = queue[d] /\ load'[d] = load[d]
         /\ load' \in [Cpu -> Int] /\ load'[from] = load[from] - 1 /\ load'[to] = load[to] + 1
         /\ ts_cpu' = [ts_cpu EXCEPT ![t] = to] /\ ts_cpu' \in [Thread -> Cpu]
<1>1. t \in queue[from] /\ t \in Thread /\ to \in mask[t]
  BY DEF Stealable, THREAD_CAN_SCHED, TypeOK
<1>2. load' = [load EXCEPT ![from] = @ - 1, ![to] = @ + 1] /\ ts_cpu' = [ts_cpu EXCEPT ![t] = to]
  BY DEF Moves, ToldCpu
<1> QED BY <1>1, <1>2 DEF MovedQueue, TypeOK

\* tdq_trysteal with both locks.
LEMMA StealShape ==
  ASSUME Shape, NEW c \in Cpu, TrySteal(c)
  PROVE  Shape'
<1> DEFINE v == h[c].to
<1>0. TypeOK /\ Step(c, h[c]) /\ h[c].pc = "both" /\ h[c].op = "try" /\ v \in Cpu /\ v # c
  BY DEF Shape, TrySteal, Step
<1>1. UNCHANGED <<late, idle, lateIdle, ipi, mask, bound, ipc, tried, victim>>
      /\ lock' \in [Cpu -> Cpu \cup {Nobody}]
  BY <1>0, ReleasedFacts DEF TrySteal, flagVars, idleVars
<1>2. h' \in [Cpu -> Doing] /\ Step(c, h'[c]) /\ \A e \in Cpu \ {c} : h'[e] = h[e]
  <2>1. h' = [h EXCEPT ![c] = Nothing]
    BY DEF TrySteal
  <2> QED BY <1>0, <2>1, NothingFacts DEF TypeOK
<1>3. CASE Switches(c, queue) /\ UNCHANGED <<load, late, ts_cpu>>
  <2>1. cur' \in [Cpu -> Thread \cup {Idle}] /\ queue' \in [Cpu -> SUBSET Thread]
    BY <1>0, <1>3, SwitchTypes DEF TypeOK
  <2>2. TypeOK'
    BY <1>0, <1>1, <1>2, <1>3, <2>1 DEF TypeOK
  <2> QED BY <1>1, <1>2, <2>2, ShapeBy
<1>4. CASE \E t \in Stealable(v, c) : Moves(t, v, c) /\ Switches(c, MovedQueue(t, v, c))
  <2>1. PICK t \in Stealable(v, c) : Moves(t, v, c) /\ Switches(c, MovedQueue(t, v, c))
    BY <1>4
  <2>2. /\ MovedQueue(t, v, c) \in [Cpu -> SUBSET Thread]
        /\ load' \in [Cpu -> Int] /\ ts_cpu' \in [Thread -> Cpu]
    BY <1>0, <2>1, MoveFacts
  <2>3. cur' \in [Cpu -> Thread \cup {Idle}] /\ queue' \in [Cpu -> SUBSET Thread]
    BY <1>0, <2>1, <2>2, SwitchTypes
  <2>4. TypeOK'
    BY <1>0, <1>1, <1>2, <2>2, <2>3 DEF TypeOK
  <2> QED BY <1>1, <1>2, <2>4, ShapeBy
<1> QED BY <1>3, <1>4 DEF TrySteal

\* The steps of the idle thread that change no other's state.
LEMMA IdleShape ==
  ASSUME Shape, NEW c \in Cpu,
         IdleSearch(c) \/ IdleRest(c) \/ IdleFence(c) \/ IdleRecheck(c) \/ CpuIdle(c) \/ IdleClear(c)
  PROVE  Shape'
<1>0. TypeOK /\ Step(c, h[c])
  BY DEF Shape
<1>1. UNCHANGED <<cur, queue, load, late, ipi, lock, ts_cpu, mask, bound, h>>
  BY DEF IdleSearch, IdleRest, IdleFence, IdleRecheck, CpuIdle, IdleClear, queueVars, flagVars,
         threadVars, idleVars
<1>2. idle' \in [Cpu -> BOOLEAN] /\ lateIdle' \in [Cpu -> BOOLEAN]
  BY <1>0 DEF IdleSearch, IdleRest, IdleFence, IdleRecheck, CpuIdle, IdleClear, flagVars, TypeOK, Fence
<1>3. /\ ipc' \in [Cpu -> {"loop", "search", "pair", "rest", "flag", "recheck", "halt", "asleep", "clear"}]
      /\ tried' \in [Cpu -> SUBSET Cpu] /\ victim' \in [Cpu -> Cpu \cup {Nobody}]
      /\ \A e \in Cpu : ipc'[e] = "pair" => victim'[e] \in Others(e)
  <2>1. CASE IdleSearch(c)
    <3>1. \A v \in sched_highest(Others(c) \ tried[c], steal_thresh) : v \in Others(c) /\ v \in Cpu
      BY DEF sched_highest, Others
    <3>2. CASE (GoesOn(c, "loop") \/ GoesOn(c, "rest")) /\ Idled(c) /\ victim' = victim
      BY <1>0, <3>2 DEF GoesOn, Idled, TypeOK, Shape
    <3>3. CASE /\ \E v \in Others(c) : v \in Cpu /\ victim' = [victim EXCEPT ![c] = v]
               /\ GoesOn(c, "pair") /\ UNCHANGED tried
      BY <1>0, <3>3 DEF GoesOn, TypeOK, Shape
    <3> QED BY <2>1, <3>1, <3>2, <3>3 DEF IdleSearch
  <2>2. CASE IdleRest(c) \/ IdleFence(c) \/ IdleRecheck(c) \/ CpuIdle(c) \/ IdleClear(c)
    <3>1. /\ UNCHANGED <<tried, victim>>
          /\ \E s \in {"loop", "rest", "flag", "recheck", "halt", "asleep", "clear"} : GoesOn(c, s)
      BY <2>2 DEF IdleRest, IdleFence, IdleRecheck, CpuIdle, IdleClear
    <3> QED BY <1>0, <3>1 DEF GoesOn, TypeOK, Shape
  <2> QED BY <2>1, <2>2
<1>4. TypeOK'
  BY <1>0, <1>1, <1>2, <1>3 DEF TypeOK
<1> QED BY <1>1, <1>3, <1>4 DEF Shape

\* The top of the loop of the idle thread.
LEMMA IdleLoopShape ==
  ASSUME Shape, NEW c \in Cpu, IdleLoop(c)
  PROVE  Shape'
<1>0. TypeOK /\ Step(c, h[c])
  BY DEF Shape
<1>1. UNCHANGED <<load, late, idle, lateIdle, ipi, lock, ts_cpu, mask, bound, tried, victim, h>>
  BY DEF IdleLoop, flagVars, threadVars, idleVars
<1>2. /\ ipc' \in [Cpu -> {"loop", "search", "pair", "rest", "flag", "recheck", "halt", "asleep", "clear"}]
      /\ \A e \in Cpu : ipc'[e] = "pair" => ipc[e] = "pair"
      /\ cur' \in [Cpu -> Thread \cup {Idle}] /\ queue' \in [Cpu -> SUBSET Thread]
  <2>1. CASE Switches(c, queue) /\ UNCHANGED idleVars
    BY <1>0, <2>1, SwitchTypes DEF idleVars, TypeOK
  <2>2. CASE UNCHANGED <<cur, queue>> /\ (GoesOn(c, "search") \/ GoesOn(c, "rest"))
    BY <1>0, <2>2 DEF GoesOn, TypeOK
  <2> QED BY <2>1, <2>2 DEF IdleLoop
<1>3. TypeOK'
  BY <1>0, <1>1, <1>2 DEF TypeOK
<1> QED BY <1>0, <1>1, <1>2, <1>3, ShapeBy

\* tdq_idled is about to lock its queue and that of the victim, which is not its own.
LEMMA IdleLockShape ==
  ASSUME Shape, NEW c \in Cpu, IdleLock(c)
  PROVE  /\ Shape' /\ \A e \in Cpu \ {c} : h'[e] = h[e]
         /\ h'[c].pc = "lock_one" /\ h'[c].op = "idled" /\ h'[c].td = Idle
<1>0. TypeOK /\ Step(c, h[c]) /\ victim[c] \in Others(c) /\ victim[c] \in Cpu
  BY DEF Shape, IdleLock, IdleAt, Others
<1>1. UNCHANGED <<cur, queue, load, late, idle, lateIdle, ipi, lock, ts_cpu, mask, bound, tried>>
  BY DEF IdleLock, queueVars, flagVars, threadVars
<1>2. /\ h' \in [Cpu -> Doing] /\ Step(c, h'[c]) /\ \A e \in Cpu \ {c} : h'[e] = h[e]
      /\ h'[c].pc = "lock_one" /\ h'[c].op = "idled" /\ h'[c].td = Idle
  <2>1. h' = Starts(c, "idled", Idle, victim[c])
    BY DEF IdleLock
  <2> QED BY <1>0, <2>1, StartsFacts DEF Others
<1>3. /\ ipc' \in [Cpu -> {"loop", "search", "pair", "rest", "flag", "recheck", "halt", "asleep", "clear"}]
      /\ victim' \in [Cpu -> Cpu \cup {Nobody}]
      /\ \A e \in Cpu : ipc'[e] = "pair" => ipc[e] = "pair" /\ victim'[e] = victim[e]
  BY <1>0 DEF IdleLock, GoesOn, TypeOK
<1>4. TypeOK'
  BY <1>0, <1>1, <1>2, <1>3 DEF TypeOK
<1> QED BY <1>2, <1>3, <1>4, ShapeBy

\* tdq_idled with both locks.
LEMMA IdleStealShape ==
  ASSUME Shape, NEW c \in Cpu, IdleSteal(c)
  PROVE  Shape'
<1> DEFINE v == h[c].to
<1>0. TypeOK /\ Step(c, h[c]) /\ h[c].pc = "both" /\ h[c].op = "idled" /\ v \in Cpu /\ v # c
  BY DEF Shape, IdleSteal, Step
<1>1. UNCHANGED <<late, idle, lateIdle, ipi, mask, bound, victim>>
      /\ lock' \in [Cpu -> Cpu \cup {Nobody}]
  <2>1. UNCHANGED <<late, idle, lateIdle, ipi, mask, bound, victim>>
    BY DEF IdleSteal, flagVars, queueVars
  <2>2. lock' = Released(c)
    BY DEF IdleSteal
  <2> QED BY <1>0, <2>1, <2>2, ReleasedFacts
<1>2. h' \in [Cpu -> Doing] /\ Step(c, h'[c]) /\ \A e \in Cpu \ {c} : h'[e] = h[e]
  <2>1. h' = [h EXCEPT ![c] = Nothing]
    BY DEF IdleSteal
  <2> QED BY <1>0, <2>1, NothingFacts DEF TypeOK
<1>3. /\ ipc' \in [Cpu -> {"loop", "search", "pair", "rest", "flag", "recheck", "halt", "asleep", "clear"}]
      /\ \A e \in Cpu : ipc'[e] = "pair" => ipc[e] = "pair"
      /\ tried' \in [Cpu -> SUBSET Cpu]
  <2>1. ipc' = ipc \/ GoesOn(c, "loop")
    BY DEF IdleSteal
  <2>2. tried' = tried \/ Idled(c) \/ tried' = [tried EXCEPT ![c] = @ \cup {v}]
    BY DEF IdleSteal
  <2> QED BY <1>0, <2>1, <2>2 DEF GoesOn, Idled, TypeOK
<1>4. /\ cur' \in [Cpu -> Thread \cup {Idle}] /\ queue' \in [Cpu -> SUBSET Thread]
      /\ load' \in [Cpu -> Int] /\ ts_cpu' \in [Thread -> Cpu]
  <2>1. CASE Switches(c, queue) /\ UNCHANGED <<load, late, ts_cpu>>
    BY <1>0, <2>1, SwitchTypes DEF TypeOK
  <2>2. CASE UNCHANGED <<cur, queueVars, ts_cpu>>
    BY <1>0, <2>2 DEF TypeOK, queueVars
  <2>3. CASE \E t \in Stealable(v, c) : Moves(t, v, c) /\ Switches(c, MovedQueue(t, v, c))
    <3>1. PICK t \in Stealable(v, c) : Moves(t, v, c) /\ Switches(c, MovedQueue(t, v, c))
      BY <2>3
    <3>2. /\ MovedQueue(t, v, c) \in [Cpu -> SUBSET Thread]
          /\ load' \in [Cpu -> Int] /\ ts_cpu' \in [Thread -> Cpu]
      BY <1>0, <3>1, MoveFacts
    <3> QED BY <1>0, <3>1, <3>2, SwitchTypes
  <2> QED BY <2>1, <2>2, <2>3 DEF IdleSteal
<1>5. TypeOK'
  BY <1>0, <1>1, <1>2, <1>3, <1>4 DEF TypeOK
<1> QED BY <1>1, <1>2, <1>3, <1>5, ShapeBy

\* The balancer chooses a donor and a receiver, which are two processors.
LEMMA BalanceShape ==
  ASSUME Shape, NEW c \in Cpu, SchedBalance(c) \/ BalanceHigh(c) \/ BalanceLow(c)
  PROVE  /\ Shape' /\ \A e \in Cpu \ {c} : h'[e] = h[e]
         /\ h'[c].td = h[c].td \/ h'[c].td = Idle
         /\ h'[c].pc \in {"none", "high", "low", "lock_one"} /\ h'[c].op \in {"none", "balance"}
         /\ h[c].pc \in {"none", "high", "low"} /\ h[c].op \in {"none", "balance"}
<1>0. TypeOK /\ Step(c, h[c]) /\ h[c] \in Doing
  BY DEF Shape, TypeOK
<1>1. h[c].pc \in {"none", "high", "low"} /\ h[c].op \in {"none", "balance"}
  BY <1>0, NothingFacts DEF SchedBalance, BalanceHigh, BalanceLow, Step, Open
<1>2. /\ h' \in [Cpu -> Doing] /\ Step(c, h'[c]) /\ \A e \in Cpu \ {c} : h'[e] = h[e]
      /\ h'[c].td = h[c].td \/ h'[c].td = Idle
      /\ h'[c].pc \in {"none", "high", "low", "lock_one"} /\ h'[c].op \in {"none", "balance"}
  <2>1. \E x \in Doing : /\ Step(c, x) /\ h' = [h EXCEPT ![c] = x]
                         /\ x.td = h[c].td \/ x.td = Idle
                         /\ x.pc \in {"none", "high", "low", "lock_one"} /\ x.op \in {"none", "balance"}
    <3>1. CASE SchedBalance(c)
      <4> DEFINE x == [Nothing EXCEPT !.pc = "high", !.op = "balance", !.hmask = Cpu]
      <4>1. x \in Doing /\ x.pc = "high" /\ x.op = "balance" /\ x.td = Idle
        BY DEF Nothing, Doing
      <4>2. h' = [h EXCEPT ![c] = x]
        BY <3>1 DEF SchedBalance
      <4> HIDE DEF x
      <4>3. Step(c, x)
        BY <4>1 DEF Step
      <4> QED BY <4>1, <4>2, <4>3
    <3>2. CASE h' = [h EXCEPT ![c] = Nothing]
      BY <3>2, NothingFacts
    <3>3. CASE \E d \in sched_highest(h[c].hmask, 2) :
              /\ h[c].pc = "high"
              /\ h' = [h EXCEPT ![c].pc = "low", ![c].high = d, ![c].anylow = TRUE,
                                ![c].hmask = @ \ {d}, ![c].lmask = h[c].hmask \ {d}]
      <4>1. PICK d \in h[c].hmask :
              /\ h[c].pc = "high"
              /\ h' = [h EXCEPT ![c].pc = "low", ![c].high = d, ![c].anylow = TRUE,
                                ![c].hmask = @ \ {d}, ![c].lmask = h[c].hmask \ {d}]
        BY <3>3 DEF sched_highest
      <4> DEFINE k == h[c].hmask \ {d}
                 x == [h[c] EXCEPT !.pc = "low", !.high = d, !.anylow = TRUE, !.hmask = k, !.lmask = k]
      <4>2. d \in Cpu /\ k \in SUBSET Cpu /\ d \notin k
        BY <1>0, <4>1 DEF Doing
      <4>3. h' = [h EXCEPT ![c] = x] /\ h[c].op = "balance"
        BY <1>0, <4>1 DEF TypeOK, Step
      <4> HIDE DEF k
      <4>4. x \in Doing /\ x.pc = "low" /\ x.op = "balance" /\ x.td = h[c].td /\ x.high = d /\ x.lmask = k
        BY <1>0, <4>2, <4>3 DEF Doing
      <4> HIDE DEF x
      <4>5. Step(c, x)
        BY <4>2, <4>4 DEF Step
      <4> QED BY <4>3, <4>4, <4>5
    <3>4. CASE BalanceLow(c) /\ h' = [h EXCEPT ![c].pc = "high", ![c].high = Nobody, ![c].lmask = {}, ![c].anylow = TRUE]
      <4> DEFINE x == [h[c] EXCEPT !.pc = "high", !.high = Nobody, !.lmask = {}, !.anylow = TRUE]
      <4>1. h' = [h EXCEPT ![c] = x] /\ h[c].op = "balance"
        BY <1>0, <3>4 DEF TypeOK, Step, BalanceLow
      <4>2. x \in Doing /\ x.pc = "high" /\ x.op = "balance" /\ x.td = h[c].td
        BY <1>0, <4>1 DEF Doing
      <4> HIDE DEF x
      <4>3. Step(c, x)
        BY <4>2 DEF Step
      <4> QED BY <4>1, <4>2, <4>3
    <3>5. CASE /\ h[c].pc = "low"
               /\ \E d \in h[c].lmask : h' = [h EXCEPT ![c].pc = "lock_one", ![c].to = d]
      <4>1. PICK d \in h[c].lmask : h' = [h EXCEPT ![c].pc = "lock_one", ![c].to = d]
        BY <3>5
      <4> DEFINE x == [h[c] EXCEPT !.pc = "lock_one", !.to = d]
      <4>2. /\ h' = [h EXCEPT ![c] = x] /\ h[c].op = "balance" /\ d \in Cpu /\ h[c].high \in Cpu
            /\ h[c].high # d /\ h[c].high \notin h[c].lmask
        BY <1>0, <3>5, <4>1 DEF TypeOK, Step, Doing
      <4>3. x \in Doing /\ x.pc = "lock_one" /\ x.op = "balance" /\ x.td = h[c].td /\ x.to = d /\ x.high = h[c].high
            /\ x.lmask = h[c].lmask
        BY <1>0, <4>2 DEF Doing
      <4> HIDE DEF x
      <4>4. Step(c, x)
        BY <4>2, <4>3 DEF Step
      <4> QED BY <4>2, <4>3, <4>4
    <3>6. CASE BalanceHigh(c)
      BY <3>2, <3>3, <3>6 DEF BalanceHigh
    <3>7. CASE BalanceLow(c)
      <4>1. sched_lowest(h[c].lmask, -1, load[h[c].high] - 1, h[c].high) \subseteq h[c].lmask
        BY DEF sched_lowest
      <4> QED BY <3>2, <3>4, <3>5, <3>7, <4>1 DEF BalanceLow
    <3> QED BY <3>1, <3>6, <3>7
  <2> QED BY <1>0, <2>1 DEF TypeOK
<1>3. UNCHANGED <<cur, queue, load, late, idle, lateIdle, ipi, lock, ts_cpu, mask, bound, tried, victim>>
  BY DEF SchedBalance, BalanceHigh, BalanceLow, queueVars, flagVars, threadVars, idleVars
<1>4. /\ ipc' \in [Cpu -> {"loop", "search", "pair", "rest", "flag", "recheck", "halt", "asleep", "clear"}]
      /\ \A e \in Cpu : ipc'[e] = "pair" => ipc[e] = "pair"
  <2>1. ipc' = ipc \/ ipc' = Interrupted(c)
    BY DEF SchedBalance, BalanceHigh, BalanceLow, idleVars
  <2> QED BY <1>0, <2>1, InterruptedFacts DEF TypeOK
<1>5. TypeOK'
  BY <1>0, <1>2, <1>3, <1>4 DEF TypeOK
<1> QED BY <1>1, <1>2, <1>3, <1>4, <1>5, ShapeBy

\* sched_balance_pair.
LEMMA PairShape ==
  ASSUME Shape, NEW c \in Cpu, BalancePair(c)
  PROVE  Shape'
<1> DEFINE high == h[c].high
           low  == h[c].to
<1>0. /\ TypeOK /\ Step(c, h[c]) /\ h[c].pc = "both" /\ h[c].op = "balance" /\ h[c] \in Doing
      /\ high \in Cpu /\ low \in Cpu /\ high # low
  BY DEF Shape, BalancePair, Step, TypeOK
<1>1. UNCHANGED <<idle, lateIdle, ipi, mask, bound, ipc, tried, victim>>
  BY DEF BalancePair, flagVars, idleVars
<1>2. CASE /\ h' = [h EXCEPT ![c].pc = "low", ![c].to = Nobody, ![c].anylow = FALSE,
                             ![c].lmask = @ \ {low}]
           /\ lock' = Released(c) /\ UNCHANGED <<cur, queueVars, ts_cpu>>
  <2> DEFINE k == h[c].lmask \ {low}
             x == [h[c] EXCEPT !.pc = "low", !.to = Nobody, !.anylow = FALSE, !.lmask = k]
  <2>1. h' = [h EXCEPT ![c] = x] /\ k \in SUBSET Cpu /\ high \notin k
    BY <1>0, <1>2 DEF TypeOK, Doing, Step
  <2> HIDE DEF k
  <2>2. x \in Doing /\ x.pc = "low" /\ x.op = "balance" /\ x.high = high /\ x.lmask = k
    BY <1>0, <2>1 DEF Doing
  <2> HIDE DEF x
  <2>3. Step(c, x)
    BY <1>0, <2>1, <2>2 DEF Step
  <2>4. h' \in [Cpu -> Doing] /\ h'[c] = x /\ \A e \in Cpu \ {c} : h'[e] = h[e]
    BY <1>0, <2>1, <2>2 DEF TypeOK
  <2>5. TypeOK'
    BY <1>0, <1>1, <1>2, <2>4, ReleasedFacts DEF TypeOK, queueVars
  <2> QED BY <1>1, <2>3, <2>4, <2>5, ShapeBy
<1>3. ASSUME NEW t \in Stealable(high, low), Moves(t, high, low),
             IF low # c /\ tdq_notify(low, t)
             THEN /\ queue' = MovedQueue(t, high, low)
                  /\ late' = [late EXCEPT ![low] = TRUE]
                  /\ h' = [h EXCEPT ![c].pc = "fence"]
                  /\ UNCHANGED <<cur, lock>>
             ELSE NotifyDone(c, MovedQueue(t, high, low)) /\ UNCHANGED late
      PROVE  Shape'
  <2> DEFINE q == MovedQueue(t, high, low)
  <2>1. /\ q \in [Cpu -> SUBSET Thread]
        /\ load' \in [Cpu -> Int] /\ ts_cpu' \in [Thread -> Cpu]
    BY <1>0, <1>3, MoveFacts
  <2> HIDE DEF q
  <2>2. CASE low # c /\ tdq_notify(low, t)
    <3>1. /\ queue' = q /\ late' = [late EXCEPT ![low] = TRUE]
          /\ h' = [h EXCEPT ![c].pc = "fence"] /\ UNCHANGED <<cur, lock>>
      BY <1>3, <2>2 DEF q
    <3>2. /\ h' \in [Cpu -> Doing] /\ \A e \in Cpu \ {c} : h'[e] = h[e]
          /\ h'[c].pc = "fence" /\ h'[c].op = "balance" /\ h'[c].to = low
      BY <1>0, <3>1, GoesFacts
    <3>3. Step(c, h'[c])
      BY <1>0, <3>2 DEF Step
    <3>4. TypeOK'
      BY <1>0, <1>1, <2>1, <3>1, <3>2 DEF TypeOK
    <3> QED BY <1>1, <3>2, <3>3, <3>4, ShapeBy
  <2>3. CASE ~(low # c /\ tdq_notify(low, t))
    <3>1. NotifyDone(c, q) /\ UNCHANGED late
      BY <1>3, <2>3 DEF q
    <3>2. /\ h' \in [Cpu -> Doing] /\ Step(c, h'[c]) /\ \A e \in Cpu \ {c} : h'[e] = h[e]
          /\ cur' \in [Cpu -> Thread \cup {Idle}] /\ queue' \in [Cpu -> SUBSET Thread]
          /\ lock' \in [Cpu -> Cpu \cup {Nobody}]
      BY <1>0, <2>1, <3>1, DoneFacts
    <3>3. TypeOK'
      BY <1>0, <1>1, <2>1, <3>1, <3>2 DEF TypeOK
    <3> QED BY <1>1, <3>2, <3>3, ShapeBy
  <2> QED BY <2>2, <2>3
<1> QED BY <1>2, <1>3 DEF BalancePair

\* A store buffer is written back.
LEMMA DrainShape == Shape /\ Drain => Shape'
BY DEF Shape, TypeOK, Drain, threadVars, idleVars

\* At boot every processor is in its idle loop.
LEMMA InitShape == Init => Shape
<1> SUFFICES ASSUME Init PROVE Shape
  OBVIOUS
<1>1. TypeOK
  BY UleSmpAssumption, NothingFacts DEF Init, TypeOK
<1>2. \A c \in Cpu : h[c] = Nothing /\ ipc[c] = "loop"
  BY DEF Init
<1> QED BY <1>1, <1>2, NothingFacts DEF Shape

\* No step breaks the types or the steps of the processors.
LEMMA NextShape == Shape /\ [Next]_vars => Shape'
<1> SUFFICES ASSUME Shape, [Next]_vars PROVE Shape'
  OBVIOUS
<1>1. CASE UNCHANGED vars
  BY <1>1 DEF vars, Shape, TypeOK, Step
<1>2. CASE Drain
  BY <1>2, DrainShape
<1>3. ASSUME NEW c \in Cpu, NEW t \in Thread, SchedWakeup(c, t) \/ SchedAffinity(c, t) PROVE Shape'
  BY <1>3, WakeupShape, AffinityShape
<1>4. ASSUME NEW c \in Cpu,
             \/ LockOne(c) \/ LockTwo(c) \/ NotifyFence(c) \/ NotifyWake(c)
             \/ SchedAdd(c) \/ SchedReadd(c) \/ SchedPreempt(c) \/ SchedSwitch(c) \/ Migrate(c)
             \/ SchedSleep(c) \/ SchedBind(c)
      PROVE  Shape'
  BY <1>4, LockShape, FenceShape, WakeShape, AddShape, ReaddShape, PreemptShape, SwitchShape,
     MigrateShape, SleepShape, BindShape
<1>5. ASSUME NEW c \in Cpu,
             \/ TrySearch(c) \/ TrySteal(c)
             \/ IdleLoop(c) \/ IdleSearch(c) \/ IdleLock(c) \/ IdleSteal(c) \/ IdleRest(c) \/ IdleFence(c)
             \/ IdleRecheck(c) \/ CpuIdle(c) \/ IdleClear(c)
             \/ SchedBalance(c) \/ BalanceHigh(c) \/ BalanceLow(c) \/ BalancePair(c)
      PROVE  Shape'
  BY <1>5, SearchShape, StealShape, IdleShape, IdleLoopShape, IdleLockShape, IdleStealShape,
     BalanceShape, PairShape
<1> QED BY <1>1, <1>2, <1>3, <1>4, <1>5, UleSmpAssumption DEF Next

\* A processor has finitely many threads.
LEMMA HereFinite ==
  ASSUME NEW c \in Cpu
  PROVE  IsFiniteSet(Here(c)) /\ IsFiniteSet(Here(c))' /\ Here(c) \subseteq Thread
BY FS_Subset, UleSmpAssumption DEF Here

\* A step that finds a new place for thread t0, and none for any other.
LEMMA PlacesStep ==
  ASSUME Shape, Shape', Places, NEW t0,
         \A c \in Cpu : \/ Here(c)' = Here(c) /\ load'[c] = load[c]
                        \/ t0 \in Here(c) /\ Here(c)' = Here(c) \ {t0} /\ load'[c] = load[c] - 1
                        \/ t0 \notin Here(c) /\ Here(c)' = Here(c) \cup {t0} /\ load'[c] = load[c] + 1,
         \A t \in Thread \ {t0} : ts_cpu'[t] = ts_cpu[t] /\ mask'[t] = mask[t] /\ bound'[t] = bound[t],
         \A c \in Cpu : \A t \in queue'[c] : ~Runs(c, t)' /\ (t # t0 => t \in queue[c]),
         \A c \in Cpu : \A t \in Thread \ {t0} : InHand(c, t)' =>
            InHand(c, t) /\ h'[c].to = h[c].to /\ (h[c].pc = "readd" => h'[c].pc = "readd"),
         \A c \in Cpu : t0 \in queue'[c] => Allowed(t0, c)',
         \A c, d \in Cpu : t0 \in Here(c)' /\ t0 \in Here(d)' => c = d,
         \A c, d \in Cpu : InHand(c, t0)' => t0 \notin Here(d)' /\ (InHand(d, t0)' => c = d),
         \A c \in Cpu : InHand(c, t0)' /\ h'[c].pc # "readd" => Allowed(t0, h[c].to)',
         \A c \in Cpu : h'[c].op = "idled" => cur'[c] = Idle
  PROVE  Places'
<1>1. \A c \in Cpu : load'[c] = Cardinality(Here(c)')
  <2> TAKE c \in Cpu
  <2>1. load[c] = Cardinality(Here(c)) /\ IsFiniteSet(Here(c))
    BY HereFinite DEF Places
  <2>2. CASE Here(c)' = Here(c) /\ load'[c] = load[c]
    BY <2>1, <2>2
  <2>3. CASE t0 \in Here(c) /\ Here(c)' = Here(c) \ {t0} /\ load'[c] = load[c] - 1
    BY <2>1, <2>3, FS_RemoveElement
  <2>4. CASE t0 \notin Here(c) /\ Here(c)' = Here(c) \cup {t0} /\ load'[c] = load[c] + 1
    <3> DEFINE S == Here(c)
    <3>1. IsFiniteSet(S) /\ t0 \notin S
      BY <2>1, <2>4
    <3>2. Cardinality(S \cup {t0}) = Cardinality(S) + 1
      <4> HIDE DEF S
      <4> QED BY <3>1, FS_AddElement
    <3> QED BY <2>1, <2>4, <3>2
  <2> QED BY <2>2, <2>3, <2>4
<1>2. \A c \in Cpu : \A t \in Here(c)' : t # t0 => t \in Here(c)
  OBVIOUS
<1>3. \A c, d \in Cpu : \A t \in Thread : t \in Here(c)' /\ t \in Here(d)' => c = d
  BY <1>2 DEF Places
<1>4. \A c \in Cpu : \A t \in queue'[c] : ~Runs(c, t)' /\ Allowed(t, c)'
  <2> TAKE c \in Cpu
  <2> TAKE t \in queue'[c]
  <2>1. t \in Thread
    BY DEF Shape, TypeOK
  <2>2. CASE t # t0
    BY <2>1, <2>2 DEF Places, Allowed
  <2> QED BY <2>2
<1>5. \A c, d \in Cpu : \A t \in Thread : InHand(c, t)' => t \notin Here(d)'
  BY <1>2 DEF Places
<1>6. \A c, d \in Cpu : \A t \in Thread : InHand(c, t)' /\ InHand(d, t)' => c = d
  BY DEF Places
<1>7. \A c \in Cpu : \A t \in Thread : InHand(c, t)' /\ h'[c].pc # "readd" => Allowed(t, h[c].to)'
  <2> TAKE c \in Cpu
  <2> TAKE t \in Thread
  <2>1. CASE t # t0
    BY <2>1 DEF Places, Allowed
  <2> QED BY <2>1
<1> QED BY <1>1, <1>3, <1>4, <1>5, <1>6, <1>7 DEF Places

\* A step that finds a new place for no thread.
LEMMA QuietPlaces ==
  ASSUME Shape, Shape', Places, UNCHANGED <<load, ts_cpu, mask, bound>>,
         \A c \in Cpu : Here(c)' = Here(c),
         \A c \in Cpu : \A t \in queue'[c] : ~Runs(c, t)' /\ t \in queue[c],
         \A c \in Cpu : \A t \in Thread : InHand(c, t)' =>
            InHand(c, t) /\ h'[c].to = h[c].to /\ (h[c].pc = "readd" => h'[c].pc = "readd"),
         \A c \in Cpu : h'[c].op = "idled" => cur'[c] = Idle
  PROVE  Places'
<1>1. CASE Thread = {}
  BY <1>1 DEF Places, Here, Shape, TypeOK
<1>2. CASE Thread # {}
  <2>1. PICK t0 : t0 \in Thread
    BY <1>2
  <2>2. \A c, d \in Cpu : t0 \in Here(c)' /\ t0 \in Here(d)' => c = d
    BY <2>1 DEF Places
  <2>3. \A c, d \in Cpu : InHand(c, t0)' => t0 \notin Here(d)' /\ (InHand(d, t0)' => c = d)
    BY <2>1 DEF Places
  <2>4. \A c \in Cpu : InHand(c, t0)' /\ h'[c].pc # "readd" => Allowed(t0, h[c].to)'
    BY <2>1 DEF Places, Allowed
  <2>5. \A c \in Cpu : t0 \in queue'[c] => Allowed(t0, c)'
    BY <2>1 DEF Places, Allowed
  <2> QED BY <2>2, <2>3, <2>4, <2>5, PlacesStep
<1> QED BY <1>1, <1>2

\* A step that changes what one processor does, and moves no thread.
LEMMA DoingPlaces ==
  ASSUME Shape, Shape', Places, UNCHANGED <<cur, queue, load, ts_cpu, mask, bound>>,
         NEW c \in Cpu, \A e \in Cpu \ {c} : h'[e] = h[e],
         Leaving(c)' <=> Leaving(c),
         \A t \in Thread : InHand(c, t)' =>
            InHand(c, t) /\ h'[c].to = h[c].to /\ (h[c].pc = "readd" => h'[c].pc = "readd"),
         h'[c].op = "idled" => cur[c] = Idle
  PROVE  Places'
<1>1. \A e \in Cpu : Leaving(e)' <=> Leaving(e)
  BY DEF Leaving
<1>2. \A e \in Cpu : \A t : Runs(e, t)' <=> Runs(e, t)
  BY <1>1 DEF Runs
<1>3. \A e \in Cpu : Here(e)' = Here(e)
  BY <1>2 DEF Here
<1>4. \A e \in Cpu : \A t \in queue'[e] : ~Runs(e, t)' /\ t \in queue[e]
  BY <1>2 DEF Places
<1>5. \A e \in Cpu : \A t \in Thread : InHand(e, t)' =>
            InHand(e, t) /\ h'[e].to = h[e].to /\ (h[e].pc = "readd" => h'[e].pc = "readd")
  BY DEF InHand
<1>6. \A e \in Cpu : h'[e].op = "idled" => cur'[e] = Idle
  BY DEF Places
<1> QED BY <1>3, <1>4, <1>5, <1>6, QuietPlaces

\* The end of sched_switch on processor c, with the queues q before the switch.
LEMMA SwitchHere ==
  ASSUME Shape, NEW c \in Cpu, NEW q \in [Cpu -> SUBSET Thread], Switches(c, q),
         \A e \in Cpu \ {c} : h'[e] = h[e],
         h'[c].op \notin {"try", "migrate"}
  PROVE  /\ Here(c)' = q[c]
         /\ \A t \in queue'[c] : ~Runs(c, t)' /\ t \in q[c]
         /\ \A e \in Cpu \ {c} : /\ Here(e)' = q[e] \cup {t \in Thread : Runs(e, t)}
                                 /\ queue'[e] = q[e] /\ \A t : Runs(e, t)' <=> Runs(e, t)
<1>1. /\ \A d \in Cpu \ {c} : cur'[d] = cur[d] /\ queue'[d] = q[d]
      /\ queue'[c] \subseteq q[c] /\ cur'[c] \notin queue'[c]
      /\ cur'[c] = Idle <=> q[c] = {}
      /\ cur'[c] # Idle => q[c] = queue'[c] \cup {cur'[c]}
  BY SwitchTypes DEF Shape
<1>2. \A t : Runs(c, t)' <=> cur'[c] = t
  BY DEF Runs, Leaving
<1>3. Idle \notin Thread /\ q[c] \subseteq Thread
  BY UleSmpAssumption
<1>4. Here(c)' = {t \in Thread : t \in queue'[c] \/ cur'[c] = t}
  BY <1>2 DEF Here
<1>5. Here(c)' = q[c]
  BY <1>1, <1>3, <1>4
<1>6. \A t \in queue'[c] : ~Runs(c, t)' /\ t \in q[c]
  BY <1>1, <1>2
<1>7. ASSUME NEW e \in Cpu \ {c}
      PROVE  /\ Here(e)' = q[e] \cup {t \in Thread : Runs(e, t)}
             /\ queue'[e] = q[e] /\ \A t : Runs(e, t)' <=> Runs(e, t)
  <2>1. \A t : Runs(e, t)' <=> Runs(e, t)
    BY <1>1 DEF Runs, Leaving
  <2>2. Here(e)' = {t \in Thread : t \in q[e] \/ Runs(e, t)}
    BY <1>1, <2>1 DEF Here
  <2>3. q[e] \subseteq Thread
    OBVIOUS
  <2> QED BY <1>1, <2>1, <2>2, <2>3
<1> QED BY <1>5, <1>6, <1>7

\* A processor whose thread sleeps, migrated or was the idle one runs one of its queue.
LEMMA ResumePlaces ==
  ASSUME Shape, Shape', Places, UNCHANGED <<load, ts_cpu, mask, bound>>,
         NEW c \in Cpu, Switches(c, queue), \A e \in Cpu \ {c} : h'[e] = h[e],
         h'[c].op \notin {"try", "migrate", "idled"}, \A t \in Thread : ~InHand(c, t)',
         Leaving(c) \/ cur[c] = Idle
  PROVE  Places'
<1>1. queue \in [Cpu -> SUBSET Thread]
  BY DEF Shape, TypeOK
<1>2. /\ Here(c)' = queue[c]
      /\ \A t \in queue'[c] : ~Runs(c, t)' /\ t \in queue[c]
      /\ \A e \in Cpu \ {c} : /\ Here(e)' = queue[e] \cup {t \in Thread : Runs(e, t)}
                              /\ queue'[e] = queue[e] /\ \A t : Runs(e, t)' <=> Runs(e, t)
  BY <1>1, SwitchHere
<1>3. \A t \in Thread : ~Runs(c, t)
  BY UleSmpAssumption DEF Runs
<1>4. Here(c)' = Here(c)
  BY <1>1, <1>2, <1>3 DEF Here
<1>5. \A e \in Cpu \ {c} : Here(e)' = Here(e)
  BY <1>1, <1>2 DEF Here
<1>6. \A e \in Cpu : \A t \in queue'[e] : ~Runs(e, t)' /\ t \in queue[e]
  BY <1>2 DEF Places
<1>7. \A e \in Cpu : \A t \in Thread : InHand(e, t)' =>
            InHand(e, t) /\ h'[e].to = h[e].to /\ (h[e].pc = "readd" => h'[e].pc = "readd")
  BY DEF InHand
<1>8. \A e \in Cpu : h'[e].op = "idled" => cur'[e] = Idle
  <2>1. \A e \in Cpu \ {c} : cur'[e] = cur[e]
    BY <1>1, SwitchTypes DEF Shape
  <2> QED BY <2>1 DEF Places
<1> QED BY <1>4, <1>5, <1>6, <1>7, <1>8, QuietPlaces

\* Locking two queues moves no thread.
LEMMA LockPlaces ==
  ASSUME Shape, Shape', Places, NEW c \in Cpu, LockOne(c) \/ LockTwo(c)
  PROVE  Places'
<1>1. /\ \A e \in Cpu \ {c} : h'[e] = h[e]
      /\ h'[c].op = h[c].op /\ h'[c].td = h[c].td /\ h'[c].to = h[c].to
      /\ h[c].pc \in {"lock_one", "lock_two"} /\ h'[c].pc \in {"lock_two", "both"}
  BY LockShape
<1>2. UNCHANGED <<cur, queue, load, ts_cpu, mask, bound>>
  BY DEF LockOne, LockTwo, queueVars, threadVars
<1>3. Leaving(c)' <=> Leaving(c)
  BY <1>1 DEF Leaving
<1>4. \A t \in Thread : InHand(c, t)' => InHand(c, t)
  BY <1>1 DEF InHand
<1>5. h'[c].op = "idled" => cur[c] = Idle
  BY <1>1 DEF Places
<1> QED BY <1>1, <1>2, <1>3, <1>4, <1>5, DoingPlaces

\* Nor does the fence.
LEMMA FencePlaces ==
  ASSUME Shape, Shape', Places, NEW c \in Cpu, NotifyFence(c)
  PROVE  Places'
<1>1. /\ \A e \in Cpu \ {c} : h'[e] = h[e]
      /\ h'[c].op = h[c].op /\ h'[c].td = h[c].td /\ h'[c].to = h[c].to
      /\ h[c].pc = "fence" /\ h'[c].pc = "wake"
  BY FenceShape
<1>2. UNCHANGED <<cur, queue, load, ts_cpu, mask, bound>>
  BY DEF NotifyFence, threadVars
<1>3. Leaving(c)' <=> Leaving(c)
  BY <1>1 DEF Leaving
<1>4. \A t \in Thread : ~InHand(c, t)'
  BY <1>1 DEF InHand
<1>5. h'[c].op = "idled" => cur[c] = Idle
  BY <1>1 DEF Places
<1> QED BY <1>1, <1>2, <1>3, <1>4, <1>5, DoingPlaces

\* After tdq_notify the processor of a thread that migrated runs another.
LEMMA WakePlaces ==
  ASSUME Shape, Shape', Places, NEW c \in Cpu, NotifyWake(c)
  PROVE  Places'
<1>1. /\ h[c].pc = "wake" /\ NotifyDone(c, queue) /\ h[c].op \in {"add", "migrate", "balance"}
      /\ queue \in [Cpu -> SUBSET Thread]
  BY DEF NotifyWake, Shape, Step, TypeOK
<1>2. /\ \A e \in Cpu \ {c} : h'[e] = h[e]
      /\ h'[c].pc \in {"none", "high"} /\ h'[c].td = Idle
      /\ h'[c].op = (IF h[c].op = "balance" THEN "balance" ELSE "none")
      /\ h[c].op = "migrate" => Switches(c, queue)
      /\ h[c].op # "migrate" => queue' = queue /\ cur' = cur
  BY <1>1, DoneFacts
<1>3. UNCHANGED <<load, ts_cpu, mask, bound>>
  BY DEF NotifyWake, threadVars
<1>4. \A t \in Thread : ~InHand(c, t)'
  BY <1>2 DEF InHand
<1>5. CASE h[c].op = "migrate"
  BY <1>2, <1>3, <1>4, <1>5, ResumePlaces DEF Leaving
<1>6. CASE h[c].op # "migrate"
  <2>1. Leaving(c)' <=> Leaving(c)
    BY <1>1, <1>2, <1>6 DEF Leaving
  <2> QED BY <1>2, <1>3, <1>4, <1>6, <2>1, DoingPlaces
<1> QED BY <1>5, <1>6

\* Choosing a donor and a receiver moves no thread.
LEMMA BalancePlaces ==
  ASSUME Shape, Shape', Places, NEW c \in Cpu, SchedBalance(c) \/ BalanceHigh(c) \/ BalanceLow(c)
  PROVE  Places'
<1>1. /\ \A e \in Cpu \ {c} : h'[e] = h[e]
      /\ h'[c].pc \in {"none", "high", "low", "lock_one"} /\ h'[c].op \in {"none", "balance"}
      /\ h[c].op \in {"none", "balance"}
  BY BalanceShape
<1>2. UNCHANGED <<cur, queue, load, ts_cpu, mask, bound>>
  BY DEF SchedBalance, BalanceHigh, BalanceLow, queueVars, threadVars
<1>3. Leaving(c)' <=> Leaving(c)
  BY <1>1 DEF Leaving
<1>4. \A t \in Thread : ~InHand(c, t)'
  BY <1>1 DEF InHand
<1> QED BY <1>1, <1>2, <1>3, <1>4, DoingPlaces

\* A processor that takes interrupts has no thread in hand, and runs its own.
LEMMA OpenFacts ==
  ASSUME Shape, NEW c \in Cpu, Open(c)
  PROVE  h[c] = Nothing /\ ~Leaving(c) /\ \A t \in Thread : ~InHand(c, t)
BY NothingFacts, UleSmpAssumption DEF Shape, Open, Step, Leaving, InHand

\* Going to steal moves no thread.
LEMMA IdleLockPlaces ==
  ASSUME Shape, Shape', Places, NEW c \in Cpu, IdleLock(c)
  PROVE  Places'
<1>1. /\ \A e \in Cpu \ {c} : h'[e] = h[e]
      /\ h'[c].pc = "lock_one" /\ h'[c].op = "idled"
  BY IdleLockShape
<1>2. UNCHANGED <<cur, queue, load, ts_cpu, mask, bound>> /\ Open(c) /\ cur[c] = Idle
  BY DEF IdleLock, IdleAt, queueVars, threadVars
<1>3. ~Leaving(c) /\ ~Leaving(c)'
  BY <1>1, <1>2, OpenFacts DEF Leaving
<1>4. \A t \in Thread : ~InHand(c, t)'
  BY <1>1 DEF InHand
<1> QED BY <1>1, <1>2, <1>3, <1>4, DoingPlaces

\* Nothing that Places speaks of changes.
LEMMA SamePlaces ==
  ASSUME Shape, Shape', Places, UNCHANGED <<cur, queue, load, ts_cpu, mask, bound, h>>
  PROVE  Places'
BY DEF Places, Here, Runs, Leaving, InHand, Allowed

\* The idle thread on its way to sleep moves no thread.
LEMMA IdlePlaces ==
  ASSUME Shape, Shape', Places, NEW c \in Cpu,
         IdleSearch(c) \/ IdleRest(c) \/ IdleFence(c) \/ IdleRecheck(c) \/ CpuIdle(c) \/ IdleClear(c)
  PROVE  Places'
BY SamePlaces DEF IdleSearch, IdleRest, IdleFence, IdleRecheck, CpuIdle, IdleClear, queueVars, threadVars

\* Nor does a store buffer.
LEMMA DrainPlaces ==
  ASSUME Shape, Shape', Places, Drain
  PROVE  Places'
BY SamePlaces DEF Drain, threadVars

\* The idle thread finds a thread in its queue.
LEMMA IdleLoopPlaces ==
  ASSUME Shape, Shape', Places, NEW c \in Cpu, IdleLoop(c)
  PROVE  Places'
<1>1. UNCHANGED <<load, ts_cpu, mask, bound, h>> /\ Open(c) /\ cur[c] = Idle
  BY DEF IdleLoop, IdleAt, threadVars
<1>2. CASE UNCHANGED <<cur, queue>>
  BY <1>1, <1>2, SamePlaces
<1>3. CASE Switches(c, queue)
  <2>1. h'[c].op = "none" /\ \A t \in Thread : ~InHand(c, t)'
    BY <1>1, OpenFacts, NothingFacts DEF InHand
  <2> QED BY <1>1, <1>3, <2>1, ResumePlaces
<1> QED BY <1>2, <1>3 DEF IdleLoop

\* A processor ends what it did with interrupts off.
LEMMA NothingDoes ==
  ASSUME Shape, NEW c \in Cpu, h' = [h EXCEPT ![c] = Nothing]
  PROVE  /\ h'[c] = Nothing /\ \A e \in Cpu \ {c} : h'[e] = h[e]
         /\ h'[c].op = "none" /\ ~Leaving(c)' /\ \A t \in Thread : ~InHand(c, t)'
<1>1. h'[c] = Nothing /\ \A e \in Cpu \ {c} : h'[e] = h[e]
  BY DEF Shape, TypeOK
<1> QED BY <1>1, NothingFacts DEF Leaving, InHand

\* tdq_trysteal finds no victim and the processor switches, or it finds one.
LEMMA SearchPlaces ==
  ASSUME Shape, Shape', Places, NEW c \in Cpu, TrySearch(c)
  PROVE  Places'
<1>1. UNCHANGED <<load, ts_cpu, mask, bound>> /\ Leaving(c)
  BY DEF TrySearch, threadVars, Leaving
<1>2. CASE h' = [h EXCEPT ![c] = Nothing] /\ Switches(c, queue)
  BY <1>1, <1>2, NothingDoes, ResumePlaces
<1>3. CASE \E v : h' = [h EXCEPT ![c].pc = "lock_one", ![c].to = v] /\ UNCHANGED <<cur, queue>>
  <2>0. PICK v : h' = [h EXCEPT ![c].pc = "lock_one", ![c].to = v] /\ UNCHANGED <<cur, queue>>
    BY <1>3
  <2> DEFINE x == [h[c] EXCEPT !.pc = "lock_one", !.to = v]
  <2>1. h[c] \in Doing /\ h' = [h EXCEPT ![c] = x] /\ h[c].op = "try"
    BY <2>0 DEF TrySearch, Shape, TypeOK
  <2>2. x.op = "try" /\ x.pc = "lock_one"
    BY <2>1 DEF Doing
  <2> HIDE DEF x
  <2>4. h'[c] = x /\ \A e \in Cpu \ {c} : h'[e] = h[e]
    BY <2>1 DEF Shape, TypeOK
  <2>3. Leaving(c)' /\ \A t \in Thread : ~InHand(c, t)'
    BY <2>2, <2>4 DEF Leaving, InHand
  <2> QED BY <1>1, <2>0, <2>2, <2>3, <2>4, DoingPlaces
<1> QED BY <1>2, <1>3 DEF TrySearch

\* A thread is stolen, and the processor runs one of its queue.
LEMMA StolenPlaces ==
  ASSUME Shape, Shape', Places, NEW c \in Cpu, NEW v \in Cpu \ {c}, NEW t \in Stealable(v, c),
         Moves(t, v, c), Switches(c, MovedQueue(t, v, c)), UNCHANGED <<mask, bound>>,
         h' = [h EXCEPT ![c] = Nothing], Leaving(c) \/ cur[c] = Idle
  PROVE  Places'
<1> DEFINE q == MovedQueue(t, v, c)
<1>0. TypeOK
  BY DEF Shape
<1>1. /\ t \in Thread /\ t \in queue[v] /\ c \in mask[t]
      /\ q \in [Cpu -> SUBSET Thread]
      /\ q[v] = queue[v] \ {t} /\ q[c] = queue[c] \cup {t}
      /\ \A d \in Cpu \ {v, c} : q[d] = queue[d] /\ load'[d] = load[d]
      /\ load'[v] = load[v] - 1 /\ load'[c] = load[c] + 1
      /\ ts_cpu' = [ts_cpu EXCEPT ![t] = c]
  BY <1>0, MoveFacts
<1> HIDE DEF q
<1>2. /\ \A e \in Cpu \ {c} : h'[e] = h[e]
      /\ h'[c].op = "none" /\ \A u \in Thread : ~InHand(c, u)'
  BY NothingDoes
<1>3. /\ Here(c)' = q[c]
      /\ \A u \in queue'[c] : ~Runs(c, u)' /\ u \in q[c]
      /\ \A e \in Cpu \ {c} : /\ Here(e)' = q[e] \cup {u \in Thread : Runs(e, u)}
                              /\ queue'[e] = q[e] /\ \A u : Runs(e, u)' <=> Runs(e, u)
  BY <1>1, <1>2, SwitchHere DEF q
<1>4. Here(c) = queue[c] /\ t \notin Here(c) /\ t \in Here(v) /\ ~Runs(v, t)
  <2>1. \A u \in Thread : ~Runs(c, u)
    BY UleSmpAssumption DEF Runs
  <2>2. Here(c) = queue[c]
    BY <1>0, <2>1 DEF Here, TypeOK
  <2> QED BY <1>1, <2>2 DEF Here, Places
<1>5. Here(c)' = Here(c) \cup {t} /\ Here(v)' = Here(v) \ {t}
  <2>1. Here(v) = queue[v] \cup {u \in Thread : Runs(v, u)}
    BY <1>0 DEF Here, TypeOK
  <2> QED BY <1>1, <1>3, <1>4, <2>1
<1>6. \A e \in Cpu \ {c, v} : Here(e)' = Here(e)
  BY <1>0, <1>1, <1>3 DEF Here, TypeOK
<1>7. \A e \in Cpu : t \notin Here(e) \ Here(v)
  BY <1>1, <1>4 DEF Places
<1>8. \A d \in Cpu : t \in Here(d)' => d = c
  BY <1>4, <1>5, <1>6, <1>1 DEF Places
<1>9. \A e \in Cpu : ~InHand(e, t)'
  <2>1. \A e \in Cpu : ~InHand(e, t)
    BY <1>1, <1>4 DEF Places
  <2> QED BY <1>1, <1>2, <2>1 DEF InHand
<1>10. \A d \in Cpu : t \in queue'[d] => Allowed(t, d)'
  <2>1. Allowed(t, c)'
    BY <1>0, <1>1 DEF Allowed, TypeOK
  <2>2. \A d \in Cpu : t \in queue'[d] => d = c
    BY <1>1, <1>8 DEF Here
  <2> QED BY <2>1, <2>2
<1>11. \A d \in Cpu : \A u \in queue'[d] : ~Runs(d, u)' /\ (u # t => u \in queue[d])
  BY <1>1, <1>3 DEF Places
<1>12. \A d \in Cpu : \A u \in Thread \ {t} : InHand(d, u)' =>
            InHand(d, u) /\ h'[d].to = h[d].to /\ (h[d].pc = "readd" => h'[d].pc = "readd")
  BY <1>2 DEF InHand
<1>13. \A d \in Cpu : h'[d].op = "idled" => cur'[d] = Idle
  <2>1. \A d \in Cpu \ {c} : cur'[d] = cur[d]
    BY <1>0, <1>1, SwitchTypes DEF q
  <2> QED BY <1>2, <2>1 DEF Places
<1>14. \A u \in Thread \ {t} : ts_cpu'[u] = ts_cpu[u] /\ mask'[u] = mask[u] /\ bound'[u] = bound[u]
  BY <1>0, <1>1 DEF TypeOK
<1>15. \A d \in Cpu : \/ Here(d)' = Here(d) /\ load'[d] = load[d]
                      \/ t \in Here(d) /\ Here(d)' = Here(d) \ {t} /\ load'[d] = load[d] - 1
                      \/ t \notin Here(d) /\ Here(d)' = Here(d) \cup {t} /\ load'[d] = load[d] + 1
  BY <1>1, <1>4, <1>5, <1>6
<1> QED BY <1>8, <1>9, <1>10, <1>11, <1>12, <1>13, <1>14, <1>15, PlacesStep

\* With both locks, a thread is stolen or none.
LEMMA StealPlaces ==
  ASSUME Shape, Shape', Places, NEW c \in Cpu, TrySteal(c) \/ IdleSteal(c)
  PROVE  Places'
<1> DEFINE v == h[c].to
<1>1. /\ h' = [h EXCEPT ![c] = Nothing] /\ UNCHANGED <<mask, bound>> /\ v \in Cpu \ {c}
      /\ Leaving(c) \/ cur[c] = Idle
  <2>1. Step(c, h[c]) /\ h[c].pc = "both" /\ h[c].op \in {"try", "idled"}
    BY DEF TrySteal, IdleSteal, Shape
  <2>2. v \in Cpu \ {c}
    BY <2>1 DEF Step
  <2>3. Leaving(c) \/ cur[c] = Idle
    BY <2>1 DEF Leaving, Places
  <2> QED BY <2>2, <2>3 DEF TrySteal, IdleSteal
<1>2. /\ \A e \in Cpu \ {c} : h'[e] = h[e]
      /\ h'[c].op = "none" /\ ~Leaving(c)' /\ \A u \in Thread : ~InHand(c, u)'
  BY <1>1, NothingDoes
<1>3. CASE Switches(c, queue) /\ UNCHANGED <<load, ts_cpu>>
  BY <1>1, <1>2, <1>3, ResumePlaces
<1>4. CASE IdleSteal(c) /\ UNCHANGED <<cur, queue, load, ts_cpu>>
  <2>1. ~Leaving(c)
    BY <1>4 DEF IdleSteal, Leaving
  <2> QED BY <1>1, <1>2, <1>4, <2>1, DoingPlaces
<1>5. CASE \E t \in Stealable(v, c) : Moves(t, v, c) /\ Switches(c, MovedQueue(t, v, c))
  BY <1>1, <1>5, StolenPlaces
<1>6. CASE TrySteal(c)
  BY <1>3, <1>5, <1>6 DEF TrySteal
<1>7. CASE IdleSteal(c)
  BY <1>3, <1>4, <1>5, <1>7 DEF IdleSteal, queueVars
<1> QED BY <1>6, <1>7

\* A thread that was nowhere is taken in hand, for a processor that it may run on.
LEMMA WakeupPlaces ==
  ASSUME Shape, Shape', Places, NEW c \in Cpu, NEW t \in Thread, SchedWakeup(c, t)
  PROVE  Places'
<1>1. PICK d \in Cpu : /\ d \in mask[t] \/ (bound[t] /\ d = ts_cpu[t])
                       /\ \A e \in Cpu \ {c} : h'[e] = h[e]
                       /\ h'[c].pc = "add" /\ h'[c].op = "add" /\ h'[c].td = t /\ h'[c].to = d
                       /\ ts_cpu' = [ts_cpu EXCEPT ![t] = d]
  BY WakeupShape
<1>2. UNCHANGED <<cur, queue, load, mask, bound>> /\ Open(c) /\ Off(t) /\ ts_cpu \in [Thread -> Cpu]
  BY DEF SchedWakeup, queueVars, Shape, TypeOK
<1>3. \A e \in Cpu : \A u : Runs(e, u)' <=> Runs(e, u)
  BY <1>1, <1>2, OpenFacts DEF Runs, Leaving
<1>4. \A e \in Cpu : Here(e)' = Here(e)
  BY <1>2, <1>3 DEF Here
<1>5. \A e \in Cpu : t \notin Here(e) /\ ~InHand(e, t) /\ t \notin queue[e]
  BY <1>2 DEF Off, Here, Runs, InHand
<1>6. \A e \in Cpu : InHand(e, t)' => e = c
  BY <1>1, <1>5 DEF InHand
<1>7. \A e \in Cpu : InHand(e, t)' => Allowed(t, h[e].to)'
  <2>1. ts_cpu'[t] = d /\ h'[c].to = d
    BY <1>1, <1>2
  <2>2. Allowed(t, h[c].to)'
    BY <1>1, <1>2, <2>1 DEF Allowed
  <2> QED BY <1>6, <2>2
<1>8. \A e \in Cpu : \A u \in Thread \ {t} : InHand(e, u)' =>
            InHand(e, u) /\ h'[e].to = h[e].to /\ (h[e].pc = "readd" => h'[e].pc = "readd")
  BY <1>1 DEF InHand
<1>9. \A e \in Cpu : \A u \in queue'[e] : ~Runs(e, u)' /\ (u # t => u \in queue[e])
  BY <1>2, <1>3 DEF Places
<1>10. \A e \in Cpu : h'[e].op = "idled" => cur'[e] = Idle
  BY <1>1, <1>2 DEF Places
<1>11. \A u \in Thread \ {t} : ts_cpu'[u] = ts_cpu[u] /\ mask'[u] = mask[u] /\ bound'[u] = bound[u]
  BY <1>1, <1>2
<1> QED BY <1>2, <1>4, <1>5, <1>6, <1>7, <1>8, <1>9, <1>10, <1>11, PlacesStep

\* The thread taken off a queue gets a processor of its new cpuset.
LEMMA ReaddPlaces ==
  ASSUME Shape, Shape', Places, NEW c \in Cpu, SchedReadd(c)
  PROVE  Places'
<1>0. PICK t \in Thread : TypeOK /\ h[c].pc = "readd" /\ h[c].op = "add" /\ t = h[c].td
  BY DEF Shape, SchedReadd, Step
<1>1. PICK d \in Cpu : /\ d \in mask[t] \/ (bound[t] /\ d = ts_cpu[t])
                       /\ \A e \in Cpu \ {c} : h'[e] = h[e]
                       /\ h'[c].pc = "add" /\ h'[c].op = "add" /\ h'[c].td = t /\ h'[c].to = d
                       /\ ts_cpu' = [ts_cpu EXCEPT ![t] = d]
  BY <1>0, ReaddShape
<1>2. UNCHANGED <<cur, queue, load, mask, bound>>
  BY DEF SchedReadd, queueVars
<1>3. \A e \in Cpu : \A u : Runs(e, u)' <=> Runs(e, u)
  BY <1>0, <1>1, <1>2 DEF Runs, Leaving
<1>4. \A e \in Cpu : Here(e)' = Here(e)
  BY <1>2, <1>3 DEF Here
<1>5. InHand(c, t)
  BY <1>0 DEF InHand
<1>6. \A e \in Cpu : t \notin Here(e) /\ t \notin queue[e] /\ (InHand(e, t) => e = c)
  BY <1>0, <1>5 DEF Places, Here
<1>7. \A e \in Cpu : InHand(e, t)' => e = c
  BY <1>1, <1>6 DEF InHand
<1>8. \A e \in Cpu : InHand(e, t)' => Allowed(t, h[e].to)'
  <2>1. ts_cpu'[t] = d /\ h'[c].to = d
    BY <1>0, <1>1 DEF TypeOK
  <2>2. Allowed(t, h[c].to)'
    BY <1>1, <1>2, <2>1 DEF Allowed
  <2> QED BY <1>7, <2>2
<1>9. \A e \in Cpu : \A u \in Thread \ {t} : InHand(e, u)' =>
            InHand(e, u) /\ h'[e].to = h[e].to /\ (h[e].pc = "readd" => h'[e].pc = "readd")
  BY <1>1 DEF InHand
<1>10. \A e \in Cpu : \A u \in queue'[e] : ~Runs(e, u)' /\ (u # t => u \in queue[e])
  BY <1>2, <1>3 DEF Places
<1>11. \A e \in Cpu : h'[e].op = "idled" => cur'[e] = Idle
  BY <1>1, <1>2 DEF Places
<1>12. \A u \in Thread \ {t} : ts_cpu'[u] = ts_cpu[u] /\ mask'[u] = mask[u] /\ bound'[u] = bound[u]
  BY <1>0, <1>1, <1>2 DEF TypeOK
<1> QED BY <1>2, <1>4, <1>6, <1>7, <1>8, <1>9, <1>10, <1>11, <1>12, PlacesStep

\* The thread that a processor has is put on the queue of processor d.
LEMMA QueuedPlaces ==
  ASSUME Shape, Shape', Places, NEW c \in Cpu, NEW t \in Thread, InHand(c, t), h[c].pc # "readd",
         NEW d \in Cpu, h[c].to = d, load' = [load EXCEPT ![d] = @ + 1], UNCHANGED <<ts_cpu, mask, bound>>,
         \A e \in Cpu \ {c} : h'[e] = h[e] /\ cur'[e] = cur[e],
         h'[c].op # "idled", \A u \in Thread : ~InHand(c, u)',
         Here(d)' = Here(d) \cup {t}, \A e \in Cpu \ {d} : Here(e)' = Here(e),
         \A e \in Cpu : \A u \in queue'[e] : ~Runs(e, u)' /\ (u # t => u \in queue[e])
  PROVE  Places'
<1>1. Allowed(t, d) /\ \A e \in Cpu : t \notin Here(e) /\ (InHand(e, t) => e = c)
  BY DEF Places
<1>2. \A e \in Cpu : ~InHand(e, t)'
  BY <1>1 DEF InHand
<1>3. \A e \in Cpu : t \in Here(e)' => e = d
  BY <1>1
<1>4. \A e \in Cpu : t \in queue'[e] => Allowed(t, e)'
  <2>1. \A e \in Cpu : t \in queue'[e] => t \in Here(e)'
    BY DEF Here
  <2>2. Allowed(t, d)'
    BY <1>1 DEF Allowed
  <2> QED BY <1>3, <2>1, <2>2
<1>5. \A e \in Cpu : \A u \in Thread \ {t} : InHand(e, u)' =>
            InHand(e, u) /\ h'[e].to = h[e].to /\ (h[e].pc = "readd" => h'[e].pc = "readd")
  BY DEF InHand
<1>6. \A e \in Cpu : h'[e].op = "idled" => cur'[e] = Idle
  BY DEF Places
<1>7. load'[d] = load[d] + 1 /\ \A e \in Cpu \ {d} : load'[e] = load[e]
  BY DEF Shape, TypeOK
<1> QED BY <1>1, <1>2, <1>3, <1>4, <1>5, <1>6, <1>7, PlacesStep

\* Where it is put and no processor switches.
LEMMA PutHere ==
  ASSUME Shape, Places, NEW c \in Cpu, NEW t \in Thread, InHand(c, t), NEW d \in Cpu,
         queue' = [queue EXCEPT ![d] = @ \cup {t}], cur' = cur, \A e \in Cpu \ {c} : h'[e] = h[e],
         Leaving(c)' <=> Leaving(c)
  PROVE  /\ Here(d)' = Here(d) \cup {t} /\ \A e \in Cpu \ {d} : Here(e)' = Here(e)
         /\ \A e \in Cpu : \A u \in queue'[e] : ~Runs(e, u)' /\ (u # t => u \in queue[e])
<1>1. \A e \in Cpu : \A u : Runs(e, u)' <=> Runs(e, u)
  BY DEF Runs, Leaving
<1>2. queue'[d] = queue[d] \cup {t} /\ \A e \in Cpu \ {d} : queue'[e] = queue[e]
  BY DEF Shape, TypeOK
<1>3. t \notin Here(d)
  BY DEF Places
<1> QED BY <1>1, <1>2, <1>3 DEF Here, Places

\* Where it is put and the processor switches.
LEMMA PutSwitch ==
  ASSUME Shape, Places, NEW c \in Cpu, NEW t \in Thread, NEW d \in Cpu,
         Switches(c, [queue EXCEPT ![d] = @ \cup {t}]), \A e \in Cpu \ {c} : h'[e] = h[e],
         h'[c].op \notin {"try", "migrate"}, Leaving(c) \/ cur[c] = Idle
  PROVE  /\ Here(d)' = Here(d) \cup {t} /\ \A e \in Cpu \ {d} : Here(e)' = Here(e)
         /\ \A e \in Cpu : \A u \in queue'[e] : (e # c => ~Runs(e, u) \/ u = t) /\ (u # t => u \in queue[e])
         /\ \A u \in queue'[c] : ~Runs(c, u)'
         /\ \A e \in Cpu \ {c} : cur'[e] = cur[e] /\ \A u : Runs(e, u)' <=> Runs(e, u)
<1> DEFINE q == [queue EXCEPT ![d] = @ \cup {t}]
<1>1. /\ q \in [Cpu -> SUBSET Thread] /\ q[d] = queue[d] \cup {t}
      /\ \A e \in Cpu \ {d} : q[e] = queue[e] /\ queue[e] \subseteq Thread
  BY DEF Shape, TypeOK
<1> HIDE DEF q
<1>2. /\ Here(c)' = q[c]
      /\ \A u \in queue'[c] : ~Runs(c, u)' /\ u \in q[c]
      /\ \A e \in Cpu \ {c} : /\ Here(e)' = q[e] \cup {u \in Thread : Runs(e, u)}
                              /\ queue'[e] = q[e] /\ \A u : Runs(e, u)' <=> Runs(e, u)
  BY <1>1, SwitchHere DEF q
<1>3. \A u \in Thread : ~Runs(c, u)
  BY UleSmpAssumption DEF Runs
<1>4. \A e \in Cpu : Here(e) = queue[e] \cup {u \in Thread : Runs(e, u)}
  BY DEF Here, Shape, TypeOK
<1>5. Here(c) = queue[c]
  BY <1>3, <1>4
<1>6. Here(d)' = Here(d) \cup {t} /\ \A e \in Cpu \ {d} : Here(e)' = Here(e)
  <2>1. Here(d)' = Here(d) \cup {t}
    <3>1. CASE d = c
      BY <1>1, <1>2, <1>5, <3>1
    <3>2. CASE d # c
      <4>1. Here(d)' = (queue[d] \cup {t}) \cup {u \in Thread : Runs(d, u)}
        BY <1>1, <1>2, <3>2
      <4>2. Here(d) = queue[d] \cup {u \in Thread : Runs(d, u)}
        BY <1>4
      <4> HIDE DEF Here
      <4> QED BY <4>1, <4>2
    <3> QED BY <3>1, <3>2
  <2>2. ASSUME NEW e \in Cpu \ {d} PROVE Here(e)' = Here(e)
    <3>1. CASE e = c
      BY <1>1, <1>2, <1>5, <3>1
    <3>2. CASE e # c
      <4>1. Here(e)' = queue[e] \cup {u \in Thread : Runs(e, u)}
        BY <1>1, <1>2, <3>2
      <4> QED BY <1>4, <4>1
    <3> QED BY <3>1, <3>2
  <2> QED BY <2>1, <2>2
<1>7. \A e \in Cpu \ {c} : cur'[e] = cur[e]
  BY <1>1, SwitchTypes DEF q, Shape
<1>8. \A e \in Cpu : \A u \in queue'[e] : u \in q[e]
  BY <1>2
<1> QED BY <1>1, <1>2, <1>6, <1>7, <1>8 DEF Places

\* sched_add and sched_switch_migrate put the thread in hand on the queue it was meant for.
LEMMA AddPlaces ==
  ASSUME Shape, Shape', Places, NEW c \in Cpu, SchedAdd(c) \/ Migrate(c)
  PROVE  Places'
<1> DEFINE op == h[c].op
<1>0. PICK t \in Thread, d \in Cpu :
        /\ TypeOK /\ h[c].td = t /\ h[c].to = d /\ InHand(c, t) /\ h[c].pc # "readd"
        /\ h[c].op \in {"add", "migrate"}
        /\ SchedAdd(c) => h[c].op = "add"
        /\ Migrate(c) => h[c].op = "migrate" /\ d # c
  <2>1. TypeOK /\ Step(c, h[c])
    BY DEF Shape
  <2>2. CASE SchedAdd(c)
    <3>1. h[c].pc = "add"
      BY <2>2 DEF SchedAdd
    <3>2. h[c].op = "add" /\ h[c].td \in Thread /\ h[c].to \in Cpu
      BY <2>1, <3>1 DEF Step
    <3>3. InHand(c, h[c].td) /\ h[c].pc # "readd"
      BY <3>1 DEF InHand
    <3>4. ~Migrate(c)
      BY <3>1 DEF Migrate
    <3> QED BY <2>1, <3>2, <3>3, <3>4, Zenon
  <2>3. CASE Migrate(c)
    <3>1. h[c].pc = "both" /\ h[c].op = "migrate"
      BY <2>3 DEF Migrate
    <3>2. h[c].td \in Thread /\ h[c].to \in Cpu /\ h[c].to # c
      BY <2>1, <3>1 DEF Step
    <3>3. InHand(c, h[c].td) /\ h[c].pc # "readd"
      BY <3>1 DEF InHand
    <3>4. ~SchedAdd(c)
      BY <3>1 DEF SchedAdd
    <3> QED BY <2>1, <3>1, <3>2, <3>3, <3>4, Zenon
  <2> QED BY <2>2, <2>3
<1>1. load' = [load EXCEPT ![d] = @ + 1] /\ UNCHANGED <<ts_cpu, mask, bound>>
  BY <1>0 DEF SchedAdd, Migrate, threadVars
<1>2. \A e \in Cpu \ {c} : h'[e] = h[e]
  BY AddShape, MigrateShape
<1> DEFINE q == [queue EXCEPT ![d] = @ \cup {t}]
<1>q. q \in [Cpu -> SUBSET Thread]
  BY <1>0 DEF TypeOK
<1>3. \A e \in Cpu : t \notin Here(e)
  BY <1>0 DEF Places
<1>4. ASSUME queue' = q, cur' = cur, Leaving(c)' <=> Leaving(c), h'[c].op # "idled",
             \A u \in Thread : ~InHand(c, u)'
      PROVE  Places'
  <2>1. /\ Here(d)' = Here(d) \cup {t} /\ \A e \in Cpu \ {d} : Here(e)' = Here(e)
        /\ \A e \in Cpu : \A u \in queue'[e] : ~Runs(e, u)' /\ (u # t => u \in queue[e])
    BY <1>0, <1>2, <1>4, PutHere
  <2> QED BY <1>0, <1>1, <1>2, <1>4, <2>1, QueuedPlaces
<1>5. ASSUME Switches(c, q), h'[c].op = "none", Leaving(c) \/ cur[c] = Idle,
             \A u \in Thread : ~InHand(c, u)'
      PROVE  Places'
  <2>1. /\ Here(d)' = Here(d) \cup {t} /\ \A e \in Cpu \ {d} : Here(e)' = Here(e)
        /\ \A e \in Cpu : \A u \in queue'[e] : (e # c => ~Runs(e, u) \/ u = t) /\ (u # t => u \in queue[e])
        /\ \A u \in queue'[c] : ~Runs(c, u)'
        /\ \A e \in Cpu \ {c} : cur'[e] = cur[e] /\ \A u : Runs(e, u)' <=> Runs(e, u)
    BY <1>0, <1>2, <1>5, PutSwitch
  <2>2. \A e \in Cpu : ~Runs(e, t)
    BY <1>3 DEF Here
  <2>3. \A e \in Cpu : \A u \in queue'[e] : ~Runs(e, u)' /\ (u # t => u \in queue[e])
    BY <2>1, <2>2
  <2>4. \A e \in Cpu \ {c} : h'[e] = h[e] /\ cur'[e] = cur[e]
    BY <1>2, <2>1
  <2>5. h'[c].op # "idled"
    BY <1>5
  <2>6. Here(d)' = Here(d) \cup {t} /\ \A e \in Cpu \ {d} : Here(e)' = Here(e)
    BY <2>1
  <2> HIDE DEF q
  <2> QED BY <1>0, <1>1, <1>5, <2>3, <2>4, <2>5, <2>6, QueuedPlaces
<1>6. ASSUME NotifyDone(c, q) PROVE Places'
  <2>1. /\ h'[c].pc \in {"none", "high"} /\ h'[c].td = Idle /\ h'[c].op = "none"
        /\ h[c].op = "migrate" => Switches(c, q)
        /\ h[c].op # "migrate" => queue' = q /\ cur' = cur
    BY <1>0, <1>q, <1>6, DoneFacts
  <2>2. ~Leaving(c)' /\ \A u \in Thread : ~InHand(c, u)'
    BY <2>1 DEF Leaving, InHand
  <2>3. CASE h[c].op = "migrate"
    BY <1>5, <2>1, <2>2, <2>3 DEF Leaving
  <2>4. CASE h[c].op # "migrate"
    <3>1. ~Leaving(c)
      BY <1>0, <2>4 DEF Leaving
    <3> QED BY <1>4, <2>1, <2>2, <2>4, <3>1
  <2> QED BY <2>3, <2>4
<1>7. CASE SchedAdd(c)
  <2>1. CASE /\ h' = [h EXCEPT ![c] = Nothing]
             /\ (cur[c] = Idle /\ Switches(c, q)) \/ (queue' = q /\ UNCHANGED cur)
    <3>1. /\ h'[c].op = "none" /\ ~Leaving(c)' /\ ~Leaving(c) /\ \A u \in Thread : ~InHand(c, u)'
      BY <1>0, <1>7, <2>1, NothingDoes DEF Leaving
    <3> QED BY <1>4, <1>5, <2>1, <3>1
  <2>2. CASE queue' = q /\ UNCHANGED cur /\ h' = [h EXCEPT ![c].pc = "fence"]
    <3>1. h'[c].pc = "fence" /\ h'[c].op = h[c].op
      BY <1>0, <2>2, GoesFacts
    <3>2. h'[c].op # "idled" /\ (Leaving(c)' <=> Leaving(c)) /\ \A u \in Thread : ~InHand(c, u)'
      BY <1>0, <3>1 DEF Leaving, InHand
    <3> QED BY <1>4, <2>2, <3>2
  <2> QED BY <1>0, <1>6, <1>7, <2>1, <2>2 DEF SchedAdd
<1>8. CASE Migrate(c)
  <2>1. CASE queue' = q /\ UNCHANGED cur /\ h' = [h EXCEPT ![c].pc = "fence", ![c].td = Idle]
    <3> DEFINE x == [h[c] EXCEPT !.pc = "fence", !.td = Idle]
    <3>1. h[c] \in Doing /\ h' = [h EXCEPT ![c] = x]
      BY <1>0, <2>1 DEF TypeOK
    <3>2. x.pc = "fence" /\ x.op = h[c].op
      BY <3>1 DEF Doing
    <3> HIDE DEF x
    <3>3. h'[c] = x
      BY <1>0, <3>1 DEF TypeOK
    <3>4. h'[c].op # "idled" /\ (Leaving(c)' <=> Leaving(c)) /\ \A u \in Thread : ~InHand(c, u)'
      BY <1>0, <3>2, <3>3 DEF Leaving, InHand
    <3> QED BY <1>4, <2>1, <3>4
  <2> QED BY <1>0, <1>6, <1>8, <2>1 DEF Migrate
<1> QED BY <1>7, <1>8

\* The running thread of a processor migrates to another.
LEMMA MigratesPlaces ==
  ASSUME Shape, Shape', Places, NEW c \in Cpu, Open(c), cur[c] \in Thread, NEW d \in Cpu \ {c},
         Migrates(c, cur[c], d), d \in mask'[cur[c]] \/ bound'[cur[c]],
         \A u \in Thread \ {cur[c]} : mask'[u] = mask[u] /\ bound'[u] = bound[u]
  PROVE  Places'
<1>0. PICK t \in Thread : t = cur[c]
  OBVIOUS
<1>1. /\ \A e \in Cpu \ {c} : h'[e] = h[e]
      /\ h'[c].pc = "lock_one" /\ h'[c].op = "migrate" /\ h'[c].td = t /\ h'[c].to = d
      /\ load' = [load EXCEPT ![c] = @ - 1] /\ ts_cpu' = [ts_cpu EXCEPT ![t] = d]
      /\ cur' = cur /\ queue' = queue
  BY <1>0, MigratesFacts DEF Shape
<1>2. ~Leaving(c) /\ Leaving(c)' /\ Runs(c, t)
  BY <1>0, <1>1, OpenFacts DEF Leaving, Runs
<1>3. \A e \in Cpu \ {c} : \A u : Runs(e, u)' <=> Runs(e, u)
  BY <1>1 DEF Runs, Leaving
<1>4. \A u : ~Runs(c, u)' /\ (Runs(c, u) <=> u = t)
  BY <1>0, <1>2 DEF Runs
<1>5. t \in Here(c) /\ Here(c)' = Here(c) \ {t} /\ \A e \in Cpu \ {c} : Here(e)' = Here(e)
  <2>1. t \notin queue[c]
    BY <1>2 DEF Places
  <2> QED BY <1>1, <1>3, <1>4, <2>1 DEF Here
<1>6. \A e \in Cpu : t \notin Here(e)' /\ t \notin queue'[e] /\ (InHand(e, t)' => e = c)
  <2>1. \A e \in Cpu : t \in Here(e) => e = c
    BY <1>5 DEF Places
  <2>2. \A e \in Cpu : t \notin Here(e)'
    BY <1>5, <2>1
  <2>3. \A e \in Cpu : ~InHand(e, t)
    BY <1>5 DEF Places
  <2> QED BY <1>1, <2>2, <2>3 DEF Here, InHand
<1>7. \A e \in Cpu : InHand(e, t)' => Allowed(t, h[e].to)'
  <2>1. ts_cpu'[t] = d
    BY <1>1 DEF Shape, TypeOK
  <2> QED BY <1>0, <1>1, <1>6, <2>1 DEF Allowed
<1>8. \A e \in Cpu : \A u \in Thread \ {t} : InHand(e, u)' =>
            InHand(e, u) /\ h'[e].to = h[e].to /\ (h[e].pc = "readd" => h'[e].pc = "readd")
  BY <1>1 DEF InHand
<1>9. \A e \in Cpu : \A u \in queue'[e] : ~Runs(e, u)' /\ (u # t => u \in queue[e])
  BY <1>1, <1>3, <1>4 DEF Places
<1>10. \A e \in Cpu : h'[e].op = "idled" => cur'[e] = Idle
  BY <1>1 DEF Places
<1>11. \A u \in Thread \ {t} : ts_cpu'[u] = ts_cpu[u] /\ mask'[u] = mask[u] /\ bound'[u] = bound[u]
  BY <1>0, <1>1 DEF Shape, TypeOK
<1>12. load'[c] = load[c] - 1 /\ \A e \in Cpu \ {c} : load'[e] = load[e]
  BY <1>1 DEF Shape, TypeOK
<1> QED BY <1>5, <1>6, <1>7, <1>8, <1>9, <1>10, <1>11, <1>12, PlacesStep

\* A thread that stays runnable is queued where it ran, or is taken in hand to migrate.
LEMMA RunnablePlaces ==
  ASSUME Shape, Shape', Places, NEW c \in Cpu, Open(c), cur[c] # Idle,
         SwitchRunnable(c, cur[c], Assigned(c, cur[c])), UNCHANGED <<mask, bound>>
  PROVE  Places'
<1>0. PICK t \in Thread : t = cur[c] /\ TypeOK
  BY DEF Shape, TypeOK
<1>1. CASE c \in Assigned(c, t) /\ Requeued(c, t)
  <2> DEFINE q == [queue EXCEPT ![c] = @ \cup {t}]
  <2>1. /\ q \in [Cpu -> SUBSET Thread] /\ Switches(c, q) /\ ts_cpu' = [ts_cpu EXCEPT ![t] = c]
        /\ UNCHANGED <<load, h>> /\ q[c] = queue[c] \cup {t} /\ \A e \in Cpu \ {c} : q[e] = queue[e]
    BY <1>0, <1>1 DEF Requeued, TypeOK
  <2> HIDE DEF q
  <2>2. ~Leaving(c) /\ h[c].op = "none" /\ Runs(c, t) /\ \A u : Runs(c, u) <=> u = t
    BY <1>0, OpenFacts, NothingFacts DEF Runs
  <2>3. /\ Here(c)' = q[c]
        /\ \A u \in queue'[c] : ~Runs(c, u)' /\ u \in q[c]
        /\ \A e \in Cpu \ {c} : /\ Here(e)' = q[e] \cup {u \in Thread : Runs(e, u)}
                                /\ queue'[e] = q[e] /\ \A u : Runs(e, u)' <=> Runs(e, u)
    BY <2>1, <2>2, SwitchHere
  <2>4. \A e \in Cpu : Here(e) = queue[e] \cup {u \in Thread : Runs(e, u)}
    BY <1>0 DEF Here, TypeOK
  <2>5. ASSUME NEW e \in Cpu PROVE Here(e)' = Here(e)
    <3>1. CASE e = c
      <4>1. Here(c) = queue[c] \cup {t}
        BY <2>2, <2>4
      <4> QED BY <2>1, <2>3, <3>1, <4>1
    <3>2. CASE e # c
      <4>1. Here(e)' = queue[e] \cup {u \in Thread : Runs(e, u)}
        BY <2>1, <2>3, <3>2
      <4> QED BY <2>4, <4>1
    <3> QED BY <3>1, <3>2
  <2>6. t \in Here(c) /\ \A e \in Cpu : t \in Here(e) => e = c
    BY <2>2 DEF Here, Places
  <2>7. \A e \in Cpu : ~InHand(e, t)'
    BY <2>1, <2>6 DEF Places, InHand
  <2>8. \A e \in Cpu : t \in queue'[e] => Allowed(t, e)'
    <3>1. \A e \in Cpu : t \in queue'[e] => e = c
      BY <2>5, <2>6 DEF Here
    <3>2. ts_cpu'[t] = c /\ (c \in mask[t] \/ bound[t])
      BY <1>0, <1>1, <2>1, AssignedFacts DEF TypeOK
    <3> QED BY <3>1, <3>2 DEF Allowed
  <2>9. \A e \in Cpu : \A u \in queue'[e] : ~Runs(e, u)' /\ (u # t => u \in queue[e])
    BY <2>1, <2>3 DEF Places
  <2>10. \A e \in Cpu : h'[e].op = "idled" => cur'[e] = Idle
    <3>1. \A e \in Cpu \ {c} : cur'[e] = cur[e]
      BY <1>0, <2>1, SwitchTypes
    <3> QED BY <2>1, <2>2, <3>1 DEF Places
  <2>11. \A e \in Cpu : \A u \in Thread \ {t} : InHand(e, u)' =>
            InHand(e, u) /\ h'[e].to = h[e].to /\ (h[e].pc = "readd" => h'[e].pc = "readd")
    BY <2>1 DEF InHand
  <2>12. \A u \in Thread \ {t} : ts_cpu'[u] = ts_cpu[u] /\ mask'[u] = mask[u] /\ bound'[u] = bound[u]
    BY <1>0, <2>1 DEF TypeOK
  <2>13. \A e \in Cpu : Here(e)' = Here(e) /\ load'[e] = load[e]
    BY <2>1, <2>5
  <2>14. \A e, d \in Cpu : t \in Here(e)' /\ t \in Here(d)' => e = d
    BY <2>5, <2>6
  <2> QED BY <2>7, <2>8, <2>9, <2>10, <2>11, <2>12, <2>13, <2>14, PlacesStep
<1>2. CASE \E d \in Assigned(c, t) \ {c} : Migrates(c, t, d)
  <2>1. PICK d \in Assigned(c, t) \ {c} : Migrates(c, t, d)
    BY <1>2
  <2>2. d \in Cpu /\ (d \in mask[t] \/ bound[t])
    BY <1>0, <2>1, AssignedFacts
  <2> QED BY <1>0, <2>1, <2>2, MigratesPlaces
<1> QED BY <1>0, <1>1, <1>2 DEF SwitchRunnable

\* mi_switch of the running thread.
LEMMA SwitchPlaces ==
  ASSUME Shape, Shape', Places, NEW c \in Cpu, SchedSwitch(c)
  PROVE  Places'
BY RunnablePlaces DEF SchedSwitch

\* The interrupt of tdq_notify.
LEMMA PreemptPlaces ==
  ASSUME Shape, Shape', Places, NEW c \in Cpu, SchedPreempt(c)
  PROVE  Places'
<1>1. UNCHANGED <<mask, bound>> /\ Open(c)
  BY DEF SchedPreempt
<1>2. CASE cur[c] # Idle /\ SwitchRunnable(c, cur[c], Assigned(c, cur[c]))
  BY <1>1, <1>2, RunnablePlaces
<1>3. CASE cur[c] = Idle /\ Switches(c, queue) /\ UNCHANGED <<load, ts_cpu, h>>
  <2>1. h'[c].op = "none" /\ \A t \in Thread : ~InHand(c, t)'
    BY <1>1, <1>3, OpenFacts, NothingFacts DEF InHand
  <2> QED BY <1>1, <1>3, <2>1, ResumePlaces
<1>4. CASE UNCHANGED <<cur, queue, load, ts_cpu, h>>
  BY <1>1, <1>4, SamePlaces
<1> QED BY <1>2, <1>3, <1>4 DEF SchedPreempt

\* The running thread of a processor is nowhere else.
LEMMA RunningFacts ==
  ASSUME Shape, Places, NEW d \in Cpu, NEW t \in Thread, t \in Here(d)
  PROVE  /\ \A e \in Cpu : t \in Here(e) => e = d
         /\ \A e \in Cpu : t \in queue[e] => e = d
         /\ \A e \in Cpu : ~InHand(e, t)
         /\ Runs(d, t) => \A e \in Cpu : t \notin queue[e]
<1>1. \A e \in Cpu : t \in Here(e) => e = d
  BY DEF Places
<1>2. \A e \in Cpu : t \in queue[e] => t \in Here(e)
  BY DEF Here
<1> QED BY <1>1, <1>2 DEF Places

\* A thread that goes to sleep is counted no more, and is nowhere.
LEMMA SleepPlaces ==
  ASSUME Shape, Shape', Places, NEW c \in Cpu, SchedSleep(c)
  PROVE  Places'
<1>0. PICK t \in Thread : t = cur[c] /\ TypeOK
  BY DEF Shape, TypeOK, SchedSleep
<1>1. /\ UNCHANGED <<ts_cpu, mask, bound>> /\ Open(c) /\ load' = [load EXCEPT ![c] = @ - 1]
      /\ queue \in [Cpu -> SUBSET Thread]
  BY <1>0 DEF SchedSleep, threadVars, TypeOK
<1>2. /\ Runs(c, t) /\ t \in Here(c) /\ h[c].op = "none" /\ \A u \in Thread : ~InHand(c, u)
      /\ \A u : Runs(c, u) <=> u = t
  BY <1>0, <1>1, OpenFacts, NothingFacts DEF Runs, Here
<1>3. /\ \A e \in Cpu : t \in Here(e) => e = c
      /\ \A e \in Cpu : ~InHand(e, t) /\ t \notin queue[e]
  BY <1>2, RunningFacts
<1>4. /\ Here(c)' = queue[c] /\ \A e \in Cpu \ {c} : Here(e)' = Here(e)
      /\ \A e \in Cpu : \A u \in queue'[e] : ~Runs(e, u)' /\ u \in queue[e]
      /\ h'[c].op \in {"none", "try"} /\ \A u \in Thread : ~InHand(c, u)'
      /\ \A e \in Cpu \ {c} : cur'[e] = cur[e] /\ h'[e] = h[e]
  <2>1. \A e \in Cpu \ {c} : h'[e] = h[e]
    BY SleepShape
  <2>2. CASE Switches(c, queue) /\ UNCHANGED h
    <3>1. /\ Here(c)' = queue[c]
          /\ \A u \in queue'[c] : ~Runs(c, u)' /\ u \in queue[c]
          /\ \A e \in Cpu \ {c} : /\ Here(e)' = queue[e] \cup {u \in Thread : Runs(e, u)}
                                  /\ queue'[e] = queue[e] /\ \A u : Runs(e, u)' <=> Runs(e, u)
      BY <1>1, <1>2, <2>2, SwitchHere
    <3>2. \A e \in Cpu \ {c} : Here(e)' = Here(e)
      BY <1>1, <3>1 DEF Here
    <3>3. \A e \in Cpu \ {c} : cur'[e] = cur[e]
      BY <1>0, <1>1, <2>2, SwitchTypes
    <3> QED BY <1>2, <2>1, <2>2, <3>1, <3>2, <3>3 DEF Places, InHand
  <2>3. CASE /\ UNCHANGED <<cur, queue>>
             /\ h' = [h EXCEPT ![c] = [Nothing EXCEPT !.pc = "search", !.op = "try"]]
    <3> DEFINE x == [Nothing EXCEPT !.pc = "search", !.op = "try"]
    <3>1. x.pc = "search" /\ x.op = "try"
      BY DEF Nothing
    <3> HIDE DEF x
    <3>2. h'[c] = x
      BY <1>0, <2>3 DEF TypeOK, x
    <3>3. Leaving(c)' /\ \A u \in Thread : ~InHand(c, u)'
      BY <3>1, <3>2 DEF Leaving, InHand
    <3>4. /\ \A u : ~Runs(c, u)'
          /\ \A e \in Cpu \ {c} : \A u : Runs(e, u)' <=> Runs(e, u)
      BY <2>1, <2>3, <3>3 DEF Runs, Leaving
    <3>5. Here(c)' = queue[c] /\ \A e \in Cpu \ {c} : Here(e)' = Here(e)
      BY <1>1, <2>3, <3>4 DEF Here
    <3> QED BY <2>1, <2>3, <3>1, <3>2, <3>3, <3>4, <3>5 DEF Places
  <2> QED BY <2>2, <2>3 DEF SchedSleep
<1>5. Here(c)' = Here(c) \ {t}
  <2>1. Here(c) = queue[c] \cup {t}
    BY <1>1, <1>2 DEF Here
  <2> QED BY <1>3, <1>4, <2>1
<1>6. \A e \in Cpu : t \notin Here(e)' /\ t \notin queue'[e] /\ ~InHand(e, t)'
  <2>1. \A e \in Cpu : t \notin Here(e)'
    BY <1>3, <1>4, <1>5
  <2>2. \A e \in Cpu : ~InHand(e, t)'
    BY <1>3, <1>4 DEF InHand
  <2> QED BY <2>1, <2>2, <1>3, <1>4
<1>7. load'[c] = load[c] - 1 /\ \A e \in Cpu \ {c} : load'[e] = load[e]
  BY <1>0, <1>1 DEF TypeOK
<1>8. \A e \in Cpu : \A u \in Thread \ {t} : InHand(e, u)' =>
            InHand(e, u) /\ h'[e].to = h[e].to /\ (h[e].pc = "readd" => h'[e].pc = "readd")
  BY <1>4 DEF InHand
<1>9. \A e \in Cpu : h'[e].op = "idled" => cur'[e] = Idle
  BY <1>4 DEF Places
<1> QED BY <1>1, <1>2, <1>4, <1>5, <1>6, <1>7, <1>8, <1>9, PlacesStep

\* A running thread is bound where it runs, or migrates where it is bound.
LEMMA BindPlaces ==
  ASSUME Shape, Shape', Places, NEW c \in Cpu, SchedBind(c)
  PROVE  Places'
<1>0. PICK t \in Thread : t = cur[c] /\ TypeOK
  BY UleSmpAssumption DEF Shape, TypeOK, SchedBind
<1>1. UNCHANGED mask /\ Open(c) /\ \E b : bound' = [bound EXCEPT ![t] = b]
  BY <1>0 DEF SchedBind
<1>2. \A u \in Thread \ {t} : mask'[u] = mask[u] /\ bound'[u] = bound[u]
  BY <1>0, <1>1 DEF TypeOK
<1>3. CASE UNCHANGED <<cur, queue, load, ts_cpu, h>>
  <2>1. Runs(c, t) /\ t \in Here(c)
    BY <1>0, <1>1, OpenFacts DEF Runs, Here
  <2>2. \A e \in Cpu : ~InHand(e, t) /\ t \notin queue[e] /\ (t \in Here(e) => e = c)
    BY <2>1, RunningFacts
  <2>3. \A e \in Cpu : Here(e)' = Here(e) /\ \A u : Runs(e, u)' <=> Runs(e, u)
    BY <1>3 DEF Here, Runs, Leaving
  <2>4. \A e \in Cpu : \A u : InHand(e, u)' <=> InHand(e, u)
    BY <1>3 DEF InHand
  <2>5. \A e \in Cpu : \A u \in queue'[e] : ~Runs(e, u)' /\ (u # t => u \in queue[e])
    BY <1>3, <2>3 DEF Places
  <2>6. \A e \in Cpu : h'[e].op = "idled" => cur'[e] = Idle
    BY <1>3 DEF Places
  <2> QED BY <1>2, <1>3, <2>2, <2>3, <2>4, <2>5, <2>6, PlacesStep
<1>4. CASE bound' = [bound EXCEPT ![t] = TRUE] /\ \E d \in Cpu \ {c} : Migrates(c, t, d)
  <2>1. bound'[t]
    BY <1>0, <1>4 DEF TypeOK
  <2> QED BY <1>0, <1>1, <1>2, <1>4, <2>1, MigratesPlaces
<1> QED BY <1>0, <1>3, <1>4 DEF SchedBind

\* A queued thread stays where its new cpuset allows, or is taken in hand.
LEMMA AffinityPlaces ==
  ASSUME Shape, Shape', Places, NEW c \in Cpu, NEW t \in Thread, SchedAffinity(c, t)
  PROVE  Places'
<1>0. TypeOK /\ Open(c) /\ UNCHANGED <<cur, ts_cpu, bound>> /\ \A e \in Cpu : ~InHand(e, t)
  <2>1. CASE Off(t)
    BY <2>1 DEF Off, InHand, SchedAffinity, Shape
  <2>2. CASE \E d \in Cpu : Runs(d, t) \/ t \in queue[d]
    <3>1. PICK d \in Cpu : t \in Here(d)
      BY <2>2 DEF Here
    <3> QED BY <3>1, RunningFacts DEF SchedAffinity, Shape
  <2> QED BY <2>1, <2>2 DEF SchedAffinity
<1> DEFINE x == [Nothing EXCEPT !.pc = "readd", !.op = "add", !.td = t]
<1>1. PICK m \in SUBSET Cpu : LET from == {d \in Cpu \ m : t \in queue[d]} IN
          /\ mask' = [mask EXCEPT ![t] = m]
          /\ queue' = [d \in Cpu |-> IF d \in from THEN queue[d] \ {t} ELSE queue[d]]
          /\ load' = [d \in Cpu |-> IF d \in from THEN load[d] - 1 ELSE load[d]]
          /\ h' = IF from = {} THEN h ELSE [h EXCEPT ![c] = x]
  BY DEF SchedAffinity
<1> DEFINE from == {d \in Cpu \ m : t \in queue[d]}
<1>2. x.pc = "readd" /\ x.op = "add" /\ x.td = t
  BY DEF Nothing
<1> HIDE DEF x
<1>3. /\ mask'[t] = m /\ \A u \in Thread \ {t} : mask'[u] = mask[u]
      /\ ts_cpu' = ts_cpu /\ bound' = bound
  BY <1>0, <1>1 DEF TypeOK
<1>4. \A e \in Cpu \ {c} : h'[e] = h[e]
  BY <1>0, <1>1 DEF TypeOK
<1>5. h'[c].op \in {"none", "add"} /\ h[c].op = "none" /\ \A u \in Thread \ {t} : ~InHand(c, u)'
  <2>1. h[c].op = "none" /\ \A u \in Thread : ~InHand(c, u)
    BY <1>0, OpenFacts, NothingFacts
  <2>2. h'[c] = h[c] \/ h'[c] = x
    BY <1>0, <1>1 DEF TypeOK
  <2> QED BY <1>2, <2>1, <2>2 DEF InHand
<1>6. \A e \in Cpu : \A u : Runs(e, u)' <=> Runs(e, u)
  BY <1>0, <1>4, <1>5 DEF Runs, Leaving
<1>7. \A e \in Cpu : \A u \in Thread \ {t} : InHand(e, u)' =>
            InHand(e, u) /\ h'[e].to = h[e].to /\ (h[e].pc = "readd" => h'[e].pc = "readd")
  BY <1>4, <1>5 DEF InHand
<1>8. \A e \in Cpu : h'[e].op = "idled" => cur'[e] = Idle
  BY <1>0, <1>4, <1>5 DEF Places
<1>9. \A e \in Cpu : queue'[e] \subseteq queue[e]
  BY <1>1
<1>10. \A e \in Cpu : \A u \in queue'[e] : ~Runs(e, u)' /\ (u # t => u \in queue[e])
  BY <1>6, <1>9 DEF Places
<1>11. \A e \in Cpu : t \in queue'[e] => Allowed(t, e)'
  <2>1. ASSUME NEW e \in Cpu, t \in queue'[e] PROVE Allowed(t, e)'
    <3>1. t \in queue[e]
      BY <1>9, <2>1
    <3>2. e \in m
      BY <1>1, <2>1, <3>1
    <3>3. ts_cpu[t] = e
      BY <3>1 DEF Places, Allowed
    <3> QED BY <1>3, <3>2, <3>3 DEF Allowed
  <2> QED BY <2>1
<1>12. CASE from = {}
  <2>1. h' = h /\ \A e \in Cpu : queue'[e] = queue[e] /\ load'[e] = load[e]
    BY <1>1, <1>12
  <2>2. \A e \in Cpu : Here(e)' = Here(e)
    BY <1>6, <2>1 DEF Here
  <2>3. \A e \in Cpu : ~InHand(e, t)'
    BY <1>0, <2>1 DEF InHand
  <2>4. \A e, d \in Cpu : t \in Here(e)' /\ t \in Here(d)' => e = d
    BY <2>2 DEF Places
  <2> QED BY <1>3, <1>7, <1>8, <1>10, <1>11, <2>1, <2>2, <2>3, <2>4, PlacesStep
<1>13. CASE from # {}
  <2>1. PICK d \in Cpu : d \in from /\ t \in queue[d] /\ t \in Here(d)
    BY <1>13 DEF Here
  <2>2. \A e \in Cpu : (t \in Here(e) => e = d) /\ (t \in queue[e] => e = d)
    BY <2>1, RunningFacts
  <2>3. h'[c] = x
    BY <1>0, <1>1, <1>13 DEF TypeOK
  <2>4. queue'[d] = queue[d] \ {t} /\ load'[d] = load[d] - 1
    BY <1>1, <2>1
  <2>5. \A e \in Cpu \ {d} : queue'[e] = queue[e] /\ load'[e] = load[e]
    BY <1>1, <2>2
  <2>6. Here(d)' = Here(d) \ {t}
    <3>1. ~Runs(d, t)
      BY <2>1 DEF Places
    <3> QED BY <1>6, <2>4, <3>1 DEF Here
  <2>7. \A e \in Cpu \ {d} : Here(e)' = Here(e)
    BY <1>6, <2>5 DEF Here
  <2>8. \A e \in Cpu : t \notin Here(e)'
    BY <2>2, <2>6, <2>7
  <2>9. \A e \in Cpu : InHand(e, t)' => e = c
    BY <1>0, <1>4 DEF InHand
  <2>10. \A e \in Cpu : InHand(e, t)' => h'[e].pc = "readd"
    BY <1>2, <2>3, <2>9
  <2> QED BY <1>3, <1>7, <1>8, <1>10, <1>11, <2>1, <2>4, <2>5, <2>6, <2>7, <2>8, <2>9, <2>10, PlacesStep
<1> QED BY <1>12, <1>13

\* The balancer moves a thread, and no processor switches.
LEMMA MovedPlaces ==
  ASSUME Shape, Shape', Places, NEW c \in Cpu, NEW from \in Cpu, NEW to \in Cpu, from # to,
         NEW t \in Stealable(from, to), Moves(t, from, to), queue' = MovedQueue(t, from, to),
         UNCHANGED <<cur, mask, bound>>, \A e \in Cpu \ {c} : h'[e] = h[e],
         Leaving(c)' <=> Leaving(c), h'[c].op # "idled", \A u \in Thread : ~InHand(c, u)'
  PROVE  Places'
<1>0. TypeOK
  BY DEF Shape
<1>1. /\ t \in Thread /\ t \in queue[from] /\ to \in mask[t]
      /\ queue'[from] = queue[from] \ {t} /\ queue'[to] = queue[to] \cup {t}
      /\ \A d \in Cpu \ {from, to} : queue'[d] = queue[d] /\ load'[d] = load[d]
      /\ load'[from] = load[from] - 1 /\ load'[to] = load[to] + 1
      /\ ts_cpu' = [ts_cpu EXCEPT ![t] = to]
  BY <1>0, MoveFacts
<1>2. t \in Here(from)
  BY <1>1 DEF Here
<1>3. /\ \A e \in Cpu : ~InHand(e, t) /\ (t \in Here(e) => e = from) /\ (t \in queue[e] => e = from)
      /\ ~Runs(from, t)
  BY <1>1, <1>2, RunningFacts
<1>4. \A e \in Cpu : \A u : Runs(e, u)' <=> Runs(e, u)
  BY DEF Runs, Leaving
<1>5. Here(from)' = Here(from) \ {t}
  BY <1>1, <1>3, <1>4 DEF Here
<1>6. Here(to)' = Here(to) \cup {t}
  BY <1>1, <1>4 DEF Here
<1>7. \A e \in Cpu \ {from, to} : Here(e)' = Here(e)
  BY <1>1, <1>4 DEF Here
<1>8. \A e \in Cpu : t \in Here(e)' => e = to
  BY <1>3, <1>5, <1>7
<1>9. \A e \in Cpu : ~InHand(e, t)'
  BY <1>1, <1>3 DEF InHand
<1>10. \A e \in Cpu : t \in queue'[e] => Allowed(t, e)'
  <2>1. \A e \in Cpu : t \in queue'[e] => e = to
    BY <1>1, <1>8 DEF Here
  <2>2. Allowed(t, to)'
    BY <1>0, <1>1 DEF Allowed, TypeOK
  <2> QED BY <2>1, <2>2
<1>11. \A e \in Cpu : \A u \in queue'[e] : ~Runs(e, u)' /\ (u # t => u \in queue[e])
  <2>1. \A e \in Cpu : \A u \in queue'[e] : u # t => u \in queue[e]
    BY <1>1
  <2>2. \A e \in Cpu : t \in queue'[e] => ~Runs(e, t)
    <3>1. \A e \in Cpu : Runs(e, t) => t \in Here(e)
      BY <1>1 DEF Here
    <3> QED BY <1>3, <3>1
  <2> QED BY <1>4, <2>1, <2>2 DEF Places
<1>12. \A e \in Cpu : \A u \in Thread \ {t} : InHand(e, u)' =>
            InHand(e, u) /\ h'[e].to = h[e].to /\ (h[e].pc = "readd" => h'[e].pc = "readd")
  BY DEF InHand
<1>13. \A e \in Cpu : h'[e].op = "idled" => cur'[e] = Idle
  BY DEF Places
<1>14. \A u \in Thread \ {t} : ts_cpu'[u] = ts_cpu[u] /\ mask'[u] = mask[u] /\ bound'[u] = bound[u]
  BY <1>0, <1>1 DEF TypeOK
<1>15. \A e \in Cpu : \/ Here(e)' = Here(e) /\ load'[e] = load[e]
                      \/ t \in Here(e) /\ Here(e)' = Here(e) \ {t} /\ load'[e] = load[e] - 1
                      \/ t \notin Here(e) /\ Here(e)' = Here(e) \cup {t} /\ load'[e] = load[e] + 1
  BY <1>1, <1>2, <1>3, <1>5, <1>6, <1>7
<1> QED BY <1>8, <1>9, <1>10, <1>11, <1>12, <1>13, <1>14, <1>15, PlacesStep

\* sched_balance_pair moves a thread or none.
LEMMA PairPlaces ==
  ASSUME Shape, Shape', Places, NEW c \in Cpu, BalancePair(c)
  PROVE  Places'
<1> DEFINE high == h[c].high
           low  == h[c].to
<1>0. /\ TypeOK /\ h[c].pc = "both" /\ h[c].op = "balance" /\ h[c] \in Doing
      /\ high \in Cpu /\ low \in Cpu /\ high # low /\ UNCHANGED <<mask, bound>> /\ ~Leaving(c)
  BY DEF Shape, BalancePair, Step, TypeOK, Leaving
<1>2. CASE /\ h' = [h EXCEPT ![c].pc = "low", ![c].to = Nobody, ![c].anylow = FALSE,
                             ![c].lmask = @ \ {low}]
           /\ UNCHANGED <<cur, queueVars, ts_cpu>>
  <2> DEFINE k == h[c].lmask \ {low}
             x == [h[c] EXCEPT !.pc = "low", !.to = Nobody, !.anylow = FALSE, !.lmask = k]
  <2>1. h' = [h EXCEPT ![c] = x]
    BY <1>0, <1>2 DEF TypeOK, Doing
  <2> HIDE DEF k
  <2>2. x.pc = "low" /\ x.op = "balance"
    BY <1>0 DEF Doing
  <2> HIDE DEF x
  <2>3. h'[c] = x /\ \A e \in Cpu \ {c} : h'[e] = h[e]
    BY <1>0, <2>1 DEF TypeOK
  <2>4. ~Leaving(c)' /\ h'[c].op # "idled" /\ \A u \in Thread : ~InHand(c, u)'
    BY <2>2, <2>3 DEF Leaving, InHand
  <2> QED BY <1>0, <1>2, <2>3, <2>4, DoingPlaces DEF queueVars
<1>3. ASSUME NEW t \in Stealable(high, low), Moves(t, high, low),
             IF low # c /\ tdq_notify(low, t)
             THEN /\ queue' = MovedQueue(t, high, low)
                  /\ late' = [late EXCEPT ![low] = TRUE]
                  /\ h' = [h EXCEPT ![c].pc = "fence"]
                  /\ UNCHANGED <<cur, lock>>
             ELSE NotifyDone(c, MovedQueue(t, high, low)) /\ UNCHANGED late
      PROVE  Places'
  <2> DEFINE q == MovedQueue(t, high, low)
  <2>1. q \in [Cpu -> SUBSET Thread]
    BY <1>0, <1>3, MoveFacts
  <2>2. /\ queue' = q /\ cur' = cur /\ \A e \in Cpu \ {c} : h'[e] = h[e]
        /\ h'[c].op = "balance" /\ h'[c].pc \in {"fence", "high"}
    <3>1. CASE low # c /\ tdq_notify(low, t)
      <4>1. /\ queue' = q /\ h' = [h EXCEPT ![c].pc = "fence"] /\ cur' = cur
        BY <1>3, <3>1
      <4> HIDE DEF q
      <4> QED BY <1>0, <4>1, GoesFacts
    <3>2. CASE ~(low # c /\ tdq_notify(low, t))
      <4>1. NotifyDone(c, q)
        BY <1>3, <3>2
      <4> HIDE DEF q
      <4>2. /\ \A e \in Cpu \ {c} : h'[e] = h[e]
            /\ h'[c].pc \in {"none", "high"}
            /\ h'[c].op = (IF h[c].op = "balance" THEN "balance" ELSE "none")
            /\ h[c].op # "migrate" => queue' = q /\ cur' = cur
            /\ Step(c, h'[c])
        BY <1>0, <2>1, <4>1, DoneFacts
      <4>3. h'[c].pc = "high"
        BY <1>0, <4>2, NothingFacts DEF Step
      <4> QED BY <1>0, <4>2, <4>3
    <3> QED BY <3>1, <3>2
  <2>3. ~Leaving(c)' /\ \A u \in Thread : ~InHand(c, u)'
    BY <2>2 DEF Leaving, InHand
  <2> QED BY <1>0, <1>3, <2>2, <2>3, MovedPlaces
<1> QED BY <1>2, <1>3 DEF BalancePair

\* At boot no thread is anywhere.
LEMMA InitPlaces == Init => Places
<1> SUFFICES ASSUME Init PROVE Places
  OBVIOUS
<1>1. /\ \A c \in Cpu : h[c] = Nothing /\ cur[c] = Idle /\ queue[c] = {} /\ load[c] = 0
  BY DEF Init
<1>2. \A c \in Cpu : Here(c) = {} /\ \A t \in Thread : ~InHand(c, t)
  BY <1>1, NothingFacts, UleSmpAssumption DEF Here, Runs, InHand
<1>3. Cardinality({}) = 0
  BY FS_EmptySet
<1> QED BY <1>1, <1>2, <1>3, NothingFacts DEF Places

\* No step breaks Places.
LEMMA NextPlaces == Shape /\ Shape' /\ Places /\ [Next]_vars => Places'
<1> SUFFICES ASSUME Shape, Shape', Places, [Next]_vars PROVE Places'
  OBVIOUS
<1>1. CASE UNCHANGED vars
  BY <1>1, SamePlaces DEF vars
<1>2. CASE Drain
  BY <1>2, DrainPlaces
<1>3. ASSUME NEW c \in Cpu, NEW t \in Thread, SchedWakeup(c, t) \/ SchedAffinity(c, t) PROVE Places'
  BY <1>3, WakeupPlaces, AffinityPlaces
<1>4. ASSUME NEW c \in Cpu,
             \/ LockOne(c) \/ LockTwo(c) \/ NotifyFence(c) \/ NotifyWake(c)
             \/ SchedAdd(c) \/ SchedReadd(c) \/ SchedPreempt(c) \/ SchedSwitch(c) \/ Migrate(c)
             \/ SchedSleep(c) \/ SchedBind(c)
      PROVE  Places'
  BY <1>4, LockPlaces, FencePlaces, WakePlaces, AddPlaces, ReaddPlaces, PreemptPlaces, SwitchPlaces,
     SleepPlaces, BindPlaces
<1>5. ASSUME NEW c \in Cpu,
             \/ TrySearch(c) \/ TrySteal(c)
             \/ IdleLoop(c) \/ IdleSearch(c) \/ IdleLock(c) \/ IdleSteal(c) \/ IdleRest(c) \/ IdleFence(c)
             \/ IdleRecheck(c) \/ CpuIdle(c) \/ IdleClear(c)
             \/ SchedBalance(c) \/ BalanceHigh(c) \/ BalanceLow(c) \/ BalancePair(c)
      PROVE  Places'
  BY <1>5, SearchPlaces, StealPlaces, IdlePlaces, IdleLoopPlaces, IdleLockPlaces,
     BalancePlaces, PairPlaces
<1> QED BY <1>1, <1>2, <1>3, <1>4, <1>5, UleSmpAssumption DEF Next
-----------------------------------------------------------------------------
\* A switch concerns no other processor's thread.
LEMMA SwitchOwn ==
  ASSUME Shape, NEW c \in Cpu, NEW q, Switches(c, q)
  PROVE  \A e \in Cpu \ {c} : cur'[e] = cur[e]
BY DEF Switches, Shape, TypeOK

\* Nor its queue.
LEMMA SwitchOwnQueue ==
  ASSUME Shape, NEW c \in Cpu, NEW q \in [Cpu -> SUBSET Thread], Switches(c, q)
  PROVE  \A e \in Cpu \ {c} : cur'[e] = cur[e] /\ queue'[e] = q[e]
BY DEF Switches, Shape, TypeOK

\* So a step that switches there, or runs the same thread on, leaves the others alone.
LEMMA SwitchAlone ==
  ASSUME Shape, NEW c \in Cpu, Switches(c, queue) \/ (cur' = cur /\ queue' = queue)
  PROVE  \A e \in Cpu \ {c} : cur'[e] = cur[e] /\ queue'[e] = queue[e]
<1>1. queue \in [Cpu -> SUBSET Thread]
  BY DEF Shape, TypeOK
<1>2. cur \in [Cpu -> Thread \cup {Idle}]
  BY DEF Shape, TypeOK
<1> QED BY <1>1, <1>2, SwitchOwnQueue

\* No thread that is removed makes work.
LEMMA LessWork ==
  ASSUME NEW A, NEW B, A \subseteq B, HasWork(A)
  PROVE  HasWork(B)
BY DEF HasWork

\* A processor that is in a handler or runs a thread is not in cpu_idle.
LEMMA AwakeFacts ==
  ASSUME Flags, NEW c \in Cpu, h[c].pc # "none" \/ cur[c] # Idle
  PROVE  ipc[c] # "asleep"
BY DEF Flags, Open

\* The processor is not in cpu_idle after the step, and whoever is has been told.
LEMMA FlagsStep ==
  ASSUME Shape, Shape', Flags, NEW c \in Cpu, ipc'[c] # "asleep",
         \A e \in Cpu \ {c} : /\ h'[e] = h[e] /\ cur'[e] = cur[e] /\ idle'[e] = idle[e]
                              /\ lateIdle'[e] => lateIdle[e]
                              /\ ipc'[e] = ipc[e] \/ (ipc'[e] = "clear" /\ ipc[e] = "asleep"),
         ipc'[c] \in {"recheck", "halt", "asleep", "clear"} => idle'[c] /\ ~lateIdle'[c],
         ipc'[c] = "flag" => idle'[c],
         \A e \in Cpu : late'[e] => \/ late[e] /\ ~(h[c].pc = "fence" /\ h[c].to = e)
                                    \/ h'[c].pc = "fence" /\ h'[c].to = e,
         \A e \in Cpu \ {c} : ipc'[e] = "asleep" /\ cur'[e] = Idle /\ HasWork(queue'[e]) =>
            \/ /\ HasWork(queue[e]) /\ (ipi[e] => ipi'[e])
               /\ ~(h[c].pc \in {"fence", "wake"} /\ h[c].to = e)
            \/ ipi'[e]
            \/ h'[c].pc \in {"fence", "wake"} /\ h'[c].to = e
  PROVE  Flags'
<1>1. \A e \in Cpu : ipc'[e] = "asleep" => cur'[e] = Idle /\ Open(e)'
  BY DEF Flags, Open
<1>2. \A e \in Cpu : ipc'[e] \in {"recheck", "halt", "asleep", "clear"} => idle'[e] /\ ~lateIdle'[e]
  BY DEF Flags
<1>3. \A e \in Cpu : ipc'[e] = "flag" => idle'[e]
  BY DEF Flags
<1>4. \A e \in Cpu : late'[e] => \E d \in Cpu : h'[d].pc = "fence" /\ h'[d].to = e
  BY DEF Flags
<1>5. ASSUME NEW e \in Cpu, cur'[e] = Idle, ipc'[e] = "asleep", HasWork(queue'[e])
      PROVE  ipi'[e] \/ \E d \in Cpu : h'[d].pc \in {"fence", "wake"} /\ h'[d].to = e
  <2>1. e \in Cpu \ {c} /\ ipc[e] = "asleep" /\ cur[e] = Idle
    BY <1>5
  <2>2. CASE /\ HasWork(queue[e]) /\ (ipi[e] => ipi'[e])
             /\ ~(h[c].pc \in {"fence", "wake"} /\ h[c].to = e)
    <3>1. ipi[e] \/ \E d \in Cpu : h[d].pc \in {"fence", "wake"} /\ h[d].to = e
      BY <2>1, <2>2 DEF Flags, NoSleepOnWork
    <3> QED BY <2>2, <3>1
  <2> QED BY <1>5, <2>1, <2>2
<1>6. NoSleepOnWork'
  BY <1>5 DEF NoSleepOnWork
<1> QED BY <1>1, <1>2, <1>3, <1>4, <1>6 DEF Flags

\* A step that adds no thread to another processor and tells none anything.
LEMMA QuietFlags ==
  ASSUME Shape, Shape', Flags, NEW c \in Cpu, h[c].pc \notin {"fence", "wake"},
         late' = late, idle' = idle, lateIdle' = lateIdle, ipc'[c] # "asleep",
         \A e \in Cpu \ {c} : /\ h'[e] = h[e] /\ cur'[e] = cur[e] /\ ipc'[e] = ipc[e] /\ ipi'[e] = ipi[e]
                              /\ queue'[e] \subseteq queue[e],
         \/ ipc'[c] \in {"loop", "search", "pair", "rest"} \/ ipc'[c] = ipc[c]
         \/ ipc[c] = "asleep" /\ ipc'[c] = "clear"
  PROVE  Flags'
<1>1. ipc'[c] \in {"recheck", "halt", "asleep", "clear"} => idle'[c] /\ ~lateIdle'[c]
  BY DEF Flags
<1>2. ipc'[c] = "flag" => idle'[c]
  BY DEF Flags
<1>3. \A e \in Cpu \ {c} : HasWork(queue'[e]) => HasWork(queue[e])
  BY LessWork
<1> QED BY <1>1, <1>2, <1>3, FlagsStep

\* Locking two queues tells nobody.
LEMMA LockFlags ==
  ASSUME Shape, Shape', Flags, NEW c \in Cpu, LockOne(c) \/ LockTwo(c)
  PROVE  Flags'
<1>1. (\A e \in Cpu \ {c} : h'[e] = h[e]) /\ h[c].pc \in {"lock_one", "lock_two"}
  BY LockShape
<1>2. UNCHANGED <<cur, queue, late, idle, lateIdle, ipi, ipc>>
  BY DEF LockOne, LockTwo, queueVars, flagVars, idleVars
<1>3. \A e \in Cpu : queue'[e] \subseteq queue[e]
  BY <1>2
<1> QED BY <1>1, <1>2, <1>3, AwakeFacts, QuietFlags

\* After the fence the load is visible to all.
LEMMA FenceFlags ==
  ASSUME Shape, Shape', Flags, NEW c \in Cpu, NotifyFence(c)
  PROVE  Flags'
<1>1. /\ \A e \in Cpu \ {c} : h'[e] = h[e]
      /\ h[c].pc = "fence" /\ h'[c].pc = "wake" /\ h'[c].to = h[c].to
  BY FenceShape
<1>2. UNCHANGED <<cur, queue, idle, lateIdle, ipi, ipc>>
  BY DEF NotifyFence, flagVars, idleVars
<1>3. \A e \in Cpu : late'[e] => late[e] /\ h[c].to # e
  BY DEF NotifyFence, Fence, Shape, TypeOK
<1>4. ipc[c] # "asleep"
  BY <1>1, AwakeFacts
<1>5. /\ ipc'[c] \in {"recheck", "halt", "asleep", "clear"} => idle'[c] /\ ~lateIdle'[c]
      /\ ipc'[c] = "flag" => idle'[c]
  BY <1>2 DEF Flags
<1> QED BY <1>1, <1>2, <1>3, <1>4, <1>5, FlagsStep

\* An idle processor with work is woken, or interrupted, or was not yet to sleep.
LEMMA WakeFlags ==
  ASSUME Shape, Shape', Flags, NEW c \in Cpu, NotifyWake(c)
  PROVE  Flags'
<1> DEFINE d == h[c].to
<1>0. /\ h[c].pc = "wake" /\ NotifyDone(c, queue) /\ h[c].op \in {"add", "migrate", "balance"}
      /\ queue \in [Cpu -> SUBSET Thread] /\ d \in Cpu /\ TypeOK
  BY DEF NotifyWake, Shape, Step, TypeOK
<1>1. /\ \A e \in Cpu \ {c} : h'[e] = h[e]
      /\ h[c].op = "migrate" => Switches(c, queue)
      /\ h[c].op # "migrate" => cur' = cur /\ queue' = queue
  BY <1>0, DoneFacts
<1>2. \A e \in Cpu \ {c} : cur'[e] = cur[e] /\ queue'[e] = queue[e]
  BY <1>0, <1>1, SwitchOwnQueue
<1>3. UNCHANGED <<idle, lateIdle>> /\ late' = [late EXCEPT ![d] = FALSE]
  BY DEF NotifyWake
<1>4. \A e \in Cpu : late'[e] => late[e]
  BY <1>0, <1>3 DEF TypeOK
<1>5. ipc[c] # "asleep"
  BY <1>0, AwakeFacts
<1>6. \A e \in Cpu : ipc'[e] = ipc[e] \/ (ipc'[e] = "clear" /\ ipc[e] = "asleep")
  <2>1. ipc' = ipc \/ ipc' = [ipc EXCEPT ![d] = IF @ = "asleep" THEN "clear" ELSE @]
    BY DEF NotifyWake
  <2> QED BY <1>0, <2>1 DEF TypeOK
<1>7. \A e \in Cpu : ipi[e] => ipi'[e]
  <2>1. ipi' = ipi \/ ipi' = [ipi EXCEPT ![d] = TRUE]
    BY DEF NotifyWake
  <2> QED BY <1>0, <2>1 DEF TypeOK
<1>8. ipc'[d] = "asleep" /\ cur[d] = Idle => ipi'[d]
  <2>1. CASE cur[d] = Idle /\ (~idle[d] \/ lateIdle[d])  /\ UNCHANGED ipc
    BY <1>0, <2>1 DEF Flags
  <2>2. CASE ipc' = [ipc EXCEPT ![d] = IF @ = "asleep" THEN "clear" ELSE @]
    BY <1>0, <2>2 DEF TypeOK
  <2>3. CASE ipi' = [ipi EXCEPT ![d] = TRUE]
    BY <1>0, <2>3 DEF TypeOK
  <2> QED BY <2>1, <2>2, <2>3 DEF NotifyWake
<1>9. /\ ipc'[c] \in {"recheck", "halt", "asleep", "clear"} => idle'[c] /\ ~lateIdle'[c]
      /\ ipc'[c] = "flag" => idle'[c]
  BY <1>3, <1>5, <1>6 DEF Flags
<1>10. ASSUME NEW e \in Cpu \ {c}, ipc'[e] = "asleep", cur'[e] = Idle, HasWork(queue'[e])
       PROVE  \/ HasWork(queue[e]) /\ (ipi[e] => ipi'[e]) /\ ~(h[c].pc \in {"fence", "wake"} /\ h[c].to = e)
              \/ ipi'[e]
  BY <1>2, <1>3, <1>7, <1>8, <1>10
<1> QED BY <1>0, <1>1, <1>2, <1>3, <1>4, <1>5, <1>6, <1>9, <1>10, FlagsStep

\* An idle processor that is not told is being interrupted already, or the thread is
\* no more important than the idle thread.
LEMMA NotifyFacts ==
  ASSUME NEW d \in Cpu, NEW t \in Thread, cur[d] = Idle, ~tdq_notify(d, t)
  PROVE  ipi[d] \/ ~(pri(t) < PRI_MAX_IDLE)
BY UleSmpAssumption DEF tdq_notify, sched_shouldpreempt, pri

\* A thread is added to the queue of processor d, which is told if it sleeps.
LEMMA TellFlags ==
  ASSUME Shape, Shape', Flags, NEW c \in Cpu, NEW d \in Cpu, NEW t, h[c].pc \notin {"none", "fence", "wake"},
         \A e \in Cpu \ {c} : h'[e] = h[e] /\ cur'[e] = cur[e],
         UNCHANGED <<idle, lateIdle, ipi, ipc>>,
         \A e \in Cpu \ {c, d} : queue'[e] \subseteq queue[e],
         d # c => queue'[d] \subseteq queue[d] \cup {t},
         \/ late' = late /\ (d # c /\ cur[d] = Idle => ipi[d] \/ ~(pri(t) < PRI_MAX_IDLE))
         \/ late' = [late EXCEPT ![d] = TRUE] /\ h'[c].pc = "fence" /\ h'[c].to = d
  PROVE  Flags'
<1>1. ipc[c] # "asleep"
  BY AwakeFacts
<1>2. /\ ipc'[c] \in {"recheck", "halt", "asleep", "clear"} => idle'[c] /\ ~lateIdle'[c]
      /\ ipc'[c] = "flag" => idle'[c]
  BY DEF Flags
<1>3. \A e \in Cpu : late'[e] => \/ late[e] /\ ~(h[c].pc = "fence" /\ h[c].to = e)
                                 \/ h'[c].pc = "fence" /\ h'[c].to = e
  BY DEF Shape, TypeOK
<1>4. ASSUME NEW e \in Cpu \ {c}, ipc'[e] = "asleep", cur'[e] = Idle, HasWork(queue'[e])
      PROVE  \/ HasWork(queue[e]) /\ (ipi[e] => ipi'[e]) /\ ~(h[c].pc \in {"fence", "wake"} /\ h[c].to = e)
             \/ ipi'[e]
             \/ h'[c].pc \in {"fence", "wake"} /\ h'[c].to = e
  <2>1. CASE e # d
    BY <1>4, <2>1, LessWork
  <2>2. CASE e = d /\ ~(pri(t) < PRI_MAX_IDLE)
    <3>1. HasWork(queue[e])
      BY <1>4, <2>2 DEF HasWork
    <3> QED BY <3>1
  <2>3. CASE e = d /\ pri(t) < PRI_MAX_IDLE
    BY <1>4, <2>3
  <2> QED BY <2>1, <2>2, <2>3
<1> QED BY <1>1, <1>2, <1>3, <1>4, FlagsStep

\* sched_add and sched_switch_migrate add a thread.
LEMMA AddFlags ==
  ASSUME Shape, Shape', Flags, NEW c \in Cpu, SchedAdd(c) \/ Migrate(c)
  PROVE  Flags'
<1>0. PICK t \in Thread, d \in Cpu :
        /\ TypeOK /\ h[c].td = t /\ h[c].to = d /\ h[c].op \in {"add", "migrate"}
        /\ h[c].pc \in {"add", "both"}
        /\ SchedAdd(c) => h[c].op = "add"
        /\ Migrate(c) => h[c].op = "migrate" /\ d # c
  <2>1. Step(c, h[c]) /\ TypeOK
    BY DEF Shape
  <2>2. /\ SchedAdd(c) => h[c].pc = "add" /\ h[c].op = "add"
        /\ Migrate(c) => h[c].pc = "both" /\ h[c].op = "migrate"
    BY <2>1 DEF SchedAdd, Migrate, Step
  <2>3. h[c].td \in Thread /\ h[c].to \in Cpu /\ (Migrate(c) => h[c].to # c)
    BY <2>1, <2>2 DEF Step
  <2> QED BY <2>1, <2>2, <2>3
<1> DEFINE q == [queue EXCEPT ![d] = @ \cup {t}]
<1>1. UNCHANGED <<idle, lateIdle, ipi, ipc>>
  BY <1>0 DEF SchedAdd, Migrate, flagVars, idleVars
<1>3. \A e \in Cpu \ {c} : h'[e] = h[e]
  BY AddShape, MigrateShape
<1>4. q \in [Cpu -> SUBSET Thread]
  BY <1>0 DEF TypeOK
<1>8. ASSUME Switches(c, q) \/ (cur' = cur /\ queue' = q)
      PROVE  /\ \A e \in Cpu \ {c} : cur'[e] = cur[e]
             /\ \A e \in Cpu \ {c, d} : queue'[e] \subseteq queue[e]
             /\ d # c => queue'[d] \subseteq queue[d] \cup {t}
  <2>1. /\ \A e \in Cpu \ {d} : q[e] = queue[e]
        /\ q[d] = queue[d] \cup {t}
    BY <1>0 DEF TypeOK
  <2> HIDE DEF q
  <2>2. \A e \in Cpu \ {c} : cur'[e] = cur[e] /\ queue'[e] = q[e]
    BY <1>4, <1>8, SwitchOwnQueue
  <2> QED BY <2>1, <2>2
<1>5. ASSUME NotifyDone(c, q) PROVE Switches(c, q) \/ (cur' = cur /\ queue' = q)
  <2> HIDE DEF q
  <2> QED BY <1>0, <1>4, <1>5, DoneFacts
<1>6. CASE SchedAdd(c)
  <2>1. CASE d = c /\ (Switches(c, q) \/ (cur' = cur /\ queue' = q)) /\ late' = late
    BY <1>0, <1>1, <1>3, <1>8, <2>1, TellFlags
  <2>2. CASE cur' = cur /\ queue' = q /\ late' = [late EXCEPT ![d] = TRUE] /\ h' = [h EXCEPT ![c].pc = "fence"]
    <3>1. h'[c].pc = "fence" /\ h'[c].to = d
      BY <1>0, <2>2, GoesFacts
    <3> HIDE DEF q
    <3>2. /\ \A e \in Cpu \ {c} : h'[e] = h[e] /\ cur'[e] = cur[e]
          /\ \A e \in Cpu \ {c, d} : queue'[e] \subseteq queue[e]
          /\ d # c => queue'[d] \subseteq queue[d] \cup {t}
      BY <1>3, <1>8, <2>2
    <3>3. h[c].pc \notin {"none", "fence", "wake"}
      BY <1>0
    <3> QED BY <1>1, <2>2, <3>1, <3>2, <3>3, TellFlags
  <2>3. CASE ~tdq_notify(d, t) /\ NotifyDone(c, q) /\ late' = late
    BY <1>0, <1>1, <1>3, <1>5, <1>8, <2>3, NotifyFacts, TellFlags
  <2> QED BY <1>0, <1>6, <2>1, <2>2, <2>3 DEF SchedAdd
<1>7. CASE Migrate(c)
  <2>1. CASE /\ h' = [h EXCEPT ![c].pc = "fence", ![c].td = Idle]
             /\ late' = [late EXCEPT ![d] = TRUE] /\ cur' = cur /\ queue' = q
    <3> DEFINE x == [h[c] EXCEPT !.pc = "fence", !.td = Idle]
    <3>1. h[c] \in Doing /\ h' = [h EXCEPT ![c] = x]
      BY <1>0, <2>1 DEF TypeOK
    <3>2. x.pc = "fence" /\ x.to = d
      BY <1>0, <3>1 DEF Doing
    <3> HIDE DEF x
    <3>3. h'[c] = x
      BY <1>0, <3>1 DEF TypeOK
    <3> HIDE DEF q
    <3>4. /\ \A e \in Cpu \ {c} : h'[e] = h[e] /\ cur'[e] = cur[e]
          /\ \A e \in Cpu \ {c, d} : queue'[e] \subseteq queue[e]
          /\ d # c => queue'[d] \subseteq queue[d] \cup {t}
      BY <1>3, <1>8, <2>1
    <3>5. h[c].pc \notin {"none", "fence", "wake"} /\ h'[c].pc = "fence" /\ h'[c].to = d
      BY <1>0, <3>2, <3>3
    <3> QED BY <1>1, <2>1, <3>4, <3>5, TellFlags
  <2>2. CASE ~tdq_notify(d, t) /\ NotifyDone(c, q) /\ late' = late
    BY <1>0, <1>1, <1>3, <1>5, <1>8, <2>2, NotifyFacts, TellFlags
  <2> QED BY <1>0, <1>7, <2>1, <2>2 DEF Migrate
<1> QED BY <1>6, <1>7

\* sched_balance_pair moves a thread or none.
LEMMA PairFlags ==
  ASSUME Shape, Shape', Flags, NEW c \in Cpu, BalancePair(c)
  PROVE  Flags'
<1> DEFINE high == h[c].high
           low  == h[c].to
<1>0. /\ TypeOK /\ h[c].pc = "both" /\ h[c].op = "balance" /\ h[c] \in Doing
      /\ high \in Cpu /\ low \in Cpu /\ high # low /\ UNCHANGED <<idle, lateIdle, ipi, ipc>>
  BY DEF Shape, BalancePair, Step, TypeOK, flagVars, idleVars
<1>1. CASE /\ h' = [h EXCEPT ![c].pc = "low", ![c].to = Nobody, ![c].anylow = FALSE,
                             ![c].lmask = @ \ {low}]
           /\ UNCHANGED <<cur, queueVars, ts_cpu>>
  <2>1. \A e \in Cpu \ {c} : h'[e] = h[e]
    BY <1>0, <1>1 DEF TypeOK
  <2>2. \A e \in Cpu : queue'[e] \subseteq queue[e]
    BY <1>1 DEF queueVars
  <2>3. ipc[c] # "asleep"
    BY <1>0, AwakeFacts
  <2> QED BY <1>0, <1>1, <2>1, <2>2, <2>3, QuietFlags DEF queueVars
<1>2. ASSUME NEW t \in Stealable(high, low), Moves(t, high, low),
             IF low # c /\ tdq_notify(low, t)
             THEN /\ queue' = MovedQueue(t, high, low)
                  /\ late' = [late EXCEPT ![low] = TRUE]
                  /\ h' = [h EXCEPT ![c].pc = "fence"]
                  /\ UNCHANGED <<cur, lock>>
             ELSE NotifyDone(c, MovedQueue(t, high, low)) /\ UNCHANGED late
      PROVE  Flags'
  <2> DEFINE q == MovedQueue(t, high, low)
  <2>1. /\ q \in [Cpu -> SUBSET Thread] /\ t \in Thread
        /\ q[high] = queue[high] \ {t} /\ q[low] = queue[low] \cup {t}
        /\ \A e \in Cpu \ {high, low} : q[e] = queue[e]
    BY <1>0, <1>2, MoveFacts
  <2>2. ASSUME queue' = q
        PROVE  /\ \A e \in Cpu \ {c, low} : queue'[e] \subseteq queue[e]
               /\ low # c => queue'[low] \subseteq queue[low] \cup {t}
    BY <1>0, <2>1, <2>2
  <2>3. CASE low # c /\ tdq_notify(low, t)
    <3>1. /\ late' = [late EXCEPT ![low] = TRUE] /\ h' = [h EXCEPT ![c].pc = "fence"]
          /\ cur' = cur /\ queue' = q
      BY <1>2, <2>3
    <3>2. h'[c].pc = "fence" /\ h'[c].to = low /\ \A e \in Cpu \ {c} : h'[e] = h[e]
      BY <1>0, <3>1, GoesFacts
    <3> QED BY <1>0, <2>2, <3>1, <3>2, TellFlags
  <2>4. CASE ~(low # c /\ tdq_notify(low, t))
    <3>1. NotifyDone(c, q) /\ late' = late
      BY <1>2, <2>4
    <3> HIDE DEF q
    <3>2. cur' = cur /\ queue' = q /\ \A e \in Cpu \ {c} : h'[e] = h[e]
      BY <1>0, <2>1, <3>1, DoneFacts
    <3>3. low # c /\ cur[low] = Idle => ipi[low] \/ ~(pri(t) < PRI_MAX_IDLE)
      BY <1>0, <2>1, <2>4, NotifyFacts
    <3> QED BY <1>0, <2>2, <3>1, <3>2, <3>3, TellFlags
  <2> QED BY <2>3, <2>4
<1> QED BY <1>1, <1>2 DEF BalancePair

\* A wakeup on the processor ends its sleep.
LEMMA WakeupFlags ==
  ASSUME Shape, Shape', Flags, NEW c \in Cpu, NEW t \in Thread, SchedWakeup(c, t)
  PROVE  Flags'
<1>1. /\ UNCHANGED <<cur, queue, late, idle, lateIdle, ipi>> /\ h[c].pc = "none"
      /\ ipc' = Interrupted(c)
  BY DEF SchedWakeup, Open, queueVars, flagVars
<1>2. \A e \in Cpu \ {c} : h'[e] = h[e]
  BY WakeupShape
<1>3. /\ ipc'[c] = IF ipc[c] = "asleep" THEN "clear" ELSE ipc[c]
      /\ \A e \in Cpu \ {c} : ipc'[e] = ipc[e]
  BY <1>1, InterruptedFacts DEF Shape
<1> QED BY <1>1, <1>2, <1>3, QuietFlags

\* So does the balancer.
LEMMA BalanceFlags ==
  ASSUME Shape, Shape', Flags, NEW c \in Cpu, SchedBalance(c) \/ BalanceHigh(c) \/ BalanceLow(c)
  PROVE  Flags'
<1>1. /\ UNCHANGED <<cur, queue, late, idle, lateIdle, ipi>>
      /\ ipc' = Interrupted(c) \/ (ipc' = ipc /\ h[c].pc # "none")
  BY DEF SchedBalance, BalanceHigh, BalanceLow, queueVars, flagVars, idleVars
<1>2. (\A e \in Cpu \ {c} : h'[e] = h[e]) /\ h[c].pc \in {"none", "high", "low"}
  BY BalanceShape
<1>3. /\ ipc'[c] = ipc[c] \/ (ipc'[c] = "clear" /\ ipc[c] = "asleep")
      /\ ipc'[c] # "asleep"
      /\ \A e \in Cpu \ {c} : ipc'[e] = ipc[e]
  <2>1. CASE ipc' = Interrupted(c)
    BY <2>1, InterruptedFacts DEF Shape
  <2>2. CASE ipc' = ipc /\ h[c].pc # "none"
    BY <2>2, AwakeFacts
  <2> QED BY <1>1, <2>1, <2>2
<1> QED BY <1>1, <1>2, <1>3, QuietFlags

\* What a running thread does on its own processor.
LEMMA RunnableFlags ==
  ASSUME Shape, NEW c \in Cpu, Open(c), cur[c] # Idle, SwitchRunnable(c, cur[c], Assigned(c, cur[c]))
  PROVE  \A e \in Cpu \ {c} : h'[e] = h[e] /\ cur'[e] = cur[e] /\ queue'[e] = queue[e]
<1> DEFINE q == [queue EXCEPT ![c] = @ \cup {cur[c]}]
<1>1. (\A e \in Cpu \ {c} : h'[e] = h[e]) /\ cur[c] \in Thread
  BY RunnableFacts
<1>2. Switches(c, q) \/ (cur' = cur /\ queue' = queue)
  BY DEF SwitchRunnable, Requeued, Migrates
<1>3. q \in [Cpu -> SUBSET Thread] /\ \A e \in Cpu \ {c} : q[e] = queue[e]
  BY <1>1 DEF Shape, TypeOK
<1> HIDE DEF q
<1> QED BY <1>1, <1>2, <1>3, SwitchOwnQueue

\* A processor that runs a thread is not asleep.
LEMMA SwitchFlags ==
  ASSUME Shape, Shape', Flags, NEW c \in Cpu, SchedSwitch(c)
  PROVE  Flags'
<1>1. /\ UNCHANGED <<late, idle, lateIdle, ipi, ipc>> /\ h[c].pc = "none" /\ ipc[c] # "asleep"
  BY AwakeFacts DEF SchedSwitch, Open, flagVars, idleVars
<1>2. \A e \in Cpu \ {c} : h'[e] = h[e] /\ cur'[e] = cur[e] /\ queue'[e] = queue[e]
  BY RunnableFlags DEF SchedSwitch
<1> QED BY <1>1, <1>2, QuietFlags

\* The interrupt ends the sleep of its processor.
LEMMA PreemptFlags ==
  ASSUME Shape, Shape', Flags, NEW c \in Cpu, SchedPreempt(c)
  PROVE  Flags'
<1>1. /\ UNCHANGED <<late, idle, lateIdle>> /\ h[c].pc = "none" /\ ipc' = Interrupted(c)
      /\ ipi' = [ipi EXCEPT ![c] = FALSE]
  BY DEF SchedPreempt, Open
<1>2. \A e \in Cpu \ {c} : h'[e] = h[e] /\ cur'[e] = cur[e] /\ queue'[e] = queue[e]
  <2>1. CASE cur[c] # Idle /\ SwitchRunnable(c, cur[c], Assigned(c, cur[c]))
    BY <2>1, RunnableFlags DEF SchedPreempt
  <2>2. CASE (Switches(c, queue) \/ (cur' = cur /\ queue' = queue)) /\ UNCHANGED h
    BY <2>2, SwitchAlone
  <2> QED BY <2>1, <2>2 DEF SchedPreempt
<1>3. /\ ipc'[c] = IF ipc[c] = "asleep" THEN "clear" ELSE ipc[c]
      /\ \A e \in Cpu \ {c} : ipc'[e] = ipc[e] /\ ipi'[e] = ipi[e]
  BY <1>1, InterruptedFacts DEF Shape, TypeOK
<1> QED BY <1>1, <1>2, <1>3, QuietFlags

\* A thread that sleeps or is bound ran.
LEMMA SleepFlags ==
  ASSUME Shape, Shape', Flags, NEW c \in Cpu, SchedSleep(c) \/ SchedBind(c)
  PROVE  Flags'
<1>1. /\ UNCHANGED <<late, idle, lateIdle, ipi, ipc>> /\ h[c].pc = "none" /\ ipc[c] # "asleep"
  BY AwakeFacts, UleSmpAssumption DEF SchedSleep, SchedBind, Open, flagVars, idleVars
<1>2. /\ \A e \in Cpu \ {c} : h'[e] = h[e]
      /\ Switches(c, queue) \/ (cur' = cur /\ queue' = queue)
  BY SleepShape, BindShape DEF SchedSleep, SchedBind, Migrates
<1>3. \A e \in Cpu \ {c} : cur'[e] = cur[e] /\ queue'[e] = queue[e]
  BY <1>2, SwitchAlone
<1> QED BY <1>1, <1>2, <1>3, QuietFlags

\* A change of the cpuset takes a thread off a queue at most.
LEMMA AffinityFlags ==
  ASSUME Shape, Shape', Flags, NEW c \in Cpu, NEW t \in Thread, SchedAffinity(c, t)
  PROVE  Flags'
<1>1. /\ UNCHANGED <<cur, late, idle, lateIdle, ipi, ipc>> /\ h[c].pc = "none" /\ ipc[c] # "asleep"
  BY AwakeFacts DEF SchedAffinity, Open, flagVars, idleVars
<1>2. \A e \in Cpu : queue'[e] \subseteq queue[e]
  <2>1. \E from : queue' = [d \in Cpu |-> IF d \in from THEN queue[d] \ {t} ELSE queue[d]]
    BY DEF SchedAffinity
  <2> QED BY <2>1
<1> QED BY <1>1, <1>2, AffinityShape, QuietFlags

\* Choosing another processor for it adds it nowhere yet.
LEMMA ReaddFlags ==
  ASSUME Shape, Shape', Flags, NEW c \in Cpu, SchedReadd(c)
  PROVE  Flags'
<1>1. /\ UNCHANGED <<cur, queue, late, idle, lateIdle, ipi, ipc>> /\ h[c].pc = "readd" /\ ipc[c] # "asleep"
  BY AwakeFacts DEF SchedReadd, queueVars, flagVars, idleVars
<1>2. \A e \in Cpu \ {c} : h'[e] = h[e]
  BY ReaddShape
<1> QED BY <1>1, <1>2, QuietFlags

\* Stealing adds to the load of nobody but the thief, who is awake.
LEMMA StealFlags ==
  ASSUME Shape, Shape', Flags, NEW c \in Cpu, TrySearch(c) \/ TrySteal(c) \/ IdleSteal(c)
  PROVE  Flags'
<1> DEFINE v == h[c].to
<1>1. /\ UNCHANGED <<late, idle, lateIdle, ipi>> /\ h[c].pc \notin {"none", "fence", "wake"}
      /\ ipc' = ipc \/ GoesOn(c, "loop")
  BY DEF TrySearch, TrySteal, IdleSteal, queueVars, flagVars, idleVars
<1>3. \A e \in Cpu \ {c} : cur'[e] = cur[e] /\ queue'[e] \subseteq queue[e]
  <2>1. CASE Switches(c, queue) \/ (cur' = cur /\ queue' = queue)
    BY <2>1, SwitchAlone
  <2>2. CASE /\ TrySteal(c) \/ IdleSteal(c)
             /\ \E t \in Stealable(v, c) : Moves(t, v, c) /\ Switches(c, MovedQueue(t, v, c))
    <3>1. PICK t \in Stealable(v, c) : Moves(t, v, c) /\ Switches(c, MovedQueue(t, v, c))
      BY <2>2
    <3>2. v \in Cpu /\ v # c /\ TypeOK
      BY <2>2 DEF TrySteal, IdleSteal, Shape, Step
    <3>3. PICK q : q = MovedQueue(t, v, c)
      OBVIOUS
    <3>4. /\ q \in [Cpu -> SUBSET Thread] /\ q[v] = queue[v] \ {t}
          /\ \A e \in Cpu \ {v, c} : q[e] = queue[e]
      BY <3>1, <3>2, <3>3, MoveFacts
    <3>5. \A e \in Cpu \ {c} : cur'[e] = cur[e] /\ queue'[e] = q[e]
      BY <3>1, <3>3, <3>4, SwitchOwnQueue
    <3> QED BY <3>4, <3>5
  <2> QED BY <2>1, <2>2 DEF TrySearch, TrySteal, IdleSteal, queueVars
<1>4. \A e \in Cpu \ {c} : h'[e] = h[e]
  <2>1. CASE TrySearch(c)
    <3>1. h' = [h EXCEPT ![c] = Nothing] \/ \E w : h' = [h EXCEPT ![c].pc = "lock_one", ![c].to = w]
      BY <2>1 DEF TrySearch
    <3>2. CASE h' = [h EXCEPT ![c] = Nothing]
      BY <3>2, NothingDoes
    <3>3. CASE \E w : h' = [h EXCEPT ![c].pc = "lock_one", ![c].to = w]
      BY <3>3 DEF Shape, TypeOK
    <3> QED BY <3>1, <3>2, <3>3
  <2>2. CASE TrySteal(c) \/ IdleSteal(c)
    <3>1. h' = [h EXCEPT ![c] = Nothing]
      BY <2>2 DEF TrySteal, IdleSteal
    <3> QED BY <3>1, NothingDoes
  <2> QED BY <2>1, <2>2
<1>6. ipc[c] # "asleep" /\ ipc' \in [Cpu -> {"loop", "search", "pair", "rest", "flag", "recheck", "halt", "asleep", "clear"}]
  BY <1>1, AwakeFacts DEF Shape, TypeOK
<1>7. /\ ipc'[c] # "asleep" /\ (ipc'[c] = "loop" \/ ipc'[c] = ipc[c])
      /\ \A e \in Cpu \ {c} : ipc'[e] = ipc[e]
  BY <1>1, <1>6 DEF GoesOn, Shape, TypeOK
<1> QED BY <1>1, <1>3, <1>4, <1>7, QuietFlags

\* The steps of the idle thread before it says that it will sleep.
LEMMA IdleFlags ==
  ASSUME Shape, Shape', Flags, NEW c \in Cpu, IdleLoop(c) \/ IdleSearch(c) \/ IdleLock(c)
  PROVE  Flags'
<1>1. /\ UNCHANGED <<late, idle, lateIdle, ipi>> /\ h[c].pc = "none"
      /\ ipc[c] \in {"loop", "search", "pair"}
      /\ ipc' = ipc \/ \E s \in {"loop", "search", "pair", "rest"} : GoesOn(c, s)
      /\ (cur' = cur /\ queue' = queue) \/ Switches(c, queue)
  BY DEF IdleLoop, IdleSearch, IdleLock, IdleAt, Open, queueVars, flagVars, idleVars
<1>2. \A e \in Cpu \ {c} : cur'[e] = cur[e] /\ queue'[e] = queue[e]
  BY <1>1, SwitchAlone
<1>3. \A e \in Cpu \ {c} : h'[e] = h[e]
  BY IdleLockShape DEF IdleLoop, IdleSearch
<1>4. /\ ipc'[c] \in {"loop", "search", "pair", "rest"}
      /\ \A e \in Cpu \ {c} : ipc'[e] = ipc[e]
  BY <1>1 DEF GoesOn, Shape, TypeOK
<1> QED BY <1>1, <1>2, <1>3, <1>4, QuietFlags

\* It says so, looks again, and wakes.
LEMMA RestFlags ==
  ASSUME Shape, Shape', Flags, NEW c \in Cpu,
         IdleRest(c) \/ IdleFence(c) \/ IdleRecheck(c) \/ IdleClear(c)
  PROVE  Flags'
<1>0. TypeOK
  BY DEF Shape
<1>1. /\ UNCHANGED <<cur, queue, late, ipi, h>> /\ h[c].pc = "none" /\ ipc[c] # "asleep"
  BY DEF IdleRest, IdleFence, IdleRecheck, IdleClear, IdleAt, Open, queueVars, flagVars
<1>2. \E s \in {"loop", "flag", "recheck", "clear", "halt"} : GoesOn(c, s)
  BY DEF IdleRest, IdleFence, IdleRecheck, IdleClear
<1>3. ipc'[c] # "asleep" /\ \A e \in Cpu \ {c} : ipc'[e] = ipc[e]
  BY <1>0, <1>2 DEF GoesOn, TypeOK
<1>4. \A e \in Cpu \ {c} : idle'[e] = idle[e] /\ lateIdle'[e] = lateIdle[e]
  BY <1>0 DEF IdleRest, IdleFence, IdleRecheck, IdleClear, flagVars, TypeOK
<1>5. /\ ipc'[c] \in {"recheck", "halt", "asleep", "clear"} => idle'[c] /\ ~lateIdle'[c]
      /\ ipc'[c] = "flag" => idle'[c]
  <2>1. CASE IdleRest(c)
    BY <1>0, <2>1 DEF IdleRest, GoesOn, TypeOK
  <2>2. CASE IdleFence(c)
    <3>1. idle[c] /\ idle' = idle /\ lateIdle' = [lateIdle EXCEPT ![c] = FALSE]
      BY <2>2 DEF IdleFence, IdleAt, Flags, Fence
    <3>2. ipc'[c] = "recheck"
      BY <1>0, <2>2 DEF IdleFence, GoesOn, TypeOK
    <3> QED BY <1>0, <3>1, <3>2 DEF TypeOK
  <2>3. CASE IdleRecheck(c)
    <3>1. idle[c] /\ ~lateIdle[c] /\ idle' = idle /\ lateIdle' = lateIdle
      BY <2>3 DEF IdleRecheck, IdleAt, Flags, flagVars
    <3>2. ipc'[c] \in {"clear", "halt"}
      BY <1>0, <2>3 DEF IdleRecheck, GoesOn, TypeOK
    <3> QED BY <3>1, <3>2
  <2>4. CASE IdleClear(c)
    BY <1>0, <2>4 DEF IdleClear, GoesOn, TypeOK
  <2> QED BY <2>1, <2>2, <2>3, <2>4
<1> QED BY <1>1, <1>3, <1>4, <1>5, FlagsStep

\* A processor goes to sleep with nothing queued, or with the fence still to come
\* of the processor that added a thread.
LEMMA CpuIdleFlags ==
  ASSUME Shape, Shape', Places, Flags, NEW c \in Cpu, CpuIdle(c)
  PROVE  Flags'
<1>0. TypeOK
  BY DEF Shape
<1>1. /\ UNCHANGED <<cur, queue, late, idle, lateIdle, ipi, h>>
      /\ h[c].pc = "none" /\ cur[c] = Idle /\ ipc[c] = "halt"
      /\ GoesOn(c, "clear") \/ (0 \in Seen(c) /\ GoesOn(c, "asleep"))
  BY DEF CpuIdle, IdleAt, Open, queueVars, flagVars
<1>2. ipc'[c] \in {"clear", "asleep"} /\ \A e \in Cpu \ {c} : ipc'[e] = ipc[e]
  BY <1>0, <1>1 DEF GoesOn, TypeOK
<1>3. ipc'[c] = "asleep" => 0 \in Seen(c)
  BY <1>0, <1>1 DEF GoesOn, TypeOK
<1>4. ipc'[c] = "asleep" /\ HasWork(queue[c]) => \E d \in Cpu : h[d].pc = "fence" /\ h[d].to = c
  <2>1. 0 \in Seen(c) /\ load[c] # 0 => late[c]
    BY <1>0 DEF Seen, TypeOK
  <2>2. ASSUME HasWork(queue[c])
        PROVE  load[c] # 0
    <3>1. Here(c) # {}
      BY <1>0, <2>2 DEF HasWork, Here, TypeOK
    <3>2. IsFiniteSet(Here(c))
      BY UleSmpAssumption, FS_Subset DEF Here
    <3> QED BY <3>1, <3>2, FS_EmptySet DEF Places
  <2> QED BY <1>3, <2>1, <2>2 DEF Flags
<1>5. \A e \in Cpu : ipc'[e] = "asleep" => cur'[e] = Idle /\ Open(e)'
  BY <1>1, <1>2 DEF Flags, Open
<1>6. \A e \in Cpu : /\ ipc'[e] \in {"recheck", "halt", "asleep", "clear"} => idle'[e] /\ ~lateIdle'[e]
                     /\ ipc'[e] = "flag" => idle'[e]
  BY <1>1, <1>2 DEF Flags
<1>7. \A e \in Cpu : late'[e] => \E d \in Cpu : h'[d].pc = "fence" /\ h'[d].to = e
  BY <1>1 DEF Flags
<1>8. ASSUME NEW e \in Cpu, cur'[e] = Idle, ipc'[e] = "asleep", HasWork(queue'[e])
      PROVE  ipi'[e] \/ \E d \in Cpu : h'[d].pc \in {"fence", "wake"} /\ h'[d].to = e
  <2>1. CASE e = c
    BY <1>1, <1>4, <1>8, <2>1
  <2>2. CASE e # c
    BY <1>1, <1>2, <1>8, <2>2 DEF Flags, NoSleepOnWork
  <2> QED BY <2>1, <2>2
<1>9. NoSleepOnWork'
  BY <1>8 DEF NoSleepOnWork
<1> QED BY <1>5, <1>6, <1>7, <1>9 DEF Flags

\* A store buffer makes a load visible, or tdq_cpu_idle.
LEMMA DrainFlags ==
  ASSUME Shape, Flags, Drain
  PROVE  Flags'
<1>1. UNCHANGED <<cur, queue, idle, ipi, ipc, h>>
  BY DEF Drain, idleVars
<1>2. \A e \in Cpu : (late'[e] => late[e]) /\ (lateIdle'[e] => lateIdle[e])
  BY DEF Drain, Shape, TypeOK
<1> QED BY <1>1, <1>2 DEF Flags, NoSleepOnWork, Open

\* At boot no processor sleeps.
LEMMA InitFlags == Init => Flags
BY DEF Init, Flags, NoSleepOnWork

\* No step breaks Flags.
LEMMA NextFlags == Shape /\ Shape' /\ Places /\ Flags /\ [Next]_vars => Flags'
<1> SUFFICES ASSUME Shape, Shape', Places, Flags, [Next]_vars PROVE Flags'
  OBVIOUS
<1>1. CASE UNCHANGED vars
  BY <1>1 DEF vars, Flags, NoSleepOnWork, Open
<1>2. CASE Drain
  BY <1>2, DrainFlags
<1>3. ASSUME NEW c \in Cpu, NEW t \in Thread, SchedWakeup(c, t) \/ SchedAffinity(c, t) PROVE Flags'
  BY <1>3, WakeupFlags, AffinityFlags
<1>4. ASSUME NEW c \in Cpu,
             \/ LockOne(c) \/ LockTwo(c) \/ NotifyFence(c) \/ NotifyWake(c)
             \/ SchedAdd(c) \/ SchedReadd(c) \/ SchedPreempt(c) \/ SchedSwitch(c) \/ Migrate(c)
             \/ SchedSleep(c) \/ SchedBind(c)
      PROVE  Flags'
  BY <1>4, LockFlags, FenceFlags, WakeFlags, AddFlags, ReaddFlags, PreemptFlags, SwitchFlags, SleepFlags
<1>5. ASSUME NEW c \in Cpu,
             \/ TrySearch(c) \/ TrySteal(c)
             \/ IdleLoop(c) \/ IdleSearch(c) \/ IdleLock(c) \/ IdleSteal(c) \/ IdleRest(c) \/ IdleFence(c)
             \/ IdleRecheck(c) \/ CpuIdle(c) \/ IdleClear(c)
             \/ SchedBalance(c) \/ BalanceHigh(c) \/ BalanceLow(c) \/ BalancePair(c)
      PROVE  Flags'
  BY <1>5, StealFlags, IdleFlags, RestFlags, CpuIdleFlags, BalanceFlags, PairFlags
<1> QED BY <1>1, <1>2, <1>3, <1>4, <1>5, UleSmpAssumption DEF Next
-----------------------------------------------------------------------------
\* The two queues of a lock pair are those of processors, and the first is one of them.
LEMMA FirstFacts ==
  ASSUME Shape, NEW c \in Cpu, h[c].pc \in {"lock_one", "lock_two", "both"}
  PROVE  One(c) \in Cpu /\ Two(c) \in Cpu /\ First(One(c), Two(c)) \in Cpu
<1>1. One(c) \in Cpu /\ Two(c) \in Cpu
  BY DEF Shape, Step, One, Two
<1>2. \A a, b \in Nat : Min({a, b}) \in {a, b}
  BY DEF Min
<1>3. Cpu \subseteq Nat
  BY UleSmpAssumption
<1> QED BY <1>1, <1>2, <1>3 DEF First

\* A step after which the processor does not wait for its second lock, and that
\* takes no lock from another.
LEMMA LocksStep ==
  ASSUME Shape, Locks, NEW c \in Cpu, \A e \in Cpu \ {c} : h'[e] = h[e], h'[c].pc # "lock_two",
         \A d \in Cpu : lock'[d] = lock[d] \/ lock[d] \in {Nobody, c}
  PROVE  Locks'
<1> SUFFICES ASSUME NEW e \in Cpu, h'[e].pc = "lock_two"
             PROVE  lock'[First(One(e), Two(e))'] = e
  BY DEF Locks
<1>1. e # c /\ h'[e] = h[e] /\ h[e].pc = "lock_two" /\ e # Nobody
  <2>1. e # Nobody
    <3>1. e \in Nat
      BY UleSmpAssumption, Zenon
    <3> QED BY <3>1 DEF Nobody
  <2> QED BY <2>1
<1>2. One(e)' = One(e) /\ Two(e)' = Two(e)
  BY <1>1 DEF One, Two
<1>3. First(One(e), Two(e))' = First(One(e), Two(e))
  BY <1>2 DEF First
<1>4. lock[First(One(e), Two(e))] = e /\ First(One(e), Two(e)) \in Cpu
  BY <1>1, FirstFacts DEF Locks
<1> QED BY <1>1, <1>3, <1>4

\* A processor gives back its own locks only.
LEMMA ReleasedLocks ==
  ASSUME Shape, NEW c \in Cpu, lock' = Released(c)
  PROVE  \A d \in Cpu : lock'[d] = lock[d] \/ lock[d] \in {Nobody, c}
BY DEF Released

\* A processor takes the first lock of two.
LEMMA LockOneLocks ==
  ASSUME Shape, Locks, NEW c \in Cpu, LockOne(c)
  PROVE  Locks'
<1>1. h[c].pc = "lock_one" /\ h' = [h EXCEPT ![c].pc = "lock_two"] /\ TypeOK
  BY DEF LockOne, Shape
<1>2. /\ \A e \in Cpu \ {c} : h'[e] = h[e]
      /\ h'[c].pc = "lock_two" /\ h'[c].op = h[c].op /\ h'[c].to = h[c].to /\ h'[c].high = h[c].high
  BY <1>1, GoesFacts
<1> DEFINE a == First(One(c), Two(c))
<1>3. a \in Cpu /\ lock[a] = Nobody /\ lock' = [lock EXCEPT ![a] = c]
  BY <1>1, FirstFacts DEF LockOne, Unlocked
<1> HIDE DEF a
<1>4. lock'[a] = c /\ \A d \in Cpu \ {a} : lock'[d] = lock[d]
  BY <1>1, <1>3 DEF TypeOK
<1> SUFFICES ASSUME NEW e \in Cpu, h'[e].pc = "lock_two"
             PROVE  lock'[First(One(e), Two(e))'] = e
  BY DEF Locks
<1>5. /\ h'[e].op = h[e].op /\ h'[e].to = h[e].to /\ h'[e].high = h[e].high
      /\ e # c => h[e].pc = "lock_two"
  BY <1>2
<1>6. One(e)' = One(e) /\ Two(e)' = Two(e)
  BY <1>5 DEF One, Two
<1>7. First(One(e), Two(e))' = First(One(e), Two(e))
  BY <1>6 DEF First
<1>8. CASE e = c
  BY <1>4, <1>7, <1>8 DEF a
<1>9. CASE e # c
  <2>1. lock[First(One(e), Two(e))] = e /\ First(One(e), Two(e)) \in Cpu /\ e # Nobody
    BY <1>5, <1>9, FirstFacts, UleSmpAssumption DEF Locks, Nobody
  <2> QED BY <1>3, <1>4, <1>7, <2>1
<1> QED BY <1>8, <1>9

\* The second lock, and tdq_notify.
LEMMA NotifyLocks ==
  ASSUME Shape, Locks, NEW c \in Cpu, LockTwo(c) \/ NotifyFence(c) \/ NotifyWake(c)
  PROVE  Locks'
<1>1. CASE LockTwo(c)
  <2>1. h[c].pc = "lock_two" /\ h' = [h EXCEPT ![c].pc = "both"] /\ TypeOK
    BY <1>1 DEF LockTwo, Shape
  <2>2. (\A e \in Cpu \ {c} : h'[e] = h[e]) /\ h'[c].pc = "both"
    BY <2>1, GoesFacts
  <2>3. \A d \in Cpu : lock'[d] = lock[d] \/ lock[d] \in {Nobody, c}
    <3>1. \E b : lock' = [lock EXCEPT ![b] = c] /\ lock[b] = Nobody
      BY <1>1 DEF LockTwo, Unlocked
    <3> QED BY <2>1, <3>1 DEF TypeOK
  <2> QED BY <2>2, <2>3, LocksStep
<1>2. CASE NotifyFence(c)
  BY <1>2, FenceShape, LocksStep DEF NotifyFence
<1>3. CASE NotifyWake(c)
  <2>1. /\ h[c].pc = "wake" /\ NotifyDone(c, queue) /\ h[c].op \in {"add", "migrate", "balance"}
        /\ queue \in [Cpu -> SUBSET Thread]
    BY <1>3 DEF NotifyWake, Shape, Step, TypeOK
  <2>2. (\A e \in Cpu \ {c} : h'[e] = h[e]) /\ h'[c].pc \in {"none", "high"} /\ lock' = Released(c)
    BY <2>1, DoneFacts
  <2> QED BY <2>2, ReleasedLocks, LocksStep
<1> QED BY <1>1, <1>2, <1>3

\* sched_add and sched_switch_migrate keep a lock while they tell, or drop it.
LEMMA AddLocks ==
  ASSUME Shape, Locks, NEW c \in Cpu, SchedAdd(c) \/ Migrate(c)
  PROVE  Locks'
<1>0. PICK t \in Thread, d \in Cpu :
        TypeOK /\ h[c].td = t /\ h[c].to = d /\ h[c].op \in {"add", "migrate"}
  BY DEF Shape, SchedAdd, Migrate, Step
<1> DEFINE q == [queue EXCEPT ![d] = @ \cup {t}]
<1>1. \A e \in Cpu \ {c} : h'[e] = h[e]
  BY AddShape, MigrateShape
<1>2. q \in [Cpu -> SUBSET Thread]
  BY <1>0 DEF TypeOK
<1>3. ASSUME NotifyDone(c, q) PROVE Locks'
  <2> HIDE DEF q
  <2>1. h'[c].pc \in {"none", "high"} /\ lock' = Released(c)
    BY <1>0, <1>2, <1>3, DoneFacts
  <2> QED BY <1>1, <2>1, ReleasedLocks, LocksStep
<1>4. CASE SchedAdd(c)
  <2>1. CASE h' = [h EXCEPT ![c] = Nothing] /\ lock' = Released(c)
    BY <1>1, <2>1, NothingDoes, NothingFacts, ReleasedLocks, LocksStep
  <2>2. CASE h' = [h EXCEPT ![c].pc = "fence"] /\ lock' = [lock EXCEPT ![d] = c]
    <3>1. h'[c].pc = "fence"
      BY <1>0, <2>2, GoesFacts
    <3>2. \A e \in Cpu : lock'[e] = lock[e] \/ lock[e] \in {Nobody, c}
      BY <1>0, <1>4, <2>2 DEF SchedAdd, TypeOK
    <3> QED BY <1>1, <3>1, <3>2, LocksStep
  <2> QED BY <1>0, <1>3, <1>4, <2>1, <2>2 DEF SchedAdd
<1>5. CASE Migrate(c)
  <2>1. CASE h' = [h EXCEPT ![c].pc = "fence", ![c].td = Idle] /\ lock' = lock
    <3> DEFINE x == [h[c] EXCEPT !.pc = "fence", !.td = Idle]
    <3>1. h[c] \in Doing /\ h' = [h EXCEPT ![c] = x]
      BY <1>0, <2>1 DEF TypeOK
    <3>2. x.pc = "fence"
      BY <3>1 DEF Doing
    <3> HIDE DEF x
    <3>3. h'[c] = x
      BY <1>0, <3>1 DEF TypeOK
    <3> QED BY <1>1, <2>1, <3>2, <3>3, LocksStep
  <2> QED BY <1>0, <1>3, <1>5, <2>1 DEF Migrate
<1> QED BY <1>4, <1>5

\* sched_balance_pair keeps its locks while it tells, or drops them.
LEMMA PairLocks ==
  ASSUME Shape, Locks, NEW c \in Cpu, BalancePair(c)
  PROVE  Locks'
<1> DEFINE high == h[c].high
           low  == h[c].to
<1>0. /\ TypeOK /\ h[c].pc = "both" /\ h[c].op = "balance" /\ h[c] \in Doing
      /\ high \in Cpu /\ low \in Cpu /\ high # low
  BY DEF Shape, BalancePair, Step, TypeOK
<1>1. CASE /\ h' = [h EXCEPT ![c].pc = "low", ![c].to = Nobody, ![c].anylow = FALSE,
                             ![c].lmask = @ \ {low}]
           /\ lock' = Released(c)
  <2> DEFINE k == h[c].lmask \ {low}
             x == [h[c] EXCEPT !.pc = "low", !.to = Nobody, !.anylow = FALSE, !.lmask = k]
  <2>1. h' = [h EXCEPT ![c] = x]
    BY <1>0, <1>1 DEF TypeOK, Doing
  <2> HIDE DEF k
  <2>2. x.pc = "low"
    BY <1>0 DEF Doing
  <2> HIDE DEF x
  <2>3. h'[c] = x /\ \A e \in Cpu \ {c} : h'[e] = h[e]
    BY <1>0, <2>1 DEF TypeOK
  <2> QED BY <1>1, <2>2, <2>3, ReleasedLocks, LocksStep
<1>2. ASSUME NEW t \in Stealable(high, low), Moves(t, high, low),
             IF low # c /\ tdq_notify(low, t)
             THEN /\ queue' = MovedQueue(t, high, low)
                  /\ late' = [late EXCEPT ![low] = TRUE]
                  /\ h' = [h EXCEPT ![c].pc = "fence"]
                  /\ UNCHANGED <<cur, lock>>
             ELSE NotifyDone(c, MovedQueue(t, high, low)) /\ UNCHANGED late
      PROVE  Locks'
  <2> DEFINE q == MovedQueue(t, high, low)
  <2>1. CASE low # c /\ tdq_notify(low, t)
    <3>1. h' = [h EXCEPT ![c].pc = "fence"] /\ lock' = lock
      BY <1>2, <2>1
    <3>2. h'[c].pc = "fence" /\ \A e \in Cpu \ {c} : h'[e] = h[e]
      BY <1>0, <3>1, GoesFacts
    <3> QED BY <3>1, <3>2, LocksStep
  <2>2. CASE ~(low # c /\ tdq_notify(low, t))
    <3>1. NotifyDone(c, q) /\ q \in [Cpu -> SUBSET Thread]
      BY <1>0, <1>2, <2>2, MoveFacts
    <3> HIDE DEF q
    <3>2. (\A e \in Cpu \ {c} : h'[e] = h[e]) /\ h'[c].pc \in {"none", "high"} /\ lock' = Released(c)
      BY <1>0, <3>1, DoneFacts
    <3> QED BY <3>2, ReleasedLocks, LocksStep
  <2> QED BY <2>1, <2>2
<1> QED BY <1>1, <1>2 DEF BalancePair

\* A running thread that switches or is bound takes no lock that it keeps.
LEMMA RunnableLocks ==
  ASSUME Shape, Locks, NEW c \in Cpu, SchedSwitch(c) \/ SchedPreempt(c) \/ SchedBind(c)
  PROVE  Locks'
<1>0. lock' = lock /\ h[c].pc = "none" /\ TypeOK
  BY DEF SchedSwitch, SchedPreempt, SchedBind, Open, Shape
<1>1. h' = h \/ \E t \in Thread, d \in Cpu \ {c} : Migrates(c, t, d)
  <2>1. ASSUME SwitchRunnable(c, cur[c], Assigned(c, cur[c])), cur[c] # Idle
        PROVE  h' = h \/ \E t \in Thread, d \in Cpu \ {c} : Migrates(c, t, d)
    <3>1. cur[c] \in Thread
      BY <1>0, <2>1 DEF TypeOK
    <3>2. \A d \in Assigned(c, cur[c]) : d \in Cpu
      BY <1>0, <3>1, AssignedFacts
    <3> QED BY <2>1, <3>1, <3>2 DEF SwitchRunnable, Requeued
  <2>2. CASE SchedBind(c)
    <3>1. cur[c] \in Thread
      BY <2>2, UleSmpAssumption DEF SchedBind
    <3> QED BY <2>2, <3>1 DEF SchedBind
  <2> QED BY <2>1, <2>2 DEF SchedSwitch, SchedPreempt
<1>2. CASE h' = h
  BY <1>0, <1>2, LocksStep
<1>3. CASE \E t \in Thread, d \in Cpu \ {c} : Migrates(c, t, d)
  <2>1. h'[c].pc = "lock_one" /\ \A e \in Cpu \ {c} : h'[e] = h[e]
    BY <1>0, <1>3, MigratesFacts
  <2> QED BY <1>0, <2>1, LocksStep
<1> QED BY <1>1, <1>2, <1>3

\* Nor does one that goes to sleep.
LEMMA SleepLocks ==
  ASSUME Shape, Locks, NEW c \in Cpu, SchedSleep(c)
  PROVE  Locks'
<1>0. lock' = lock /\ h[c].pc = "none"
  BY DEF SchedSleep, Open
<1>1. \A e \in Cpu \ {c} : h'[e] = h[e]
  BY SleepShape
<1> DEFINE x == [Nothing EXCEPT !.pc = "search", !.op = "try"]
<1>2. h' = h \/ h' = [h EXCEPT ![c] = x]
  BY DEF SchedSleep
<1>3. x.pc = "search"
  BY DEF Nothing
<1> HIDE DEF x
<1>4. h'[c].pc # "lock_two"
  BY <1>0, <1>2, <1>3 DEF Shape, TypeOK
<1> QED BY <1>0, <1>1, <1>4, LocksStep

\* The queue that a thread is taken off is not locked by another.
LEMMA AffinityLocks ==
  ASSUME Shape, Places, Locks, NEW c \in Cpu, NEW t \in Thread, SchedAffinity(c, t)
  PROVE  Locks'
<1> DEFINE x == [Nothing EXCEPT !.pc = "readd", !.op = "add", !.td = t]
<1>1. PICK m \in SUBSET Cpu : LET from == {d \in Cpu \ m : t \in queue[d]} IN
          /\ lock' = [d \in Cpu |-> IF d \in from THEN c ELSE lock[d]]
          /\ h' = IF from = {} THEN h ELSE [h EXCEPT ![c] = x]
  BY DEF SchedAffinity
<1>2. x.pc = "readd"
  BY DEF Nothing
<1> HIDE DEF x
<1>3. \A e \in Cpu \ {c} : h'[e] = h[e]
  BY AffinityShape
<1>4. h'[c].pc # "lock_two"
  <2>1. h[c].pc = "none"
    BY DEF SchedAffinity, Open
  <2>2. h'[c] = h[c] \/ h'[c] = x
    BY <1>1 DEF Shape, TypeOK
  <2> QED BY <1>2, <2>1, <2>2
<1>5. \A d \in Cpu : t \in queue[d] => lock[d] = Nobody
  <2>1. CASE Off(t)
    BY <2>1 DEF Off
  <2>2. CASE \E d \in Cpu : (Runs(d, t) \/ t \in queue[d]) /\ Unlocked(d)
    <3>1. PICK d \in Cpu : t \in Here(d) /\ lock[d] = Nobody
      BY <2>2 DEF Here, Unlocked
    <3> QED BY <3>1, RunningFacts
  <2> QED BY <2>1, <2>2 DEF SchedAffinity
<1>6. \A d \in Cpu : lock'[d] = lock[d] \/ lock[d] \in {Nobody, c}
  BY <1>1, <1>5
<1> QED BY <1>3, <1>4, <1>6, LocksStep

\* A processor begins to add a thread or to steal.
LEMMA StartLocks ==
  ASSUME Shape, Locks, NEW c \in Cpu,
         (\E t \in Thread : SchedWakeup(c, t)) \/ SchedReadd(c) \/ IdleLock(c)
  PROVE  Locks'
<1>1. \A d \in Cpu : lock'[d] = lock[d] \/ lock[d] \in {Nobody, c}
  BY DEF SchedWakeup, SchedReadd, IdleLock
<1>2. (\A e \in Cpu \ {c} : h'[e] = h[e]) /\ h'[c].pc \in {"add", "lock_one"}
  BY WakeupShape, ReaddShape, IdleLockShape
<1> QED BY <1>1, <1>2, LocksStep

\* A thief has its locks or drops them.
LEMMA StealLocks ==
  ASSUME Shape, Locks, NEW c \in Cpu, TrySearch(c) \/ TrySteal(c) \/ IdleSteal(c)
  PROVE  Locks'
<1>1. /\ h' = [h EXCEPT ![c] = Nothing] \/ \E w : h' = [h EXCEPT ![c].pc = "lock_one", ![c].to = w]
      /\ lock' = lock \/ lock' = Released(c)
  BY DEF TrySearch, TrySteal, IdleSteal
<1>2. \A d \in Cpu : lock'[d] = lock[d] \/ lock[d] \in {Nobody, c}
  BY <1>1, ReleasedLocks
<1>3. CASE h' = [h EXCEPT ![c] = Nothing]
  BY <1>2, <1>3, NothingDoes, NothingFacts, LocksStep
<1>4. CASE \E w : h' = [h EXCEPT ![c].pc = "lock_one", ![c].to = w]
  <2>0. PICK w : h' = [h EXCEPT ![c].pc = "lock_one", ![c].to = w]
    BY <1>4
  <2> DEFINE x == [h[c] EXCEPT !.pc = "lock_one", !.to = w]
  <2>1. h[c] \in Doing /\ h' = [h EXCEPT ![c] = x]
    BY <2>0 DEF Shape, TypeOK
  <2>2. x.pc = "lock_one"
    BY <2>1 DEF Doing
  <2> HIDE DEF x
  <2>3. h'[c] = x /\ \A e \in Cpu \ {c} : h'[e] = h[e]
    BY <2>1 DEF Shape, TypeOK
  <2> QED BY <1>2, <2>2, <2>3, LocksStep
<1> QED BY <1>1, <1>3, <1>4

\* The balancer chooses without locks.
LEMMA BalanceLocks ==
  ASSUME Shape, Locks, NEW c \in Cpu, SchedBalance(c) \/ BalanceHigh(c) \/ BalanceLow(c)
  PROVE  Locks'
BY BalanceShape, LocksStep DEF SchedBalance, BalanceHigh, BalanceLow

\* What a processor does and every lock stay.
LEMMA SameLocks ==
  ASSUME Locks, UNCHANGED <<h, lock>>
  PROVE  Locks'
BY DEF Locks, First, One, Two

\* At boot nobody waits for a lock.
LEMMA InitLocks == Init => Locks
BY NothingFacts DEF Init, Locks

\* No step breaks Locks.
LEMMA NextLocks == Shape /\ Places /\ Locks /\ [Next]_vars => Locks'
<1> SUFFICES ASSUME Shape, Places, Locks, [Next]_vars PROVE Locks'
  OBVIOUS
<1>1. CASE UNCHANGED vars
  BY <1>1, SameLocks DEF vars
<1>2. CASE Drain
  BY <1>2, SameLocks DEF Drain
<1>3. ASSUME NEW c \in Cpu, NEW t \in Thread, SchedWakeup(c, t) \/ SchedAffinity(c, t) PROVE Locks'
  BY <1>3, StartLocks, AffinityLocks
<1>4. ASSUME NEW c \in Cpu,
             \/ LockOne(c) \/ LockTwo(c) \/ NotifyFence(c) \/ NotifyWake(c)
             \/ SchedAdd(c) \/ SchedReadd(c) \/ SchedPreempt(c) \/ SchedSwitch(c) \/ Migrate(c)
             \/ SchedSleep(c) \/ SchedBind(c)
      PROVE  Locks'
  BY <1>4, LockOneLocks, NotifyLocks, AddLocks, StartLocks, RunnableLocks, SleepLocks
<1>5. ASSUME NEW c \in Cpu,
             \/ TrySearch(c) \/ TrySteal(c) \/ IdleSteal(c) \/ IdleLock(c)
             \/ SchedBalance(c) \/ BalanceHigh(c) \/ BalanceLow(c) \/ BalancePair(c)
      PROVE  Locks'
  BY <1>5, StealLocks, StartLocks, BalanceLocks, PairLocks
<1>6. ASSUME NEW c \in Cpu,
             \/ IdleLoop(c) \/ IdleSearch(c) \/ IdleRest(c) \/ IdleFence(c)
             \/ IdleRecheck(c) \/ CpuIdle(c) \/ IdleClear(c)
      PROVE  Locks'
  BY <1>6, SameLocks DEF IdleLoop, IdleSearch, IdleRest, IdleFence, IdleRecheck, CpuIdle, IdleClear
<1> QED BY <1>1, <1>2, <1>3, <1>4, <1>5, <1>6, UleSmpAssumption DEF Next
-----------------------------------------------------------------------------
\* The inductive invariant.
Inv == Shape /\ Places /\ Flags /\ Locks

\* Whatever the processors, the threads and their priorities: the four parts of the
\* invariant hold together, each using those before it.
THEOREM SmpInvariant == Spec => []Inv
<1>1. Init => Inv
  BY InitShape, InitPlaces, InitFlags, InitLocks DEF Inv
<1>2. Inv /\ [Next]_vars => Inv'
  BY NextShape, NextPlaces, NextFlags, NextLocks DEF Inv
<1> QED BY <1>1, <1>2, PTL DEF Spec

\* A thread is queued or runs on one processor only, the one its ts_cpu names, and
\* tdq_load counts the threads of each processor: sched_add, tdq_move,
\* sched_switch_migrate and sched_affinity each move a thread, its ts_cpu and the loads
\* in different steps.
THEOREM ThreadsInOnePlace == Spec => []EachThreadOnce
<1>1. Inv => EachThreadOnce
  <2> SUFFICES ASSUME Inv PROVE EachThreadOnce
    OBVIOUS
  <2>1. Places /\ Shape
    BY DEF Inv
  <2>2. \A c \in Cpu : load[c] = Cardinality({t \in Thread : t \in queue[c] \/ Runs(c, t)})
    BY <2>1 DEF Places, Here
  <2>3. \A c \in Cpu : \A t \in queue[c] :
          ts_cpu[t] = c /\ \A d \in Cpu : ~Runs(d, t) /\ (t \in queue[d] => d = c)
    <3> TAKE c \in Cpu
    <3> TAKE t \in queue[c]
    <3>1. t \in Thread /\ t \in Here(c) /\ ~Runs(c, t) /\ ts_cpu[t] = c
      BY <2>1 DEF Shape, TypeOK, Here, Places, Allowed
    <3>2. \A d \in Cpu : t \in Here(d) => d = c
      BY <2>1, <3>1 DEF Places
    <3> QED BY <3>1, <3>2 DEF Here
  <2>4. \A c, d \in Cpu, t \in Thread : Runs(c, t) /\ Runs(d, t) => c = d
    BY <2>1 DEF Places, Here
  <2> QED BY <2>2, <2>3, <2>4 DEF EachThreadOnce
<1> QED BY <1>1, SmpInvariant, PTL

\* A thread waits only where its cpuset or its binding lets it: what sched_pickcpu and
\* tdq_steal saw of them still holds when the thread is queued, as the lock of the thread
\* is kept or the thread is told (sched_affinity).
THEOREM AffinityHolds == Spec => []AffinityKept
<1>1. Inv => AffinityKept
  BY DEF Inv, Places, Allowed, AffinityKept
<1> QED BY <1>1, SmpInvariant, PTL

\* No processor sleeps in cpu_idle on a thread of its queue, of any priority but that of
\* the idle threads, that nobody is about to tell it of: the fences of tdq_notify and
\* sched_idletd are enough.
THEOREM NoneSleepsOnWork == Spec => []NoSleepOnWork
<1>1. Inv => NoSleepOnWork
  BY DEF Inv, Flags
<1> QED BY <1>1, SmpInvariant, PTL

\* Two processors never hold one lock each of the same pair of queues (tdq_lock_pair).
THEOREM NoneEmbraces == Spec => []NoDeadlyEmbrace
<1>1. Inv => NoDeadlyEmbrace
  <2> SUFFICES ASSUME Inv, NEW c \in Cpu, NEW d \in Cpu, c # d,
                      h[c].pc = "lock_two", h[d].pc = "lock_two",
                      {One(c), Two(c)} = {One(d), Two(d)}
               PROVE  FALSE
    BY DEF NoDeadlyEmbrace
  <2>1. lock[First(One(c), Two(c))] = c /\ lock[First(One(d), Two(d))] = d
    BY DEF Inv, Locks
  <2>2. First(One(c), Two(c)) = First(One(d), Two(d))
    BY DEF First
  <2> QED BY <2>1, <2>2
<1> QED BY <1>1, SmpInvariant, PTL
=============================================================================
