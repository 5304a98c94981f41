------------------------------ MODULE RunQueue ------------------------------
(***************************************************************************)
(* struct runq of the FreeBSD kernel as asgn2 builds it: RQ_NQS queues of   *)
(* threads and a status word with one bit per queue.  asgn2 has two of      *)
(* them, chosen by mode.sh: kern_switch.c keeps each queue in FIFO order,   *)
(* kern_switch_1.c inserts by td_priority.  Discipline says which is built. *)
(*                                                                         *)
(* The operators are functions of a run queue and return the changed one;   *)
(* td_rqindex and td_priority belong to the thread and are passed in.       *)
(***************************************************************************)
EXTENDS Integers, Sequences, SequencesExt, FiniteSetsExt

CONSTANTS
  Thread,      \* the threads that can be put on a run queue
  NoThread,    \* the NULL that runq_choose returns for an empty queue
  RQ_NQS,      \* number of queues in a struct runq
  RQ_PPQ,      \* number of priorities that share a queue
  Discipline   \* "fifo" (kern_switch.c) or "sorted" (kern_switch_1.c)

ASSUME RunQueueAssumption ==
  /\ NoThread \notin Thread
  /\ RQ_NQS \in Nat \ {0}
  /\ RQ_PPQ \in Nat \ {0}
  /\ Discipline \in {"fifo", "sorted"}

Index == 0 .. RQ_NQS - 1

\* rq_status is the set of the indices whose bit is set.
RunQ == [rq_status : SUBSET Index, rq_queues : [Index -> Seq(Thread)]]

runq_init == [rq_status |-> {}, rq_queues |-> [i \in Index |-> <<>>]]

runq_setbit(rq, pri) == [rq EXCEPT !.rq_status = @ \cup {pri}]

runq_clrbit(rq, pri) == [rq EXCEPT !.rq_status = @ \ {pri}]

runq_findbit(rq) == IF rq.rq_status = {} THEN -1 ELSE Min(rq.rq_status)

\* The first set bit at or after pri, wrapping around once.
runq_findbit_from(rq, pri) ==
  LET ahead == {i \in rq.rq_status : i >= pri}
  IN  IF ahead # {} THEN Min(ahead) ELSE runq_findbit(rq)

runq_check(rq) == rq.rq_status # {}

\* Where a thread that was not preempted enters queue q (1 is the head).
FifoPosition(q) == Len(q) + 1

\* In front of the first thread whose td_priority is not greater.
SortedPosition(q, td, priority) ==
  Min({i \in 1 .. Len(q) : priority[q[i]] <= priority[td]} \cup {Len(q) + 1})

InsertPosition(q, td, priority, flags) ==
  IF "PREEMPTED" \in flags THEN 1
  ELSE IF Discipline = "fifo" THEN FifoPosition(q)
  ELSE SortedPosition(q, td, priority)

runq_add_pri(rq, td, pri, priority, flags) ==
  LET q      == rq.rq_queues[pri]
      linked == [rq EXCEPT !.rq_queues[pri] =
                   InsertAt(q, InsertPosition(q, td, priority, flags), td)]
  IN  runq_setbit(linked, pri)

\* The queue that serves a priority in a run queue that is not rotated.
PriIndex(pri) == pri \div RQ_PPQ

runq_add(rq, td, priority, flags) ==
  runq_add_pri(rq, td, PriIndex(priority[td]), priority, flags)

runq_choose(rq) ==
  IF runq_check(rq) THEN Head(rq.rq_queues[runq_findbit(rq)]) ELSE NoThread

\* Mutant for TimeshareProgress: the search does not start at the index.
runq_choose_from_First(rq, idx) == runq_choose(rq)

runq_choose_from(rq, idx) ==
  IF runq_check(rq) THEN Head(rq.rq_queues[runq_findbit_from(rq, idx)])
                    ELSE NoThread

PositionOf(q, td) == CHOOSE k \in 1 .. Len(q) : q[k] = td

\* Mutant for StatusMatchesQueues: the bit goes with the first thread.
runq_remove_ClearAlways(rq, td, pri) ==
  LET q == rq.rq_queues[pri]
  IN  runq_clrbit([rq EXCEPT !.rq_queues[pri] = RemoveAt(q, PositionOf(q, td))], pri)

\* pri is the thread's td_rqindex.
runq_remove(rq, td, pri) ==
  LET q    == rq.rq_queues[pri]
      rest == RemoveAt(q, PositionOf(q, td))
      rq1  == [rq EXCEPT !.rq_queues[pri] = rest]
  IN  IF rest = <<>> THEN runq_clrbit(rq1, pri) ELSE rq1

\* What runq_remove_idx leaves in *idx when a thread leaves queue pri.
runq_next_idx(rq, td, pri, idx) ==
  IF idx = pri /\ Len(rq.rq_queues[pri]) = 1 THEN (pri + 1) % RQ_NQS ELSE idx
=============================================================================
