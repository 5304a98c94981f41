------------------------------ MODULE MCUleSmp ------------------------------
(* Two processors and two threads of different importance.                  *)
EXTENDS UleSmp

CONSTANTS t1, t2

\* t1 interrupts an idle processor and a less important thread, t2 is of the
\* priority of the idle threads and interrupts nothing.
MCPrio == [t \in Thread |-> IF t = t1 THEN 1 ELSE PRI_MAX_IDLE]
=============================================================================
