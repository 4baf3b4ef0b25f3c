------------------------------- MODULE MCProc -------------------------------
(***************************************************************************)
(* Small instances of the process table for TLC.                           *)
(***************************************************************************)
EXTENDS ProcRefinement, TLC

CONSTANT m1             \* what a message says

\* The process table of global.c:19-23 cut down: equal priorities, and one
\* process that gets half the ticks of the others.
Equal   == [p \in Procs |-> 1]
Unequal == [p \in Procs |-> IF p = NR_TASKS THEN 1 ELSE 2]

\* What decides the future of the system: not the contents of the buffers, and
\* of the partners of a process only the one it waits for now.  States that
\* agree on it have the same steps, so that the runs about the control of the
\* system may identify them.
Control ==
  <<p_flags, p_msg, q_sending, next_sending, sched, after,
    [p \in Procs |-> IF SENDING \in p_flags[p] THEN p_sendto[p] ELSE NULL],
    [p \in Procs |-> IF RECEIVING \in p_flags[p] THEN p_recvfrom[p] ELSE NULL]>>
=============================================================================
