--------------------------- MODULE ProcRefinement ---------------------------
(***************************************************************************)
(* The process table implements the promise of module Rendezvous: its      *)
(* lists, read from their heads, are the messages that are pending, and    *)
(* the fields of a process that is RECEIVING are the request it waits in.  *)
(***************************************************************************)
EXTENDS Proc

\* The processes that send to d, the first to be served first.
Order(d) == InOrder(q_sending[d], next_sending)

\* A queue holds processes, and the message of each is still in its buffer.
Pending == [d \in Procs |->
  LET order == Order(d)
  IN  [i \in DOMAIN order |-> mem[p_msg[order[i]]]]]

\* The request a process is blocked in.
Waiting == [p \in Procs |->
  IF RECEIVING \in p_flags[p] THEN p_recvfrom[p] ELSE NULL]

Promise == INSTANCE Rendezvous WITH
  Proc <- Procs, Body <- Body \cup {Zero}, Anyone <- ANY, None <- NULL,
  pending <- Pending, waiting <- Waiting, buffer <- mem,
  stopped <- kernel = "halt"

\* Every step of the kernel is a step the promise allows, or leaves what it is
\* about alone: a message arrives once, whole, at the process it is for and in
\* the order of the queue; a receive takes the first message it may take; the
\* system panics over a circle of senders and over nothing else
\* (proc.c:233-408).
Refinement == Promise!Spec
=============================================================================
