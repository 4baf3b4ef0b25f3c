-------------------------------- MODULE Proc --------------------------------
(***************************************************************************)
(* The process table: synchronous message passing between processes and    *)
(* the priority/tick scheduler (kernel/proc.c, kernel/clock.c).            *)
(*                                                                         *)
(* Grain of atomicity.  sys_call (kernel.asm:348-366) runs with interrupts *)
(* enabled, but an interrupt that arrives inside the kernel finds          *)
(* k_reenter # 0 and never calls schedule (clock.c:25-28): no other        *)
(* process runs before a system call is over.  One execution of            *)
(* sys_sendrec is therefore one action here, and the ticks that arrive     *)
(* inside the kernel are NestedTick, which charges the current process and *)
(* switches nothing.                                                       *)
(*                                                                         *)
(* Not here, because no code of the repository can reach it: the branch of *)
(* msg_receive for has_int_msg, a field nothing sets, and requests from or *)
(* to INTERRUPT, which no caller makes.  The global counter `ticks` is     *)
(* only read by task_sys, which is not in the repository.                  *)
(***************************************************************************)
EXTENDS Integers, FiniteSets, Sequences, Links

CONSTANTS
  NR_TASKS,       \* number of tasks, the first entries of the table
  NR_PROCS,       \* number of user processes, the entries after them
  Priority,       \* ticks a process is given when the table is refilled
  Body,           \* contents of a message: its type and its union
  TickFloor       \* bound of the model: NestedTick stops charging here

Procs   == 0 .. NR_TASKS + NR_PROCS - 1
ANY     == NR_TASKS + NR_PROCS + 10
NO_TASK == NR_TASKS + NR_PROCS + 20

NULL == -1                     \* the null pointer
Zero == "Zero"                 \* a body that memset or reset_msg has cleared
SENDING   == "SENDING"         \* the two bits of p_flags
RECEIVING == "RECEIVING"

ASSUME TableAssumption == NR_TASKS \in Nat /\ NR_PROCS \in Nat /\ Procs # {}
ASSUME PriorityAssumption == Priority \in [Procs -> Nat \ {0}]
ASSUME FloorAssumption == TickFloor \in Int

Message == [source : Procs, body : Body \cup {Zero}]

VARIABLES
  p_flags,        \* [Procs -> SUBSET {SENDING, RECEIVING}], {} when runnable
  p_msg,          \* whose buffer the blocked process' pointer is, or NULL
  p_recvfrom,     \* whom it waits for: a process, ANY, or NO_TASK
  p_sendto,       \* whom it is sending to
  q_sending,      \* head of the queue of processes that send to it
  next_sending,   \* the next process in the queue it stands in
  ticks,          \* what is left of its time slice
  p_proc_ready,   \* the process whose registers restart() loads
  mem,            \* its message buffer in user memory
  after,          \* the half of send_recv(BOTH) still to do: whom to receive from
  kernel          \* "run"; "spin" in schedule(); "halt" after panic

ipc   == <<p_flags, p_msg, p_recvfrom, p_sendto, q_sending, next_sending>>
sched == <<ticks, p_proc_ready, kernel>>
vars  == <<ipc, sched, mem, after>>

Running(p) == kernel = "run" /\ p_proc_ready = p

-----------------------------------------------------------------------------
(* The scheduler *)

\* The processes schedule() looks at: no flag is set.
Runnable(fl) == {p \in Procs : fl[p] = {}}

\* When no runnable process has a tick left they all get their priority.
RefillEach(fl, t) ==                                             \* mutant
  [p \in Procs |-> IF p \in Runnable(fl) /\ t[p] =< 0 THEN Priority[p] ELSE t[p]]
Refill(fl, t) ==
  IF \A p \in Runnable(fl) : t[p] =< 0
  THEN [p \in Procs |-> IF p \in Runnable(fl) THEN Priority[p] ELSE t[p]]
  ELSE t

\* schedule: the first process of the table that has the most ticks among the
\* runnable ones.  Without a runnable process the loop never ends.  fl and t
\* are the flags and ticks the caller of schedule leaves.
Schedule(fl, t) ==
  \/ /\ Runnable(fl) = {}
     /\ kernel' = "spin"
     /\ ticks' = t
     /\ UNCHANGED p_proc_ready
  \/ /\ ticks' = Refill(fl, t)
     /\ \E p \in Runnable(fl) :
          /\ \A q \in Runnable(fl) : Refill(fl, t)[q] =< Refill(fl, t)[p]
          /\ \A q \in Runnable(fl) : q < p => Refill(fl, t)[q] < Refill(fl, t)[p]
          /\ p_proc_ready' = p
     /\ UNCHANGED kernel

\* clock_handler in an interrupt of user code: charge and reschedule.
ClockTick ==
  /\ kernel = "run"
  /\ Schedule(p_flags, [ticks EXCEPT ![p_proc_ready] = @ - 1])
  /\ UNCHANGED <<ipc, mem, after>>

\* clock_handler in an interrupt of the kernel (k_reenter # 0): charge only.
\* It also happens while schedule() spins.
NestedTick ==
  /\ kernel \in {"run", "spin"}
  /\ ticks[p_proc_ready] > TickFloor
  /\ ticks' = [ticks EXCEPT ![p_proc_ready] = @ - 1]
  /\ UNCHANGED <<ipc, p_proc_ready, kernel, mem, after>>

-----------------------------------------------------------------------------
(* Sending *)

\* The edges deadlock() follows: p_sendto of the processes that are SENDING.
SendLink == [p \in Procs |-> IF SENDING \in p_flags[p] THEN p_sendto[p] ELSE NULL]

\* deadlock: the walk from dest comes to a process that is sending to src.
deadlockOfTwo(src, dest) == SendLink[dest] = src                 \* mutant
deadlock(src, dest) == \E p \in Reach(dest, SendLink) : SendLink[p] = src

\* The queue of d, as the set of the processes its list holds.
Queue(d) == Reach(q_sending[d], next_sending)

\* The head pointers and links after the process p is appended to d's queue.
AppendAfterHead(d, p) ==                                         \* mutant
  IF q_sending[d] = NULL
  THEN /\ q_sending' = [q_sending EXCEPT ![d] = p]
       /\ next_sending' = [next_sending EXCEPT ![p] = NULL]
  ELSE /\ next_sending' = [next_sending EXCEPT ![q_sending[d]] = p, ![p] = NULL]
       /\ UNCHANGED q_sending
Prepend(d, p) ==                                                 \* mutant
  /\ q_sending' = [q_sending EXCEPT ![d] = p]
  /\ next_sending' = [next_sending EXCEPT ![p] = q_sending[d]]
AppendTo(d, p) ==
  IF q_sending[d] = NULL
  THEN /\ q_sending' = [q_sending EXCEPT ![d] = p]
       /\ next_sending' = [next_sending EXCEPT ![p] = NULL]
  ELSE \E tail \in Queue(d) :
         /\ next_sending[tail] = NULL
         /\ next_sending' = [next_sending EXCEPT ![tail] = p, ![p] = NULL]
         /\ UNCHANGED q_sending

\* The destination is blocked in a receive that this sender satisfies.
AwaitsByName(d, s) == RECEIVING \in p_flags[d] /\ p_recvfrom[d] = s   \* mutant
Awaits(d, s) == RECEIVING \in p_flags[d] /\ p_recvfrom[d] \in {s, ANY}

\* How msg_send ends; m is the memory with the sender's message in it.

\* panic prints the chain and stops the processor (tty.c:177-197).
Panic(m) ==
  /\ kernel' = "halt"
  /\ mem' = m
  /\ UNCHANGED <<ipc, ticks, p_proc_ready>>

\* The message goes straight into the buffer d waits with; s keeps running.
Deliver(s, d, m) ==
  /\ mem' = [m EXCEPT ![p_msg[d]] = m[s]]
  /\ p_msg' = [p_msg EXCEPT ![d] = NULL]
  /\ p_flags' = [p_flags EXCEPT ![d] = @ \ {RECEIVING}]
  /\ p_recvfrom' = [p_recvfrom EXCEPT ![d] = NO_TASK]
  /\ UNCHANGED <<p_sendto, q_sending, next_sending, sched>>

\* s waits in d's queue and somebody else runs.
Enqueue(s, d, m) ==
  /\ mem' = m
  /\ p_flags' = [p_flags EXCEPT ![s] = @ \cup {SENDING}]
  /\ p_sendto' = [p_sendto EXCEPT ![s] = d]
  /\ p_msg' = [p_msg EXCEPT ![s] = s]
  /\ AppendTo(d, s)
  /\ Schedule(p_flags', ticks)
  /\ UNCHANGED p_recvfrom

msg_send(s, d, m) ==
  \/ deadlock(s, d) /\ Panic(m)
  \/ ~deadlock(s, d) /\ Awaits(d, s) /\ Deliver(s, d, m)
  \/ ~deadlock(s, d) /\ ~Awaits(d, s) /\ Enqueue(s, d, m)

-----------------------------------------------------------------------------
(* Receiving *)

\* f leaves r's queue: from its head, or from behind the entry prev.
UnlinkHead(r, f) ==                                              \* mutant
  /\ q_sending' = [q_sending EXCEPT ![r] = next_sending[f]]
  /\ next_sending' = [next_sending EXCEPT ![f] = NULL]
UnlinkKeepingLink(r, f) ==                                       \* mutant
  \/ /\ f = q_sending[r]
     /\ q_sending' = [q_sending EXCEPT ![r] = next_sending[f]]
     /\ UNCHANGED next_sending
  \/ \E prev \in Queue(r) :
       /\ next_sending[prev] = f
       /\ next_sending' = [next_sending EXCEPT ![prev] = next_sending[f]]
       /\ UNCHANGED q_sending
Unlink(r, f) ==
  \/ /\ f = q_sending[r]
     /\ q_sending' = [q_sending EXCEPT ![r] = next_sending[f]]
     /\ next_sending' = [next_sending EXCEPT ![f] = NULL]
  \/ /\ f # q_sending[r]
     /\ \E prev \in Queue(r) :
          /\ next_sending[prev] = f
          /\ next_sending' = [next_sending EXCEPT ![prev] = next_sending[f],
                                                  ![f] = NULL]
     /\ UNCHANGED q_sending

\* The sender a receive from src finds ready, if any.
Ready(r, src) ==
  IF src = ANY THEN {q_sending[r]} \ {NULL}
  ELSE {f \in {src} : SENDING \in p_flags[f] /\ p_sendto[f] = r}

\* How msg_receive ends; m is the memory with the receiver's buffer prepared.

\* r takes the message of f, which is runnable again; r keeps running.
Take(r, f, m) ==
  /\ Unlink(r, f)
  /\ mem' = [m EXCEPT ![r] = m[p_msg[f]]]
  /\ p_msg' = [p_msg EXCEPT ![f] = NULL]
  /\ p_sendto' = [p_sendto EXCEPT ![f] = NO_TASK]
  /\ p_flags' = [p_flags EXCEPT ![f] = @ \ {SENDING}]
  /\ UNCHANGED <<p_recvfrom, sched>>

\* r waits for src and somebody else runs.
Wait(r, src, m) ==
  /\ mem' = m
  /\ p_flags' = [p_flags EXCEPT ![r] = @ \cup {RECEIVING}]
  /\ p_msg' = [p_msg EXCEPT ![r] = r]
  /\ p_recvfrom' = [p_recvfrom EXCEPT ![r] = src]
  /\ Schedule(p_flags', ticks)
  /\ UNCHANGED <<p_sendto, q_sending, next_sending>>

msg_receive(r, src, m) ==
  \/ \E f \in Ready(r, src) : Take(r, f, m)
  \/ Ready(r, src) = {} /\ Wait(r, src, m)

-----------------------------------------------------------------------------
(* The calls of user code: send_recv and, through it, sys_sendrec *)

\* sys_sendrec stamps the caller on the buffer before it looks at the request.
Unstamped(p, body) == [mem EXCEPT ![p].body = body]              \* mutant
Stamped(p, body) == [mem EXCEPT ![p] = [source |-> p, body |-> body]]

CallSend(p, d, body) ==
  /\ Running(p) /\ after[p] = NULL
  /\ msg_send(p, d, Stamped(p, body))
  /\ UNCHANGED after

\* BOTH: the second half follows when the first has returned.
CallBoth(p, d, body) ==
  /\ Running(p) /\ after[p] = NULL
  /\ msg_send(p, d, Stamped(p, body))
  /\ after' = [after EXCEPT ![p] = d]

\* The second half, with the message that was sent still in the buffer.
FinishBoth(p) ==
  /\ Running(p) /\ after[p] # NULL
  /\ msg_receive(p, after[p], Stamped(p, mem[p].body))
  /\ after' = [after EXCEPT ![p] = NULL]

\* RECEIVE alone clears the buffer first.
CallReceive(p, src) ==
  /\ Running(p) /\ after[p] = NULL
  /\ msg_receive(p, src, Stamped(p, Zero))
  /\ UNCHANGED after

-----------------------------------------------------------------------------
\* Where kernel_main starts: the first entry of the table.
NoProc == NULL                                                   \* mutant
FIRST_PROC == 0

\* kernel_main: every entry runnable with a full slice, the rest of the table
\* as the zeroed bss leaves it (so p_recvfrom and p_sendto are 0, not NO_TASK).
Init ==
  /\ p_flags = [p \in Procs |-> {}]
  /\ p_msg = [p \in Procs |-> NULL]
  /\ p_recvfrom = [p \in Procs |-> 0]
  /\ p_sendto = [p \in Procs |-> 0]
  /\ q_sending = [p \in Procs |-> NULL]
  /\ next_sending = [p \in Procs |-> NULL]
  /\ ticks = Priority
  /\ p_proc_ready = FIRST_PROC
  /\ mem = [p \in Procs |-> [source |-> p, body |-> Zero]]
  /\ after = [p \in Procs |-> NULL]
  /\ kernel = "run"

Next ==
  \/ \E p \in Procs, body \in Body :
       \E d \in Procs \ {p} : CallSend(p, d, body) \/ CallBoth(p, d, body)
  \/ \E p \in Procs : FinishBoth(p)
  \/ \E p \in Procs : \E src \in (Procs \ {p}) \cup {ANY} : CallReceive(p, src)
  \/ ClockTick
  \/ NestedTick

Spec == Init /\ [][Next]_vars

\* The timer keeps interrupting user code: HZ interrupts a second, and every
\* process that is not blocked spends time outside the kernel.
FairSpec == Spec /\ WF_vars(ClockTick)
-----------------------------------------------------------------------------
(* Properties *)

TypeOK ==
  /\ p_flags \in [Procs -> SUBSET {SENDING, RECEIVING}]
  /\ p_msg \in [Procs -> Procs \cup {NULL}]
  /\ p_recvfrom \in [Procs -> Procs \cup {ANY, NO_TASK}]
  /\ p_sendto \in [Procs -> Procs \cup {NO_TASK}]
  /\ q_sending \in [Procs -> Procs \cup {NULL}]
  /\ next_sending \in [Procs -> Procs \cup {NULL}]
  /\ ticks \in [Procs -> Int]
  /\ p_proc_ready \in Procs
  /\ mem \in [Procs -> Message]
  /\ after \in [Procs -> Procs \cup {NULL}]
  /\ kernel \in {"run", "spin", "halt"}

\* A blocked process waits for one thing, in the kernel's books as in its own:
\* one flag, its buffer on record exactly while it is blocked, and a partner
\* that is another process.  (The rows of the table proc.c's assertions check
\* piecemeal, lines 255-262, 280-283 and 361-366.)
WellFormed ==
  \A p \in Procs :
    /\ p_flags[p] \in {{}, {SENDING}, {RECEIVING}}
    /\ p_msg[p] = IF p_flags[p] = {} THEN NULL ELSE p
    /\ SENDING \in p_flags[p] => p_sendto[p] \in Procs \ {p}
    /\ RECEIVING \in p_flags[p] => p_recvfrom[p] \in (Procs \ {p}) \cup {ANY}

\* The process that runs is not blocked (schedule, proc.c:22).
RunningIsReady == kernel = "run" => p_flags[p_proc_ready] = {}

Senders(d) == {p \in Procs : SENDING \in p_flags[p] /\ p_sendto[p] = d}

\* The list that starts at q_sending[d] holds the processes that are SENDING
\* to d and no other: nobody is lost from a queue by a removal in its middle,
\* left in it when served, or shared between two queues (proc.c:266-276,
\* 371-380).  No two entries have the same successor, and a head has no
\* predecessor.
QueueMatchesSenders ==
  /\ \A d \in Procs : Queue(d) = Senders(d)
  /\ InjectiveOn(next_sending, Procs)
  /\ \A d, p \in Procs : q_sending[d] \in Procs => next_sending[p] # q_sending[d]

\* No set of processes waits to send only to one another.  It is what
\* deadlock() is for, and what its own loop needs to end: from dest the walk
\* along p_sendto must leave the SENDING processes (proc.c:197-215).
NoSendCycle ==
  \A S \in SUBSET Procs :
    S # {} => \E p \in S : SENDING \notin p_flags[p] \/ p_sendto[p] \notin S

\* No sender waits in the queue of a process that waits for that sender: every
\* rendezvous both sides ask for takes place, whichever side came first.
NoMissedRendezvous ==
  \A d \in Procs : \A s \in Senders(d) :
    RECEIVING \in p_flags[d] => p_recvfrom[d] \notin {s, ANY}

\* The assertions of msg_send and msg_receive that a call of the running
\* process may reach: lines 245, 255-262 of a send to d, and lines 349-366,
\* 372-382 and 402 of a receive, where the search of the queue must find the
\* sender it is for.
AssertionsHold ==
  \A p \in Procs : Running(p) =>
    /\ p_flags[p] = {} /\ p_msg[p] = NULL
    /\ \A d \in Procs \ {p} : Awaits(d, p) =>
         p_msg[d] = d /\ p_flags[d] = {RECEIVING}
    /\ \A src \in (Procs \ {p}) \cup {ANY} : \A f \in Ready(p, src) :
         /\ f \in Queue(p)
         /\ p_flags[f] = {SENDING} /\ p_msg[f] = f /\ p_sendto[f] = p

\* A process that stands in no queue has no successor: the link is reset when
\* it leaves (proc.c:375, 379), for the day it is appended again.  And the half
\* of BOTH still to do is with another process.
IdleUnlinked ==
  \A p \in Procs : /\ SENDING \notin p_flags[p] => next_sending[p] = NULL
                   /\ after[p] # p

\* The induction hypothesis: what is true of the process table after any
\* number of system calls and ticks.
IInv ==
  /\ TypeOK
  /\ WellFormed
  /\ RunningIsReady
  /\ QueueMatchesSenders
  /\ IdleUnlinked
  /\ NoSendCycle
  /\ NoMissedRendezvous

\* b stands somewhere behind a in the queue they are both in.
Precedes(a, b) == b \in Reach(next_sending[a], next_sending)

\* First come, first served among the senders of one process, whichever of them
\* it takes out of turn: those who stay keep their order, and whoever joins
\* stands behind all of them (proc.c:266-276, 347-380).
FifoQueues ==
  [][\A d \in Procs : \A a \in Queue(d) \cap Queue(d)' : \A b \in Queue(d)' \ {a} :
       Precedes(a, b) \/ b \notin Queue(d) => Precedes(a, b)']_vars

\* A process that can run does run, however the others use the processor, send
\* and receive: no refill of the ticks overtakes a process that still waits
\* (proc.c:20-35, clock.c:24-29).
NoStarvation ==
  \A p \in Procs : p_flags[p] = {} ~> p_proc_ready = p \/ kernel # "run"

\* Whom a blocked process waits for, if it is one process.
WaitLink ==
  [p \in Procs |-> IF SENDING \in p_flags[p] THEN p_sendto[p]
                   ELSE IF RECEIVING \in p_flags[p] /\ p_recvfrom[p] # ANY THEN p_recvfrom[p]
                   ELSE NULL]

\* A send that goes ahead and blocks its sender closes no circle of processes that
\* wait for one another for ever.  The comment of deadlock() pictures a circle of
\* senders and concludes: "If no cycles detected, it is considered as safe"
\* (proc.c:183-187); the walk does not follow those that are RECEIVING.
SafeSends ==
  [][\A p \in Procs : SENDING \in p_flags'[p] \ p_flags[p]
       => p \notin Reach(p_sendto'[p], WaitLink')]_vars
=============================================================================
