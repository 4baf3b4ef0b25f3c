-------------------------------- MODULE Trap --------------------------------
(***************************************************************************)
(* The way into the kernel and out of it: interrupts, system calls and     *)
(* exceptions (kernel/kernel.asm), with the clock and schedule() inside.   *)
(*                                                                         *)
(* The kernel runs with interrupts on between the sti of an entry and the  *)
(* cli of its exit, so handlers nest.  The code up to sti and from cli on  *)
(* is one step each; in between a step is what lies between two points     *)
(* where it matters that an interrupt arrives.  A round of a loop of       *)
(* schedule() is one step: a tick inside a round does what it does just    *)
(* before or just after.  A line that is up and not masked is answered     *)
(* before the next instruction, so the other steps wait for that.          *)
(*                                                                         *)
(* A slice that is used up counts as 0: the code goes on below zero, but   *)
(* schedule() only compares ticks with values of at least 0.               *)
(***************************************************************************)
EXTENDS Start

CONSTANTS
  Word,           \* k_reenter is counted modulo Word (2^32 in the code)
  Vectors         \* the exceptions that user code raises

Depth == 4        \* frames the kernel's stack holds at most (NestingMatches)

\* k_reenter is wider than the deepest nesting, and the exceptions that are
\* raised have gates (init_prot).
ASSUME TrapAssumption ==
  /\ Word \in Nat /\ Depth < Word
  /\ Vectors \subseteq Exceptions

VARIABLES
  imr, irr,       \* the master 8259A: masked lines, lines that wait
  k_reenter,
  stack,          \* what the kernel is in the middle of, innermost last
  p_proc_ready, ticks, blocked,
  cpu, sp0, ldt,  \* whose registers are loaded; tss.esp0, as a process; LDTR
  saved,          \* whose registers are in the stack frame of an entry
  tty,            \* how far task_tty is in its init_keyboard
  halted,         \* "no", or why the processor stopped
  raised, shown   \* the vector of the exception that did it, and what
                  \* exception_handler printed

proc  == <<p_proc_ready, ticks, blocked>>
user  == <<cpu, sp0, ldt, saved>>
stop  == <<halted, raised, shown>>
vars  == <<imr, irr, k_reenter, stack, proc, user, tty, stop>>

KERNEL   == -1                        \* code of ring 0, where a process could be
TASK_TTY == 0
Add(k, n) == (k + n) % Word

Top == stack[Len(stack)]
In(fn, at) == stack # <<>> /\ Top.fn = fn /\ Top.at = at
Goto(frame) == stack' = [stack EXCEPT ![Len(stack)] = frame]
Proceed(at) == Goto([Top EXCEPT !.at = at])

-----------------------------------------------------------------------------
(* Entries *)

Requested == irr \ imr
\* IF is on everywhere but in kernel_main.
Waiting == Requested # {} /\ ~In("kernel_main", "done")
UserRuns   == halted = "no" /\ stack = <<>> /\ ~Waiting
KernelRuns == halted = "no" /\ stack # <<>> /\ ~Waiting

\* save: the registers go to the stack, esi keeps where; from outside the
\* kernel it is the top of an entry of the table, and the stack is left for
\* StackTop.
IsOutermost(k) == k = 0
save(nr, fn) ==
  LET k == Add(k_reenter, 1)
      frame == [nr |-> nr, fn |-> fn, at |-> "entry",
                ret |-> IF IsOutermost(k) THEN "restart" ELSE "restart_reenter",
                esi |-> IF stack = <<>> THEN sp0 ELSE KERNEL,
                caller |-> NONE, i |-> 0, greatest |-> 0]
  IN /\ k_reenter' = k
     /\ saved' = IF stack = <<>> THEN [saved EXCEPT ![sp0] = cpu] ELSE saved
     /\ stack' = IF IsOutermost(k) THEN <<frame>> ELSE Append(stack, frame)

\* A device raises its line.
Request(irq) ==
  /\ halted = "no"
  /\ irr' = irr \cup {irq}
  /\ UNCHANGED <<imr, k_reenter, stack, proc, user, tty, stop>>

\* hwint_master as far as sti.  The chip gives the lowest waiting line first.
Interrupt ==
  /\ halted = "no" /\ Waiting
  /\ LET irq == Min(Requested)
         nr  == idt[init_8259A.base + irq].nr
     IN /\ irr' = irr \ {irq}
        /\ imr' = imr \cup {nr}
        /\ save(nr, irq_table(nr))
  /\ UNCHANGED <<proc, cpu, sp0, ldt, tty, stop>>

\* Exceptions.  External: which vectors come with an error code.
WithCode == {8, 10, 11, 12, 13, 14}
Pushed(v) == <<"older", "older", "eflags", "cs", "eip">>
               \o (IF v \in WithCode THEN <<"code">> ELSE <<>>)

\* The stubs of kernel.asm: the vector each pushes last, and those that push
\* 0xFFFFFFFF before it.
NoCode == "0xFFFFFFFF"
VectorPushed ==
  [divide_error |-> 0, single_step_exception |-> 1, nmi |-> 2, breakpoint_exception |-> 3,
   overflow |-> 4, bounds_check |-> 5, inval_opcode |-> 6, copr_not_available |-> 7,
   double_fault |-> 8, copr_seg_overrun |-> 9, inval_tss |-> 10, segment_not_present |-> 11,
   stack_exception |-> 12, general_protection |-> 13, page_fault |-> 14, copr_error |-> 16]
PushNoCode ==
  {"divide_error", "single_step_exception", "nmi", "breakpoint_exception", "overflow",
   "bounds_check", "inval_opcode", "copr_not_available", "copr_seg_overrun", "copr_error"}
StubForAll(routine) == <<NoCode, VectorPushed[routine]>>           \* mutant
Stub(routine) ==
  (IF routine \in PushNoCode THEN <<NoCode>> ELSE <<>>) \o <<VectorPushed[routine]>>

\* What it prints of its arguments, which lie on the stack, last pushed first.
exception_handler(arg) ==
  [vec_no |-> arg[1], err_code |-> IF arg[2] = NoCode THEN "not printed" ELSE arg[2],
   eip |-> arg[3], cs |-> arg[4], eflags |-> arg[5]]

\* The processor goes through the gate, the stub calls, and hlt follows.
Raise(v, why) ==
  /\ raised' = v
  /\ shown' = exception_handler(Reverse(Pushed(v) \o Stub(idt[v].handler)))
  /\ halted' = why
  /\ UNCHANGED <<imr, irr, k_reenter, stack, proc, user, tty>>

Exception(v) == UserRuns /\ Raise(v, "exception")

\* The processor refuses what its tables do not allow.
Refuse == Raise(INT_VECTOR_PROTECTION, "refused")

\* sendrec or printx: int 0x90, and sys_call as far as sti.  What printx is
\* given begins with a magic character or not.
Cpl == Rpl(regs(cpu).cs)
Allowed == Cpl =< Dpl(idt[INT_VECTOR_SYS_CALL].attr)
Calls == {"sendrec", "print", "assert", "panic"}
Call(fn) ==
  /\ UserRuns
  /\ cpu = TASK_TTY => tty = "ready"
  /\ \/ Allowed /\ save(NONE, fn) /\ UNCHANGED <<imr, irr, proc, cpu, sp0, ldt, tty, stop>>
     \/ ~Allowed /\ Refuse

\* init_keyboard in task_tty masks the line, sets the handler that is already
\* there, and opens the line; cli, in and out need its IOPL.
MayTouchPorts == Cpl =< Iopl(regs(cpu).eflags)
NotRotated(irq) == imr' = imr \ {0}                               \* mutant
enable_irq(irq) == imr' = imr \ {irq}
TtyInit ==
  /\ UserRuns /\ cpu = TASK_TTY
  /\ \/ ~MayTouchPorts /\ tty # "ready" /\ Refuse
     \/ /\ MayTouchPorts
        /\ \/ tty = "new" /\ tty' = "masked" /\ imr' = imr \cup {KEYBOARD_IRQ}
           \/ tty = "masked" /\ tty' = "ready" /\ enable_irq(KEYBOARD_IRQ)
        /\ UNCHANGED <<irr, k_reenter, stack, proc, user, stop>>

-----------------------------------------------------------------------------
(* Inside *)

\* schedule() begins, in the frame that runs.
schedule == [Top EXCEPT !.at = "scan", !.i = 0, !.greatest = 0]

Preempts(k) == TRUE                                              \* mutant
FromUser(k) == k = 0
clock_handler ==
  /\ KernelRuns /\ In("clock_handler", "entry")
  /\ ticks' = [ticks EXCEPT ![p_proc_ready] = Max({0, @ - 1})]
  /\ IF FromUser(k_reenter) THEN Goto(schedule) ELSE Proceed("done")
  /\ UNCHANGED <<imr, irr, k_reenter, p_proc_ready, blocked, user, tty, stop>>

\* It touches the ring kb_in only (module KbBuf).
keyboard_handler ==
  /\ KernelRuns /\ In("keyboard_handler", "entry")
  /\ Proceed("done")
  /\ UNCHANGED <<imr, irr, k_reenter, proc, user, tty, stop>>

\* A round of the first loop; after the last one the while looks at greatest.
Anyone(p) == TRUE                                                \* mutant
CanRun(p) == p \notin blocked
AtLeast(t, greatest) == t >= greatest                            \* mutant
MoreThan(t, greatest) == t > greatest
LastProc == N - 1
OneTooMany(i) == i =< LastProc                                   \* mutant
More(i) == i < LastProc
Scan ==
  /\ KernelRuns /\ Top.at = "scan"
  /\ LET p      == Top.i
         better == CanRun(p) /\ MoreThan(ticks[p], Top.greatest)
         most   == IF better THEN ticks[p] ELSE Top.greatest
     IN /\ p_proc_ready' = IF better THEN p ELSE p_proc_ready
        /\ Goto([Top EXCEPT
             !.greatest = most,
             !.i  = IF More(p) THEN p + 1 ELSE 0,
             !.at = IF More(p) THEN "scan" ELSE IF most = 0 THEN "refill" ELSE "done"])
  /\ UNCHANGED <<imr, irr, k_reenter, ticks, blocked, user, tty, stop>>

\* A round of the second loop.
Refill ==
  /\ KernelRuns /\ Top.at = "refill"
  /\ ticks' = IF Top.i \in blocked THEN ticks ELSE [ticks EXCEPT ![Top.i] = priority[Top.i]]
  /\ Goto([Top EXCEPT !.i  = IF Top.i < LastProc THEN @ + 1 ELSE 0,
                      !.at = IF Top.i < LastProc THEN "refill" ELSE "scan"])
  /\ UNCHANGED <<imr, irr, k_reenter, p_proc_ready, blocked, user, tty, stop>>

\* sys_call pushes esi, then p_proc_ready as the caller, and calls.
PushCaller ==
  /\ KernelRuns /\ Top.fn \in Calls /\ Top.at = "entry"
  /\ Goto([Top EXCEPT !.caller = p_proc_ready, !.at = "body"])
  /\ UNCHANGED <<imr, irr, k_reenter, proc, user, tty, stop>>

\* What a request does to the scheduler: nothing, or it frees a process, or it
\* blocks the caller, or it would close a circle.
sys_sendrec ==
  /\ KernelRuns /\ In("sendrec", "body")
  /\ \/ Proceed("done") /\ UNCHANGED blocked
     \/ (\E p \in blocked : blocked' = blocked \ {p}) /\ Proceed("done")
     \/ blocked' = blocked \cup {Top.caller} /\ Goto(schedule)
     \/ Proceed("chain") /\ UNCHANGED blocked
  /\ UNCHANGED <<imr, irr, k_reenter, p_proc_ready, ticks, user, tty, stop>>

\* Then deadlock() prints the chain, name by name, and panic follows.  Each is a
\* call of its own, by int 0x90 from ring 0; how long the chain is is left open.
deadlock ==
  /\ KernelRuns /\ In("sendrec", "chain")
  /\ save(NONE, "print") \/ save(NONE, "panic")
  /\ UNCHANGED <<imr, irr, proc, cpu, sp0, ldt, tty, stop>>

\* What it prints is module Tty's; here only whether it returns.
Fatal == Top.fn = "panic" \/ (Top.fn = "assert" /\ p_proc_ready < NR_TASKS)
sys_printx ==
  /\ KernelRuns /\ Top.fn \in Calls \ {"sendrec"} /\ Top.at = "body"
  /\ \/ ~Fatal /\ Proceed("done") /\ UNCHANGED halted
     \/ Fatal /\ halted' = "panic" /\ UNCHANGED stack
  /\ UNCHANGED <<imr, irr, k_reenter, proc, user, tty, raised, shown>>

-----------------------------------------------------------------------------
(* Exits *)

\* What lldt, the pops of restart and iretd check for the process p.
Table(sel) == gdt[sel \div 8]
Loadable(p) ==
  LET r == regs(p)
      own == Table(r.ldt_sel)
  IN /\ Type(own.attr1) = DA_LDT /\ Limit(own) + 1 >= LDT_SIZE * SIZEOF_DESCRIPTOR
     /\ Type(r.ldts[1].attr1) = DA_C /\ Dpl(r.ldts[1].attr1) = Rpl(r.cs)
     /\ Type(r.ldts[2].attr1) = DA_DRW /\ Dpl(r.ldts[2].attr1) = Rpl(r.ss) /\ Rpl(r.ss) = Rpl(r.cs)
     /\ Type(Table(r.gs).attr1) = DA_DRW /\ Dpl(Table(r.gs).attr1) >= Rpl(r.gs)

KeepReenter(k) == k                                              \* mutant
Dec(k) == Add(k, Word - 1)
KeepMask(nr) == imr                                              \* mutant
Unmasked(nr) == imr \ {nr}
SameStack(p) == sp0                                              \* mutant
OwnStack(p) == p

\* From cli on: the line is opened again and ret goes where save pushed.
Exit ==
  /\ KernelRuns /\ Top.at = "done"
  /\ \/ /\ Top.ret = "restart" /\ ~Loadable(p_proc_ready)
        /\ Refuse
     \/ /\ Top.ret = "restart" /\ Loadable(p_proc_ready)
        /\ imr' = Unmasked(Top.nr)
        /\ ldt' = regs(p_proc_ready).ldt_sel
        /\ sp0' = OwnStack(p_proc_ready)
        /\ cpu' = saved[p_proc_ready]
        /\ stack' = <<>>
        /\ k_reenter' = Dec(k_reenter)
        /\ UNCHANGED <<irr, proc, saved, tty, stop>>
     \/ /\ Top.ret = "restart_reenter"
        /\ imr' = Unmasked(Top.nr)
        /\ stack' = Front(stack)
        /\ k_reenter' = Dec(k_reenter)
        /\ UNCHANGED <<irr, proc, user, tty, stop>>

-----------------------------------------------------------------------------
\* kernel_main, about to call restart: both lines are open at the chip and
\* interrupts still off at the processor.
Init ==
  /\ imr = Masked \ {CLOCK_IRQ, KEYBOARD_IRQ} /\ irr = {}
  /\ k_reenter = 0
  /\ stack = <<[nr |-> NONE, fn |-> "kernel_main", at |-> "done", ret |-> "restart",
                esi |-> KERNEL, caller |-> NONE, i |-> 0, greatest |-> 0]>>
  /\ p_proc_ready = 0 /\ ticks = priority /\ blocked = {}
  /\ cpu = KERNEL /\ sp0 = NONE /\ ldt = 0
  /\ saved = [p \in Procs |-> p]
  /\ tty = "new" /\ halted = "no" /\ raised = NONE /\ shown = <<>>

Inside == clock_handler \/ keyboard_handler \/ Scan \/ Refill \/ PushCaller
            \/ sys_sendrec \/ deadlock \/ sys_printx \/ Exit
Outside == TtyInit \/ (\E fn \in Calls : Call(fn)) \/ (\E v \in Vectors : Exception(v))

Next ==
  \/ \E irq \in {CLOCK_IRQ, KEYBOARD_IRQ} : Request(irq)
  \/ Interrupt
  \/ Inside
  \/ Outside

Spec == Init /\ [][Next]_vars

\* The processor goes on, and devices pause: code of the kernel that is
\* interrupted again and again still gets on (a tick comes every 10 ms, a key
\* more rarely, and their handlers are short).
At(n) == Len(stack) = n /\ halted = "no"
FairSpec ==
  /\ Spec
  /\ WF_vars(Interrupt)
  /\ \A n \in 1 .. Depth : []<>At(n) => []<><<At(n) /\ Inside>>_vars
-----------------------------------------------------------------------------
(* Properties *)

TypeOK ==
  /\ imr \subseteq IRQs /\ irr \subseteq {CLOCK_IRQ, KEYBOARD_IRQ}
  /\ k_reenter \in 0 .. Word - 1
  /\ \A n \in DOMAIN stack : stack[n].caller \in Procs \cup {NONE} /\ stack[n].i \in Procs
  /\ p_proc_ready \in Procs /\ ticks \in [Procs -> Nat] /\ blocked \subseteq Procs
  /\ cpu \in Procs \cup {KERNEL} /\ sp0 \in Procs \cup {NONE}
  /\ saved \in [Procs -> Procs]
  /\ tty \in {"new", "masked", "ready"}
  /\ halted \in {"no", "exception", "refused", "panic"} /\ raised \in Exceptions \cup {NONE}

Lines == {stack[n].nr : n \in DOMAIN stack} \ {NONE}

\* k_reenter counts the frames on the kernel's stack, less one: only the
\* outermost leaves through restart, and no line is served inside itself
\* (kernel.asm:142-158 and 320-330).
NestingMatches ==
  /\ k_reenter = Add(Len(stack), Word - 1)
  /\ Len(stack) =< Depth
  /\ \A n \in DOMAIN stack : stack[n].ret = "restart" <=> n = 1
  /\ \A m, n \in DOMAIN stack : stack[m].nr = stack[n].nr /\ stack[n].nr # NONE => m = n

\* A line is masked exactly while its handler is on the stack, or task_tty is
\* between disable_irq and enable_irq; all others stay masked.  And the handler
\* is that of the device (i8259.c:19-58, kernel.asm:144-156, kliba.asm:33-83).
MaskIsHandled ==
  /\ imr = (IRQs \ {CLOCK_IRQ, KEYBOARD_IRQ}) \cup Lines
             \cup (IF tty = "masked" THEN {KEYBOARD_IRQ} ELSE {})
  /\ \A n \in DOMAIN stack :
       /\ stack[n].nr = CLOCK_IRQ <=> stack[n].fn = "clock_handler"
       /\ stack[n].nr = KEYBOARD_IRQ <=> stack[n].fn = "keyboard_handler"

\* The process a system call takes for its caller, and the frame its result is
\* stored in, are those of the process that executed int 0x90, whatever came
\* between (kernel.asm:351-364 pushes p_proc_ready after sti).
CallerIsCaller ==
  \A n \in DOMAIN stack :
    stack[n].fn \in Calls =>
      /\ stack[n].esi = IF n = 1 THEN cpu ELSE KERNEL
      /\ stack[n].at # "entry" => stack[n].caller = cpu

\* While the body of a call runs k_reenter is 0 if the call came from ring 1 to
\* 3, and positive if it came from the kernel (assertion at proc.c:49, comment
\* at tty.c:174-187): the interrupts that came in between have been undone.
RingIsKnown ==
  \A fn \in Calls : In(fn, "body") => (k_reenter = 0 <=> Top.esi \in Procs)

\* Outside the kernel the process that schedule() chose runs: it can run, its
\* own registers, LDT and kernel stack are loaded, and every other process'
\* registers lie in its own entry (kernel.asm:332-346).
ResumesOwn ==
  stack = <<>> =>
    /\ cpu = p_proc_ready /\ cpu \notin blocked
    /\ sp0 = cpu
    /\ BaseOf(Table(ldt)) = ldts(cpu)
    /\ \A p \in Procs \ {cpu} : saved[p] = p

\* The stacks of two processes have no byte in common and lie in task_stack;
\* the tables of the kernel make the processor refuse nothing a process does
\* (main.c:29-75, protect.c:57-231).
NothingRefused ==
  /\ halted # "refused"
  /\ stack = <<>> =>
       /\ regs(cpu).esp - stacksize[cpu] >= task_stack
       /\ regs(cpu).esp =< task_stack + STACK_SIZE_TOTAL
       /\ \A p \in Procs \ {cpu} :
            regs(p).esp =< regs(cpu).esp - stacksize[cpu] \/ regs(cpu).esp =< regs(p).esp - stacksize[p]

\* When schedule() ends, p_proc_ready can run and is the first among those with
\* the most ticks, up to the ticks that came in while it looked
\* (proc.c:16-36, clock.c:24).
ChoosesBest ==
  \A n \in DOMAIN stack :
    stack[n].at = "done" /\ stack[n].greatest > 0 =>
      /\ p_proc_ready \notin blocked
      /\ \A q \in Procs \ blocked :
           /\ ticks[q] =< stack[n].greatest
           /\ q < p_proc_ready => ticks[q] < stack[n].greatest

\* Only the outermost frame changes p_proc_ready: a clock interrupt of the
\* kernel switches nothing (clock.c:25-28), and a system call is not divided.
KernelNotPreempted == [][p_proc_ready' # p_proc_ready => Len(stack) = 1]_vars

\* exception_handler prints the exception the processor raised and where it was,
\* and an error code exactly if there is one: the gates (protect.c:62-108), the
\* stubs (kernel.asm:238-295) and the order of its arguments agree for each vector.
NamesTheException ==
  raised # NONE =>
    shown = [vec_no |-> raised, eip |-> "eip", cs |-> "cs", eflags |-> "eflags",
             err_code |-> IF raised \in WithCode THEN "code" ELSE "not printed"]

\* A device that raises its line is answered, unless the machine stops or
\* task_tty keeps the line masked (kernel.asm:153-156).
RequestsServed ==
  \A irq \in {CLOCK_IRQ, KEYBOARD_IRQ} :
    irq \in irr ~> irq \notin irr \/ halted # "no" \/ (tty = "masked" /\ irq = KEYBOARD_IRQ)

\* The outermost frame is the visit, and an interrupt inside it is invisible.
VisitAs(f) ==
  CASE f.fn = "kernel_main"      -> "start"
    [] f.fn = "clock_handler"    -> "tick"
    [] f.fn = "keyboard_handler" -> "device"
    [] f.fn \in Calls            -> IF f.caller \in blocked THEN "slept"
                                    ELSE IF f.at = "done" THEN "served" ELSE "call"
Visit == IF stack = <<>> THEN "user" ELSE VisitAs(stack[1])
Running == IF cpu = KERNEL THEN 0 ELSE cpu
Promise == INSTANCE Dispatch WITH
  Proc <- Procs, First <- 0, sleeping <- blocked, visit <- Visit,
  running <- Running

\* However interrupts nest, a system call has the effect of its own request on
\* its own caller and returns to it unless it blocked, and whoever runs next is
\* not blocked: the entries implement the visits module Proc is written in
\* (kernel.asm:302-366, clock.c:20-30, proc.c:16-36).
Dispatches == Promise!Spec

\* Every process the scheduler may choose has an entry in proc_table, whose
\* last entry is LAST_PROC (proc.h:72).
TableHoldsAll == p_proc_ready \in 0 .. NR_TASKS - 1
=============================================================================
