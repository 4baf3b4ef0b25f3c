# OrangeS in TLA+

OrangeS is a small 32-bit x86 kernel in the style of MINIX: tasks and user
processes share one processor, talk by synchronous messages, and use a terminal
driver that runs as a task. This directory holds TLA+ models of it, the TLC
configurations that check them, and theorems about them that TLAPS checks.
`PROJECT.json` ties every definition to the source lines it models.

To repeat the checks: `tlc -config ipc.cfg MCProc.tla` (and so on, see
"Runs"), `tlapm ProcProofs.tla` (and so on, see "Proofs").

## The system

| part | state | operations | meets the rest through |
|---|---|---|---|
| Process table and IPC (`kernel/proc.c`) | per process: `p_flags`, `p_msg`, `p_recvfrom`, `p_sendto`, `q_sending`, `next_sending` | `send_recv` → `sys_sendrec` → `msg_send`, `msg_receive`, `deadlock` | the system call gate; blocks into `schedule` |
| Scheduler and clock (`proc.c`, `clock.c`) | `ticks`, `priority`, `p_proc_ready`, the global counter `ticks` | `schedule`, `clock_handler`, `milli_delay` | timer interrupt; `restart` loads `p_proc_ready` |
| Interrupt and call entry (`kernel.asm`, `i8259.c`, `syscall.asm`) | `k_reenter`, the 8259A masks, `irq_table` | `save`, `restart`, `sys_call`, `hwint_master` | everything enters the kernel here |
| Keyboard ring (`keyboard.c`) | `kb_in` | `keyboard_handler`, `get_byte_from_kbuf`, `init_keyboard` | IRQ 1 on one side, `task_tty` on the other |
| Scan code decoder (`keyboard.c`) | modifier and lock flags, `code_with_E0` | `keyboard_read`, `set_leds` | reads the ring, calls `in_process` |
| Console (`console.c`) | per console: `cursor`, `current_start_addr`; the CRTC registers | `out_char`, `scroll_screen`, `flush`, `select_console` | called by `task_tty` and, in the kernel, by `sys_printx` |
| TTY (`tty.c`) | per terminal: a ring of keys, its console | `task_tty`'s loop, `in_process`, `put_key`, `tty_do_write`, `sys_printx` | decoder and console |
| Ticks service (`main.c`, `clock.c`) | the counter `ticks` | `get_ticks` through a message to `task_sys` | IPC; `task_sys` is not in the repository |
| Start of the kernel (`start.c`, `protect.c`, `main.c`) | GDT, IDT, TSS, the filled process table | `cstart`, `init_prot`, `kernel_main` | leaves the state the other parts start from |
| Boot sector and loader (`boot/`) | FAT12 sectors, page tables, the kernel's segments | reading the cluster chain, `SetupPaging`, `InitKernel` | BIOS |
| Library (`lib/`) | none | memory, strings, ports | called by all |

The hard behaviours are these.

* *Blocking with half a call done.* `msg_send` and `msg_receive` call `schedule`
  in the middle; the fields they wrote are finished by some later call of another
  process.
* *Linked queues and a waits-for graph in the same table.* Removal from the
  middle of a queue, appending at its end, and the search for circles follow
  pointers that other calls rearrange.
* *Interrupts inside the kernel.* System calls run with interrupts enabled. A
  tick there charges the current process and does not switch.
* *Shared memory between a handler and a task.* The ring `kb_in` is initialised
  while its producer is already running.
* *Two writers to one console.* `task_tty` can be preempted inside `out_char`.
* *State read after interrupts are on.* `sys_call` takes its caller, and
  `sys_printx` and `sys_sendrec` the ring they were called from, from variables
  that interrupts change and put back.
* *A decoder that waits half way through a code*, with acknowledgements of the
  keyboard arriving as codes.
* *Numbers that must agree across files*: the columns of `keymap` and the codes of
  the keyboard, stacks, selectors and descriptors, guards of the cursor and of the
  window.

What makes each part correct: for IPC, that it is synchronous message passing
with queues served first come first served and no circle of senders; for the
scheduler, that it runs runnable processes only and each of them eventually; for
the entry code, that nesting is bounded and masks are restored; for the ring,
that it is a bounded queue; for the decoder, that flags agree with the keys held
down; for the console, that cursor and window stay in the console's memory and
the screen follows the console it was set for and comes back to the current one; for the start, that the table is filled
within its bounds. The list of hazards, each at its line, is in `PROJECT.json`.

## Modules

| module | what it is |
|---|---|
| `Links` | chains of pointers: `Reach(x, f)`, what a walk along `f` from `x` visits, and `InOrder(x, f)`, in which order |
| `Proc` | the process table, IPC and the scheduler, with their properties |
| `Rendezvous` | the promise: synchronous messages without flags, lists or time slices |
| `ProcRefinement` | how the state of `Proc` is read as a state of `Rendezvous` |
| `MCProc` | instances of `Proc` for TLC |
| `LinksProofs`, `ProcProofs` | theorems about the process table |
| `KbBuf` | the keyboard ring between the interrupt and `task_tty` |
| `Keymap` | the tables: what keys send, what `keymap` makes of it |
| `Keyboard` | the decoder and the lights, with the keyboard and a person |
| `Console` | `out_char` and the rest of `console.c`, as operators |
| `Tty`, `MCTty` | `task_tty` over the consoles, with printing processes |
| `Start` | descriptors, gates, 8259A and process table, as the kernel builds them |
| `Trap`, `MCTrap` | entries, exits and nesting, with `schedule` round by round |
| `Dispatch` | the promise of the entries: one visit to the kernel at a time |
| `KbBufProofs`, `KeyboardProofs`, `StartProofs`, `TrapProofs`, `TtyProofs` | theorems about the module of the same name |
| `Induction` | induction over numbers, for the theorems about recursive functions |

`Keyboard` takes the ring that `KbBuf` shows to be a queue as a sequence; `Tty`
takes the keys that `Keyboard` shows are reported; `Proc` takes for granted what
`Trap` shows to be `Dispatch`; `Trap` starts from what `Start` computes.

Definitions marked `\* mutant` are plausible mistakes in the definition that
follows them. No specification uses them; each shows that a property would
notice that mistake.

### Proc

The variables are the fields of `PROCESS` under their own names, as functions
from process numbers; pointers into `proc_table` are numbers too, and `NULL` is
-1. `p_flags` is a set of the two bits. A process has one message buffer,
`mem[p]`, so `p_msg[p]` is the number of the process whose buffer it is. A
message is its `source` and a `body`, which stands for the type and the union;
`"Zero"` is the body `memset` leaves. `after` remembers that the second half of
`send_recv(BOTH)` is still to come. `kernel` is `"run"`, `"spin"` when
`schedule` loops because nobody is runnable, or `"halt"` after `panic`.

| code | model |
|---|---|
| `schedule` | `Schedule`, with `Runnable` and `Refill`: the *first* entry of the table with the most ticks |
| `clock_handler`, user code interrupted | `ClockTick` |
| `clock_handler`, kernel interrupted (`k_reenter # 0`) | `NestedTick` |
| `deadlock` | `deadlock`: the walk along `SendLink` from `dest` meets a sender to `src` |
| `msg_send` | `msg_send`: `Panic`, `Deliver` or `Enqueue` |
| `msg_receive` | `msg_receive`: `Take` or `Wait`, by what `Ready` finds |
| `sys_sendrec` | `Stamped` and the calls below |
| `send_recv` with SEND, BOTH, RECEIVE | `CallSend`; `CallBoth` and `FinishBoth`; `CallReceive` |

*Atomicity.* One system call is one action. The code does run it with
interrupts enabled (`kernel.asm:351`), but `clock_handler` returns without
`schedule` when `k_reenter` is not 0, and `keyboard_handler` touches none of this
state, so no other process runs before a call is over. What an interrupt can do
inside a call is charge a tick; that is `NestedTick`. A tick that falls inside
the loop of `schedule` itself charges the process the loop considered last; the
model charges the running one. `Trap` has that tick, and shows what is left of the
choice (`ChoosesBest`) and that it divides no call (`Dispatches`).

*Loops as sets.* The loops over `p_sendto` and `next_sending` are described by
`Reach`, the least set that holds the start and is closed under the pointer. It
is the set of entries the loop visits if it ends; that it ends follows from
`NoSendCycle` for `deadlock()` and from `QueueMatchesSenders` for the queues. The
definition needs no recursion, so that TLAPS can reason about it.

*Left out.* The branch of `msg_receive` for `has_int_msg` (lines 314-331): no
code sets the field, and its own assertion `p_recv->p_msg` (326) would fail.
Requests to `ANY` as a destination or from `INTERRUPT`, which the argument check
lets through and no caller makes: they would index the table out of range. The
text `deadlock` and `panic` print. `va2la`, which is the identity because every
segment starts at 0 (and asserts it). The size of `proc_table`, which is declared
for the tasks only (`global.c:17`): the model has room for all processes; see the
run `table`.

### Rendezvous and the refinement

`Rendezvous` says what a caller may rely on. `pending[d]` is the sequence of
messages sent to `d` and not received; a sender is blocked while its message is
there. A receive from `ANY` takes the first, one from `s` the first of `s`; who
finds nothing waits, and a send to a waiting process goes straight into its
buffer. A send panics exactly if it would leave a set of processes that send only
to each other. Nothing says who runs: every process that is not blocked may call.

`ProcRefinement` reads `pending[d]` off the list that starts at `q_sending[d]`,
each message still in its sender's buffer, and `waiting` off the flags. So the
property `Refinement` includes that a sender's buffer is left alone until its
message is taken, that nothing is delivered twice or to the wrong buffer, that
`source` is the sender, and that time slices, ticks and scheduling are invisible
to messages.

### KbBuf

`kb_in` with its pointers as indices, `keyboard_handler` and
`get_byte_from_kbuf` as one action each (the handler cannot be interrupted by
itself and nothing else touches the ring; the reader disables interrupts), and
`init_keyboard` in `task_tty` store by store, since the interrupt is already
open then. `unread` is a history variable: the codes that came in and were not
taken. `Spec` is the system as it is. `QuietSpec` adds the assumption that no key
is struck between the three stores.

### Keymap and Keyboard

`Make` and `Break` are the appendix of `keyboard.h` and `keymap` is the table of
`keyboard.c`. A character is a pair of the cap and which of its two signs, so that
both tables can be read without a character set. The appendix gives 19 as the
break code of Q, which is the make code of P; the model sends 90, as for every
other key.

`DecodeKey`, `DecodeLock` and `MoreToCome` are `keyboard_read` after one more call
of `get_byte_from_kbuf`. `Incomplete` says when it asks for another code: it
recognises Pause and Print Screen by their whole sequences (`Long`) and gives up at
the first code that does not fit, which is then lost. `set_leds` is four steps,
with the controller between: `ibf` is its input buffer, `port` what port 60h
reads. `kb_ack` does not wait for this command's answer but for any byte that is
not 0 (`keyboard.c:173` compares with `!KB_ACK`); the answers come later, as codes
that decode to nothing. That the lights are right all the same is `LedsShowLocks`;
it hangs on `kb_wait`.

The keyboard sends the codes of a key without a gap, so that an acknowledgement comes
before or after a key's codes and not among them, and without the additional
Shift codes that some send with E0 keys. `owed` is what should be reported, with
the modifiers and locks as they were when the key was struck, and `told` what
`in_process` was called with.

Two faults are assumed away in `CarefulSpec` by a person who avoids them
(`Avoided`), to see what else holds: Shift with a key that has an E0 code (run
`column`), and the right Alt key, whose flag is kept in `alt_l`
(`keyboard.c:316-317`): releasing it while the left one is down clears the flag (run
`alt`).
The Power, Sleep and Wake keys are not in the runs: `keymap` has 0 for them and
0 is reported. A full ring drops codes, the release of a modifier too: what is said
of the flags and the reports is about a person who stays so little ahead that the
ring has room (`RingSuffices` in `KeyboardProofs`, up to seven codes ahead for the
32 bytes of the code); the runs stay far below.

### Console and Tty

A console is a record of `cursor` and `start` (`current_start_addr`), in words.
`Console` says what each function does to it when nothing interferes; this is how
`sys_printx` uses it, because no process is switched inside the kernel. `Tty`
takes the same functions apart for `task_tty`: `todo` lists the loads and stores
that the call still has to make, `val` is the word loaded last, and between any two
of them other processes may run and print. `set_cursor` and
`set_video_start_addr` turn interrupts off only after their argument was loaded.
`crtc` is what they set, and `set_for` the console that each of its two parts was last
set for. That need not be the current one: `flush` does not ask which console it is
for (`console.c:101-105`), so a print to a hidden console moves the screen there
until the next echo or change of consoles. `ScreenIsFresh` says that the screen
follows the console it was set for, hidden or not, and `WindowComesBack` that
whenever `task_tty` is done with a key or a change of consoles, the window of the
current one is shown, though somebody printed to a hidden one before or meanwhile.
Only the window: a hidden print between the two sections of `flush` keeps the cursor.

`in_process` works on keys as the decoder reports them. The two requests to scroll
need an arrow together with Shift, which the decoder does not report, so scrolling
up is not modelled and `Scroll` is the call in `out_char`'s loop.

`raced` collects the consoles somebody printed to while `task_tty` was at work on
them. Such a race can lose characters, move the cursor past the last word or to
where the loop of `out_char` never ends. The other properties say that only that goes
wrong, and nothing of a raced console from then on. What the races can do there is
`RacesSpillLittle`, for as many of them as there are: the cursor goes at most one
word below or less than a line beyond the console's memory, a character is written at
most one word further down, and the window goes a line further than without.
What looks odd and is right by the code: backspaces take the cursor above
the window; a console that is full ignores newlines, and characters after its last
word but one; the window may reach up to a line beyond the console's memory,
because its size (16384 / 3) is no multiple of a line.

`Halt` is `sys_printx` with a text that stops the machine. What it draws is left
out, as is the text's end and its address.

### Start

`cstart`, `init_prot` and `kernel_main` run once with interrupts off, so `Start`
has no state: it computes the descriptors, the gates, the state of the 8259A after
the words of `init_8259A` (`Written` is the chip), and the table of processes, by a
fold over the rounds of `kernel_main`'s loop with its running pointers. Numbers are
cut and joined where the code does it, and `Trap` reads them back as the processor
does (`Dpl`, `Limit`, `Rpl`, `Loadable`). The addresses of `proc_table`,
`task_stack` and `tss` are constants, and so is `STACK_SIZE_TOTAL`: `proc.h:81-84` adds
it up by hand, and only that makes it as much as the stacks of the table
(`StackAssumption`).

### Trap and Dispatch

`stack` is what the kernel is in the middle of: a frame for each entry, with the
exit that `save` chose for it. Everything from an entry to its `sti` is one step,
and from `cli` to the end; between them there is a step for every point at which it
matters that an interrupt comes in. `schedule` is taken round by round, in its two
loops: a tick inside a round reads and writes `ticks` of one process, and does
what it does before or after that round. Lines that wait and are not masked are
answered before the next instruction. `k_reenter` counts modulo `Word`, from -1.
`ticks` stops at 0: below it, `schedule` cannot tell the difference.

Of the calls there is what they do to the scheduler: `sys_sendrec` changes nothing,
wakes somebody, blocks its caller and calls `schedule`, or has found a circle: then
`deadlock()` prints the chain, piece by piece, and `panic` follows. Each of these is a
system call of its own, through the gate from ring 0, and the ones before the panic
return into the call they came from. `sys_printx` returns or stops. `TtyInit` is `task_tty` in
`init_keyboard`, which masks the keyboard line and opens it. `cpu` is whose
registers are loaded, `saved[p]` whose lie in the entry of `p`, `sp0` is `tss.esp0`.
Where the processor would refuse something (a gate, a port, a selector),
`Refuse` is the protection exception. An exception goes the way of the code: the
vector finds its routine in `idt`, the processor pushes (`Pushed`, with the code for the
vectors of `WithCode`), the routine's stub adds what `kernel.asm:238-295` pushes
(`PushNoCode` and `VectorPushed` are transcribed from there), and `exception_handler` takes its
arguments off that stack. `NamesTheException` compares what it prints with `raised`.

`Dispatch` is what `Proc` assumes: one visit to the kernel after the other, each
with at most one effect, by and for its own caller, and nobody who sleeps runs. The
refinement reads the outermost frame as the visit (`Visit`).

## Runs

| run | instance | shows |
|---|---|---|
| `ipc` | 2 tasks, 2 processes, 1 body, equal priority 1, no nested ticks | `IInv`, `QueueMatchesSenders`, `NoSendCycle`, `NoMissedRendezvous`, `AssertionsHold`, and the order of the queues, `FifoQueues` |
| `sched` | 1 task, 2 processes, priorities 2, 1, 2, nested ticks down to 0 | `NoStarvation` under fairness |
| `rendezvous` | 1 task, 2 processes, 1 body and the cleared one | `TypeOK`, `Refinement` |
| `waits` | as `rendezvous` | *violated*: `SafeSends`: a send closes a circle through a receiver |
| `kbbuf` | ring of 4, 2 codes, `QuietSpec` | `TypeOK`, `HoldsUnread` |
| `kbinit` | ring of 3, 2 codes, `Spec` | *violated*: `ReadsNextByte` |
| `keyboard` | 9 keys of all kinds, 2 held, struck with a code still on its way | `ModifiersFollowKeys`, `ReportsWhatWasStruck`, `NothingOwed`, `LedsShowLocks`, and `DecoderReturns` under fairness |
| `column` | a Shift key and an arrow | *violated*: `ThirdColumnIsE0` |
| `alt` | the two Alt keys | *violated*: `AltStateIsOwn` |
| `tty` | 2 consoles of 7 words, window of 2 lines of 2, 2 printers, all races | `RacesSpillLittle`, `OnlyRacesSpill`, `WindowInside`, `CursorNotBelow`, `OnlyRacesShow`, `ScreenIsFresh`, `WindowComesBack`, `EchoIsSeen`, `NoBacklog`, and `OnlyRacesHang` under fairness |
| `trap` | 1 task, 2 processes, one slice of 2, all 16 exceptions | `NestingMatches`, `MaskIsHandled`, `CallerIsCaller`, `RingIsKnown`, `ResumesOwn`, `NothingRefused`, `ChoosesBest`, `NamesTheException`, `KernelNotPreempted`, `Dispatches`, and `RequestsServed` under fairness |
| `table` | as `trap` | *violated*: `TableHoldsAll` |

For each module some passing run also checks its `TypeOK`.

*Bounds.* Four processes is the size of the shipped system and the least number
with a queue of three, where a receive unlinks an entry that has both a
predecessor and a successor. Circles of two, three and four senders occur. Three
processes are enough for the refinement, whose queues then hold two messages
from different senders. One body suffices beside the cleared one: a sender has at
most one message outstanding, and `source` tells messages apart. Priorities 1 and
2 make refills happen at once and at different times for different processes.
`TickFloor` bounds `NestedTick`, the only unbounded counter; a slice can then
reach `TickFloor - 1`. At `TickFloor = 1` there are no nested ticks, which keeps
`ipc` small; `sched` has them. `ClockTick` and `Schedule` need no bound.

The keys of `keyboard` are one of each kind: a modifier without and one with an E0
code that share a row of `keymap`, Shift, two locks, a letter, a keypad key and
the two long sequences; two held at once give every modifier with every key.
`MaxAhead` = 1 lets a key be struck while the decoder is half way through the one
before. That the two tables agree for all other keys too is a theorem
(`ReportedAsStruck`). In `tty` a console of seven words has, as in the code, a size that
is no multiple of the line, and is small enough to be filled, scrolled twice to its
end and emptied again, and raced for at any time; a cursor that underflows wraps at
`Word`. Two consoles are enough for one that is shown and one that is not; F3 asks
for one that does not exist. In `trap` a process is a task in ring 1 or a user
process in ring 3, a slice of 2 beside slices of 1 gives choices and refills with
ticks in between, and four frames are the deepest nesting there is: a call, a call
from inside it, and both interrupts. `Word` = 8 only has to tell -1 from the depths.

*View.* `ipc`, `sched` and `waits` identify states that agree on `Control`:
everything except the contents of buffers and the stale `p_sendto` and
`p_recvfrom` of processes that are not waiting. No guard reads what is left out,
so such states have the same future, and the properties of these runs do not
speak of it, except that `IInv` includes `TypeOK`, which `rendezvous` checks
without a view. The keyboard's runs leave out `told` (`Future`), which only the
step that sets it is compared with; `tty` leaves out local variables that will be
set before they are read again, the parts of the CRTC that `task_tty` will set before it
is idle, and, of a raced console, what only the properties of the others look at;
once the machine has stopped it keeps nothing, as stopping changes nothing else.

*Deadlock.* The system does stop: after a panic, and in `schedule` when nobody is
runnable and no tick is left to charge. So `CHECK_DEADLOCK` is off for the process
table, for the terminals, which `sys_printx` can stop, and for `Trap`, where an
exception halts; the ring and the decoder never stop.

*Fairness.* `NoStarvation` assumes `WF_vars(ClockTick)`: the timer keeps
interrupting code outside the kernel. The hardware interrupts `HZ` = 100 times a
second, and no call keeps the processor in the kernel for long. No fairness is
assumed of any process: it may send and receive as it likes, or do nothing but
compute.

`DecoderReturns` assumes that `task_tty`, the keyboard's interrupt and the keyboard
go on, none that a key is ever struck. `OnlyRacesHang` assumes `task_tty` gets the
processor again, which `NoStarvation` shows. In `Trap`, devices pause: if the
kernel is at some depth of nesting again and again, a step of the code at that depth
is taken again and again. A tick comes every 10 ms and a key more rarely, and
their handlers are a few instructions; without the assumption the clock could
interrupt a call for ever.

*What the five violations say.* `waits`: the comment of `deadlock()` (`proc.c:183-187`)
pictures a circle of senders, A -> B -> C -> A, and concludes that a send is safe if no
cycle is detected; but the walk stops at the first process that is not `SENDING`, and
what waits for a message can be in a circle too. In the run 0 sends to 1, 1 waits to
receive from 2, and then 2 sends to 0: the walk goes from 0 to 1, which is
`RECEIVING`, and the check returns 0. The send blocks, nobody is left to run, and the
kernel spins in `schedule`. `kbinit`: a key
struck while `task_tty` runs `init_keyboard` (`keyboard.c:187-188`) leaves `count`
at 1 with both pointers at the start of the buffer. From then on reader and
writer disagree about the next slot, until the machine is restarted. `column`:
`keymap` has a third column for codes with E0 (`keyboard.c:14`), but the shift column
overrides it (`keyboard.c:293-295`), so with Shift an arrow is a digit, the
scrolling of `tty.c:65-72` cannot be reached, and a right Ctrl whose press and
release differ in Shift stays down. `alt`: both Alt keys are kept in `alt_l`
(`keyboard.c:314` and 317), which `keyboard.c:151` declares as the state of the left one;
in the run the right one alone sets it. `table`: `schedule` chooses an entry behind the
`NR_TASKS` that `global.c:17` declares, although `LAST_PROC` (`proc.h:72`) counts
the user processes; what the kernel saves there overlaps with whatever the linker
placed behind the table. The other runs assume that nothing lies there.

## Proofs

The theorems hold for all values of the constants that meet the named assumptions
of the modules, which TLC evaluates in every run:

| assumption | says | because |
|---|---|---|
| `TableAssumption`, `PriorityAssumption` | there is a task; slices are positive | the tables of `global.c` |
| `SizeAssumption` | the ring has at least one slot | `keyboard.h:199` |
| `KeysAssumption`, `BoundsAssumption` | the keys that are struck have codes; the bounds are numbers | `keyboard.h:113-168` |
| `StackAssumption` | `STACK_SIZE_TOTAL` is no less than the stacks of the table together | the sum in `proc.h:81-84` names each of them |
| `AddressAssumption` | `proc_table`, `task_stack` and `tss` end below 4 GB; the GDT has an entry for every LDT | the linker; `GDT_SIZE` (`const.h:38`) |
| `TrapAssumption` | `k_reenter` can count `Depth` = 4 frames; the exceptions have gates | it has 32 bits; `protect.c:62-160` |
| `ConsoleAssumption`, `TtyAssumption` | a screen is a whole number of lines, at least two, and smaller than a console's memory; addresses do not wrap; the boot texts end on the first screen | `console.h`, `tty.c` |

### Process table

`LinksProofs` has the lemmas about `Reach`: it is the least closed set that holds
its start, pointers outside a chain do not matter to it (`ReachAgree`), appending
adds one element (`ReachAppend`), unlinking removes one (`ReachUnlinkHead`,
`ReachUnlinkMiddle`). They are proved from the definition, by exhibiting closed
sets, without induction. What the refinement needs beyond them is the order of a
walk. A walk whose links are injective and whose start has no predecessor meets
nothing twice (`WalkDistinct`), so in a finite table it ends (`WalkEnds`), and
`InOrder` is the list of its chain (`InOrderIsList`), the only one
(`ListUnique`); appending and unlinking do to that list what their names say
(`ListAppend`, `ListRemove`).

`ProcProofs` shows that `IInv` is inductive. The properties one cares about are
not inductive alone:

* `QueueMatchesSenders` needs injectivity of the links and heads without
  predecessors, so that changing one link touches one queue, and `IdleUnlinked`,
  so that a process appended to a queue is not already on a chain;
* `NoMissedRendezvous` needs `QueueMatchesSenders`, because a receive from `ANY`
  looks at the queue and not at the flags;
* `NoSendCycle` stands on `RunningIsReady`: the caller is in no circle yet, so
  a circle after a send would go through the new edge, and the part of it
  from `dest` back to the caller is what the walk of `deadlock` finds. If the
  walk does not find the caller, what it visits is a circle of its own, which
  there was none before (`CheckedSendNoCycle`).

There is one lemma for each way a call ends (`DeliverKeepsInv`,
`EnqueueKeepsInv`, `TakeKeepsInv`, `WaitKeepsInv`, the panic inside
`SendKeepsInv`), and `NextKeepsInv` puts them together with the ticks. The
theorems are `Invariance`, `TypeCorrect`, `QueuesCorrect`, `NoCircleOfSenders`,
`RendezvousTakesPlace`, `NoAssertionFails` and `SchedulerSafe`.

`FirstComeFirstServed` is the action property `FifoQueues`. Its argument is about
single steps from states of `IInv`: a step leaves the links of a queue alone
(`UntouchedKeepsOrder`), hangs a newcomer on the last entry
(`AppendKeepsOrder`; it is behind everybody because a chain is linear,
`ReachLinear`), or bypasses one entry (`UnlinkKeepsOrder`, on `ReachBypass`).

`KeepsThePromise` is the refinement, `Spec => Refinement`. `IInv` needs one addition, that a
message that waits is signed by its sender (`Signed`). With it, whom a process sends to
and whether it is blocked are the same in both modules (`SentToIs`, `BlockedIs`), and the
walk of `deadlock()` finds the caller exactly if the send would close a circle
(`CircleIs`): the walk is the circle, or the circle confines the walk. Then there is one
lemma for each way a call ends: `PanicPromised`, `DeliverPromised`, `EnqueuePromised`
(the list grows at its end, `AppendListed`), `TakePromised` (the entry that leaves is the
first that suits the request, `UnlinkListed`) and `WaitPromised`; queues that a call does
not touch keep their messages (`PendingStays`). The clock changes nothing the promise
is about.

### Keyboard ring

`TypeCorrect` is about `Spec`, the race in `init_keyboard` included: the pointers and
the count keep their ranges even then. `RingIsQueue` and `QuietReadsNext` are about
`QuietSpec`. `HoldsUnread` says nothing while `task_tty` is between the stores of
`init_keyboard`, so `KbBufProofs` adds what is true there: nothing is in the ring
once `count` is cleared, and `p_tail` is at the start before `p_head` is. The rest
is arithmetic modulo the size of the ring: the slot written next is none of those
that hold unread codes (`Wrap` and the lemmas after it).

### Scan code decoder

`KeyboardProofs` has two arguments. `TheLedsShowLocks` is about `Spec`, whatever is
struck: `LightsInv` says at each point of `set_leds` what the keyboard can have been
told. The value sent last may still be in the controller when the next call
begins, but not once `kb_wait` let that call send its first command; so the answer
that `kb_ack` does not wait for is not needed. `TypeCorrect` is about `Spec` too.

`ModifiersAgree`, `NoneForgotten` and `ReportedAsStruck` are about `CarefulSpec`, for
every set of keys and any number held, under `RingSuffices`, which is
3 * `MaxAhead` + 11 =< `KB_IN_BYTES`. A key sends at most six codes and is struck with
at most `MaxAhead` on their way; each of these may be of a lock key, which makes
`set_leds` send two commands whose acknowledgements come in as codes; and of the
commands before, at most three acknowledgements are still to come (`due`). (`Load` counts all of that, and
`NothingLost` concludes that the interrupt never finds the ring full.)
`ReportedAsStruck` leaves out the power keys too, which `keymap` does not have.

The invariant, `Decoding`, is about *items*: an acknowledgement, a key that went
down, a key that was let go. What `keyboard_read` has taken, the ring and the wire are
together the codes of a line of items, without a gap (`Carries`). Between any two
items there is a point, with the keys down and the locks on there: the
driver's flags are those of the first point, what the person holds those of the
last, and what is owed is one report for each key between (`Lists`), as it was meant
at its point. So a step that moves a code changes nothing (`SameItems`), what is
sent adds an item and a point at the end (`ItemComes`), and a decoded item moves the
first point on (`ItemGone`). When all is quiet there is one point, and flags and
keys agree. `Decoding` asks for a line of items of any length, which TLC cannot look
for: the runs check what follows from it.

That a decoded item has the effect of its key needs the tables. `LetterRows` to
`E0Rows` compare them, a table of keys at a time. `KeyRead` concludes that what is read
of a key's codes is that key, if it is not an E0 key with Shift down, which the careful
person's points exclude (`Fit`); and `StopsThere` that `keyboard_read` stops exactly
at the last code of an item: no key's codes begin another's. For the proof, the tables
of codes in `Keymap` are sets of pairs, one for each part of the appendix.

### Start of the kernel

`StartProofs` is about what `kernel_main` computes. `StackBytes` and `kernel_main` are
recursive functions; `Induction` shows, with sets and functions where the
library's theorems have operators, that a recursion on an interval has a solution
(`Recursion`) and that what holds at 0 and goes on holds throughout
(`IntervalInduction`). From these follow the closed forms: round i begins
`StackBytes[i]` below the top of `task_stack`, so no two stacks overlap
(`StacksApart`); the selectors advance by 8, and the descriptor of each, cut into
16, 8 and 8 bits and joined again (`BaseRoundTrip`), is the address of the
process's own LDT (`LdtIsOwn`). The lemmas after them read privileges and types
back as the processor does; `TrapProofs` uses them for `NothingRefused`.

### Entries, nesting and schedule

`TrapProofs` proves all of `Trap`'s invariants, its action property and the refinement
of `Dispatch`. `IInv` says more than the properties:

* `Nested`: what may lie where on the stack. Only the frame at the bottom can be in
  `schedule`; above it lie interrupts, each line at most once, or a print or the panic of a
  `sys_sendrec` that found a circle. That each line is there at most once bounds the depth by 4, so that
  `k_reenter` does not wrap.
* `Masking`: the mask is exactly the lines on the stack, with those never opened and
  the one `task_tty` is setting. It is what makes "at most once" inductive.
* `Context`: the registers of every process but the running one are in its entry, the
  outermost frame holds those of `cpu`, and `esp0` is where the next entry saves.
* `Choosing`: before `schedule` has begun, `p_proc_ready` is the interrupted process,
  which is why a call that reads it after `sti` still finds its caller; in the loop
  it is the first of the best among the entries passed. A tick that strikes inside
  takes from `p_proc_ready` itself, so `BestOf` speaks of `greatest`, which was read
  before, as an upper bound, and not of the ticks that are left.

`ExceptionNamed` goes through the sixteen vectors: the gate of each leads to a stub that
pushes that vector, and one of processor and stub, never both, pushes a code.

`EntriesKeepPromise` maps a step at a time: an entry from outside to the beginning of
a visit, the exit through `restart` to its end, what a frame does at the bottom of
the stack to its effect, and everything nested to nothing (`Visit`).

### Terminals

`TtyProofs` proves all of `Tty`'s invariants. `OnlyRacesShow`, that a preempted
`out_char` does what an undisturbed one does, is the one that needs work. `todo` can
only be one of twenty tails of the call (`F1` ... `E0`), and `Leads` says for each what
the console, the character and the words already loaded must be for the rest of it
to come out at what is expected. `Working` says that this holds at all times while
nobody races. `Windows` is about every console, raced for or not: its window starts
at one of its lines and has gone at most one line too far, for `task_tty` may store
what it loaded before the other printed. `Memory` keeps the cursor of the calm ones
inside and not below the window, which needs that scrolling by a line always suffices
(`ScrollOnce`), and `Shown` which part of the CRTC already agrees with the console it was set for, and
which is still to be set by what is left of the call (`ScreenFresh`). `WindowBack` is about
the one step that ends a call: it sets the window of the console it was for, and that
is the current one. `Keys` makes `NoBacklog` and
`EchoIsSeen` inductive: a key is buffered only by the terminal whose turn it is, and
that is the one that is shown.

`SpillIsLittle` has an invariant of its own, `Spill`. A print may come between any load
of `task_tty` and the store that uses it, but what `task_tty` saw at the guard stays
half true: the guards of the others do not let them take a cursor to the end of the
memory while `task_tty` moves it on, or below its beginning while `task_tty` moves it back. So
each word loaded is near the memory (`Around`), and beyond it, above or below, the
guards let nobody move the cursor further. Only below the first console's memory does the
cursor wrap, to a word that counts as far beyond everything, and then `task_tty` never
leaves the loop of that call (`Lost`).

The proof needed two things said in the model: that a text is a sequence of
characters that may be empty (an empty one does not stop the machine), and that
printing a text of magic characters only does nothing. `Printed` is a recursive
function over the text, and its values are consoles again by `Recursion`.

### Only model-checked

`NoStarvation`, `DecoderReturns`, `OnlyRacesHang` and `RequestsServed`: liveness under
fairness is outside what the prover handles. Every invariant, action property and
refinement that a passing run checks is proved.

## Plan

What is left:

1. `ModifiersAgree` and `ReportedAsStruck` for a person who is not careful, with the
   two faults of the driver described rather than avoided.
2. A result that no run checks: that after the race of `kbinit` the difference between
   `count` and the pointers never changes.

## Not modelled

The ticks service: `get_ticks` is one
`send_recv` to `task_sys`, which the repository does not contain, and `milli_delay` a
loop over it. The boot sector and the loader: sequential assembly over BIOS
services, with nothing beside it. Scrolling up, which no key reaches. That
`task_tty` has set up the consoles before somebody prints: `schedule` chooses it first,
but after one tick it has 99 left against the 100 of the others, so its set-up can be
preempted, and what is then printed through a `p_console` that is still 0 is left out. The slave
8259A, all of whose lines stay masked. Out of scope: the library, whose
functions have no state and whose effect is part of the actions that call them;
layout of text; descriptors and segment arithmetic beyond what the start of the
kernel checks; the stand-alone programs under `pmtest/`; and the sources the
repository refers to without containing them (`task_sys`, `printf`,
`assertion_failure`).
