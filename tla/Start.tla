------------------------------- MODULE Start --------------------------------
(***************************************************************************)
(* What the processor finds when kernel_main calls restart(): descriptors, *)
(* gates, the interrupt controller and the process table, as cstart,       *)
(* init_prot and kernel_main build them (kernel/start.c, protect.c,        *)
(* i8259.c, main.c).  All of it runs once with interrupts off, so it is a  *)
(* calculation and not a state machine; Trap starts from its results.      *)
(*                                                                         *)
(* Code addresses are the names of the functions.  Data addresses are      *)
(* numbers, because descriptors take them apart and put them together.     *)
(***************************************************************************)
EXTENDS Integers, Sequences, FiniteSetsExt, SequencesExt

CONSTANTS
  NR_TASKS, NR_PROCS,
  priority,       \* [Procs -> ticks]: priority in task_table and user_proc_table
  stacksize,      \* [Procs -> bytes]: stacksize in the same tables
  STACK_SIZE_TOTAL,   \* bytes of task_stack, a sum of its own in proc.h
  proc_table,     \* addresses the linker gives to the tables
  task_stack,
  tss

N     == NR_TASKS + NR_PROCS
Procs == 0 .. N - 1
NONE  == -1

ASSUME TableAssumption ==
  /\ NR_TASKS \in Nat \ {0} /\ NR_PROCS \in Nat
  /\ priority \in [Procs -> Nat \ {0}] /\ stacksize \in [Procs -> Nat]

-----------------------------------------------------------------------------
(* Descriptors: numbers are cut into fields and read back *)

DA_LDT      == 130                      \* 0x82
DA_386TSS   == 137                      \* 0x89
DA_386IGate == 142                      \* 0x8E
DA_DRW      == 146                      \* 0x92
DA_C        == 152                      \* 0x98
DA_CR       == 154                      \* 0x9A
DA_DPL3     == 96                       \* 0x60
DA_32       == 2^14
DA_LIMIT_4K == 2^15

\* A privilege level at its place in an attribute byte.
AtDpl(privilege) == privilege * 2^5

Bits(x, from, width) == (x \div 2^from) % 2^width

init_descriptor(base, limit, attribute) ==
  [limit_low        |-> Bits(limit, 0, 16),
   base_low         |-> Bits(base, 0, 16),
   base_mid         |-> Bits(base, 16, 8),
   attr1            |-> Bits(attribute, 0, 8),
   limit_high_attr2 |-> Bits(limit, 16, 4) + 16 * Bits(attribute, 12, 4),
   base_high        |-> Bits(base, 24, 8)]

\* seg2phys and ldt_seg_linear
BaseOf(d) == d.base_high * 2^24 + d.base_mid * 2^16 + d.base_low

\* What the processor reads in a descriptor, a gate and a selector.
Dpl(attr)  == Bits(attr, 5, 2)
Type(attr) == attr - AtDpl(Dpl(attr))
Limit(d)   == d.limit_low + 2^16 * Bits(d.limit_high_attr2, 0, 4)
Rpl(sel)   == sel % 4

\* Sizes and offsets of the structures
SIZEOF_DESCRIPTOR == 8
SIZEOF_PROCESS    == 152
SIZEOF_TSS        == 104
LDTS              == 74                 \* of ldts in PROCESS
LDT_SIZE          == 2
GDT_SIZE          == 128

INDEX_TSS          == 4
INDEX_LDT_FIRST    == 5
SELECTOR_KERNEL_CS == 8                 \* 0x08
SELECTOR_KERNEL_DS == 16                \* 0x10
SELECTOR_KERNEL_GS == 27                \* 0x18 + 3
SELECTOR_LDT_FIRST == 40                \* 0x28
SA_TIL             == 4

\* The descriptors the loader made, which cstart copies.
LoaderGdt ==
  <<init_descriptor(0, 2^20 - 1, DA_CR + DA_32 + DA_LIMIT_4K),
    init_descriptor(0, 2^20 - 1, DA_DRW + DA_32 + DA_LIMIT_4K),
    init_descriptor(753664, 2^16 - 1, DA_DRW + DA_DPL3)>>        \* 0xB8000

\* init_tss and the loop at the end of init_prot; vir2phys adds.
vir2phys(base, addr) == base + addr
ldts(i) == proc_table + i * SIZEOF_PROCESS + LDTS
gdt ==
  LET data == BaseOf(LoaderGdt[SELECTOR_KERNEL_DS \div 8])
  IN [k \in 1 .. INDEX_LDT_FIRST + N - 1 |->
        IF k \in DOMAIN LoaderGdt THEN LoaderGdt[k]
        ELSE IF k = INDEX_TSS
             THEN init_descriptor(vir2phys(data, tss), SIZEOF_TSS - 1, DA_386TSS)
             ELSE init_descriptor(vir2phys(data, ldts(k - INDEX_LDT_FIRST)),
                                  LDT_SIZE * SIZEOF_DESCRIPTOR - 1, DA_LDT)]

-----------------------------------------------------------------------------
(* Gates.  A handler is a name and, where it has one, its number. *)

GateDpl(v) == IF v \in {3, 4, 144} THEN 3 ELSE 0

\* The routines init_prot gives the vectors from 0 on; 16 has copr_error.
Routines ==
  <<"divide_error", "single_step_exception", "nmi", "breakpoint_exception", "overflow",
    "bounds_check", "inval_opcode", "copr_not_available", "double_fault",
    "copr_seg_overrun", "inval_tss", "segment_not_present", "stack_exception",
    "general_protection", "page_fault">>
Exceptions == 0 .. 14 \cup {16}
idt ==
  [v \in Exceptions \cup 32 .. 47 \cup {144} |->                 \* 144 = 0x90
     [handler |-> CASE v = 144        -> "sys_call"
                    [] v \in 32 .. 47 -> "hwint"
                    [] v = 16         -> "copr_error"
                    [] OTHER          -> Routines[v + 1],
      nr      |-> IF v \in 32 .. 47 THEN v - 32 ELSE NONE,
      attr    |-> DA_386IGate + AtDpl(GateDpl(v))]]
INT_VECTOR_SYS_CALL == 144
INT_VECTOR_PROTECTION == 13

-----------------------------------------------------------------------------
(* The interrupt controller *)

\* An 8259A: which word it takes next, the vector of its line 0, its mask.
\* ICW1 (bit 4 of the control port) starts the sequence ICW2, ICW3, ICW4.
Chip == [next |-> 1, base |-> 0, mask |-> 0]
Written(chip, port, value) ==
  CASE port = "ctl" /\ Bits(value, 4, 1) = 1 -> [chip EXCEPT !.next = 2, !.mask = 0]
    [] port = "mask" /\ chip.next = 1        -> [chip EXCEPT !.mask = value]
    [] port = "mask" /\ chip.next = 2        -> [chip EXCEPT !.next = 3, !.base = value]
    [] port = "mask" /\ chip.next > 2        -> [chip EXCEPT !.next = (@ % 4) + 1]
    [] OTHER                                 -> chip

\* What init_8259A writes to the master.
init_8259A ==
  LET icw1 == Written(Chip, "ctl", 17)
      icw2 == Written(icw1, "mask", 32)
      icw3 == Written(icw2, "mask", 4)
      icw4 == Written(icw3, "mask", 1)
  IN Written(icw4, "mask", 255)
IRQs   == 0 .. 7
Masked == {irq \in IRQs : Bits(init_8259A.mask, irq, 1) = 1}

CLOCK_IRQ    == 0
KEYBOARD_IRQ == 1

\* irq_table, after init_8259A filled it and init_clock and init_keyboard ran.
irq_table(irq) ==
  CASE irq = CLOCK_IRQ    -> "clock_handler"
    [] irq = KEYBOARD_IRQ -> "keyboard_handler"
    [] OTHER              -> "spurious_irq"

-----------------------------------------------------------------------------
(* The process table *)

PRIVILEGE(i) == IF i < NR_TASKS THEN 1 ELSE 3    \* and the RPL is the same
NoIopl(i)     == 514                                              \* mutant
eflags(i)     == IF i < NR_TASKS THEN 4610 ELSE 514               \* 0x1202, 0x202
Iopl(flags)   == Bits(flags, 12, 2)

\* What a round of kernel_main's loop makes of the running pointers.
Entry(i, p_task_stack, selector_ldt) ==
  [ldt_sel |-> selector_ldt,
   ldts    |-> <<[gdt[SELECTOR_KERNEL_CS \div 8] EXCEPT !.attr1 = DA_C + AtDpl(PRIVILEGE(i))],
                 [gdt[SELECTOR_KERNEL_DS \div 8] EXCEPT !.attr1 = DA_DRW + AtDpl(PRIVILEGE(i))]>>,
   cs      |-> 8 * 0 + SA_TIL + PRIVILEGE(i),
   ss      |-> 8 * 1 + SA_TIL + PRIVILEGE(i),            \* and ds, es, fs
   gs      |-> (SELECTOR_KERNEL_GS \div 4) * 4 + PRIVILEGE(i),
   esp     |-> p_task_stack,
   eflags  |-> eflags(i)]

\* The first i stacks together.  Nothing but the sum in proc.h makes task_stack
\* as long as all of them.
StackBytes[i \in 0 .. N] == IF i = 0 THEN 0 ELSE StackBytes[i - 1] + stacksize[i - 1]
ASSUME StackAssumption == STACK_SIZE_TOTAL \in Nat /\ StackBytes[N] =< STACK_SIZE_TOTAL

\* The running pointers of kernel_main's loop when round i begins.
kernel_main[i \in 0 .. N] ==
  IF i = 0
    THEN [p_task_stack |-> task_stack + STACK_SIZE_TOTAL, selector_ldt |-> SELECTOR_LDT_FIRST]
    ELSE [p_task_stack |-> kernel_main[i - 1].p_task_stack - stacksize[i - 1],
          selector_ldt |-> kernel_main[i - 1].selector_ldt + 8]
regs(p) == Entry(p, kernel_main[p].p_task_stack, kernel_main[p].selector_ldt)

\* The linker's addresses have 32 bits, and the GDT has room for the LDTs.
Address(a) == a \in Nat /\ a \div 2^24 < 2^8
ASSUME AddressAssumption ==
  /\ Address(proc_table) /\ Address(proc_table + N * SIZEOF_PROCESS - 1)
  /\ Address(tss) /\ Address(tss + SIZEOF_TSS - 1)
  /\ Address(task_stack) /\ Address(task_stack + STACK_SIZE_TOTAL)
  /\ INDEX_LDT_FIRST + N =< GDT_SIZE
=============================================================================
