----------------------------- MODULE StartProofs -----------------------------
(***************************************************************************)
(* What the processor finds after kernel_main, for every table of tasks    *)
(* and every place the linker puts the data: the interrupt controller      *)
(* answers with the vectors of the IDT's stubs, each process has its own   *)
(* LDT and its own stack, and nothing in its entry is refused.             *)
(***************************************************************************)
EXTENDS Start, Induction

-----------------------------------------------------------------------------
(* The interrupt controller                                                *)

\* After init_8259A line 0 of the master is vector 32, and all are masked.
LEMMA ChipReady == init_8259A.base = 32 /\ init_8259A.mask = 255
<1>. DEFINE State == [next : Nat, base : Nat, mask : Nat]
            icw1 == Written(Chip, "ctl", 17)
            icw2 == Written(icw1, "mask", 32)
            icw3 == Written(icw2, "mask", 4)
            icw4 == Written(icw3, "mask", 1)
            ocw1 == Written(icw4, "mask", 255)
<1>1. icw1 \in State /\ icw1.next = 2
  <2>1. Bits(17, 4, 1) = 1
    BY DEF Bits
  <2>2. icw1 = [Chip EXCEPT !.next = 2, !.mask = 0]
    BY <2>1 DEF Written
  <2>3. [Chip EXCEPT !.next = 2] \in State
    BY DEF Chip
  <2>4. icw1 = [[Chip EXCEPT !.next = 2] EXCEPT !.mask = 0]
    BY <2>2, Zenon
  <2>5. icw1 \in State
    <3>. DEFINE c == [Chip EXCEPT !.next = 2]
    <3>. HIDE DEF c
    <3>1. c \in State /\ icw1 = [c EXCEPT !.mask = 0]
      BY <2>3, <2>4 DEF c
    <3>. QED
      BY <3>1
  <2>. QED
    BY <2>2, <2>5 DEF Chip
<1>. HIDE DEF icw1
<1>2. icw2 \in State /\ icw2.next = 3 /\ icw2.base = 32
  <2>1. icw2 = [icw1 EXCEPT !.next = 3, !.base = 32]
    BY <1>1 DEF Written
  <2>2. icw2 \in State
    <3>. DEFINE c == [icw1 EXCEPT !.next = 3]
    <3>1. c \in State
      BY <1>1
    <3>2. icw2 = [c EXCEPT !.base = 32]
      BY <2>1, Zenon
    <3>. HIDE DEF c
    <3>. QED
      BY <3>1, <3>2
  <2>. QED
    BY <1>1, <2>1, <2>2
<1>. HIDE DEF icw2
<1>3. icw3 \in State /\ icw3.next = 4 /\ icw3.base = 32
  <2>1. icw2.next > 2 /\ icw2.next # 1 /\ icw2.next # 2
    BY <1>2
  <2>2. icw3 = [icw2 EXCEPT !.next = (icw2.next % 4) + 1]
    BY <2>1, Zenon DEF Written
  <2>. HIDE DEF icw3
  <2>. QED
    BY <1>2, <2>2
<1>. HIDE DEF icw3
<1>4. icw4 \in State /\ icw4.next = 1 /\ icw4.base = 32
  <2>1. icw3.next > 2 /\ icw3.next # 1 /\ icw3.next # 2
    BY <1>3
  <2>2. icw4 = [icw3 EXCEPT !.next = (icw3.next % 4) + 1]
    BY <2>1, Zenon DEF Written
  <2>. HIDE DEF icw4
  <2>. QED
    BY <1>3, <2>2
<1>. HIDE DEF icw4
<1>5. ocw1.base = 32 /\ ocw1.mask = 255
  <2>0. "mask" # "ctl" /\ icw4.next = 1 /\ ~(icw4.next > 2) /\ icw4.next # 2
    BY <1>4
  <2>1. ocw1 = [icw4 EXCEPT !.mask = 255]
    BY <2>0, Zenon DEF Written
  <2>. HIDE DEF ocw1
  <2>. QED
    BY <1>4, <2>1
<1>. QED
  BY <1>5 DEF init_8259A, icw1, icw2, icw3, icw4

LEMMA AllMasked == Masked = IRQs
<1>1. \A irq \in IRQs : Bits(255, irq, 1) = 1
  <2>. SUFFICES ASSUME NEW irq \in IRQs PROVE Bits(255, irq, 1) = 1
    OBVIOUS
  <2>1. irq \in {0, 1, 2, 3, 4, 5, 6, 7}
    BY DEF IRQs
  <2>2. /\ Bits(255, 0, 1) = 1 /\ Bits(255, 1, 1) = 1 /\ Bits(255, 2, 1) = 1
        /\ Bits(255, 3, 1) = 1 /\ Bits(255, 4, 1) = 1 /\ Bits(255, 5, 1) = 1
        /\ Bits(255, 6, 1) = 1 /\ Bits(255, 7, 1) = 1
    BY DEF Bits
  <2>. QED
    BY <2>1, <2>2
<1>. QED
  BY <1>1, ChipReady DEF Masked

\* The vector the chip gives for a line leads to the stub of that line.
LEMMA StubOfLine ==
  ASSUME NEW irq \in IRQs PROVE idt[init_8259A.base + irq].nr = irq
<1>1. 32 + irq \in 0 .. 14 \cup {16} \cup 32 .. 47 \cup {144} /\ 32 + irq # 144 /\ ~(32 + irq < 32)
  BY DEF IRQs
<1>. QED
  BY <1>1, ChipReady DEF idt, IRQs

-----------------------------------------------------------------------------
(* The loop over the process table                                         *)

LEMMA Sizes == N \in Nat /\ N > 0 /\ Procs = 0 .. N - 1
               /\ stacksize \in [Procs -> Nat] /\ NR_TASKS \in 1 .. N
BY TableAssumption DEF N, Procs

LEMMA StackBytesDef ==
  /\ StackBytes \in [0 .. N -> Nat]
  /\ StackBytes[0] = 0
  /\ \A i \in 1 .. N : StackBytes[i] = StackBytes[i - 1] + stacksize[i - 1]
<1>. DEFINE P(f) == f = [i \in 0 .. N |-> IF i = 0 THEN 0 ELSE f[i - 1] + stacksize[i - 1]]
            step == [x \in (1 .. N) \X Nat |-> x[2] + stacksize[x[1] - 1]]
<1>1. step \in [(1 .. N) \X Nat -> Nat]
  BY Sizes
<1>2. PICK f : IsRun(f, N, Nat, 0, step)
  <2>1. 0 \in Nat /\ N \in Nat
    BY Sizes
  <2>. HIDE DEF step
  <2>. QED
    BY <1>1, <2>1, Recursion
<1>3. \A i \in 1 .. N : f[i] = f[i - 1] + stacksize[i - 1]
  <2>1. \A i \in 1 .. N : <<i, f[i - 1]>> \in (1 .. N) \X Nat
    BY <1>2, Sizes DEF IsRun
  <2>. QED
    BY <1>2, <2>1 DEF IsRun
<1>4. P(f)
  BY <1>2, <1>3, Sizes DEF IsRun
<1>5. StackBytes = CHOOSE g : P(g)
  BY DEF StackBytes
<1>6. P(StackBytes)
  <2>. HIDE DEF P
  <2>. QED
    BY <1>4, <1>5
<1>7. /\ StackBytes[0] = 0
      /\ \A i \in 1 .. N : StackBytes[i] = StackBytes[i - 1] + stacksize[i - 1]
  BY <1>6, Sizes
<1>8. StackBytes \in [0 .. N -> Nat]
  <2>. DEFINE T == {i \in 0 .. N : StackBytes[i] \in Nat}
  <2>1. 0 \in T
    BY <1>7, Sizes
  <2>2. ASSUME NEW i \in T, i < N PROVE i + 1 \in T
    BY <2>2, <1>7, Sizes
  <2>3. T = 0 .. N
    <3>1. T \in SUBSET (0 .. N)
      OBVIOUS
    <3>. HIDE DEF T
    <3>. QED
      BY <2>1, <2>2, <3>1, Sizes, IntervalInduction
  <2>. QED
    BY <1>6, <2>3
<1>. QED
  BY <1>7, <1>8

\* What lies on top of the stack of a process is at or below what a process
\* before it in the table leaves.
LEMMA StackBytesGrow ==
  ASSUME NEW q \in 0 .. N, NEW p \in 0 .. q - 1
  PROVE  StackBytes[p] + stacksize[p] =< StackBytes[q]
<1>. DEFINE T == {m \in 0 .. N : \A k \in 0 .. m - 1 : StackBytes[k + 1] =< StackBytes[m]}
<1>1. 0 \in T
  BY Sizes
<1>2. ASSUME NEW m \in T, m < N PROVE m + 1 \in T
  <2>1. m + 1 \in 0 .. N /\ m \in 0 .. N
    BY <1>2, Sizes
  <2>2. StackBytes[m + 1] = StackBytes[m] + stacksize[m] /\ stacksize[m] \in Nat
    BY <1>2, StackBytesDef, Sizes
  <2>3. ASSUME NEW k \in 0 .. (m + 1) - 1 PROVE StackBytes[k + 1] =< StackBytes[m + 1]
    <3>1. CASE k = m
      BY <2>1, <3>1, StackBytesDef
    <3>2. CASE k # m
      <4>1. k \in 0 .. m - 1 /\ k + 1 \in 0 .. N
        BY <2>1, <3>2, Sizes
      <4>2. StackBytes[k + 1] =< StackBytes[m]
        BY <4>1, <1>2
      <4>. QED
        BY <2>1, <2>2, <4>1, <4>2, StackBytesDef
    <3>. QED
      BY <3>1, <3>2
  <2>. QED
    BY <2>1, <2>3
<1>3. T = 0 .. N
  <2>1. T \in SUBSET (0 .. N) /\ N \in Nat
    BY Sizes
  <2>. HIDE DEF T
  <2>. QED
    BY <1>1, <1>2, <2>1, IntervalInduction
<1>4. StackBytes[p + 1] =< StackBytes[q]
  BY <1>3
<1>5. p + 1 \in 1 .. N
  BY Sizes
<1>6. StackBytes[p + 1] = StackBytes[(p + 1) - 1] + stacksize[(p + 1) - 1]
  BY <1>5, StackBytesDef
<1>. QED
  BY <1>4, <1>6

\* The pointers of round i: the stacks are handed out from the top down, and
\* the selectors in steps of 8.
LEMMA Pointers ==
  ASSUME NEW i \in 0 .. N
  PROVE  /\ kernel_main[i].p_task_stack = task_stack + STACK_SIZE_TOTAL - StackBytes[i]
         /\ kernel_main[i].selector_ldt = SELECTOR_LDT_FIRST + 8 * i
<1>. DEFINE top == task_stack + STACK_SIZE_TOTAL
            P(f) == f = [k \in 0 .. N |->
                      IF k = 0
                        THEN [p_task_stack |-> top, selector_ldt |-> SELECTOR_LDT_FIRST]
                        ELSE [p_task_stack |-> f[k - 1].p_task_stack - stacksize[k - 1],
                              selector_ldt |-> f[k - 1].selector_ldt + 8]]
            g == [k \in 0 .. N |-> [p_task_stack |-> top - StackBytes[k],
                                    selector_ldt |-> SELECTOR_LDT_FIRST + 8 * k]]
<1>0. top \in Int /\ N \in Nat
  BY AddressAssumption, StackAssumption, Sizes DEF Address
<1>. HIDE DEF top
<1>1. P(g)
  <2>1. ASSUME NEW k \in 0 .. N
        PROVE  g[k] = IF k = 0
                        THEN [p_task_stack |-> top, selector_ldt |-> SELECTOR_LDT_FIRST]
                        ELSE [p_task_stack |-> g[k - 1].p_task_stack - stacksize[k - 1],
                              selector_ldt |-> g[k - 1].selector_ldt + 8]
    <3>1. CASE k = 0
      BY <3>1, <1>0, StackBytesDef DEF SELECTOR_LDT_FIRST
    <3>2. CASE k # 0
      <4>1. k \in 1 .. N /\ k - 1 \in 0 .. N /\ k - 1 \in Procs
        BY <3>2, Sizes
      <4>2. top - StackBytes[k] = (top - StackBytes[k - 1]) - stacksize[k - 1]
        BY <1>0, <4>1, StackBytesDef, Sizes
      <4>3. SELECTOR_LDT_FIRST + 8 * k = (SELECTOR_LDT_FIRST + 8 * (k - 1)) + 8
        BY <4>1 DEF SELECTOR_LDT_FIRST
      <4>. QED
        BY <3>2, <4>1, <4>2, <4>3
    <3>. QED
      BY <3>1, <3>2
  <2>. QED
    BY <2>1
<1>2. kernel_main = CHOOSE f : P(f)
  BY DEF kernel_main, top
<1>3. P(kernel_main)
  <2>. HIDE DEF P, g
  <2>. QED
    BY <1>1, <1>2
<1>. DEFINE T == {k \in 0 .. N :
                    /\ kernel_main[k].p_task_stack = top - StackBytes[k]
                    /\ kernel_main[k].selector_ldt = SELECTOR_LDT_FIRST + 8 * k}
<1>4. 0 \in T
  BY <1>0, <1>3, StackBytesDef DEF SELECTOR_LDT_FIRST
<1>5. ASSUME NEW k \in T, k < N PROVE k + 1 \in T
  <2>1. k + 1 \in 0 .. N /\ k + 1 # 0 /\ (k + 1) - 1 = k /\ k + 1 \in 1 .. N
    BY <1>0, <1>5
  <2>2. kernel_main[k + 1] = [p_task_stack |-> kernel_main[k].p_task_stack - stacksize[k],
                              selector_ldt |-> kernel_main[k].selector_ldt + 8]
    BY <1>3, <2>1
  <2>3. StackBytes[k + 1] = StackBytes[k] + stacksize[k] /\ StackBytes[k] \in Nat /\ stacksize[k] \in Nat
    BY <2>1, <1>0, <1>5, StackBytesDef, Sizes
  <2>. QED
    BY <1>0, <1>5, <2>1, <2>2, <2>3 DEF SELECTOR_LDT_FIRST
<1>6. T = 0 .. N
  <2>1. T \in SUBSET (0 .. N)
    OBVIOUS
  <2>. HIDE DEF T
  <2>. QED
    BY <1>0, <1>4, <1>5, <2>1, IntervalInduction
<1>7. /\ kernel_main[i].p_task_stack = top - StackBytes[i]
      /\ kernel_main[i].selector_ldt = SELECTOR_LDT_FIRST + 8 * i
  BY <1>6
<1>8. task_stack \in Nat /\ STACK_SIZE_TOTAL \in Nat /\ StackBytes[i] \in Nat
  BY <1>0, AddressAssumption, StackAssumption, StackBytesDef DEF Address
<1>. HIDE DEF P, g, T
<1>. QED
  BY <1>7, <1>8 DEF top

\* No byte of task_stack belongs to two processes, and none outside it to any.
THEOREM StacksApart ==
  \A p \in Procs :
    /\ regs(p).esp - stacksize[p] >= task_stack
    /\ regs(p).esp =< task_stack + STACK_SIZE_TOTAL
    /\ \A q \in Procs \ {p} :
         regs(q).esp =< regs(p).esp - stacksize[p] \/ regs(p).esp =< regs(q).esp - stacksize[q]
<1>1. ASSUME NEW p \in Procs
      PROVE  /\ regs(p).esp = task_stack + STACK_SIZE_TOTAL - StackBytes[p]
             /\ StackBytes[p] \in Nat /\ stacksize[p] \in Nat
             /\ StackBytes[p] + stacksize[p] =< StackBytes[N]
             /\ \A q \in Procs : q > p => StackBytes[p] + stacksize[p] =< StackBytes[q]
  <2>1. p \in 0 .. N /\ N \in 0 .. N /\ p \in 0 .. N - 1
    BY Sizes
  <2>2. regs(p).esp = task_stack + STACK_SIZE_TOTAL - StackBytes[p]
    BY <2>1, Pointers DEF regs, Entry
  <2>3. \A q \in Procs : q > p => StackBytes[p] + stacksize[p] =< StackBytes[q]
    BY <2>1, Sizes, StackBytesGrow
  <2>. QED
    BY <2>1, <2>2, <2>3, StackBytesGrow, StackBytesDef, Sizes
<1>2. /\ task_stack \in Nat /\ StackBytes[N] \in Nat
      /\ STACK_SIZE_TOTAL \in Nat /\ StackBytes[N] =< STACK_SIZE_TOTAL
  BY AddressAssumption, StackAssumption, StackBytesDef, Sizes DEF Address
<1>3. \A p, q \in Procs : p # q => p < q \/ q < p
  BY Sizes
<1>. QED
  BY <1>1, <1>2, <1>3
-----------------------------------------------------------------------------
(* Descriptors                                                             *)

\* Taking a base apart and putting it together gives the base.
LEMMA BaseRoundTrip ==
  ASSUME NEW base \in Nat, base \div 2^24 < 2^8, NEW limit \in Nat, NEW attribute \in Nat
  PROVE  BaseOf(init_descriptor(base, limit, attribute)) = base
BY DEF BaseOf, init_descriptor, Bits

\* The descriptors of the kernel's code, data and video memory, and the LDTs.
LEMMA KernelDescriptors ==
  /\ gdt[1] = init_descriptor(0, 2^20 - 1, DA_CR + DA_32 + DA_LIMIT_4K)
  /\ gdt[2] = init_descriptor(0, 2^20 - 1, DA_DRW + DA_32 + DA_LIMIT_4K)
  /\ gdt[3] = init_descriptor(753664, 2^16 - 1, DA_DRW + DA_DPL3)
<1>1. /\ 1 \in 1 .. INDEX_LDT_FIRST + N - 1 /\ 2 \in 1 .. INDEX_LDT_FIRST + N - 1
      /\ 3 \in 1 .. INDEX_LDT_FIRST + N - 1
  BY Sizes DEF INDEX_LDT_FIRST
<1>2. DOMAIN LoaderGdt = 1 .. 3
  BY DEF LoaderGdt
<1>3. \A k \in {1, 2, 3} : gdt[k] = LoaderGdt[k]
  BY <1>1, <1>2 DEF gdt
<1>4. /\ LoaderGdt[1] = init_descriptor(0, 2^20 - 1, DA_CR + DA_32 + DA_LIMIT_4K)
      /\ LoaderGdt[2] = init_descriptor(0, 2^20 - 1, DA_DRW + DA_32 + DA_LIMIT_4K)
      /\ LoaderGdt[3] = init_descriptor(753664, 2^16 - 1, DA_DRW + DA_DPL3)
  BY DEF LoaderGdt
<1>. QED
  BY <1>3, <1>4

LEMMA LdtAddress ==
  ASSUME NEW p \in Procs PROVE ldts(p) \in Nat /\ ldts(p) \div 2^24 < 2^8
<1>1. /\ proc_table \in Nat
      /\ (proc_table + N * SIZEOF_PROCESS - 1) \div 2^24 < 2^8
  BY AddressAssumption DEF Address
<1>2. ldts(p) \in Nat /\ ldts(p) =< proc_table + N * SIZEOF_PROCESS - 1
  BY <1>1, Sizes DEF ldts, SIZEOF_PROCESS, LDTS
<1>3. proc_table + N * SIZEOF_PROCESS - 1 \in Int
  BY <1>1, Sizes DEF SIZEOF_PROCESS
<1>4. \A a \in Nat, b \in Int : a =< b /\ b \div 2^24 < 2^8 => a \div 2^24 < 2^8
  OBVIOUS
<1>. QED
  BY <1>1, <1>2, <1>3, <1>4

\* The descriptor that a process' LDT selector names.
LEMMA OwnLdt ==
  ASSUME NEW p \in Procs
  PROVE  gdt[regs(p).ldt_sel \div 8]
           = init_descriptor(ldts(p), LDT_SIZE * SIZEOF_DESCRIPTOR - 1, DA_LDT)
<1>. DEFINE k == INDEX_LDT_FIRST + p
<1>1. regs(p).ldt_sel = SELECTOR_LDT_FIRST + 8 * p
  <2>1. p \in 0 .. N
    BY Sizes
  <2>. QED
    BY <2>1, Pointers DEF regs, Entry
<1>2. (SELECTOR_LDT_FIRST + 8 * p) \div 8 = k
  BY Sizes DEF SELECTOR_LDT_FIRST, INDEX_LDT_FIRST
<1>3. /\ k \in 1 .. INDEX_LDT_FIRST + N - 1 /\ k \notin 1 .. 3 /\ k # INDEX_TSS
      /\ k - INDEX_LDT_FIRST = p
  BY Sizes DEF INDEX_LDT_FIRST, INDEX_TSS
<1>4. DOMAIN LoaderGdt = 1 .. 3
  BY DEF LoaderGdt
<1>5. BaseOf(LoaderGdt[SELECTOR_KERNEL_DS \div 8]) = 0
  <2>1. SELECTOR_KERNEL_DS \div 8 = 2
    BY DEF SELECTOR_KERNEL_DS
  <2>2. LoaderGdt[2] = init_descriptor(0, 2^20 - 1, DA_DRW + DA_32 + DA_LIMIT_4K)
    BY DEF LoaderGdt
  <2>3. DA_DRW + DA_32 + DA_LIMIT_4K \in Nat
    BY DEF DA_DRW, DA_32, DA_LIMIT_4K
  <2>. QED
    BY <2>1, <2>2, <2>3, BaseRoundTrip
<1>6. vir2phys(0, ldts(p)) = ldts(p)
  BY LdtAddress DEF vir2phys
<1>7. gdt[k] = init_descriptor(vir2phys(0, ldts(k - INDEX_LDT_FIRST)),
                               LDT_SIZE * SIZEOF_DESCRIPTOR - 1, DA_LDT)
  <2>. HIDE DEF k
  <2>. QED
    BY <1>3, <1>4, <1>5 DEF gdt
<1>. QED
  BY <1>1, <1>2, <1>3, <1>6, <1>7

\* The LDT register of a process leads back to the two descriptors in its
\* entry of the process table.
THEOREM LdtIsOwn ==
  \A p \in Procs : BaseOf(gdt[regs(p).ldt_sel \div 8]) = ldts(p)
BY OwnLdt, LdtAddress, BaseRoundTrip DEF LDT_SIZE, SIZEOF_DESCRIPTOR, DA_LDT

-----------------------------------------------------------------------------
(* Privileges                                                              *)

LEMMA Privileges ==
  ASSUME NEW p \in Procs
  PROVE  /\ PRIVILEGE(p) \in {1, 3}
         /\ Rpl(regs(p).cs) = PRIVILEGE(p)
         /\ Rpl(regs(p).ss) = PRIVILEGE(p)
         /\ Rpl(regs(p).gs) = PRIVILEGE(p)
         /\ regs(p).gs \div 8 = 3
         /\ p < NR_TASKS => Iopl(regs(p).eflags) = 1
<1>. USE DEF regs, Entry, Rpl, SA_TIL, SELECTOR_KERNEL_GS
<1>1. PRIVILEGE(p) \in {1, 3}
  BY DEF PRIVILEGE
<1>2. regs(p).cs = 4 + PRIVILEGE(p) /\ regs(p).ss = 12 + PRIVILEGE(p)
      /\ regs(p).gs = 24 + PRIVILEGE(p)
  BY <1>1
<1>3. p < NR_TASKS => regs(p).eflags = 4610
  BY DEF eflags
<1>4. Iopl(4610) = 1
  BY DEF Iopl, Bits
<1>. HIDE DEF regs
<1>. QED
  BY <1>1, <1>2, <1>3, <1>4

\* What Type and Dpl read in the attribute bytes.
LEMMA Attributes ==
  /\ \A dpl \in {0, 1, 3} : \A type \in {DA_LDT, DA_C, DA_DRW} :
       Dpl(type + AtDpl(dpl)) = dpl /\ Type(type + AtDpl(dpl)) = type
  /\ Dpl(DA_386IGate + AtDpl(3)) = 3
<1>. USE DEF Dpl, Type, AtDpl, Bits, DA_LDT, DA_C, DA_DRW, DA_386IGate
<1>1. \A dpl \in {0, 1, 3} : \A type \in {130, 152, 146} :
        ((type + dpl * 32) \div 32) % 4 = dpl
  OBVIOUS
<1>. QED
  BY <1>1

\* The descriptors in the process' own LDT.
LEMMA OwnDescriptors ==
  ASSUME NEW p \in Procs
  PROVE  /\ regs(p).ldts[1].attr1 = DA_C + AtDpl(PRIVILEGE(p))
         /\ regs(p).ldts[2].attr1 = DA_DRW + AtDpl(PRIVILEGE(p))
<1>1. /\ SELECTOR_KERNEL_CS \div 8 = 1 /\ SELECTOR_KERNEL_DS \div 8 = 2
  BY DEF SELECTOR_KERNEL_CS, SELECTOR_KERNEL_DS
<1>2. "attr1" \in DOMAIN gdt[1] /\ "attr1" \in DOMAIN gdt[2]
  BY KernelDescriptors DEF init_descriptor
<1>3. regs(p).ldts = <<[gdt[1] EXCEPT !.attr1 = DA_C + AtDpl(PRIVILEGE(p))],
                       [gdt[2] EXCEPT !.attr1 = DA_DRW + AtDpl(PRIVILEGE(p))]>>
  BY <1>1 DEF regs, Entry
<1>. QED
  BY <1>2, <1>3
=============================================================================
