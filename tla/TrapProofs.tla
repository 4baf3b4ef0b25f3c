----------------------------- MODULE TrapProofs ------------------------------
(***************************************************************************)
(* The entries of the kernel, for every number of tasks and processes,     *)
(* every slice, every width of k_reenter above the nesting depth: what the *)
(* nesting counter says, whose registers and whose call the kernel works   *)
(* on, which lines are masked, whom schedule() chooses, and that none of   *)
(* it shows outside (module Dispatch).                                     *)
(*                                                                         *)
(* The invariant says for each frame of the stack what may lie below it,   *)
(* and splits a visit in two: before schedule() has begun in the outermost *)
(* frame p_proc_ready is the process that was interrupted, and afterwards  *)
(* it is the best of those the loop has looked at.                         *)
(***************************************************************************)
EXTENDS Trap, StartProofs, SequenceTheorems

Frame ==
  [nr : {NONE, CLOCK_IRQ, KEYBOARD_IRQ},
   fn : Calls \cup {"kernel_main", "clock_handler", "keyboard_handler"},
   at : {"entry", "body", "chain", "scan", "refill", "done"},
   ret : {"restart", "restart_reenter"},
   esi : Procs \cup {NONE}, caller : Procs \cup {NONE}, i : Procs, greatest : Nat]

\* Types, with those of the frames.
Typed ==
  /\ stack \in Seq(Frame)
  /\ irr \subseteq {CLOCK_IRQ, KEYBOARD_IRQ}
  /\ p_proc_ready \in Procs /\ ticks \in [Procs -> Nat] /\ blocked \subseteq Procs
  /\ cpu \in Procs \cup {KERNEL} /\ sp0 \in Procs \cup {NONE}
  /\ saved \in [Procs -> Procs]
  /\ tty \in {"new", "masked", "ready"}
  /\ halted \in {"no", "exception", "panic"} /\ raised \in Exceptions \cup {NONE}

\* What may lie where on the stack: the loop of schedule() and the calls of
\* processes only at the bottom, a print or the panic of the kernel on the
\* sendrec that found a circle, and anything but kernel_main under an interrupt.
Nested ==
  /\ k_reenter = Add(Len(stack), Word - 1)
  /\ Len(stack) =< Depth
  /\ \A n \in DOMAIN stack :
       /\ stack[n].ret = "restart" <=> n = 1
       /\ stack[n].nr = CLOCK_IRQ <=> stack[n].fn = "clock_handler"
       /\ stack[n].nr = KEYBOARD_IRQ <=> stack[n].fn = "keyboard_handler"
       /\ stack[n].fn = "kernel_main" => Len(stack) = 1 /\ stack[n].at = "done"
       /\ stack[n].fn \in Calls /\ n > 1 =>
            n = 2 /\ stack[n].fn \in {"print", "panic"} /\ stack[1].fn = "sendrec" /\ stack[1].at = "chain"
       /\ stack[n].at \in {"scan", "refill"} \/ stack[n].greatest > 0 =>
            n = 1 /\ stack[n].fn \in {"clock_handler", "sendrec"} /\ stack[n].at \in {"scan", "refill", "done"}
  /\ \A m, n \in DOMAIN stack : stack[m].nr = stack[n].nr /\ stack[n].nr # NONE => m = n

Masking ==
  /\ imr = (IRQs \ {CLOCK_IRQ, KEYBOARD_IRQ}) \cup Lines
             \cup (IF tty = "masked" THEN {KEYBOARD_IRQ} ELSE {})
  /\ tty = "masked" => KEYBOARD_IRQ \notin Lines

\* Whose registers are where.
Context ==
  /\ stack = <<>> =>
       /\ cpu = p_proc_ready /\ cpu \notin blocked
       /\ ldt = regs(cpu).ldt_sel
       /\ \A p \in Procs \ {cpu} : saved[p] = p
  /\ stack # <<>> => \A p \in Procs : saved[p] = p
  /\ stack = <<>> \/ stack[1].fn # "kernel_main" => cpu \in Procs /\ sp0 = cpu
  /\ \A n \in DOMAIN stack :
       /\ stack[n].esi = IF n = 1 THEN sp0 ELSE KERNEL
       /\ stack[n].fn \in Calls /\ stack[n].at # "entry" => stack[n].caller = cpu

\* Before schedule(), in its loops, and after it, in the outermost frame.
Unscheduled(f) == f.at \in {"entry", "body", "chain"} \/ (f.at = "done" /\ f.greatest = 0)
BestOf(S, t) ==
  /\ \A q \in S : ticks[q] =< t
  /\ t > 0 =>
       /\ p_proc_ready \in S
       /\ \A q \in S : q < p_proc_ready => ticks[q] < t
Choosing ==
  stack # <<>> =>
    LET f == stack[1] IN
    /\ Unscheduled(f) =>
         p_proc_ready \notin blocked /\ (f.fn # "kernel_main" => p_proc_ready = cpu)
    /\ f.at = "scan" => BestOf((0 .. f.i - 1) \ blocked, f.greatest)
    /\ f.at = "refill" => f.greatest = 0
    /\ f.at = "done" /\ f.greatest > 0 => BestOf(Procs \ blocked, f.greatest)

\* What the handler prints of an exception v.
Named(v) == [vec_no |-> v, eip |-> "eip", cs |-> "cs", eflags |-> "eflags",
             err_code |-> IF v \in WithCode THEN "code" ELSE "not printed"]
Reported == raised # NONE => shown = Named(raised)

IInv == Typed /\ Nested /\ Masking /\ Context /\ Choosing /\ Reported
-----------------------------------------------------------------------------
(* Operators                                                               *)

LEMMA FrontProperties ==
  ASSUME NEW S, NEW s \in Seq(S), s # <<>>
  PROVE  /\ Front(s) \in Seq(S) /\ Len(Front(s)) = Len(s) - 1
         /\ \A i \in 1 .. Len(s) - 1 : Front(s)[i] = s[i]
<1>1. Len(s) \in Nat /\ Len(s) > 0
  BY EmptySeq, LenProperties
<1>2. \A i \in 1 .. Len(s) - 1 : s[i] \in S
  BY <1>1, ElementOfSeq
<1>. DEFINE last == Len(s) - 1
<1>3. last \in Int /\ 1 \in Int /\ \A i \in 1 .. last : s[i] \in S
  BY <1>1, <1>2
<1>. HIDE DEF last
<1>4. /\ SubSeq(s, 1, last) \in Seq(S)
      /\ Len(SubSeq(s, 1, last)) = IF 1 <= last THEN last - 1 + 1 ELSE 0
      /\ \A i \in 1 .. last - 1 + 1 : SubSeq(s, 1, last)[i] = s[1 + i - 1]
  BY <1>3, SubSeqProperties
<1>5. Front(s) = SubSeq(s, 1, last)
  BY DEF Front, last
<1>. HIDE DEF Front
<1>6. \A i \in 1 .. last : Front(s)[i] = s[i]
  BY <1>3, <1>4, <1>5
<1>7. Len(Front(s)) = last
  <2>1. last \in Nat
    BY <1>1 DEF last
  <2>2. (IF 1 <= last THEN last - 1 + 1 ELSE 0) = last
    BY <2>1
  <2>. QED
    BY <1>4, <1>5, <2>2
<1>. QED
  BY <1>4, <1>5, <1>6, <1>7 DEF last

\* The lowest of the lines that wait is one of them.
LEMMA MinOfLines ==
  ASSUME NEW S \in SUBSET {CLOCK_IRQ, KEYBOARD_IRQ}, S # {}
  PROVE  Min(S) \in S
<1>. DEFINE Least(x) == x \in S /\ \A y \in S : x =< y
<1>1. \E x : Least(x)
  <2>1. CASE CLOCK_IRQ \in S
    <3>1. Least(CLOCK_IRQ)
      BY <2>1 DEF CLOCK_IRQ, KEYBOARD_IRQ
    <3>. QED
      BY <3>1
  <2>2. CASE CLOCK_IRQ \notin S
    <3>1. \A y \in S : y = KEYBOARD_IRQ
      BY <2>2
    <3>2. Least(KEYBOARD_IRQ)
      BY <3>1 DEF KEYBOARD_IRQ
    <3>. QED
      BY <3>2
  <2>. QED
    BY <2>1, <2>2
<1>2. Min(S) = CHOOSE x : Least(x)
  BY DEF Min
<1>. HIDE DEF Least
<1>3. Least(Min(S))
  BY <1>1, <1>2
<1>. QED
  BY <1>3 DEF Least

LEMMA MaxWithZero ==
  ASSUME NEW t \in Nat PROVE Max({0, t - 1}) \in Nat /\ Max({0, t - 1}) =< t
<1>. DEFINE Most(x) == x \in {0, t - 1} /\ \A y \in {0, t - 1} : x >= y
<1>1. \E x : Most(x)
  <2>1. CASE t = 0
    <3>1. Most(0)
      BY <2>1
    <3>. QED
      BY <3>1
  <2>2. CASE t # 0
    <3>1. Most(t - 1)
      BY <2>2
    <3>. QED
      BY <3>1
  <2>. QED
    BY <2>1, <2>2
<1>2. Max({0, t - 1}) = CHOOSE x : Most(x)
  BY DEF Max
<1>3. Most(Max({0, t - 1}))
  <2>. HIDE DEF Most
  <2>. QED
    BY <1>1, <1>2
<1>. QED
  BY <1>3

\* The counter tells the outermost frame from the others.
LEMMA Counter ==
  ASSUME NEW n \in 0 .. Depth
  PROVE  /\ Add(n, Word - 1) \in 0 .. Word - 1
         /\ Add(n, Word - 1) = 0 <=> n = 1
         /\ Add(Add(n, Word - 1), 1) = n
         /\ n > 0 => Dec(Add(n, Word - 1)) = Add(n - 1, Word - 1)
<1>1. Word \in Nat /\ Word > 4
  BY TrapAssumption DEF Depth
<1>2. (n + (Word - 1)) % Word = IF n = 0 THEN Word - 1 ELSE n - 1
  <2>1. CASE n = 0
    BY <1>1, <2>1
  <2>2. CASE n # 0
    <3>1. n - 1 \in 0 .. Word - 1 /\ n + (Word - 1) = (n - 1) + Word
      BY <1>1, <2>2 DEF Depth
    <3>2. ((n - 1) + Word) % Word = n - 1
      BY <1>1, <3>1
    <3>. QED
      BY <2>2, <3>1, <3>2
  <2>. QED
    BY <2>1, <2>2
<1>3. ((Word - 1) + 1) % Word = 0 /\ ((Word - 1) + (Word - 1)) % Word = Word - 2
  BY <1>1
<1>4. n > 0 => ((n - 1) + 1) % Word = n
  BY <1>1 DEF Depth
<1>5. n > 0 => ((n - 1) + (Word - 1)) % Word = Add(n - 1, Word - 1)
  BY DEF Add
<1>. QED
  BY <1>1, <1>2, <1>3, <1>4, <1>5 DEF Add, Dec, Depth
-----------------------------------------------------------------------------
(* The stack                                                               *)

LEMMA StackElements ==
  ASSUME stack \in Seq(Frame)
  PROVE  /\ Len(stack) \in Nat /\ DOMAIN stack = 1 .. Len(stack)
         /\ \A n \in 1 .. Len(stack) : stack[n] \in Frame
         /\ stack # <<>> => Len(stack) > 0 /\ Top = stack[Len(stack)] /\ Top \in Frame
         /\ stack = <<>> => Len(stack) = 0
BY LenProperties, EmptySeq, ElementOfSeq DEF Top

\* Replacing the innermost frame leaves the others.
LEMMA GotoStack ==
  ASSUME stack \in Seq(Frame), stack # <<>>, NEW f \in Frame, Goto(f)
  PROVE  /\ stack' \in Seq(Frame) /\ stack' # <<>>
         /\ Len(stack') = Len(stack) /\ DOMAIN stack' = 1 .. Len(stack)
         /\ stack'[Len(stack)] = f
         /\ \A n \in 1 .. Len(stack) - 1 : stack'[n] = stack[n]
<1>1. stack' = [stack EXCEPT ![Len(stack)] = f]
  BY DEF Goto
<1>2. Len(stack) \in Nat /\ Len(stack) > 0 /\ DOMAIN stack = 1 .. Len(stack)
  BY StackElements
<1>3. /\ stack' \in Seq(Frame) /\ Len(stack') = Len(stack)
      /\ \A n \in 1 .. Len(stack) : stack'[n] = IF n = Len(stack) THEN f ELSE stack[n]
  BY <1>1, <1>2, ExceptSeq
<1>4. DOMAIN stack' = 1 .. Len(stack) /\ stack' # <<>>
  BY <1>2, <1>3, LenProperties, EmptySeq
<1>5. Len(stack) \in 1 .. Len(stack) /\ \A n \in 1 .. Len(stack) - 1 : n \in 1 .. Len(stack) /\ n # Len(stack)
  <2>1. \A m \in Nat : m > 0 =>
          m \in 1 .. m /\ \A n \in 1 .. m - 1 : n \in 1 .. m /\ n # m
    OBVIOUS
  <2>. QED
    BY <1>2, <2>1
<1>6. stack'[Len(stack)] = f
  BY <1>3, <1>5
<1>7. \A n \in 1 .. Len(stack) - 1 : stack'[n] = stack[n]
  BY <1>3, <1>5
<1>. QED
  BY <1>3, <1>4, <1>6, <1>7

\* save() puts a frame on top.
Saved(nr, fn) ==
  [nr |-> nr, fn |-> fn, at |-> "entry",
   ret |-> IF stack = <<>> THEN "restart" ELSE "restart_reenter",
   esi |-> IF stack = <<>> THEN sp0 ELSE KERNEL,
   caller |-> NONE, i |-> 0, greatest |-> 0]
LEMMA SaveStack ==
  ASSUME stack \in Seq(Frame), k_reenter = Add(Len(stack), Word - 1), Len(stack) < Depth,
         sp0 \in Procs \cup {NONE},
         NEW nr \in {NONE, CLOCK_IRQ, KEYBOARD_IRQ},
         NEW fn \in Calls \cup {"clock_handler", "keyboard_handler"},
         save(nr, fn)
  PROVE  /\ k_reenter' = Add(Len(stack'), Word - 1)
         /\ stack' \in Seq(Frame) /\ stack' # <<>>
         /\ Len(stack') = Len(stack) + 1 /\ DOMAIN stack' = 1 .. Len(stack) + 1
         /\ stack'[Len(stack) + 1] = Saved(nr, fn)
         /\ \A n \in 1 .. Len(stack) : stack'[n] = stack[n]
<1>1. Len(stack) \in Nat /\ Len(stack) \in 0 .. Depth /\ (stack = <<>> <=> Len(stack) = 0)
      /\ Len(stack) + 1 \in 0 .. Depth
  BY StackElements, EmptySeq DEF Depth
<1>2. Add(k_reenter, 1) = Len(stack)
  BY <1>1, Counter
<1>3. k_reenter' = Len(stack) /\ Add(Len(stack) + 1, Word - 1) = Len(stack)
  <2>1. k_reenter' = Len(stack)
    BY <1>2 DEF save
  <2>2. (Len(stack) + (Word - 1) + 1) % Word = Len(stack)
    BY <1>1, TrapAssumption DEF Depth
  <2>. QED
    BY <1>1, <2>1, <2>2, TrapAssumption DEF Add
<1>4. Saved(nr, fn) \in Frame
  <2>1. 0 \in Procs
    BY Sizes
  <2>. QED
    BY <2>1 DEF Saved, Frame, KERNEL, NONE
<1>5. stack' = IF stack = <<>> THEN <<Saved(nr, fn)>> ELSE Append(stack, Saved(nr, fn))
  BY <1>1, <1>2 DEF save, Saved, IsOutermost
<1>6. stack' = Append(stack, Saved(nr, fn))
  BY <1>5
<1>. HIDE DEF Saved
<1>7. /\ stack' \in Seq(Frame) /\ Len(stack') = Len(stack) + 1
      /\ stack'[Len(stack) + 1] = Saved(nr, fn)
      /\ \A n \in 1 .. Len(stack) : stack'[n] = stack[n]
  BY <1>4, <1>6, AppendProperties
<1>. QED
  BY <1>1, <1>3, <1>7, LenProperties, EmptySeq

\* The innermost frame is left.
LEMMA PopStack ==
  ASSUME stack \in Seq(Frame), stack # <<>>, stack' = Front(stack)
  PROVE  /\ stack' \in Seq(Frame)
         /\ Len(stack') = Len(stack) - 1 /\ DOMAIN stack' = 1 .. Len(stack) - 1
         /\ \A n \in 1 .. Len(stack) - 1 : stack'[n] = stack[n]
BY FrontProperties, LenProperties, StackElements
-----------------------------------------------------------------------------
(* Nesting and lines                                                       *)

\* What a frame says, given the frames under it.
LEMMA NestedFrame ==
  ASSUME Typed, Nested, NEW n \in 1 .. Len(stack)
  PROVE  /\ stack[n] \in Frame
         /\ stack[n].ret = "restart" <=> n = 1
         /\ stack[n].nr = CLOCK_IRQ <=> stack[n].fn = "clock_handler"
         /\ stack[n].nr = KEYBOARD_IRQ <=> stack[n].fn = "keyboard_handler"
         /\ stack[n].fn = "kernel_main" => Len(stack) = 1 /\ stack[n].at = "done"
         /\ stack[n].fn \in Calls /\ n > 1 =>
              n = 2 /\ stack[n].fn \in {"print", "panic"} /\ stack[1].fn = "sendrec" /\ stack[1].at = "chain"
         /\ stack[n].at \in {"scan", "refill"} \/ stack[n].greatest > 0 =>
              n = 1 /\ stack[n].fn \in {"clock_handler", "sendrec"} /\ stack[n].at \in {"scan", "refill", "done"}
         /\ \A m \in 1 .. Len(stack) : stack[m].nr = stack[n].nr /\ stack[n].nr # NONE => m = n
<1>1. DOMAIN stack = 1 .. Len(stack) /\ stack[n] \in Frame
  BY StackElements DEF Typed
<1>. QED
  BY <1>1 DEF Nested

LEMMA LinesOf ==
  ASSUME stack \in Seq(Frame)
  PROVE  \A irq \in {CLOCK_IRQ, KEYBOARD_IRQ} :
           irq \in Lines <=> \E n \in 1 .. Len(stack) : stack[n].nr = irq
BY StackElements DEF Lines, NONE, CLOCK_IRQ, KEYBOARD_IRQ

LEMMA LinesType ==
  ASSUME stack \in Seq(Frame)
  PROVE  Lines \subseteq {CLOCK_IRQ, KEYBOARD_IRQ}
<1>1. \A n \in DOMAIN stack : stack[n].nr \in {NONE, CLOCK_IRQ, KEYBOARD_IRQ}
  BY StackElements DEF Frame
<1>. QED
  BY <1>1 DEF Lines

\* The innermost frame gets on: it stays what it is.
LEMMA NestedGoto ==
  ASSUME Typed, Nested, stack # <<>>, NEW f \in Frame, Goto(f), k_reenter' = k_reenter,
         f.nr = Top.nr, f.fn = Top.fn, f.ret = Top.ret,
         f.fn = "kernel_main" => f.at = "done",
         f.at \in {"scan", "refill"} \/ f.greatest > 0 =>
           Len(stack) = 1 /\ f.fn \in {"clock_handler", "sendrec"} /\ f.at \in {"scan", "refill", "done"}
  PROVE  Nested' /\ Lines' = Lines
<1>. DEFINE L == Len(stack)
<1>1. /\ stack \in Seq(Frame) /\ L \in Nat /\ L > 0 /\ Top = stack[L]
      /\ DOMAIN stack = 1 .. L /\ L \in 1 .. L
  BY StackElements DEF Typed
<1>2. /\ stack' \in Seq(Frame) /\ Len(stack') = L /\ DOMAIN stack' = 1 .. L
      /\ stack'[L] = f /\ \A n \in 1 .. L - 1 : stack'[n] = stack[n]
  BY <1>1, GotoStack
<1>. HIDE DEF L
<1>3. \A n \in 1 .. L : stack'[n].nr = stack[n].nr /\ stack'[n].fn = stack[n].fn
                        /\ stack'[n].ret = stack[n].ret
  BY <1>1, <1>2
<1>4. Lines' = Lines
  BY <1>1, <1>2, <1>3 DEF Lines
<1>5. k_reenter' = Add(Len(stack'), Word - 1) /\ Len(stack') =< Depth
  BY <1>2 DEF Nested, L
<1>6. \A m, n \in 1 .. L : stack'[m].nr = stack'[n].nr /\ stack'[n].nr # NONE => m = n
  BY <1>1, <1>3 DEF Nested
<1>7. ASSUME NEW n \in 1 .. L
      PROVE  /\ stack'[n].ret = "restart" <=> n = 1
             /\ stack'[n].nr = CLOCK_IRQ <=> stack'[n].fn = "clock_handler"
             /\ stack'[n].nr = KEYBOARD_IRQ <=> stack'[n].fn = "keyboard_handler"
             /\ stack'[n].fn = "kernel_main" => L = 1 /\ stack'[n].at = "done"
             /\ stack'[n].fn \in Calls /\ n > 1 =>
                  n = 2 /\ stack'[n].fn \in {"print", "panic"} /\ stack'[1].fn = "sendrec" /\ stack'[1].at = "chain"
             /\ stack'[n].at \in {"scan", "refill"} \/ stack'[n].greatest > 0 =>
                  n = 1 /\ stack'[n].fn \in {"clock_handler", "sendrec"} /\ stack'[n].at \in {"scan", "refill", "done"}
  <2>1. /\ stack[n].ret = "restart" <=> n = 1
        /\ stack[n].nr = CLOCK_IRQ <=> stack[n].fn = "clock_handler"
        /\ stack[n].nr = KEYBOARD_IRQ <=> stack[n].fn = "keyboard_handler"
        /\ stack[n].fn = "kernel_main" => L = 1 /\ stack[n].at = "done"
        /\ stack[n].fn \in Calls /\ n > 1 =>
             n = 2 /\ stack[n].fn \in {"print", "panic"} /\ stack[1].fn = "sendrec" /\ stack[1].at = "chain"
        /\ stack[n].at \in {"scan", "refill"} \/ stack[n].greatest > 0 =>
             n = 1 /\ stack[n].fn \in {"clock_handler", "sendrec"} /\ stack[n].at \in {"scan", "refill", "done"}
    BY NestedFrame DEF L
  <2>2. n > 1 => stack'[1] = stack[1]
    BY <1>1, <1>2
  <2>3. stack'[n].fn = "kernel_main" => stack'[n].at = "done"
    BY <1>1, <1>2, <2>1
  <2>4. stack'[n].at \in {"scan", "refill"} \/ stack'[n].greatest > 0 =>
             n = 1 /\ stack'[n].fn \in {"clock_handler", "sendrec"} /\ stack'[n].at \in {"scan", "refill", "done"}
    <3>1. CASE n = L
      BY <1>2, <3>1 DEF L
    <3>2. CASE n # L
      BY <1>1, <1>2, <2>1, <3>2
    <3>. QED
      BY <3>1, <3>2
  <2>. QED
    BY <1>3, <2>1, <2>2, <2>3, <2>4
<1>. QED
  BY <1>2, <1>4, <1>5, <1>6, <1>7 DEF Nested

\* A frame is put on top.
LEMMA NestedSave ==
  ASSUME Typed, Nested,
         NEW nr \in {NONE, CLOCK_IRQ, KEYBOARD_IRQ},
         NEW fn \in Calls \cup {"clock_handler", "keyboard_handler"},
         save(nr, fn), Len(stack) < Depth,
         nr = CLOCK_IRQ <=> fn = "clock_handler",
         nr = KEYBOARD_IRQ <=> fn = "keyboard_handler",
         nr \notin Lines,
         fn \in Calls => \/ stack = <<>>
                         \/ /\ Len(stack) = 1 /\ fn \in {"print", "panic"}
                            /\ stack[1].fn = "sendrec" /\ stack[1].at = "chain",
         stack # <<>> => stack[1].fn # "kernel_main"
  PROVE  Nested' /\ Lines' = Lines \cup ({nr} \ {NONE})
<1>. DEFINE L == Len(stack)
<1>1. stack \in Seq(Frame) /\ L \in Nat /\ DOMAIN stack = 1 .. L /\ (stack = <<>> <=> L = 0)
  BY StackElements, EmptySeq DEF Typed
<1>2. /\ k_reenter' = Add(Len(stack'), Word - 1)
      /\ stack' \in Seq(Frame)
      /\ Len(stack') = L + 1 /\ DOMAIN stack' = 1 .. L + 1
      /\ stack'[L + 1] = Saved(nr, fn)
      /\ \A n \in 1 .. L : stack'[n] = stack[n]
  BY SaveStack DEF Typed, Nested
<1>3. /\ Saved(nr, fn).nr = nr /\ Saved(nr, fn).fn = fn /\ Saved(nr, fn).at = "entry"
      /\ Saved(nr, fn).greatest = 0
      /\ Saved(nr, fn).ret = "restart" <=> stack = <<>>
  BY DEF Saved
<1>4. /\ 1 .. L + 1 = 1 .. L \cup {L + 1} /\ L + 1 \notin 1 .. L /\ L + 1 =< Depth
      /\ fn # "kernel_main"
  BY <1>1 DEF Depth, Calls
<1>5. \A n \in 1 .. L : stack[n].fn # "kernel_main"
  BY <1>1, NestedFrame
<1>. HIDE DEF L, Saved
<1>6. Lines' = Lines \cup ({nr} \ {NONE})
  <2>1. {stack'[n].nr : n \in DOMAIN stack'} = {stack[n].nr : n \in DOMAIN stack} \cup {nr}
    BY <1>1, <1>2, <1>3, <1>4
  <2>. QED
    BY <2>1 DEF Lines
<1>7. \A m, n \in 1 .. L + 1 : stack'[m].nr = stack'[n].nr /\ stack'[n].nr # NONE => m = n
  <2>1. \A n \in 1 .. L : nr # NONE => stack[n].nr # nr
    BY <1>1 DEF Lines
  <2>2. \A m, n \in 1 .. L : stack[m].nr = stack[n].nr /\ stack[n].nr # NONE => m = n
    BY <1>1 DEF Nested
  <2>. QED
    BY <1>2, <1>3, <1>4, <2>1, <2>2
<1>8. ASSUME NEW n \in 1 .. L + 1
      PROVE  /\ stack'[n].ret = "restart" <=> n = 1
             /\ stack'[n].nr = CLOCK_IRQ <=> stack'[n].fn = "clock_handler"
             /\ stack'[n].nr = KEYBOARD_IRQ <=> stack'[n].fn = "keyboard_handler"
             /\ stack'[n].fn # "kernel_main"
             /\ stack'[n].fn \in Calls /\ n > 1 =>
                  n = 2 /\ stack'[n].fn \in {"print", "panic"} /\ stack'[1].fn = "sendrec" /\ stack'[1].at = "chain"
             /\ stack'[n].at \in {"scan", "refill"} \/ stack'[n].greatest > 0 =>
                  n = 1 /\ stack'[n].fn \in {"clock_handler", "sendrec"} /\ stack'[n].at \in {"scan", "refill", "done"}
  <2>1. CASE n \in 1 .. L
    <3>1. 1 \in 1 .. L /\ n \in 1 .. Len(stack)
      BY <1>1, <2>1 DEF L
    <3>2. stack'[n] = stack[n] /\ stack'[1] = stack[1]
      BY <1>2, <2>1, <3>1
    <3>. QED
      BY <1>5, <2>1, <3>1, <3>2, NestedFrame
  <2>2. CASE n = L + 1
    <3>1. n = 1 <=> stack = <<>>
      BY <1>1, <2>2
    <3>2. stack'[n] = Saved(nr, fn)
      BY <1>2, <2>2
    <3>3. fn \in Calls /\ n > 1 =>
                  n = 2 /\ fn \in {"print", "panic"} /\ stack'[1].fn = "sendrec" /\ stack'[1].at = "chain"
      <4>1. fn \in Calls /\ n > 1 => L = 1
        BY <1>1, <2>2, <3>1 DEF L
      <4>2. L = 1 => stack'[1] = stack[1] /\ n = 2
        BY <1>2, <2>2
      <4>. QED
        BY <3>1, <4>1, <4>2
    <3>. QED
      BY <1>3, <1>4, <3>1, <3>2, <3>3
  <2>. QED
    BY <1>4, <2>1, <2>2
<1>. QED
  BY <1>2, <1>4, <1>6, <1>7, <1>8 DEF Nested

\* The innermost frame is left.
LEMMA NestedPop ==
  ASSUME Typed, Nested, stack # <<>>, stack' = Front(stack), k_reenter' = Dec(k_reenter)
  PROVE  Nested' /\ Lines' = Lines \ {Top.nr}
<1>. DEFINE L == Len(stack)
<1>1. /\ stack \in Seq(Frame) /\ L \in Nat /\ L > 0 /\ Top = stack[L]
      /\ DOMAIN stack = 1 .. L
  BY StackElements DEF Typed
<1>2. /\ stack' \in Seq(Frame)
      /\ Len(stack') = L - 1 /\ DOMAIN stack' = 1 .. L - 1
      /\ \A n \in 1 .. L - 1 : stack'[n] = stack[n]
  BY <1>1, PopStack
<1>3. k_reenter = Add(L, Word - 1) /\ L \in 0 .. Depth
  BY <1>1 DEF Nested
<1>4. k_reenter' = Add(Len(stack'), Word - 1)
  BY <1>1, <1>2, <1>3, Counter
<1>. HIDE DEF L
<1>5. 1 .. L = 1 .. L - 1 \cup {L} /\ L \notin 1 .. L - 1 /\ L - 1 =< Depth
  BY <1>1, <1>3 DEF Depth
<1>6. \A m, n \in 1 .. L : stack[m].nr = stack[n].nr /\ stack[n].nr # NONE => m = n
  BY <1>1 DEF Nested
<1>7. Lines' = Lines \ {Top.nr}
  <2>1. \A n \in 1 .. L - 1 : stack[n].nr # NONE => stack[n].nr # Top.nr
    BY <1>1, <1>5, <1>6
  <2>2. {stack'[n].nr : n \in DOMAIN stack'} = {stack[n].nr : n \in 1 .. L - 1}
    BY <1>2
  <2>3. {stack[n].nr : n \in DOMAIN stack} = {stack[n].nr : n \in 1 .. L - 1} \cup {Top.nr}
    BY <1>1, <1>5
  <2>4. {stack[n].nr : n \in 1 .. L - 1} \ {NONE}
          = ({stack[n].nr : n \in 1 .. L - 1} \cup {Top.nr}) \ {NONE, Top.nr}
    BY <2>1
  <2>. QED
    BY <2>2, <2>3, <2>4 DEF Lines
<1>8. ASSUME NEW n \in 1 .. L - 1
      PROVE  /\ stack'[n] = stack[n] /\ stack'[1] = stack[1] /\ n \in 1 .. Len(stack)
             /\ stack[n].fn # "kernel_main"
  <2>1. n \in 1 .. L /\ 1 \in 1 .. L - 1 /\ L # 1
    BY <1>1
  <2>. QED
    BY <1>2, <2>1, NestedFrame DEF L
<1>. QED
  <2>1. \A n \in 1 .. L - 1 :
          /\ stack'[n].ret = "restart" <=> n = 1
          /\ stack'[n].nr = CLOCK_IRQ <=> stack'[n].fn = "clock_handler"
          /\ stack'[n].nr = KEYBOARD_IRQ <=> stack'[n].fn = "keyboard_handler"
          /\ stack'[n].fn # "kernel_main"
          /\ stack'[n].fn \in Calls /\ n > 1 =>
               n = 2 /\ stack'[n].fn \in {"print", "panic"} /\ stack'[1].fn = "sendrec" /\ stack'[1].at = "chain"
          /\ stack'[n].at \in {"scan", "refill"} \/ stack'[n].greatest > 0 =>
               n = 1 /\ stack'[n].fn \in {"clock_handler", "sendrec"} /\ stack'[n].at \in {"scan", "refill", "done"}
    BY <1>8, NestedFrame
  <2>2. \A m, n \in 1 .. L - 1 : stack'[m].nr = stack'[n].nr /\ stack'[n].nr # NONE => m = n
    BY <1>5, <1>6, <1>8
  <2>. QED
    BY <1>2, <1>4, <1>5, <1>7, <2>1, <2>2 DEF Nested
-----------------------------------------------------------------------------
(* Registers and the choice                                                *)

LEMMA ContextGoto ==
  ASSUME Typed, Context, stack # <<>>, NEW f \in Frame, Goto(f), UNCHANGED user,
         f.esi = Top.esi, f.fn = Top.fn,
         f.fn \in Calls /\ f.at # "entry" => f.caller = cpu
  PROVE  Context'
<1>. DEFINE L == Len(stack)
<1>1. /\ stack \in Seq(Frame) /\ L \in Nat /\ L > 0 /\ Top = stack[L]
      /\ DOMAIN stack = 1 .. L
  BY StackElements DEF Typed
<1>2. /\ stack' \in Seq(Frame) /\ stack' # <<>> /\ DOMAIN stack' = 1 .. L
      /\ stack'[L] = f /\ \A n \in 1 .. L - 1 : stack'[n] = stack[n]
  BY <1>1, GotoStack
<1>. HIDE DEF L
<1>3. \A n \in 1 .. L : n = L \/ n \in 1 .. L - 1
  BY <1>1
<1>4. stack'[1].fn = stack[1].fn
  BY <1>1, <1>2
<1>5. cpu' = cpu /\ sp0' = sp0 /\ ldt' = ldt /\ saved' = saved
  BY DEF user
<1>6. \A n \in 1 .. L : /\ stack'[n].esi = IF n = 1 THEN sp0 ELSE KERNEL
                        /\ stack'[n].fn \in Calls /\ stack'[n].at # "entry" => stack'[n].caller = cpu
  <2>. SUFFICES ASSUME NEW n \in 1 .. L
                PROVE  /\ stack'[n].esi = IF n = 1 THEN sp0 ELSE KERNEL
                       /\ stack'[n].fn \in Calls /\ stack'[n].at # "entry" => stack'[n].caller = cpu
    OBVIOUS
  <2>1. stack[n].esi = IF n = 1 THEN sp0 ELSE KERNEL
    BY <1>1 DEF Context
  <2>2. CASE n = L
    BY <1>1, <1>2, <2>1, <2>2
  <2>3. CASE n # L
    BY <1>1, <1>2, <1>3, <2>1, <2>3 DEF Context
  <2>. QED
    BY <2>2, <2>3
<1>. QED
  BY <1>2, <1>4, <1>5, <1>6 DEF Context

LEMMA ContextSave ==
  ASSUME Typed, Nested, Context, Len(stack) < Depth,
         NEW nr \in {NONE, CLOCK_IRQ, KEYBOARD_IRQ},
         NEW fn \in Calls \cup {"clock_handler", "keyboard_handler"},
         save(nr, fn), UNCHANGED <<cpu, sp0, ldt>>,
         stack # <<>> => stack[1].fn # "kernel_main"
  PROVE  Context' /\ saved' \in [Procs -> Procs]
<1>. DEFINE L == Len(stack)
<1>1. stack \in Seq(Frame) /\ L \in Nat /\ DOMAIN stack = 1 .. L /\ (stack = <<>> <=> L = 0)
  BY StackElements, EmptySeq DEF Typed
<1>2. /\ stack' \in Seq(Frame) /\ stack' # <<>>
      /\ DOMAIN stack' = 1 .. L + 1
      /\ stack'[L + 1] = Saved(nr, fn)
      /\ \A n \in 1 .. L : stack'[n] = stack[n]
  BY SaveStack DEF Typed, Nested
<1>3. /\ Saved(nr, fn).fn = fn /\ Saved(nr, fn).at = "entry"
      /\ Saved(nr, fn).esi = IF stack = <<>> THEN sp0 ELSE KERNEL
  BY DEF Saved
<1>4. cpu \in Procs /\ sp0 = cpu
  BY DEF Context
<1>5. saved' \in [Procs -> Procs] /\ \A p \in Procs : saved'[p] = p
  <2>1. CASE stack = <<>>
    <3>1. saved' = [saved EXCEPT ![sp0] = cpu]
      BY <2>1 DEF save
    <3>. QED
      BY <1>4, <2>1, <3>1 DEF Context, Typed
  <2>2. CASE stack # <<>>
    BY <2>2 DEF save, Context, Typed
  <2>. QED
    BY <2>1, <2>2
<1>. HIDE DEF L, Saved
<1>6. \A n \in 1 .. L + 1 :
        /\ stack'[n].esi = IF n = 1 THEN sp0 ELSE KERNEL
        /\ stack'[n].fn \in Calls /\ stack'[n].at # "entry" => stack'[n].caller = cpu
  <2>. SUFFICES ASSUME NEW n \in 1 .. L + 1
                PROVE  /\ stack'[n].esi = IF n = 1 THEN sp0 ELSE KERNEL
                       /\ stack'[n].fn \in Calls /\ stack'[n].at # "entry" => stack'[n].caller = cpu
    OBVIOUS
  <2>1. CASE n \in 1 .. L
    BY <1>1, <1>2, <2>1 DEF Context
  <2>2. CASE n = L + 1
    BY <1>1, <1>2, <1>3, <2>2
  <2>. QED
    BY <1>1, <2>1, <2>2
<1>. QED
  BY <1>2, <1>4, <1>5, <1>6 DEF Context

\* A frame that is not the outermost leaves without a trace.
LEMMA ContextPop ==
  ASSUME Typed, Context, Len(stack) > 1, stack' = Front(stack), UNCHANGED user
  PROVE  Context' /\ stack' # <<>> /\ stack'[1] = stack[1]
<1>. DEFINE L == Len(stack)
<1>1. stack \in Seq(Frame) /\ L \in Nat /\ DOMAIN stack = 1 .. L /\ stack # <<>>
  BY StackElements, EmptySeq DEF Typed
<1>2. /\ stack' \in Seq(Frame) /\ Len(stack') = L - 1 /\ DOMAIN stack' = 1 .. L - 1
      /\ \A n \in 1 .. L - 1 : stack'[n] = stack[n]
  BY <1>1, PopStack
<1>3. L > 1
  OBVIOUS
<1>. HIDE DEF L
<1>4. stack' # <<>>
  BY <1>1, <1>2, <1>3, EmptySeq
<1>5. \A n \in 1 .. L - 1 : n \in 1 .. L
  BY <1>1
<1>6. 1 \in 1 .. L - 1
  BY <1>1, <1>3
<1>7. stack'[1] = stack[1]
  BY <1>2, <1>6
<1>. QED
  BY <1>1, <1>2, <1>4, <1>5, <1>7 DEF Context, user

\* While the outermost frame waits and no slice grows, the choice stands.
LEMMA ChoosingStands ==
  ASSUME Typed, Choosing, stack # <<>>, stack' # <<>>, stack'[1] = stack[1],
         UNCHANGED <<p_proc_ready, blocked, cpu>>,
         ticks' \in [Procs -> Nat], \A p \in Procs : ticks'[p] =< ticks[p]
  PROVE  Choosing'
<1>1. 1 \in DOMAIN stack /\ stack[1] \in Frame
  BY StackElements DEF Typed
<1>2. stack[1].i \in Procs /\ stack[1].greatest \in Nat
  BY <1>1 DEF Frame
<1>3. ASSUME NEW S \in SUBSET Procs, NEW t \in Nat, BestOf(S, t) PROVE BestOf(S, t)'
  <2>1. \A q \in S : ticks'[q] \in Nat /\ ticks[q] \in Nat /\ ticks'[q] =< ticks[q]
    BY DEF Typed
  <2>. QED
    BY <1>3, <2>1 DEF BestOf
<1>4. (0 .. stack[1].i - 1) \ blocked \in SUBSET Procs /\ Procs \ blocked \in SUBSET Procs
  BY <1>2, Sizes
<1>. QED
  BY <1>2, <1>3, <1>4 DEF Choosing, Unscheduled

-----------------------------------------------------------------------------
(* What the tables allow                                                   *)

LEMMA CallsAllowed == ASSUME cpu \in Procs PROVE Allowed
<1>1. idt[144].attr = DA_386IGate + AtDpl(3)
  <2>1. 144 \in Exceptions \cup 32 .. 47 \cup {144} /\ GateDpl(144) = 3
    BY DEF GateDpl
  <2>. QED
    BY <2>1 DEF idt, Exceptions
<1>2. Dpl(idt[144].attr) = 3
  BY <1>1, Attributes
<1>3. Cpl \in {1, 3}
  BY Privileges DEF Cpl
<1>. QED
  BY <1>2, <1>3 DEF Allowed, INT_VECTOR_SYS_CALL

LEMMA TtyTouchesPorts == ASSUME cpu = TASK_TTY PROVE MayTouchPorts
<1>1. cpu \in Procs /\ cpu < NR_TASKS
  BY Sizes DEF TASK_TTY
<1>2. PRIVILEGE(cpu) = 1
  BY <1>1 DEF PRIVILEGE
<1>. QED
  BY <1>1, <1>2, Privileges DEF MayTouchPorts, Cpl

LEMMA AllLoadable == ASSUME NEW p \in Procs PROVE Loadable(p)
<1>1. PRIVILEGE(p) \in {1, 3} /\ regs(p).gs \div 8 = 3
      /\ Rpl(regs(p).cs) = PRIVILEGE(p) /\ Rpl(regs(p).ss) = PRIVILEGE(p)
      /\ Rpl(regs(p).gs) = PRIVILEGE(p)
  BY Privileges
<1>2. /\ Type(regs(p).ldts[1].attr1) = DA_C /\ Dpl(regs(p).ldts[1].attr1) = PRIVILEGE(p)
      /\ Type(regs(p).ldts[2].attr1) = DA_DRW /\ Dpl(regs(p).ldts[2].attr1) = PRIVILEGE(p)
  BY <1>1, OwnDescriptors, Attributes
<1>3. Type(Table(regs(p).gs).attr1) = DA_DRW /\ Dpl(Table(regs(p).gs).attr1) = 3
  <2>1. Table(regs(p).gs) = init_descriptor(753664, 2^16 - 1, DA_DRW + DA_DPL3)
    BY <1>1, KernelDescriptors DEF Table
  <2>2. Table(regs(p).gs).attr1 = DA_DRW + AtDpl(3)
    BY <2>1 DEF init_descriptor, Bits, DA_DRW, DA_DPL3, AtDpl
  <2>. QED
    BY <2>2, Attributes
<1>4. /\ Table(regs(p).ldt_sel).attr1 = Bits(DA_LDT, 0, 8)
      /\ Limit(Table(regs(p).ldt_sel)) = Bits(15, 0, 16) + 2^16 * Bits(Bits(15, 16, 4) + 16 * Bits(DA_LDT, 12, 4), 0, 4)
  <2>. DEFINE own == init_descriptor(ldts(p), LDT_SIZE * SIZEOF_DESCRIPTOR - 1, DA_LDT)
  <2>1. Table(regs(p).ldt_sel) = own
    BY OwnLdt DEF Table
  <2>2. LDT_SIZE * SIZEOF_DESCRIPTOR - 1 = 15
    BY DEF LDT_SIZE, SIZEOF_DESCRIPTOR
  <2>3. /\ own.attr1 = Bits(DA_LDT, 0, 8) /\ own.limit_low = Bits(15, 0, 16)
        /\ own.limit_high_attr2 = Bits(15, 16, 4) + 16 * Bits(DA_LDT, 12, 4)
    BY <2>2 DEF init_descriptor
  <2>. HIDE DEF own
  <2>. QED
    BY <2>1, <2>3 DEF Limit
<1>5. Type(Table(regs(p).ldt_sel).attr1) = DA_LDT
  <2>1. Bits(DA_LDT, 0, 8) = DA_LDT + AtDpl(0)
    BY DEF Bits, DA_LDT, AtDpl
  <2>. QED
    BY <1>4, <2>1, Attributes
<1>6. Limit(Table(regs(p).ldt_sel)) + 1 >= LDT_SIZE * SIZEOF_DESCRIPTOR
  <2>1. Bits(15, 0, 16) = 15 /\ Bits(Bits(15, 16, 4) + 16 * Bits(DA_LDT, 12, 4), 0, 4) = 0
    BY DEF Bits, DA_LDT
  <2>2. LDT_SIZE * SIZEOF_DESCRIPTOR = 16
    BY DEF LDT_SIZE, SIZEOF_DESCRIPTOR
  <2>. QED
    BY <1>4, <2>1, <2>2
<1>. QED
  BY <1>1, <1>2, <1>3, <1>5, <1>6 DEF Loadable

\* Every exception has the gate of its own stub, which pushes its vector, and
\* a placeholder exactly if the processor pushes no code.
LEMMA OwnStub ==
  ASSUME NEW v \in Exceptions
  PROVE  /\ VectorPushed[idt[v].handler] = v
         /\ idt[v].handler \in PushNoCode <=> v \notin WithCode
<1>1. v \in Exceptions \cup 32 .. 47 \cup {144} /\ v \notin 32 .. 47 /\ v # 144 /\ v \in 0 .. 16
  BY DEF Exceptions
<1>2. idt[v].handler = IF v = 16 THEN "copr_error" ELSE Routines[v + 1]
  BY <1>1 DEF idt
<1>3. v \in {0, 1, 2, 3, 4, 5, 6, 7} \/ v \in {8, 9, 10, 11, 12, 13, 14, 16}
  BY DEF Exceptions
<1>4. CASE v \in {0, 1, 2, 3, 4, 5, 6, 7}
  BY <1>2, <1>4 DEF Routines, VectorPushed, PushNoCode, WithCode
<1>5. CASE v \in {8, 9, 10, 11, 12, 13, 14, 16}
  BY <1>2, <1>5 DEF Routines, VectorPushed, PushNoCode, WithCode
<1>. QED
  BY <1>3, <1>4, <1>5

\* What exception_handler finds on the stack.
LEMMA ShownArguments ==
  ASSUME NEW v \in Exceptions, NEW why, Raise(v, why)
  PROVE  raised' = v /\ shown' = Named(v)
<1>1. CASE v \in WithCode
  <2>. DEFINE all == <<"older", "older", "eflags", "cs", "eip">> \o <<"code">> \o (<<>> \o <<v>>)
  <2>1. shown' = exception_handler(Reverse(all))
    BY <1>1, OwnStub DEF Raise, Pushed, Stub
  <2>2. /\ Len(all) = 7 /\ all[7] = v /\ all[6] = "code" /\ all[5] = "eip"
        /\ all[4] = "cs" /\ all[3] = "eflags"
    OBVIOUS
  <2>. HIDE DEF all
  <2>3. /\ Reverse(all)[1] = v /\ Reverse(all)[2] = "code" /\ Reverse(all)[3] = "eip"
        /\ Reverse(all)[4] = "cs" /\ Reverse(all)[5] = "eflags"
    BY <2>2 DEF Reverse
  <2>. QED
    BY <1>1, <2>1, <2>3 DEF Raise, exception_handler, Named, NoCode
<1>2. CASE v \notin WithCode
  <2>. DEFINE all == <<"older", "older", "eflags", "cs", "eip">> \o <<>> \o (<<NoCode>> \o <<v>>)
  <2>1. shown' = exception_handler(Reverse(all))
    BY <1>2, OwnStub DEF Raise, Pushed, Stub
  <2>2. /\ Len(all) = 7 /\ all[7] = v /\ all[6] = NoCode /\ all[5] = "eip"
        /\ all[4] = "cs" /\ all[3] = "eflags"
    OBVIOUS
  <2>. HIDE DEF all
  <2>3. /\ Reverse(all)[1] = v /\ Reverse(all)[2] = NoCode /\ Reverse(all)[3] = "eip"
        /\ Reverse(all)[4] = "cs" /\ Reverse(all)[5] = "eflags"
    BY <2>2 DEF Reverse
  <2>. QED
    BY <1>2, <2>1, <2>3 DEF Raise, exception_handler, Named
<1>. QED
  BY <1>1, <1>2 DEF Raise
-----------------------------------------------------------------------------
(* The invariant holds at the start                                        *)

LEMMA IInvInit == Init => IInv
<1>. SUFFICES ASSUME Init PROVE IInv
  OBVIOUS
<1>. DEFINE f == [nr |-> NONE, fn |-> "kernel_main", at |-> "done", ret |-> "restart",
                  esi |-> KERNEL, caller |-> NONE, i |-> 0, greatest |-> 0]
<1>1. stack = <<f>> /\ 0 \in Procs
  BY Sizes DEF Init
<1>2. f \in Frame
  BY <1>1 DEF Frame, NONE, KERNEL
<1>3. stack \in Seq(Frame) /\ Len(stack) = 1 /\ DOMAIN stack = {1} /\ stack[1] = f /\ stack # <<>>
  BY <1>1, <1>2
<1>4. Typed
  BY <1>1, <1>3, TableAssumption DEF Init, Typed
<1>5. Lines = {}
  BY <1>3 DEF Lines
<1>. HIDE DEF f
<1>6. /\ f.nr = NONE /\ f.fn = "kernel_main" /\ f.at = "done" /\ f.ret = "restart"
      /\ f.esi = KERNEL /\ f.greatest = 0
  BY DEF f
<1>7. Nested
  <2>1. k_reenter = Add(1, Word - 1)
    BY Counter DEF Init, Depth
  <2>. QED
    BY <1>3, <1>6, <2>1 DEF Nested, Depth, Calls, NONE, CLOCK_IRQ, KEYBOARD_IRQ
<1>8. Masking
  BY <1>5, AllMasked DEF Init, Masking
<1>9. Context
  BY <1>3, <1>6 DEF Init, Context, Calls, NONE, KERNEL
<1>10. Choosing
  BY <1>3, <1>6 DEF Init, Choosing, Unscheduled
<1>11. Reported
  BY DEF Init, Reported
<1>. QED
  BY <1>4, <1>7, <1>8, <1>9, <1>10, <1>11 DEF IInv

-----------------------------------------------------------------------------
(* Entries                                                                 *)

LEMMA StepRequest ==
  ASSUME IInv, NEW irq \in {CLOCK_IRQ, KEYBOARD_IRQ}, Request(irq) PROVE IInv'
BY DEF IInv, Request, proc, user, stop, Typed, Nested, Masking, Lines, Context,
       Choosing, Unscheduled, BestOf, Reported

LEMMA StepStutter == ASSUME IInv, UNCHANGED vars PROVE IInv'
BY DEF IInv, vars, proc, user, stop, Typed, Nested, Masking, Lines, Context,
       Choosing, Unscheduled, BestOf, Reported

\* A call of a process, a call of the kernel and both handlers fill the stack.
LEMMA RoomOnStack ==
  ASSUME Typed, Nested, NEW irq \in {CLOCK_IRQ, KEYBOARD_IRQ}, irq \notin Lines
  PROVE  Len(stack) < Depth
<1>. SUFFICES ASSUME Len(stack) = Depth PROVE FALSE
  BY StackElements DEF Typed, Nested, Depth
<1>1. 3 \in 1 .. Len(stack) /\ 4 \in 1 .. Len(stack) /\ Len(stack) # 1
  BY DEF Depth
<1>2. /\ stack[3].fn \in {"clock_handler", "keyboard_handler"}
      /\ stack[4].fn \in {"clock_handler", "keyboard_handler"}
  BY <1>1, NestedFrame DEF Frame
<1>3. /\ stack[3].nr \in {CLOCK_IRQ, KEYBOARD_IRQ} /\ stack[4].nr \in {CLOCK_IRQ, KEYBOARD_IRQ}
      /\ stack[3].nr # NONE /\ stack[4].nr # NONE
  BY <1>1, <1>2, NestedFrame DEF NONE, CLOCK_IRQ, KEYBOARD_IRQ
<1>4. stack[3].nr # stack[4].nr
  BY <1>1, <1>3, NestedFrame
<1>5. \E n \in 1 .. Len(stack) : stack[n].nr = irq
  BY <1>1, <1>3, <1>4
<1>. QED
  BY <1>5, LinesOf DEF Typed

LEMMA NotInKernelMain ==
  ASSUME Typed, Nested, stack # <<>>, Waiting
  PROVE  stack[1].fn # "kernel_main"
<1>1. 1 \in 1 .. Len(stack) /\ Top = stack[Len(stack)]
  BY StackElements DEF Typed
<1>. QED
  BY <1>1, NestedFrame DEF Waiting, In

LEMMA StepInterrupt == ASSUME IInv, Interrupt PROVE IInv'
<1>. USE DEF IInv
<1>1. PICK irq \in Requested :
        /\ irq \in IRQs /\ irr' = irr \ {irq} /\ imr' = imr \cup {irq}
        /\ save(irq, irq_table(irq))
        /\ irq \in {CLOCK_IRQ, KEYBOARD_IRQ}
  <2>1. Requested \in SUBSET {CLOCK_IRQ, KEYBOARD_IRQ} /\ Requested # {}
    BY DEF Interrupt, Waiting, Requested, Typed
  <2>2. Min(Requested) \in Requested
    BY <2>1, MinOfLines
  <2>3. Min(Requested) \in IRQs
    <3>1. CLOCK_IRQ \in IRQs /\ KEYBOARD_IRQ \in IRQs
      BY DEF IRQs, CLOCK_IRQ, KEYBOARD_IRQ
    <3>. QED
      BY <2>1, <2>2, <3>1
  <2>4. idt[init_8259A.base + Min(Requested)].nr = Min(Requested)
    BY <2>3, StubOfLine
  <2>. QED
    BY <2>1, <2>2, <2>3, <2>4 DEF Interrupt
<1>. DEFINE fn == irq_table(irq)
<1>2. UNCHANGED <<p_proc_ready, ticks, blocked, cpu, sp0, ldt, tty, halted, raised, shown>>
      /\ halted = "no"
  BY DEF Interrupt, proc, stop
<1>3. /\ fn \in {"clock_handler", "keyboard_handler"}
      /\ irq = CLOCK_IRQ <=> fn = "clock_handler"
      /\ irq = KEYBOARD_IRQ <=> fn = "keyboard_handler"
      /\ fn \notin Calls
  BY <1>1 DEF irq_table, CLOCK_IRQ, KEYBOARD_IRQ, Calls
<1>. HIDE DEF fn
<1>4. irq \notin imr /\ irq \notin Lines /\ (tty = "masked" => irq # KEYBOARD_IRQ)
  BY <1>1 DEF Requested, Masking
<1>5. Len(stack) < Depth
  BY <1>1, <1>4, RoomOnStack
<1>6. stack # <<>> => stack[1].fn # "kernel_main"
  BY NotInKernelMain DEF Interrupt
<1>7. save(irq, fn) /\ irq \in {NONE, CLOCK_IRQ, KEYBOARD_IRQ} /\ irq # NONE
      /\ fn \in Calls \cup {"clock_handler", "keyboard_handler"}
  BY <1>1, <1>3 DEF fn, NONE, CLOCK_IRQ, KEYBOARD_IRQ
<1>8. Nested' /\ Lines' = Lines \cup ({irq} \ {NONE})
  BY <1>3, <1>4, <1>5, <1>6, <1>7, NestedSave
<1>9. Context' /\ saved' \in [Procs -> Procs]
  BY <1>2, <1>5, <1>6, <1>7, ContextSave
<1>10. /\ stack' \in Seq(Frame) /\ stack' # <<>> /\ Len(stack) \in Nat
       /\ stack'[Len(stack) + 1] = Saved(irq, fn)
       /\ \A n \in 1 .. Len(stack) : stack'[n] = stack[n]
  BY <1>5, <1>7, SaveStack, StackElements DEF Typed, Nested
<1>11. Typed'
  BY <1>1, <1>2, <1>9, <1>10 DEF Typed
<1>12. Masking'
  BY <1>1, <1>2, <1>4, <1>7, <1>8 DEF Masking
<1>13. Choosing'
  <2>1. CASE stack = <<>>
    <3>1. Len(stack) = 0
      BY <2>1
    <3>2. stack'[1] = Saved(irq, fn)
      BY <1>10, <3>1
    <3>3. Saved(irq, fn).at = "entry"
      BY DEF Saved
    <3>4. p_proc_ready = cpu /\ cpu \notin blocked
      BY <2>1 DEF Context
    <3>. QED
      BY <1>2, <3>2, <3>3, <3>4 DEF Choosing
  <2>2. CASE stack # <<>>
    <3>1. stack'[1] = stack[1]
      BY <1>10, <2>2, StackElements DEF Typed
    <3>2. ticks' \in [Procs -> Nat] /\ \A p \in Procs : ticks'[p] =< ticks[p]
      BY <1>2 DEF Typed
    <3>. QED
      BY <1>2, <1>10, <2>2, <3>1, <3>2, ChoosingStands
  <2>. QED
    BY <2>1, <2>2
<1>14. Reported'
  BY <1>2 DEF Reported
<1>. QED
  BY <1>8, <1>9, <1>11, <1>12, <1>13, <1>14
LEMMA StepCall == ASSUME IInv, NEW fn \in Calls, Call(fn) PROVE IInv'
<1>. USE DEF IInv
<1>1. stack = <<>> /\ Len(stack) = 0 /\ cpu \in Procs /\ cpu = p_proc_ready /\ cpu \notin blocked
      /\ halted = "no"
  BY DEF Call, UserRuns, Context
<1>2. /\ save(NONE, fn)
      /\ UNCHANGED <<irr, imr, p_proc_ready, ticks, blocked, cpu, sp0, ldt, tty, halted, raised, shown>>
  BY <1>1, CallsAllowed DEF Call, proc, stop
<1>3. /\ fn \in Calls \cup {"clock_handler", "keyboard_handler"}
      /\ fn \notin {"clock_handler", "keyboard_handler"}
      /\ NONE \in {NONE, CLOCK_IRQ, KEYBOARD_IRQ} /\ NONE \notin {CLOCK_IRQ, KEYBOARD_IRQ}
      /\ NONE \notin Lines /\ Len(stack) < Depth
  BY <1>1 DEF Calls, NONE, CLOCK_IRQ, KEYBOARD_IRQ, Lines, Depth
<1>4. Nested' /\ Lines' = Lines \cup ({NONE} \ {NONE})
  BY <1>1, <1>2, <1>3, NestedSave
<1>5. Context' /\ saved' \in [Procs -> Procs]
  BY <1>1, <1>2, <1>3, ContextSave
<1>6. stack' \in Seq(Frame) /\ stack' # <<>> /\ stack'[Len(stack) + 1] = Saved(NONE, fn)
  BY <1>2, <1>3, SaveStack DEF Typed, Nested
<1>7. Typed'
  BY <1>2, <1>5, <1>6 DEF Typed
<1>8. Masking'
  BY <1>2, <1>4 DEF Masking
<1>9. Choosing'
  <2>1. stack'[1] = Saved(NONE, fn)
    BY <1>1, <1>6
  <2>2. Saved(NONE, fn).at = "entry"
    BY DEF Saved
  <2>. QED
    BY <1>1, <1>2, <2>1, <2>2 DEF Choosing
<1>10. Reported'
  BY <1>2 DEF Reported
<1>. QED
  BY <1>4, <1>5, <1>7, <1>8, <1>9, <1>10

\* An exception of a process stops the machine, with the stack empty.
LEMMA StepException == ASSUME IInv, NEW v \in Vectors, Exception(v) PROVE IInv'
<1>. USE DEF IInv
<1>1. /\ halted' = "exception" /\ v \in Exceptions
      /\ UNCHANGED <<imr, irr, k_reenter, stack, p_proc_ready, ticks, blocked,
                     cpu, sp0, ldt, saved, tty>>
  BY TrapAssumption DEF Exception, Raise, proc, user
<1>2. raised' = v /\ Reported'
  BY <1>1, ShownArguments DEF Exception, Reported
<1>. QED
  BY <1>1, <1>2 DEF Typed, Nested, Masking, Lines, Context, Choosing, Unscheduled, BestOf

LEMMA StepTtyInit == ASSUME IInv, TtyInit PROVE IInv'
<1>. USE DEF IInv
<1>1. stack = <<>> /\ Lines = {} /\ halted = "no"
  BY DEF TtyInit, UserRuns, Lines
<1>2. /\ \/ tty = "new" /\ tty' = "masked" /\ imr' = imr \cup {KEYBOARD_IRQ}
         \/ tty = "masked" /\ tty' = "ready" /\ imr' = imr \ {KEYBOARD_IRQ}
      /\ UNCHANGED <<irr, k_reenter, stack, p_proc_ready, ticks, blocked,
                     cpu, sp0, ldt, saved, halted, raised, shown>>
  BY TtyTouchesPorts DEF TtyInit, enable_irq, proc, user, stop
<1>3. Masking'
  BY <1>1, <1>2 DEF Masking, Lines
<1>. QED
  BY <1>2, <1>3 DEF Typed, Nested, Context, Choosing, Unscheduled, BestOf, Reported

-----------------------------------------------------------------------------
(* Inside                                                                  *)

\* The frames a step replaces the innermost one with are frames.
LEMMA FrameUpdates ==
  ASSUME NEW f \in Frame
  PROVE  /\ \A a \in {"entry", "body", "chain", "scan", "refill", "done"} : [f EXCEPT !.at = a] \in Frame
         /\ \A c \in Procs : [f EXCEPT !.caller = c] \in Frame
         /\ \A k \in Procs : [f EXCEPT !.i = k] \in Frame
         /\ \A t \in Nat : [f EXCEPT !.greatest = t] \in Frame
BY DEF Frame


\* The innermost frame gets on and stays what it is: all but the choice.
Rest == Typed /\ Nested /\ Masking /\ Context /\ Reported
LEMMA StepGoto ==
  ASSUME IInv, stack # <<>>, Top.fn # "kernel_main",
         NEW f \in Frame, Goto(f),
         f.nr = Top.nr, f.fn = Top.fn, f.ret = Top.ret, f.esi = Top.esi,
         f.at \in {"scan", "refill"} \/ f.greatest > 0 =>
           Len(stack) = 1 /\ f.fn \in {"clock_handler", "sendrec"} /\ f.at \in {"scan", "refill", "done"},
         f.fn \in Calls /\ f.at # "entry" => f.caller = cpu,
         UNCHANGED <<imr, irr, k_reenter, user, tty, stop>>,
         p_proc_ready' \in Procs, ticks' \in [Procs -> Nat], blocked' \subseteq Procs
  PROVE  Rest'
<1>. USE DEF IInv
<1>1. Nested' /\ Lines' = Lines
  BY NestedGoto
<1>2. Context'
  BY ContextGoto
<1>3. stack' \in Seq(Frame)
  BY GotoStack DEF Typed
<1>4. Typed'
  BY <1>3 DEF Typed, user, stop
<1>5. Masking'
  BY <1>1 DEF Masking
<1>6. Reported'
  BY DEF Reported, stop
<1>. QED
  BY <1>1, <1>2, <1>4, <1>5, <1>6 DEF Rest

\* ... and the choice too, when schedule() is not what gets on.
LEMMA StepWithin ==
  ASSUME IInv, stack # <<>>, Top.fn # "kernel_main", Unscheduled(Top),
         NEW f \in Frame, Goto(f),
         f.nr = Top.nr, f.fn = Top.fn, f.ret = Top.ret, f.esi = Top.esi,
         f.at \in {"body", "chain", "done"}, f.greatest = 0,
         f.fn \in Calls => f.caller = cpu,
         UNCHANGED <<imr, irr, k_reenter, p_proc_ready, user, tty, stop>>,
         ticks' \in [Procs -> Nat], \A p \in Procs : ticks'[p] =< ticks[p],
         blocked' \subseteq blocked, Len(stack) > 1 => blocked' = blocked
  PROVE  IInv'
<1>. USE DEF IInv
<1>1. p_proc_ready' \in Procs /\ blocked' \subseteq Procs
  BY DEF Typed
<1>2. Rest'
  BY <1>1, StepGoto
<1>3. /\ stack' # <<>> /\ Len(stack) \in Nat /\ Len(stack) > 0
      /\ stack'[Len(stack)] = f
      /\ \A n \in 1 .. Len(stack) - 1 : stack'[n] = stack[n]
      /\ Top = stack[Len(stack)]
  BY GotoStack, StackElements DEF Typed
<1>4. cpu' = cpu
  BY DEF user
<1>5. CASE Len(stack) = 1
  <2>1. p_proc_ready = cpu /\ p_proc_ready \notin blocked
    BY <1>3, <1>5 DEF Choosing
  <2>2. stack'[1] = f
    BY <1>3, <1>5
  <2>3. Choosing'
    BY <1>3, <1>4, <2>1, <2>2 DEF Choosing
  <2>. QED
    BY <1>2, <2>3 DEF Rest
<1>6. CASE Len(stack) # 1
  <2>. DEFINE L == Len(stack)
  <2>3. L \in Nat /\ L > 0 /\ L # 1 /\ \A n \in 1 .. L - 1 : stack'[n] = stack[n]
    BY <1>3, <1>6
  <2>. HIDE DEF L
  <2>4. 1 \in 1 .. L - 1 /\ L > 1
    BY <2>3
  <2>1. stack'[1] = stack[1] /\ blocked' = blocked
    BY <2>3, <2>4 DEF L
  <2>2. Choosing'
    BY <1>3, <1>4, <2>1, ChoosingStands
  <2>. QED
    BY <1>2, <2>2 DEF Rest
<1>. QED
  BY <1>5, <1>6

\* What is known of the innermost frame.
LEMMA TopFrame ==
  ASSUME IInv, stack # <<>>
  PROVE  /\ Top \in Frame /\ Len(stack) \in 1 .. Depth /\ Top = stack[Len(stack)]
         /\ Top.nr = CLOCK_IRQ <=> Top.fn = "clock_handler"
         /\ Top.nr = KEYBOARD_IRQ <=> Top.fn = "keyboard_handler"
         /\ Top.fn = "kernel_main" => Len(stack) = 1 /\ Top.at = "done"
         /\ Top.ret = "restart" <=> Len(stack) = 1
         /\ Top.at \in {"scan", "refill"} \/ Top.greatest > 0 =>
              Len(stack) = 1 /\ Top.fn \in {"clock_handler", "sendrec"} /\ Top.at \in {"scan", "refill", "done"}
         /\ Top.fn \in {"sendrec", "assert"} => Len(stack) = 1
         /\ Top.fn \in Calls /\ Top.at # "entry" => Top.caller = cpu
         /\ k_reenter = Add(Len(stack), Word - 1)
         /\ k_reenter = 0 <=> Len(stack) = 1
<1>. USE DEF IInv
<1>1. /\ Len(stack) \in Nat /\ Len(stack) > 0 /\ Top = stack[Len(stack)] /\ Top \in Frame
      /\ DOMAIN stack = 1 .. Len(stack) /\ Len(stack) \in 1 .. Len(stack)
  BY StackElements DEF Typed
<1>2. Len(stack) \in 1 .. Depth /\ Len(stack) \in 0 .. Depth
  BY <1>1 DEF Nested, Depth
<1>3. k_reenter = Add(Len(stack), Word - 1) /\ (k_reenter = 0 <=> Len(stack) = 1)
  BY <1>2, Counter DEF Nested
<1>4. Top.fn \in Calls /\ Top.at # "entry" => Top.caller = cpu
  BY <1>1 DEF Context
<1>5. Top.fn \in {"sendrec", "assert"} => Len(stack) = 1
  BY <1>1, <1>2, NestedFrame DEF Calls, Depth
<1>. QED
  BY <1>1, <1>2, <1>3, <1>4, <1>5, NestedFrame

\* schedule() begins in the outermost frame.
LEMMA StepSchedule ==
  ASSUME IInv, stack # <<>>, Len(stack) = 1, Top.fn \in {"clock_handler", "sendrec"},
         Top.fn = "sendrec" => Top.at # "entry",
         Goto(schedule), UNCHANGED <<imr, irr, k_reenter, p_proc_ready, user, tty, stop>>,
         ticks' \in [Procs -> Nat], blocked' \subseteq Procs
  PROVE  IInv'
<1>. DEFINE f == [Top EXCEPT !.at = "scan", !.i = 0, !.greatest = 0]
<1>1. f \in Frame
  <2>1. Top \in Frame /\ 0 \in Procs /\ 0 \in Nat /\ "scan" \in {"entry", "body", "chain", "scan", "refill", "done"}
    BY TopFrame, Sizes
  <2>. QED
    BY <2>1, Zenon DEF Frame
<1>2. /\ f.nr = Top.nr /\ f.fn = Top.fn /\ f.ret = Top.ret /\ f.esi = Top.esi
      /\ f.caller = Top.caller /\ f.greatest = 0 /\ f.at = "scan" /\ f.i = 0
  BY TopFrame DEF Frame
<1>3. Goto(f)
  BY DEF schedule
<1>. HIDE DEF f
<1>4. f.fn \in Calls /\ f.at # "entry" => f.caller = cpu
  BY <1>2, TopFrame DEF Calls
<1>5. p_proc_ready' \in Procs
  BY DEF IInv, Typed
<1>6. Rest'
  BY <1>1, <1>2, <1>3, <1>4, <1>5, StepGoto
<1>7. stack' # <<>> /\ stack'[1] = f
  BY <1>1, <1>3, GotoStack DEF IInv, Typed
<1>8. Choosing'
  BY <1>2, <1>7 DEF Choosing, Unscheduled, BestOf
<1>. QED
  BY <1>6, <1>8 DEF IInv, Rest

LEMMA StepClock == ASSUME IInv, clock_handler PROVE IInv'
<1>1. /\ stack # <<>> /\ Top.fn = "clock_handler" /\ Top.at = "entry"
      /\ ticks' = [ticks EXCEPT ![p_proc_ready] = Max({0, @ - 1})]
      /\ IF FromUser(k_reenter) THEN Goto(schedule) ELSE Proceed("done")
      /\ UNCHANGED <<imr, irr, k_reenter, p_proc_ready, blocked, user, tty, stop>>
  BY DEF clock_handler, KernelRuns, In
<1>2. ticks' \in [Procs -> Nat] /\ \A p \in Procs : ticks'[p] =< ticks[p]
  <2>1. /\ ticks \in [Procs -> Nat] /\ p_proc_ready \in Procs
        /\ \A p \in Procs : ticks[p] \in Nat
    BY DEF IInv, Typed
  <2>2. Max({0, ticks[p_proc_ready] - 1}) \in Nat
        /\ Max({0, ticks[p_proc_ready] - 1}) =< ticks[p_proc_ready]
    BY <2>1, MaxWithZero
  <2>. DEFINE t == Max({0, ticks[p_proc_ready] - 1})
  <2>3. ticks' = [ticks EXCEPT ![p_proc_ready] = t]
    BY <1>1
  <2>. HIDE DEF t
  <2>4. t \in Nat /\ t =< ticks[p_proc_ready]
    BY <2>2 DEF t
  <2>5. \A p \in Procs : ticks'[p] = IF p = p_proc_ready THEN t ELSE ticks[p]
    BY <2>1, <2>3
  <2>6. ticks' \in [Procs -> Nat]
    BY <2>1, <2>3, <2>4
  <2>7. \A p \in Procs : ticks[p] =< ticks[p]
    BY <2>1
  <2>. QED
    BY <2>4, <2>5, <2>6, <2>7
<1>3. blocked' \subseteq Procs /\ blocked' = blocked
  BY <1>1 DEF IInv, Typed
<1>4. CASE Len(stack) = 1
  BY <1>1, <1>2, <1>3, <1>4, TopFrame, StepSchedule DEF FromUser
<1>5. CASE Len(stack) # 1
  <2>. DEFINE f == [Top EXCEPT !.at = "done"]
  <2>1. f \in Frame /\ Goto(f)
    BY <1>1, <1>5, TopFrame, FrameUpdates DEF FromUser, Proceed
  <2>2. /\ f.nr = Top.nr /\ f.fn = Top.fn /\ f.ret = Top.ret /\ f.esi = Top.esi
        /\ f.at = "done" /\ f.greatest = 0
    BY <1>1, <1>5, TopFrame DEF Frame
  <2>. HIDE DEF f
  <2>3. Unscheduled(Top) /\ Top.fn \notin Calls /\ Top.fn # "kernel_main"
    BY <1>1 DEF Unscheduled, Calls
  <2>. QED
    BY <1>1, <1>2, <1>3, <2>1, <2>2, <2>3, StepWithin
<1>. QED
  BY <1>4, <1>5

LEMMA StepKeyboard == ASSUME IInv, keyboard_handler PROVE IInv'
<1>1. /\ stack # <<>> /\ Top.fn = "keyboard_handler" /\ Top.at = "entry" /\ Proceed("done")
      /\ UNCHANGED <<imr, irr, k_reenter, p_proc_ready, ticks, blocked, user, tty, stop>>
  BY DEF keyboard_handler, KernelRuns, In, proc
<1>. DEFINE f == [Top EXCEPT !.at = "done"]
<1>2. f \in Frame /\ Goto(f)
  BY <1>1, TopFrame, FrameUpdates DEF Proceed
<1>3. /\ f.nr = Top.nr /\ f.fn = Top.fn /\ f.ret = Top.ret /\ f.esi = Top.esi
      /\ f.at = "done" /\ f.greatest = 0
  BY <1>1, TopFrame DEF Frame
<1>. HIDE DEF f
<1>4. Unscheduled(Top) /\ Top.fn \notin Calls /\ Top.fn # "kernel_main"
  BY <1>1 DEF Unscheduled, Calls
<1>5. ticks' \in [Procs -> Nat] /\ \A p \in Procs : ticks'[p] =< ticks[p]
  BY <1>1 DEF IInv, Typed
<1>. QED
  BY <1>1, <1>2, <1>3, <1>4, <1>5, StepWithin

LEMMA StepPushCaller == ASSUME IInv, PushCaller PROVE IInv'
<1>1. /\ stack # <<>> /\ Top.fn \in Calls /\ Top.at = "entry"
      /\ Goto([Top EXCEPT !.caller = p_proc_ready, !.at = "body"])
      /\ UNCHANGED <<imr, irr, k_reenter, p_proc_ready, ticks, blocked, user, tty, stop>>
  BY DEF PushCaller, KernelRuns, proc
<1>. DEFINE f == [Top EXCEPT !.caller = p_proc_ready, !.at = "body"]
<1>2. f \in Frame
  <2>1. Top \in Frame /\ p_proc_ready \in Procs /\ "body" \in {"entry", "body", "chain", "scan", "refill", "done"}
    BY <1>1, TopFrame DEF IInv, Typed
  <2>. QED
    BY <2>1, Zenon DEF Frame
<1>3. /\ f.nr = Top.nr /\ f.fn = Top.fn /\ f.ret = Top.ret /\ f.esi = Top.esi
      /\ f.at = "body" /\ f.greatest = 0 /\ f.caller = p_proc_ready
  <2>1. Top \in Frame /\ Top.greatest \in Nat /\ ~(Top.greatest > 0)
    BY <1>1, TopFrame DEF Frame
  <2>2. Top.greatest = 0
    BY <2>1
  <2>. QED
    BY <2>1, <2>2 DEF Frame
<1>. HIDE DEF f
<1>4. Goto(f) /\ Unscheduled(Top) /\ Top.fn # "kernel_main"
  BY <1>1 DEF f, Unscheduled, Calls
<1>5. p_proc_ready = cpu
  <2>1. /\ Unscheduled(stack[1]) /\ stack[1].fn # "kernel_main"
    <3>1. 1 \in 1 .. Len(stack) /\ Len(stack) \in 1 .. Len(stack) /\ Top = stack[Len(stack)]
      BY <1>1, TopFrame DEF Depth
    <3>2. CASE Len(stack) = 1
      BY <1>1, <3>1, <3>2 DEF Unscheduled, Calls
    <3>3. CASE Len(stack) # 1
      <4>1. stack[1].fn = "sendrec" /\ stack[1].at = "chain"
        BY <1>1, <3>1, <3>3, NestedFrame, TopFrame DEF IInv
      <4>. QED
        BY <4>1 DEF Unscheduled
    <3>. QED
      BY <3>2, <3>3
  <2>. QED
    BY <1>1, <2>1 DEF IInv, Choosing
<1>6. ticks' \in [Procs -> Nat] /\ \A p \in Procs : ticks'[p] =< ticks[p]
  BY <1>1 DEF IInv, Typed
<1>. QED
  BY <1>1, <1>2, <1>3, <1>4, <1>5, <1>6, StepWithin
\* A round of the first loop: one process more has been looked at.
LEMMA BestOfMore ==
  ASSUME Typed, NEW p \in Procs, NEW t \in Nat, BestOf((0 .. p - 1) \ blocked, t),
         NEW most,
         LET better == CanRun(p) /\ MoreThan(ticks[p], t)
         IN /\ most = IF better THEN ticks[p] ELSE t
            /\ p_proc_ready' = IF better THEN p ELSE p_proc_ready,
         UNCHANGED <<ticks, blocked>>
  PROVE  most \in Nat /\ p_proc_ready' \in Procs /\ BestOf((0 .. p) \ blocked, most)'
<1>1. /\ ticks[p] \in Nat /\ p_proc_ready \in Procs /\ N \in Nat /\ Procs = 0 .. N - 1 /\ p \in Nat
      /\ \A q \in Procs : ticks[q] \in Nat
  <2>1. p \in Nat
    BY Sizes
  <2>2. /\ ticks[p] \in Nat /\ p_proc_ready \in Procs /\ \A q \in Procs : ticks[q] \in Nat
    BY DEF Typed
  <2>. QED
    BY <2>1, <2>2, Sizes
<1>2. \A q \in 0 .. p : q \in Procs /\ (q = p \/ q \in 0 .. p - 1)
  BY <1>1
<1>3. CASE p \notin blocked /\ ticks[p] > t
  <2>1. most = ticks[p] /\ p_proc_ready' = p
    BY <1>3 DEF CanRun, MoreThan
  <2>2. \A q \in (0 .. p - 1) \ blocked : ticks[q] =< t /\ ticks[q] < ticks[p]
    BY <1>1, <1>2, <1>3 DEF BestOf
  <2>. QED
    BY <1>1, <1>2, <1>3, <2>1, <2>2 DEF BestOf
<1>4. CASE ~(p \notin blocked /\ ticks[p] > t)
  <2>1. most = t /\ p_proc_ready' = p_proc_ready
    BY <1>4 DEF CanRun, MoreThan
  <2>2. p \notin blocked => ticks[p] =< t
    BY <1>1, <1>4
  <2>3. t > 0 => p_proc_ready \in (0 .. p - 1) \ blocked /\ p_proc_ready < p
    BY <1>1 DEF BestOf
  <2>. QED
    BY <1>1, <1>2, <2>1, <2>2, <2>3 DEF BestOf
<1>. QED
  BY <1>3, <1>4

LEMMA StepScan == ASSUME IInv, Scan PROVE IInv'
<1>1. stack # <<>> /\ Top.at = "scan" /\ UNCHANGED <<imr, irr, k_reenter, ticks, blocked, user, tty, stop>>
  BY DEF Scan, KernelRuns
<1>2. /\ Top \in Frame /\ Len(stack) = 1 /\ Top = stack[1]
      /\ Top.fn \in {"clock_handler", "sendrec"}
      /\ Top.fn \in Calls => Top.caller = cpu
  BY <1>1, TopFrame
<1>3. PICK p, t, most, next, at :
        LET better == CanRun(p) /\ MoreThan(ticks[p], t) IN
        /\ p = Top.i /\ t = Top.greatest /\ p \in Procs /\ t \in Nat
        /\ most = IF better THEN ticks[p] ELSE t
        /\ p_proc_ready' = IF better THEN p ELSE p_proc_ready
        /\ next = IF More(p) THEN p + 1 ELSE 0
        /\ at = IF More(p) THEN "scan" ELSE IF most = 0 THEN "refill" ELSE "done"
        /\ Goto([Top EXCEPT !.greatest = most, !.i = next, !.at = at])
  <2>1. Top.i \in Procs /\ Top.greatest \in Nat
    BY <1>2 DEF Frame
  <2>. QED
    BY <2>1 DEF Scan
<1>4. BestOf((0 .. p - 1) \ blocked, t)
  BY <1>1, <1>2, <1>3 DEF IInv, Choosing
<1>6. most \in Nat /\ p_proc_ready' \in Procs /\ BestOf((0 .. p) \ blocked, most)'
  BY <1>1, <1>3, <1>4, BestOfMore DEF IInv
<1>7. next \in Procs /\ (More(p) => next - 1 = p) /\ (~More(p) => 0 .. p = Procs)
  BY <1>3, Sizes DEF More, LastProc, Procs
<1>8. at \in {"scan", "refill", "done"} /\ at \in {"entry", "body", "chain", "scan", "refill", "done"}
      /\ (at = "scan" => More(p)) /\ (at # "scan" => ~More(p))
      /\ (at = "refill" => most = 0) /\ (at = "done" => most # 0)
  BY <1>3
<1>9. [Top EXCEPT !.greatest = most, !.i = next, !.at = at] \in Frame
  BY <1>2, <1>6, <1>7, <1>8, ZenonT(30) DEF Frame
<1>10. PICK f \in Frame :
       /\ f.nr = Top.nr /\ f.fn = Top.fn /\ f.ret = Top.ret /\ f.esi = Top.esi
       /\ f.caller = Top.caller /\ f.greatest = most /\ f.i = next /\ f.at = at
       /\ Goto(f)
  <2>. DEFINE f == [Top EXCEPT !.greatest = most, !.i = next, !.at = at]
  <2>1. /\ f.nr = Top.nr /\ f.fn = Top.fn /\ f.ret = Top.ret /\ f.esi = Top.esi
        /\ f.caller = Top.caller /\ f.greatest = most /\ f.i = next /\ f.at = at
    BY <1>2 DEF Frame
  <2>2. f \in Frame /\ Goto(f)
    BY <1>3, <1>9
  <2>. QED
    BY <2>1, <2>2
<1>11. ticks' \in [Procs -> Nat] /\ blocked' \subseteq Procs /\ Top.fn # "kernel_main"
  BY <1>1, <1>2 DEF IInv, Typed
<1>12. /\ f.at \in {"scan", "refill"} \/ f.greatest > 0 =>
            Len(stack) = 1 /\ f.fn \in {"clock_handler", "sendrec"} /\ f.at \in {"scan", "refill", "done"}
       /\ f.fn \in Calls /\ f.at # "entry" => f.caller = cpu
  BY <1>2, <1>8, <1>10
<1>13. Rest'
  BY <1>1, <1>6, <1>10, <1>11, <1>12, StepGoto
<1>14. stack' # <<>> /\ stack'[1] = f
  BY <1>1, <1>2, <1>10, GotoStack DEF IInv, Typed
<1>15. Choosing'
  <2>1. ~Unscheduled(f)
    BY <1>8, <1>10 DEF Unscheduled
  <2>2. f.at = "scan" => BestOf((0 .. f.i - 1) \ blocked, f.greatest)'
    BY <1>6, <1>7, <1>8, <1>10
  <2>3. f.at = "refill" => f.greatest = 0
    BY <1>8, <1>10
  <2>4. f.at = "done" /\ f.greatest > 0 => BestOf(Procs \ blocked, f.greatest)'
    BY <1>6, <1>7, <1>8, <1>10
  <2>. QED
    BY <1>14, <2>1, <2>2, <2>3, <2>4 DEF Choosing
<1>. QED
  BY <1>13, <1>15 DEF IInv, Rest

LEMMA StepRefill == ASSUME IInv, Refill PROVE IInv'
<1>1. /\ stack # <<>> /\ Top.at = "refill"
      /\ UNCHANGED <<imr, irr, k_reenter, p_proc_ready, blocked, user, tty, stop>>
  BY DEF Refill, KernelRuns
<1>2. /\ Top \in Frame /\ Len(stack) = 1 /\ Top = stack[1]
      /\ Top.fn \in {"clock_handler", "sendrec"}
      /\ Top.fn \in Calls => Top.caller = cpu
  BY <1>1, TopFrame
<1>3. Top.greatest = 0
  BY <1>1, <1>2 DEF IInv, Choosing
<1>4. PICK p, next, at :
        /\ p \in Procs
        /\ ticks' = IF p \in blocked THEN ticks ELSE [ticks EXCEPT ![p] = priority[p]]
        /\ next = IF p < LastProc THEN p + 1 ELSE 0
        /\ at = IF p < LastProc THEN "refill" ELSE "scan"
        /\ Goto([Top EXCEPT !.i = next, !.at = at])
  <2>1. Top.i \in Procs
    BY <1>2 DEF Frame
  <2>2. Goto([Top EXCEPT !.i = IF Top.i < LastProc THEN Top.i + 1 ELSE 0,
                         !.at = IF Top.i < LastProc THEN "refill" ELSE "scan"])
    BY DEF Refill
  <2>. QED
    BY <2>1, <2>2 DEF Refill
<1>5. next \in Procs /\ at \in {"entry", "body", "chain", "scan", "refill", "done"}
      /\ at \in {"refill", "scan"} /\ (at = "scan" => next = 0)
  BY <1>4, Sizes DEF LastProc, Procs
<1>6. [Top EXCEPT !.i = next, !.at = at] \in Frame
  BY <1>2, <1>5, Zenon DEF Frame
<1>7. PICK f \in Frame :
       /\ f.nr = Top.nr /\ f.fn = Top.fn /\ f.ret = Top.ret /\ f.esi = Top.esi
       /\ f.caller = Top.caller /\ f.greatest = 0 /\ f.i = next /\ f.at = at
       /\ Goto(f)
  <2>. DEFINE f == [Top EXCEPT !.i = next, !.at = at]
  <2>1. /\ f.nr = Top.nr /\ f.fn = Top.fn /\ f.ret = Top.ret /\ f.esi = Top.esi
        /\ f.caller = Top.caller /\ f.greatest = 0 /\ f.i = next /\ f.at = at
    BY <1>2, <1>3 DEF Frame
  <2>2. f \in Frame /\ Goto(f)
    BY <1>4, <1>6
  <2>. QED
    BY <2>1, <2>2
<1>8. /\ ticks' \in [Procs -> Nat] /\ blocked' \subseteq Procs /\ Top.fn # "kernel_main"
      /\ p_proc_ready' \in Procs
  BY <1>1, <1>2, <1>4, TableAssumption DEF IInv, Typed
<1>9. /\ f.at \in {"scan", "refill"} \/ f.greatest > 0 =>
            Len(stack) = 1 /\ f.fn \in {"clock_handler", "sendrec"} /\ f.at \in {"scan", "refill", "done"}
      /\ f.fn \in Calls /\ f.at # "entry" => f.caller = cpu
  BY <1>2, <1>5, <1>7
<1>10. Rest'
  <2>1. UNCHANGED <<imr, irr, k_reenter, user, tty, stop>>
    BY <1>1
  <2>. QED
    BY <1>1, <1>7, <1>8, <1>9, <2>1, StepGoto
<1>11. stack' # <<>> /\ stack'[1] = f
  BY <1>1, <1>2, <1>7, GotoStack DEF IInv, Typed
<1>12. Choosing'
  BY <1>5, <1>7, <1>11 DEF Choosing, Unscheduled, BestOf
<1>. QED
  BY <1>10, <1>12 DEF IInv, Rest
LEMMA StepSendrec == ASSUME IInv, sys_sendrec PROVE IInv'
<1>1. /\ stack # <<>> /\ Top.fn = "sendrec" /\ Top.at = "body" /\ halted = "no" /\ ~Waiting
      /\ UNCHANGED <<imr, irr, p_proc_ready, ticks, cpu, sp0, ldt, tty, stop>>
  BY DEF sys_sendrec, KernelRuns, In, user
<1>2. /\ Top \in Frame /\ Len(stack) = 1 /\ Top = stack[1] /\ Top.caller = cpu
      /\ Top.fn \in Calls /\ Top.fn # "kernel_main" /\ Unscheduled(Top)
      /\ Top.greatest = 0
  <2>1. Top \in Frame /\ Top.greatest \in Nat /\ ~(Top.greatest > 0)
    BY <1>1, TopFrame DEF Frame
  <2>2. Top.greatest = 0
    BY <2>1
  <2>. QED
    BY <1>1, <2>1, <2>2, TopFrame DEF Calls, Unscheduled
<1>3. ticks' \in [Procs -> Nat] /\ (\A p \in Procs : ticks'[p] =< ticks[p]) /\ cpu \in Procs
      /\ stack[1].fn # "kernel_main" /\ blocked \subseteq Procs
  BY <1>1, <1>2 DEF IInv, Typed, Context
<1>4. CASE Proceed("done") /\ blocked' \subseteq blocked /\ UNCHANGED <<k_reenter, saved>>
  <2>1. PICK f \in Frame :
          /\ Goto(f) /\ f.nr = Top.nr /\ f.fn = Top.fn /\ f.ret = Top.ret /\ f.esi = Top.esi
          /\ f.caller = Top.caller /\ f.greatest = 0 /\ f.at = "done"
    <3>. DEFINE f == [Top EXCEPT !.at = "done"]
    <3>1. f \in Frame /\ Goto(f)
      BY <1>2, <1>4, FrameUpdates DEF Proceed
    <3>2. /\ f.nr = Top.nr /\ f.fn = Top.fn /\ f.ret = Top.ret /\ f.esi = Top.esi
          /\ f.caller = Top.caller /\ f.greatest = 0 /\ f.at = "done"
      BY <1>2 DEF Frame
    <3>. QED
      BY <3>1, <3>2
  <2>2. UNCHANGED <<imr, irr, k_reenter, p_proc_ready, user, tty, stop>>
    BY <1>1, <1>4 DEF user
  <2>3. f.fn \in Calls => f.caller = cpu
    BY <1>2, <2>1
  <2>4. ~(Len(stack) > 1)
    BY <1>2
  <2>. QED
    BY <1>1, <1>2, <1>3, <1>4, <2>1, <2>2, <2>3, <2>4, StepWithin
<1>5. CASE blocked' = blocked \cup {Top.caller} /\ Goto(schedule) /\ UNCHANGED <<k_reenter, saved>>
  <2>1. UNCHANGED <<imr, irr, k_reenter, p_proc_ready, user, tty, stop>>
    BY <1>1, <1>5 DEF user
  <2>2. blocked' \subseteq Procs
    BY <1>2, <1>3, <1>5
  <2>. QED
    BY <1>1, <1>2, <1>3, <1>5, <2>1, <2>2, StepSchedule
<1>6. CASE Proceed("chain") /\ UNCHANGED <<blocked, k_reenter, saved>>
  <2>1. PICK f \in Frame :
          /\ Goto(f) /\ f.nr = Top.nr /\ f.fn = Top.fn /\ f.ret = Top.ret /\ f.esi = Top.esi
          /\ f.caller = Top.caller /\ f.greatest = 0 /\ f.at = "chain"
    <3>. DEFINE f == [Top EXCEPT !.at = "chain"]
    <3>1. f \in Frame /\ Goto(f)
      BY <1>2, <1>6, FrameUpdates DEF Proceed
    <3>2. /\ f.nr = Top.nr /\ f.fn = Top.fn /\ f.ret = Top.ret /\ f.esi = Top.esi
          /\ f.caller = Top.caller /\ f.greatest = 0 /\ f.at = "chain"
      BY <1>2 DEF Frame
    <3>. QED
      BY <3>1, <3>2
  <2>2. UNCHANGED <<imr, irr, k_reenter, p_proc_ready, user, tty, stop>>
    BY <1>1, <1>6 DEF user
  <2>3. f.fn \in Calls => f.caller = cpu
    BY <1>2, <2>1
  <2>4. blocked' \subseteq blocked /\ ~(Len(stack) > 1)
    BY <1>2, <1>6
  <2>. QED
    BY <1>1, <1>2, <1>3, <1>6, <2>1, <2>2, <2>3, <2>4, StepWithin
<1>. QED
  BY <1>4, <1>5, <1>6 DEF sys_sendrec, user

\* The calls of the kernel itself lie on the sendrec that makes them.
LEMMA StepDeadlock == ASSUME IInv, deadlock PROVE IInv'
<1>1. /\ stack # <<>> /\ Top.fn = "sendrec" /\ Top.at = "chain"
      /\ UNCHANGED <<imr, irr, p_proc_ready, ticks, blocked, cpu, sp0, ldt, tty, stop>>
  BY DEF deadlock, KernelRuns, In, proc
<1>2. PICK fn \in {"print", "panic"} : save(NONE, fn)
  BY DEF deadlock
<1>3. Len(stack) = 1 /\ stack[1].fn = "sendrec" /\ stack[1].at = "chain" /\ stack[1].fn # "kernel_main"
  BY <1>1, TopFrame
<1>4. /\ NONE \in {NONE, CLOCK_IRQ, KEYBOARD_IRQ} /\ NONE \notin {CLOCK_IRQ, KEYBOARD_IRQ}
      /\ fn \in Calls \cup {"clock_handler", "keyboard_handler"} /\ NONE \notin Lines
      /\ Len(stack) < Depth /\ fn # "clock_handler" /\ fn # "keyboard_handler"
  BY <1>3 DEF Calls, NONE, CLOCK_IRQ, KEYBOARD_IRQ, Lines, Depth
<1>5. Nested' /\ Lines' = Lines \cup ({NONE} \ {NONE})
  BY <1>2, <1>3, <1>4, NestedSave DEF IInv
<1>6. Context' /\ saved' \in [Procs -> Procs]
  BY <1>1, <1>2, <1>3, <1>4, ContextSave DEF IInv
<1>7. /\ stack' \in Seq(Frame) /\ stack' # <<>>
      /\ \A n \in 1 .. Len(stack) : stack'[n] = stack[n]
  BY <1>2, <1>4, SaveStack DEF IInv, Typed, Nested
<1>8. Typed'
  BY <1>1, <1>6, <1>7 DEF IInv, Typed, stop
<1>9. Masking'
  BY <1>1, <1>5 DEF IInv, Masking
<1>10. Choosing'
  <2>1. stack'[1] = stack[1]
    BY <1>3, <1>7
  <2>2. ticks' \in [Procs -> Nat] /\ \A p \in Procs : ticks'[p] =< ticks[p]
    BY <1>1 DEF IInv, Typed
  <2>. QED
    BY <1>1, <1>7, <2>1, <2>2, ChoosingStands DEF IInv
<1>11. Reported'
  BY <1>1 DEF IInv, Reported, stop
<1>. QED
  BY <1>5, <1>6, <1>8, <1>9, <1>10, <1>11 DEF IInv

LEMMA StepPrintx == ASSUME IInv, sys_printx PROVE IInv'
<1>1. /\ stack # <<>> /\ Top.fn \in Calls /\ Top.at = "body"
      /\ UNCHANGED <<imr, irr, k_reenter, p_proc_ready, ticks, blocked, user, tty, raised, shown>>
  BY DEF sys_printx, KernelRuns, proc
<1>2. /\ Top \in Frame /\ Top.caller = cpu /\ Top.fn # "kernel_main" /\ Unscheduled(Top)
      /\ Top.greatest = 0
  <2>1. Top \in Frame /\ Top.greatest \in Nat /\ ~(Top.greatest > 0)
    BY <1>1, TopFrame DEF Frame
  <2>2. Top.greatest = 0
    BY <2>1
  <2>. QED
    BY <1>1, <2>1, <2>2, TopFrame DEF Calls, Unscheduled
<1>3. CASE Proceed("done") /\ UNCHANGED halted
  <2>1. PICK f \in Frame :
          /\ Goto(f) /\ f.nr = Top.nr /\ f.fn = Top.fn /\ f.ret = Top.ret /\ f.esi = Top.esi
          /\ f.caller = Top.caller /\ f.greatest = 0 /\ f.at = "done"
    <3>. DEFINE f == [Top EXCEPT !.at = "done"]
    <3>1. f \in Frame /\ Goto(f)
      BY <1>2, <1>3, FrameUpdates DEF Proceed
    <3>2. /\ f.nr = Top.nr /\ f.fn = Top.fn /\ f.ret = Top.ret /\ f.esi = Top.esi
          /\ f.caller = Top.caller /\ f.greatest = 0 /\ f.at = "done"
      BY <1>2 DEF Frame
    <3>. QED
      BY <3>1, <3>2
  <2>2. UNCHANGED <<imr, irr, k_reenter, p_proc_ready, user, tty, stop>>
    BY <1>1, <1>3 DEF stop
  <2>3. f.fn \in Calls => f.caller = cpu
    BY <1>2, <2>1
  <2>4. ticks' \in [Procs -> Nat] /\ \A p \in Procs : ticks'[p] =< ticks[p]
    BY <1>1 DEF IInv, Typed
  <2>5. blocked' \subseteq blocked /\ (Len(stack) > 1 => blocked' = blocked)
    BY <1>1
  <2>. QED
    BY <1>1, <1>2, <2>1, <2>2, <2>3, <2>4, <2>5, StepWithin
<1>4. CASE halted' = "panic" /\ UNCHANGED stack
  BY <1>1, <1>4 DEF IInv, user, Typed, Nested, Masking, Lines, Context,
       Choosing, Unscheduled, BestOf, Reported
<1>. QED
  BY <1>3, <1>4 DEF sys_printx
-----------------------------------------------------------------------------
(* Exits                                                                   *)

\* When a visit ends, the process that was chosen can run.
LEMMA ChosenCanRun ==
  ASSUME IInv, stack # <<>>, Len(stack) = 1, Top.at = "done"
  PROVE  p_proc_ready \in Procs \ blocked
<1>1. Top = stack[1] /\ Top.greatest \in Nat
  BY TopFrame DEF Frame
<1>2. CASE Top.greatest = 0
  BY <1>1, <1>2 DEF IInv, Choosing, Unscheduled, Typed
<1>3. CASE Top.greatest > 0
  BY <1>1, <1>3 DEF IInv, Choosing, BestOf
<1>. QED
  BY <1>1, <1>2, <1>3

\* restart is taken from the outermost frame, restart_reenter from the others.
LEMMA ExitCases ==
  ASSUME IInv, Exit
  PROVE  /\ stack # <<>> /\ Top.at = "done" /\ stack' = Front(stack)
         /\ imr' = imr \ {Top.nr} /\ k_reenter' = Dec(k_reenter)
         /\ UNCHANGED <<irr, p_proc_ready, ticks, blocked, saved, tty, halted, raised, shown>>
         /\ \/ /\ Len(stack) = 1 /\ stack' = <<>> /\ ldt' = regs(p_proc_ready).ldt_sel
               /\ sp0' = p_proc_ready /\ cpu' = p_proc_ready
            \/ Len(stack) > 1 /\ UNCHANGED <<cpu, sp0, ldt>>
<1>1. stack # <<>> /\ Top.at = "done"
  BY DEF Exit, KernelRuns
<1>2. /\ stack \in Seq(Frame) /\ Len(stack) \in Nat /\ Len(stack) > 0
      /\ (Top.ret = "restart" <=> Len(stack) = 1) /\ Top \in Frame
  BY <1>1, TopFrame, StackElements DEF IInv, Typed
<1>3. CASE Top.ret = "restart"
  <2>1. Loadable(p_proc_ready)
    BY AllLoadable DEF IInv, Typed
  <2>2. /\ imr' = Unmasked(Top.nr) /\ ldt' = regs(p_proc_ready).ldt_sel
        /\ sp0' = OwnStack(p_proc_ready) /\ cpu' = saved[p_proc_ready] /\ stack' = <<>>
        /\ k_reenter' = Dec(k_reenter) /\ UNCHANGED <<irr, proc, saved, tty, stop>>
    BY <1>3, <2>1 DEF Exit
  <2>3. Front(stack) = <<>>
    <3>1. Front(stack) \in Seq(Frame) /\ Len(Front(stack)) = 0
      BY <1>1, <1>2, <1>3, FrontProperties
    <3>. QED
      BY <3>1, EmptySeq
  <2>4. saved[p_proc_ready] = p_proc_ready
    BY <1>1 DEF IInv, Context, Typed
  <2>. QED
    BY <1>1, <1>2, <1>3, <2>2, <2>3, <2>4 DEF Unmasked, OwnStack, proc, stop
<1>4. CASE Top.ret # "restart"
  <2>1. /\ imr' = Unmasked(Top.nr) /\ stack' = Front(stack)
        /\ k_reenter' = Dec(k_reenter) /\ UNCHANGED <<irr, proc, user, tty, stop>>
    BY <1>4 DEF Exit
  <2>2. Len(stack) > 1
    <3>1. \A m \in Nat : m > 0 /\ m # 1 => m > 1
      OBVIOUS
    <3>. QED
      BY <1>2, <1>4, <3>1
  <2>. QED
    BY <1>1, <2>1, <2>2 DEF Unmasked, proc, user, stop
<1>. QED
  BY <1>3, <1>4

LEMMA StepExit == ASSUME IInv, Exit PROVE IInv'
<1>1. /\ stack # <<>> /\ Top.at = "done" /\ stack' = Front(stack)
      /\ imr' = imr \ {Top.nr} /\ k_reenter' = Dec(k_reenter)
      /\ UNCHANGED <<irr, p_proc_ready, ticks, blocked, saved, tty, halted, raised, shown>>
  BY ExitCases
<1>2. Nested' /\ Lines' = Lines \ {Top.nr}
  BY <1>1, NestedPop DEF IInv
<1>3. Top \in Frame /\ stack \in Seq(Frame)
  BY <1>1, TopFrame DEF IInv, Typed
<1>4. stack' \in Seq(Frame)
  BY <1>1, <1>3, PopStack
<1>5. Masking'
  <2>1. Top.nr \in {NONE, CLOCK_IRQ, KEYBOARD_IRQ} /\ NONE \notin IRQs
    BY <1>3 DEF Frame, NONE, IRQs
  <2>2. Lines \subseteq {CLOCK_IRQ, KEYBOARD_IRQ}
    BY <1>3, LinesType
  <2>3. Top.nr # NONE => Top.nr \in Lines
    <3>1. Len(stack) \in DOMAIN stack /\ Top = stack[Len(stack)]
      BY <1>1, <1>3, StackElements
    <3>. QED
      BY <3>1 DEF Lines
  <2>4. tty' = tty /\ (tty = "masked" => Top.nr # KEYBOARD_IRQ)
    BY <1>1, <2>3 DEF IInv, Masking, NONE, KEYBOARD_IRQ
  <2>. QED
    BY <1>1, <1>2, <2>1, <2>2, <2>4 DEF IInv, Masking
<1>6. Reported'
  BY <1>1 DEF IInv, Reported
<1>7. CASE /\ Len(stack) = 1 /\ stack' = <<>> /\ ldt' = regs(p_proc_ready).ldt_sel
           /\ sp0' = p_proc_ready /\ cpu' = p_proc_ready
  <2>1. p_proc_ready \in Procs \ blocked
    BY <1>1, <1>7, ChosenCanRun
  <2>2. Typed'
    BY <1>1, <1>4, <1>7, <2>1 DEF IInv, Typed
  <2>3. Context'
    BY <1>1, <1>7, <2>1 DEF IInv, Context
  <2>4. Choosing'
    BY <1>7 DEF Choosing
  <2>. QED
    BY <1>2, <1>5, <1>6, <2>2, <2>3, <2>4 DEF IInv
<1>8. CASE Len(stack) > 1 /\ UNCHANGED <<cpu, sp0, ldt>>
  <2>1. UNCHANGED user
    BY <1>1, <1>8 DEF user
  <2>2. Context' /\ stack' # <<>> /\ stack'[1] = stack[1]
    BY <1>1, <1>8, <2>1, ContextPop DEF IInv
  <2>3. Typed'
    BY <1>1, <1>4, <1>8 DEF IInv, Typed
  <2>4. Choosing'
    <3>1. ticks' \in [Procs -> Nat] /\ \A p \in Procs : ticks'[p] =< ticks[p]
      BY <1>1 DEF IInv, Typed
    <3>2. UNCHANGED <<p_proc_ready, blocked, cpu>>
      BY <1>1, <1>8
    <3>. QED
      BY <1>1, <2>2, <3>1, <3>2, ChoosingStands DEF IInv
  <2>. QED
    BY <1>2, <1>5, <1>6, <2>2, <2>3, <2>4 DEF IInv
<1>. QED
  BY <1>7, <1>8, ExitCases

LEMMA IInvNext == IInv /\ [Next]_vars => IInv'
BY StepRequest, StepStutter, StepInterrupt, StepCall, StepException, StepTtyInit, StepClock,
   StepKeyboard, StepScan, StepRefill, StepPushCaller, StepSendrec, StepDeadlock,
   StepPrintx, StepExit
   DEF Next, Inside, Outside

-----------------------------------------------------------------------------
(* What follows of every behaviour                                         *)

\* The invariant holds in every state the kernel reaches.
THEOREM Inductive == Spec => []IInv
BY IInvInit, IInvNext, PTL DEF Spec

\* The types of the state, and the width of k_reenter (kernel.asm:320-330).
THEOREM TypeCorrect == Spec => []TypeOK
<1>1. IInv => TypeOK
  <2>. SUFFICES ASSUME IInv PROVE TypeOK
    OBVIOUS
  <2>1. Lines \subseteq {CLOCK_IRQ, KEYBOARD_IRQ} /\ Len(stack) \in 0 .. Depth
    BY LinesType, StackElements DEF IInv, Typed, Nested, Depth
  <2>2. imr \subseteq IRQs
    BY <2>1 DEF IInv, Masking, IRQs, CLOCK_IRQ, KEYBOARD_IRQ
  <2>3. k_reenter \in 0 .. Word - 1
    BY <2>1, Counter DEF IInv, Nested
  <2>4. \A n \in DOMAIN stack : stack[n].caller \in Procs \cup {NONE} /\ stack[n].i \in Procs
    BY StackElements DEF IInv, Typed, Frame
  <2>. QED
    BY <2>2, <2>3, <2>4 DEF IInv, Typed, TypeOK
<1>. QED
  BY <1>1, Inductive, PTL

\* k_reenter counts the frames of the kernel's stack, and only the outermost
\* leaves through restart (kernel.asm:142-158 and 320-330).
THEOREM NestingCounted == Spec => []NestingMatches
<1>1. IInv => NestingMatches
  BY DEF IInv, Nested, NestingMatches
<1>. QED
  BY <1>1, Inductive, PTL

\* A line is masked exactly while it is served, or while task_tty sets its
\* handler, and the handler is its own (kernel.asm:144-156, i8259.c:19-58).
THEOREM LinesMasked == Spec => []MaskIsHandled
<1>1. IInv => MaskIsHandled
  BY DEF IInv, Nested, Masking, MaskIsHandled
<1>. QED
  BY <1>1, Inductive, PTL

\* A system call works for the process that executed int 0x90
\* (kernel.asm:351-364).
THEOREM CallerKnown == Spec => []CallerIsCaller
<1>1. ASSUME IInv, NEW n \in DOMAIN stack, stack[n].fn \in Calls
      PROVE  /\ stack[n].esi = IF n = 1 THEN cpu ELSE KERNEL
             /\ stack[n].at # "entry" => stack[n].caller = cpu
  <2>1. n \in 1 .. Len(stack) /\ stack # <<>>
    BY <1>1, StackElements DEF IInv, Typed
  <2>2. n = 1 => stack[1].fn # "kernel_main"
    BY <1>1 DEF Calls
  <2>. QED
    BY <1>1, <2>1, <2>2 DEF IInv, Context
<1>2. IInv => CallerIsCaller
  BY <1>1 DEF CallerIsCaller
<1>. QED
  BY <1>2, Inductive, PTL

\* In the body of a call k_reenter tells the ring the call came from
\* (proc.c:49, tty.c:174-187).
THEOREM RingKnown == Spec => []RingIsKnown
<1>1. ASSUME IInv, NEW fn \in Calls, In(fn, "body")
      PROVE  k_reenter = 0 <=> Top.esi \in Procs
  <2>1. /\ stack # <<>> /\ Top = stack[Len(stack)] /\ Len(stack) \in DOMAIN stack
        /\ Top.fn \in Calls /\ (k_reenter = 0 <=> Len(stack) = 1)
    BY <1>1, TopFrame, StackElements DEF In, IInv, Typed
  <2>2. CASE Len(stack) = 1
    <3>1. Top.esi = sp0 /\ sp0 \in Procs
      BY <1>1, <2>1, <2>2 DEF IInv, Context, Calls
    <3>. QED
      BY <2>1, <2>2, <3>1
  <2>3. CASE Len(stack) # 1
    <3>1. Top.esi = KERNEL
      BY <1>1, <2>1, <2>3 DEF IInv, Context
    <3>2. KERNEL \notin Procs
      BY Sizes DEF KERNEL
    <3>. QED
      BY <2>1, <2>3, <3>1, <3>2
  <2>. QED
    BY <2>2, <2>3
<1>2. IInv => RingIsKnown
  BY <1>1 DEF RingIsKnown
<1>. QED
  BY <1>2, Inductive, PTL

\* Out of the kernel the process that schedule() chose runs, on its own
\* registers, stack and descriptors (kernel.asm:332-346).
THEOREM OwnResumed == Spec => []ResumesOwn
<1>1. ASSUME IInv, stack = <<>>
      PROVE  /\ cpu = p_proc_ready /\ cpu \notin blocked
             /\ sp0 = cpu
             /\ BaseOf(Table(ldt)) = ldts(cpu)
             /\ \A p \in Procs \ {cpu} : saved[p] = p
  <2>1. cpu \in Procs /\ ldt = regs(cpu).ldt_sel
    BY <1>1 DEF IInv, Context
  <2>2. BaseOf(Table(ldt)) = ldts(cpu)
    BY <2>1, LdtIsOwn DEF Table
  <2>. QED
    BY <1>1, <2>2 DEF IInv, Context
<1>2. IInv => ResumesOwn
  BY <1>1 DEF ResumesOwn
<1>. QED
  BY <1>2, Inductive, PTL

\* The processor refuses nothing, and no two processes share stack
\* (main.c:29-75, protect.c:57-231).
THEOREM NeverRefused == Spec => []NothingRefused
<1>1. ASSUME IInv, stack = <<>>
      PROVE  /\ regs(cpu).esp - stacksize[cpu] >= task_stack
             /\ regs(cpu).esp =< task_stack + STACK_SIZE_TOTAL
             /\ \A p \in Procs \ {cpu} :
                  regs(p).esp =< regs(cpu).esp - stacksize[cpu] \/ regs(cpu).esp =< regs(p).esp - stacksize[p]
  <2>1. cpu \in Procs
    BY <1>1 DEF IInv, Context
  <2>. QED
    BY <2>1, StacksApart
<1>2. IInv => NothingRefused
  BY <1>1 DEF NothingRefused, IInv, Typed
<1>. QED
  BY <1>2, Inductive, PTL

\* When schedule() ends it has found the first with the most ticks of those
\* that can run (proc.c:16-36).
THEOREM BestChosen == Spec => []ChoosesBest
<1>1. ASSUME IInv, NEW n \in DOMAIN stack, stack[n].at = "done", stack[n].greatest > 0
      PROVE  /\ p_proc_ready \notin blocked
             /\ \A q \in Procs \ blocked :
                  /\ ticks[q] =< stack[n].greatest
                  /\ q < p_proc_ready => ticks[q] < stack[n].greatest
  <2>1. n = 1 /\ stack # <<>>
    BY <1>1, StackElements DEF IInv, Typed, Nested
  <2>. QED
    BY <1>1, <2>1 DEF IInv, Choosing, BestOf
<1>2. IInv => ChoosesBest
  BY <1>1 DEF ChoosesBest
<1>. QED
  BY <1>2, Inductive, PTL

\* For every exception the handler prints its vector, its code if it has one,
\* and where it was (protect.c:62-108 and 238-286, kernel.asm:238-298).
THEOREM ExceptionNamed == Spec => []NamesTheException
<1>1. IInv => NamesTheException
  BY DEF IInv, Reported, Named, NamesTheException
<1>. QED
  BY <1>1, Inductive, PTL

\* A tick that comes in the kernel switches nothing (clock.c:25-28).
THEOREM NotPreempted == Spec => KernelNotPreempted
<1>1. ASSUME IInv, [Next]_vars PROVE p_proc_ready' # p_proc_ready => Len(stack) = 1
  <2>1. CASE Scan
    BY <1>1, <2>1, TopFrame DEF Scan, KernelRuns
  <2>2. CASE ~Scan
    <3>1. ~Exit => p_proc_ready' = p_proc_ready
      BY <1>1, <2>2 DEF Next, Inside, Outside, Request, Interrupt, Exception, Raise, Refuse, Call, TtyInit,
        clock_handler, keyboard_handler, Refill, PushCaller, sys_sendrec, deadlock, sys_printx, proc, vars
    <3>2. Exit => p_proc_ready' = p_proc_ready
      BY <1>1, ExitCases
    <3>. QED
      BY <3>1, <3>2
  <2>. QED
    BY <2>1, <2>2
<1>. QED
  BY <1>1, Inductive, PTL DEF Spec, KernelNotPreempted

-----------------------------------------------------------------------------
(* Nothing of it shows outside                                             *)

\* What the outermost frame adds to the invariant: only a call that has begun
\* has a caller, and schedule() runs in it because the caller went to sleep.
Visiting ==
  stack # <<>> =>
    LET f == stack[1] IN
    /\ f.fn \notin Calls \/ f.at = "entry" => f.caller = NONE
    /\ f.fn = "kernel_main" => p_proc_ready = 0 /\ cpu = KERNEL
    /\ f.fn \in Calls /\ ~Unscheduled(f) => cpu \in blocked

Stutters == UNCHANGED <<Running, blocked, Visit>>

\* The outermost frame waits.
LEMMA VisitStays ==
  ASSUME Visiting, stack # <<>>, stack' # <<>>, stack'[1] = stack[1],
         UNCHANGED <<p_proc_ready, blocked, cpu>>
  PROVE  Visiting' /\ Stutters
<1>1. Visiting'
  BY DEF Visiting, Unscheduled
<1>2. PICK f : f = stack[1]
  OBVIOUS
<1>3. VisitAs(f)' = VisitAs(f)
  BY DEF VisitAs
<1>4. Visit' = Visit
  BY <1>2, <1>3 DEF Visit
<1>. QED
  BY <1>1, <1>4 DEF Stutters, Running

\* Any frame but the outermost gets on.
LEMMA VisitWithin ==
  ASSUME IInv, Visiting, stack # <<>>, Len(stack) # 1, NEW f \in Frame, Goto(f),
         UNCHANGED <<p_proc_ready, blocked, cpu>>
  PROVE  Visiting' /\ Stutters
<1>1. /\ stack' # <<>> /\ Len(stack) \in Nat /\ Len(stack) > 0
      /\ \A n \in 1 .. Len(stack) - 1 : stack'[n] = stack[n]
  BY GotoStack, StackElements DEF IInv, Typed
<1>2. \A m \in Nat : m > 0 /\ m # 1 => 1 \in 1 .. m - 1
  OBVIOUS
<1>3. stack'[1] = stack[1]
  BY <1>1, <1>2
<1>. QED
  BY <1>1, <1>3, VisitStays

\* The outermost frame gets on.
LEMMA VisitGoto ==
  ASSUME IInv, IInv', Visiting, stack # <<>>, Len(stack) = 1, NEW f \in Frame, Goto(f), cpu' = cpu,
         f.fn = Top.fn, f.fn # "kernel_main", f.at # "entry", f.fn \notin Calls => f.caller = Top.caller,
         f.fn \in Calls /\ ~Unscheduled(f) => cpu \in blocked'
  PROVE  /\ Visiting' /\ UNCHANGED Running
         /\ Visit = VisitAs(Top) /\ Visit' = VisitAs(f)'
<1>1. stack' # <<>> /\ stack'[1] = f /\ stack[1] = Top
  BY GotoStack, StackElements DEF IInv, Typed
<1>2. Visiting'
  BY <1>1 DEF Visiting, Unscheduled
<1>3. Visit' = VisitAs(f)'
  BY <1>1 DEF Visit, VisitAs
<1>4. Visit = VisitAs(Top)
  BY <1>1 DEF Visit
<1>. QED
  BY <1>2, <1>3, <1>4 DEF Running

\* A frame is put on the empty stack.
LEMMA VisitEnters ==
  ASSUME IInv, IInv', Visiting, stack = <<>>,
         NEW nr \in {NONE, CLOCK_IRQ, KEYBOARD_IRQ},
         NEW fn \in Calls \cup {"clock_handler", "keyboard_handler"}, save(nr, fn),
         UNCHANGED <<p_proc_ready, blocked, cpu>>
  PROVE  Visiting' /\ Promise!Enter
<1>1. Len(stack) = 0 /\ Len(stack) < Depth /\ cpu \in Procs /\ Visit = "user"
  BY DEF Depth, IInv, Context, Visit
<1>2. stack' # <<>> /\ stack'[1] = Saved(nr, fn)
  BY <1>1, SaveStack DEF IInv, Typed, Nested
<1>3. /\ Saved(nr, fn).fn = fn /\ Saved(nr, fn).at = "entry" /\ Saved(nr, fn).caller = NONE
      /\ Unscheduled(Saved(nr, fn)) /\ fn # "kernel_main"
  BY DEF Saved, Unscheduled, Calls
<1>4. Unscheduled(stack'[1])
  BY <1>2, <1>3 DEF Unscheduled
<1>5. Visiting'
  BY <1>2, <1>3, <1>4 DEF Visiting, Unscheduled
<1>6. Visit' = VisitAs(stack[1])'
  BY <1>2 DEF Visit
<1>7. NONE \notin blocked'
  BY <1>5, Sizes DEF IInv, Typed, NONE
<1>8. Visit' \in {"call", "tick", "device"}
  BY <1>2, <1>3, <1>6, <1>7 DEF VisitAs, Calls
<1>. QED
  BY <1>1, <1>5, <1>8 DEF Promise!Enter, Running
Promised == Visiting' /\ (Promise!Next \/ Stutters)

LEMMA PromisedOutside ==
  ASSUME IInv, IInv', Visiting,
         Outside \/ (\E irq \in {CLOCK_IRQ, KEYBOARD_IRQ} : Request(irq)) \/ UNCHANGED vars
  PROVE  Promised
<1>1. CASE \E fn \in Calls : Call(fn)
  <2>1. PICK fn \in Calls : Call(fn)
    BY <1>1
  <2>2. stack = <<>> /\ cpu \in Procs
    BY <2>1 DEF Call, UserRuns, IInv, Context
  <2>3. save(NONE, fn) /\ UNCHANGED <<p_proc_ready, blocked, cpu>>
    BY <2>1, <2>2, CallsAllowed DEF Call, proc
  <2>4. NONE \in {NONE, CLOCK_IRQ, KEYBOARD_IRQ} /\ fn \in Calls \cup {"clock_handler", "keyboard_handler"}
    OBVIOUS
  <2>5. Visiting' /\ Promise!Enter
    BY <2>2, <2>3, <2>4, VisitEnters
  <2>. QED
    BY <2>5 DEF Promised, Promise!Next
<1>2. CASE UNCHANGED <<stack, p_proc_ready, blocked, cpu>>
  BY <1>2 DEF Promised, Stutters, Visiting, Unscheduled, Running, Visit, VisitAs
<1>3. CASE \E v \in Vectors : Exception(v)
  BY <1>2, <1>3 DEF Exception, Raise, proc, user
<1>4. CASE TtyInit
  <2>1. MayTouchPorts
    BY <1>4, TtyTouchesPorts DEF TtyInit
  <2>. QED
    BY <1>2, <1>4, <2>1 DEF TtyInit, proc, user
<1>5. CASE \E irq \in {CLOCK_IRQ, KEYBOARD_IRQ} : Request(irq)
  BY <1>2, <1>5 DEF Request, proc, user
<1>6. CASE UNCHANGED vars
  BY <1>2, <1>6 DEF vars, proc, user
<1>. QED
  BY <1>1, <1>3, <1>4, <1>5, <1>6 DEF Outside

LEMMA PromisedInterrupt == ASSUME IInv, IInv', Visiting, Interrupt PROVE Promised
<1>1. PICK irq \in {CLOCK_IRQ, KEYBOARD_IRQ} : save(irq, irq_table(irq)) /\ irq \notin Lines
  <2>1. Requested \in SUBSET {CLOCK_IRQ, KEYBOARD_IRQ} /\ Requested # {}
    BY DEF Interrupt, Waiting, Requested, IInv, Typed
  <2>2. Min(Requested) \in Requested
    BY <2>1, MinOfLines
  <2>3. Min(Requested) \in IRQs
    <3>1. CLOCK_IRQ \in IRQs /\ KEYBOARD_IRQ \in IRQs
      BY DEF IRQs, CLOCK_IRQ, KEYBOARD_IRQ
    <3>. QED
      BY <2>1, <2>2, <3>1
  <2>4. idt[init_8259A.base + Min(Requested)].nr = Min(Requested)
    BY <2>3, StubOfLine
  <2>5. Min(Requested) \notin Lines
    BY <2>2 DEF Requested, IInv, Masking
  <2>. QED
    BY <2>1, <2>2, <2>4, <2>5 DEF Interrupt
<1>2. irq_table(irq) \in Calls \cup {"clock_handler", "keyboard_handler"}
      /\ irq \in {NONE, CLOCK_IRQ, KEYBOARD_IRQ}
  BY DEF irq_table, CLOCK_IRQ, KEYBOARD_IRQ
<1>3. UNCHANGED <<p_proc_ready, blocked, cpu>>
  BY DEF Interrupt, proc
<1>4. CASE stack = <<>>
  <2>1. Visiting' /\ Promise!Enter
    BY <1>1, <1>2, <1>3, <1>4, VisitEnters
  <2>. QED
    BY <2>1 DEF Promised, Promise!Next
<1>5. CASE stack # <<>>
  <2>1. Len(stack) < Depth
    BY <1>1, RoomOnStack DEF IInv
  <2>2. stack' # <<>> /\ \A n \in 1 .. Len(stack) : stack'[n] = stack[n]
    BY <1>1, <1>2, <2>1, SaveStack DEF IInv, Typed, Nested
  <2>3. stack'[1] = stack[1]
    BY <1>5, <2>2, StackElements DEF IInv, Typed
  <2>. QED
    BY <1>3, <1>5, <2>2, <2>3, VisitStays DEF Promised
<1>. QED
  BY <1>4, <1>5

\* The handlers' frames are the same visit wherever they are.
LEMMA PromisedHandler ==
  ASSUME IInv, IInv', Visiting, stack # <<>>, Top.fn \in {"clock_handler", "keyboard_handler"},
         NEW f \in Frame, Goto(f), f.fn = Top.fn, f.caller = Top.caller, f.at # "entry",
         UNCHANGED <<p_proc_ready, blocked, cpu>>
  PROVE  Promised
<1>1. CASE Len(stack) = 1
  <2>1. f.fn \notin Calls /\ f.fn # "kernel_main"
    BY DEF Calls
  <2>2. /\ Visiting' /\ UNCHANGED Running
        /\ Visit = VisitAs(Top) /\ Visit' = VisitAs(f)'
    BY <1>1, <2>1, VisitGoto
  <2>3. VisitAs(Top) = VisitAs(f)'
    BY DEF VisitAs, Calls
  <2>. QED
    BY <2>2, <2>3 DEF Promised, Stutters
<1>2. CASE Len(stack) # 1
  BY <1>2, VisitWithin DEF Promised
<1>. QED
  BY <1>1, <1>2

LEMMA PromisedClock == ASSUME IInv, IInv', Visiting, clock_handler PROVE Promised
<1>1. /\ stack # <<>> /\ Top.fn = "clock_handler" /\ UNCHANGED <<p_proc_ready, blocked, cpu>>
      /\ Goto(schedule) \/ Proceed("done")
      /\ Top \in Frame
  BY TopFrame DEF clock_handler, KernelRuns, In, user
<1>2. PICK f \in Frame :
        Goto(f) /\ f.fn = Top.fn /\ f.caller = Top.caller /\ f.at # "entry"
  <2>1. CASE Goto(schedule)
    <3>. DEFINE f == [Top EXCEPT !.at = "scan", !.i = 0, !.greatest = 0]
    <3>1. Top \in Frame /\ 0 \in Procs /\ 0 \in Nat /\ "scan" \in {"entry", "body", "chain", "scan", "refill", "done"}
      BY <1>1, TopFrame, Sizes
    <3>2. f \in Frame
      BY <3>1, Zenon DEF Frame
    <3>3. f.fn = Top.fn /\ f.caller = Top.caller /\ f.at # "entry"
      BY <3>1 DEF Frame
    <3>. QED
      BY <2>1, <3>2, <3>3 DEF schedule
  <2>2. CASE Proceed("done")
    <3>. DEFINE f == [Top EXCEPT !.at = "done"]
    <3>1. Top \in Frame
      BY <1>1, TopFrame
    <3>2. f \in Frame
      BY <3>1, FrameUpdates
    <3>3. f.fn = Top.fn /\ f.caller = Top.caller /\ f.at # "entry"
      BY <3>1 DEF Frame
    <3>. QED
      BY <2>2, <3>2, <3>3 DEF Proceed
  <2>. QED
    BY <1>1, <2>1, <2>2
<1>. QED
  BY <1>1, <1>2, PromisedHandler

LEMMA PromisedKeyboard == ASSUME IInv, IInv', Visiting, keyboard_handler PROVE Promised
<1>1. /\ stack # <<>> /\ Top.fn = "keyboard_handler" /\ UNCHANGED <<p_proc_ready, blocked, cpu>>
      /\ Proceed("done")
  BY DEF keyboard_handler, KernelRuns, In, user, proc
<1>2. PICK f \in Frame :
        Goto(f) /\ f.fn = Top.fn /\ f.caller = Top.caller /\ f.at # "entry"
  <2>. DEFINE f == [Top EXCEPT !.at = "done"]
  <2>1. Top \in Frame
    BY <1>1, TopFrame
  <2>2. f \in Frame
    BY <2>1, FrameUpdates
  <2>3. f.fn = Top.fn /\ f.caller = Top.caller /\ f.at # "entry"
    BY <2>1 DEF Frame
  <2>. QED
    BY <1>1, <2>2, <2>3 DEF Proceed
<1>. QED
  BY <1>1, <1>2, PromisedHandler

\* A round of schedule(), for a tick or for a call whose caller sleeps.
LEMMA PromisedRound ==
  ASSUME IInv, IInv', Visiting, stack # <<>>, Top.at \in {"scan", "refill"},
         NEW at \in {"scan", "refill", "done"}, NEW i, NEW t,
         Goto([Top EXCEPT !.greatest = t, !.i = i, !.at = at]) \/ Goto([Top EXCEPT !.i = i, !.at = at]),
         UNCHANGED <<blocked, cpu>>
  PROVE  Promised
<1>1. /\ Top \in Frame /\ Len(stack) = 1 /\ Top = stack[1] /\ Top.fn \in {"clock_handler", "sendrec"}
      /\ Top.fn \in Calls => Top.caller = cpu
  BY TopFrame
<1>2. stack \in Seq(Frame) /\ stack' \in Seq(Frame) /\ DOMAIN stack = 1 .. Len(stack)
  BY StackElements DEF IInv, Typed
<1>3. PICK f : Goto(f) /\ f.fn = Top.fn /\ f.caller = Top.caller /\ f.at = at
  <2>1. /\ [Top EXCEPT !.greatest = t, !.i = i, !.at = at].fn = Top.fn
        /\ [Top EXCEPT !.greatest = t, !.i = i, !.at = at].caller = Top.caller
        /\ [Top EXCEPT !.greatest = t, !.i = i, !.at = at].at = at
    BY <1>1 DEF Frame
  <2>2. /\ [Top EXCEPT !.i = i, !.at = at].fn = Top.fn
        /\ [Top EXCEPT !.i = i, !.at = at].caller = Top.caller
        /\ [Top EXCEPT !.i = i, !.at = at].at = at
    BY <1>1 DEF Frame
  <2>. QED
    BY <2>1, <2>2
<1>4. f \in Frame
  <2>1. stack' = [stack EXCEPT ![1] = f] /\ 1 \in DOMAIN stack
    BY <1>1, <1>2, <1>3 DEF Goto
  <2>2. stack'[1] = f /\ 1 \in DOMAIN stack'
    BY <2>1
  <2>. QED
    BY <1>2, <2>2, ElementOfSeq, LenProperties
<1>5. Top.fn \in Calls => cpu \in blocked
  BY <1>1 DEF Visiting, Unscheduled
<1>6. /\ Visiting' /\ UNCHANGED Running
      /\ Visit = VisitAs(Top) /\ Visit' = VisitAs(f)'
  <2>1. f.fn # "kernel_main" /\ f.at # "entry" /\ (f.fn \notin Calls => f.caller = Top.caller)
        /\ (f.fn \in Calls /\ ~Unscheduled(f) => cpu \in blocked')
    BY <1>1, <1>3, <1>5
  <2>. QED
    BY <1>1, <1>3, <1>4, <2>1, VisitGoto
<1>7. VisitAs(Top) = VisitAs(f)'
  BY <1>1, <1>3, <1>5 DEF VisitAs, Calls
<1>. QED
  BY <1>6, <1>7 DEF Promised, Stutters

LEMMA PromisedScan == ASSUME IInv, IInv', Visiting, Scan PROVE Promised
<1>1. stack # <<>> /\ Top.at = "scan" /\ UNCHANGED <<blocked, cpu>>
  BY DEF Scan, KernelRuns, user
<1>2. PICK most, next, at :
        /\ at \in {"scan", "refill", "done"}
        /\ Goto([Top EXCEPT !.greatest = most, !.i = next, !.at = at])
  BY DEF Scan
<1>. QED
  BY <1>1, <1>2, PromisedRound

LEMMA PromisedRefill == ASSUME IInv, IInv', Visiting, Refill PROVE Promised
<1>1. stack # <<>> /\ Top.at = "refill" /\ UNCHANGED <<blocked, cpu>>
  BY DEF Refill, KernelRuns, user
<1>2. PICK next, at :
        /\ at \in {"scan", "refill", "done"}
        /\ Goto([Top EXCEPT !.i = next, !.at = at])
  <2>1. Goto([Top EXCEPT !.i = IF Top.i < LastProc THEN Top.i + 1 ELSE 0,
                         !.at = IF Top.i < LastProc THEN "refill" ELSE "scan"])
    BY DEF Refill
  <2>. QED
    BY <2>1
<1>. QED
  BY <1>1, <1>2, PromisedRound
LEMMA PromisedPushCaller == ASSUME IInv, IInv', Visiting, PushCaller PROVE Promised
<1>1. /\ stack # <<>> /\ Top.fn \in Calls /\ Top.at = "entry" /\ Top \in Frame
      /\ Goto([Top EXCEPT !.caller = p_proc_ready, !.at = "body"])
      /\ UNCHANGED <<p_proc_ready, blocked, cpu>>
  BY TopFrame DEF PushCaller, KernelRuns, proc, user
<1>2. PICK f \in Frame :
        Goto(f) /\ f.fn = Top.fn /\ f.caller = p_proc_ready /\ f.at = "body" /\ f.greatest = Top.greatest
  <2>. DEFINE f == [Top EXCEPT !.caller = p_proc_ready, !.at = "body"]
  <2>1. Top \in Frame /\ p_proc_ready \in Procs /\ "body" \in {"entry", "body", "chain", "scan", "refill", "done"}
    BY <1>1 DEF IInv, Typed
  <2>2. f \in Frame
    BY <2>1, Zenon DEF Frame
  <2>3. f.fn = Top.fn /\ f.caller = p_proc_ready /\ f.at = "body" /\ f.greatest = Top.greatest
    BY <1>1 DEF Frame
  <2>. QED
    BY <1>1, <2>2, <2>3
<1>3. CASE Len(stack) = 1
  <2>1. Unscheduled(f) /\ f.fn # "kernel_main"
    BY <1>1, <1>2 DEF Unscheduled, Calls
  <2>2. /\ Visiting' /\ UNCHANGED Running
        /\ Visit = VisitAs(Top) /\ Visit' = VisitAs(f)'
    BY <1>1, <1>2, <1>3, <2>1, VisitGoto
  <2>3. Top.caller = NONE /\ NONE \notin blocked
    <3>1. Top = stack[1] /\ NONE \notin Procs
      BY <1>1, <1>3, TopFrame, Sizes DEF NONE
    <3>. QED
      BY <1>1, <3>1 DEF Visiting, IInv, Typed
  <2>4. p_proc_ready \notin blocked
    BY <1>1, <1>3, TopFrame DEF IInv, Choosing, Unscheduled, Calls
  <2>5. VisitAs(Top) = "call" /\ VisitAs(f)' = "call"
    BY <1>1, <1>2, <2>3, <2>4 DEF VisitAs, Calls
  <2>. QED
    BY <1>1, <2>2, <2>5 DEF Promised, Stutters
<1>4. CASE Len(stack) # 1
  BY <1>1, <1>2, <1>4, VisitWithin DEF Promised
<1>. QED
  BY <1>3, <1>4

\* The body of the outermost call returns.
LEMMA PromisedReturn ==
  ASSUME IInv, IInv', Visiting, stack # <<>>, Top.fn \in Calls, Top.at = "body", Proceed("done"),
         Len(stack) = 1, UNCHANGED <<p_proc_ready, cpu>>,
         \/ blocked' = blocked
         \/ \E p \in blocked : blocked' = blocked \ {p}
  PROVE  Promised
<1>1. /\ Top \in Frame /\ Top = stack[1] /\ Top.caller = cpu /\ Top.fn # "kernel_main"
      /\ cpu \notin blocked /\ Top.greatest = 0 /\ cpu \in Procs
  <2>1. Top \in Frame /\ Top = stack[1] /\ Top.caller = cpu /\ ~(Top.greatest > 0) /\ Top.fn # "kernel_main"
    BY TopFrame DEF Calls
  <2>2. Top.greatest = 0
    BY <2>1 DEF Frame
  <2>3. cpu \notin blocked
    BY <2>1 DEF IInv, Choosing, Unscheduled
  <2>. QED
    BY <2>1, <2>2, <2>3 DEF IInv, Context
<1>2. PICK f \in Frame : Goto(f) /\ f.fn = Top.fn /\ f.caller = cpu /\ f.at = "done" /\ f.greatest = 0
  <2>. DEFINE f == [Top EXCEPT !.at = "done"]
  <2>1. f.fn = Top.fn /\ f.caller = cpu /\ f.at = "done" /\ f.greatest = 0
    BY <1>1 DEF Frame
  <2>. QED
    BY <1>1, <2>1, FrameUpdates DEF Proceed
<1>3. Unscheduled(f)
  BY <1>2 DEF Unscheduled
<1>4. /\ Visiting' /\ UNCHANGED Running
      /\ Visit = VisitAs(Top) /\ Visit' = VisitAs(f)'
  BY <1>1, <1>2, <1>3, VisitGoto
<1>5. VisitAs(Top) = "call" /\ VisitAs(f)' = "served"
  BY <1>1, <1>2 DEF VisitAs, Calls
<1>6. Promise!Serve
  BY <1>4, <1>5 DEF Promise!Serve
<1>. QED
  BY <1>4, <1>6 DEF Promised, Promise!Next

LEMMA PromisedSendrec == ASSUME IInv, IInv', Visiting, sys_sendrec PROVE Promised
<1>1. /\ stack # <<>> /\ Top.fn = "sendrec" /\ Top.at = "body" /\ Top.fn \in Calls
      /\ UNCHANGED <<p_proc_ready, cpu>> /\ Len(stack) = 1
  BY TopFrame DEF sys_sendrec, KernelRuns, In, Calls, user
<1>2. CASE Proceed("done") /\ (UNCHANGED blocked \/ \E p \in blocked : blocked' = blocked \ {p})
  BY <1>1, <1>2, PromisedReturn
<1>3. CASE blocked' = blocked \cup {Top.caller} /\ Goto(schedule)
  <2>1. /\ Top \in Frame /\ Top = stack[1] /\ Top.caller = cpu /\ cpu \in Procs
        /\ cpu \notin blocked /\ cpu # KERNEL
    <3>1. Top \in Frame /\ Top = stack[1] /\ Top.caller = cpu /\ ~(Top.greatest > 0)
      BY <1>1, TopFrame
    <3>2. Top.greatest = 0
      BY <3>1 DEF Frame
    <3>3. cpu \notin blocked
      BY <1>1, <3>1 DEF IInv, Choosing, Unscheduled
    <3>4. cpu \in Procs
      BY <1>1, <3>1 DEF IInv, Context
    <3>. QED
      BY <3>1, <3>3, <3>4, Sizes DEF KERNEL
  <2>2. PICK f \in Frame : Goto(f) /\ f.fn = Top.fn /\ f.caller = cpu /\ f.at = "scan"
    <3>. DEFINE f == [Top EXCEPT !.at = "scan", !.i = 0, !.greatest = 0]
    <3>1. Top \in Frame /\ 0 \in Procs /\ 0 \in Nat /\ "scan" \in {"entry", "body", "chain", "scan", "refill", "done"}
      BY <2>1, Sizes
    <3>2. f \in Frame
      BY <3>1, Zenon DEF Frame
    <3>3. f.fn = Top.fn /\ f.caller = cpu /\ f.at = "scan"
      BY <2>1 DEF Frame
    <3>. QED
      BY <1>3, <3>2, <3>3 DEF schedule
  <2>3. /\ Visiting' /\ UNCHANGED Running
        /\ Visit = VisitAs(Top) /\ Visit' = VisitAs(f)'
    BY <1>1, <1>3, <2>1, <2>2, VisitGoto
  <2>4. VisitAs(Top) = "call" /\ VisitAs(f)' = "slept"
    BY <1>1, <1>3, <2>1, <2>2 DEF VisitAs, Calls
  <2>5. blocked' = blocked \cup {Running}
    BY <1>3, <2>1 DEF Running
  <2>6. Promise!Serve
    BY <2>3, <2>4, <2>5 DEF Promise!Serve
  <2>. QED
    BY <2>3, <2>6 DEF Promised, Promise!Next
<1>4. CASE Proceed("chain") /\ UNCHANGED blocked
  <2>1. /\ Top \in Frame /\ Top.caller = cpu /\ Top.fn # "kernel_main" /\ cpu \notin blocked
    BY <1>1, TopFrame DEF IInv, Choosing, Unscheduled
  <2>2. PICK f \in Frame : Goto(f) /\ f.fn = Top.fn /\ f.caller = cpu /\ f.at = "chain"
    <3>. DEFINE f == [Top EXCEPT !.at = "chain"]
    <3>1. f.fn = Top.fn /\ f.caller = cpu /\ f.at = "chain"
      BY <2>1 DEF Frame
    <3>. QED
      BY <1>4, <2>1, <3>1, FrameUpdates DEF Proceed
  <2>3. /\ Visiting' /\ UNCHANGED Running
        /\ Visit = VisitAs(Top) /\ Visit' = VisitAs(f)'
    BY <1>1, <2>1, <2>2, VisitGoto DEF Unscheduled
  <2>4. VisitAs(Top) = "call" /\ VisitAs(f)' = "call"
    BY <1>1, <1>4, <2>1, <2>2 DEF VisitAs, Calls
  <2>. QED
    BY <1>4, <2>3, <2>4 DEF Promised, Stutters
<1>. QED
  BY <1>2, <1>3, <1>4 DEF sys_sendrec

LEMMA PromisedDeadlock == ASSUME IInv, IInv', Visiting, deadlock PROVE Promised
<1>1. /\ stack # <<>> /\ Top.fn = "sendrec" /\ UNCHANGED <<p_proc_ready, blocked, cpu>>
  BY DEF deadlock, KernelRuns, In, proc
<1>2. Len(stack) = 1
  BY <1>1, TopFrame
<1>3. PICK fn \in {"print", "panic"} : save(NONE, fn)
  BY DEF deadlock
<1>4. /\ NONE \in {NONE, CLOCK_IRQ, KEYBOARD_IRQ} /\ Len(stack) < Depth
      /\ fn \in Calls \cup {"clock_handler", "keyboard_handler"}
  BY <1>2 DEF Calls, Depth
<1>5. stack' # <<>> /\ \A n \in 1 .. Len(stack) : stack'[n] = stack[n]
  BY <1>3, <1>4, SaveStack DEF IInv, Typed, Nested
<1>6. stack'[1] = stack[1]
  BY <1>2, <1>5
<1>. QED
  BY <1>1, <1>5, <1>6, VisitStays DEF Promised

LEMMA PromisedPrintx == ASSUME IInv, IInv', Visiting, sys_printx PROVE Promised
<1>1. /\ stack # <<>> /\ Top.fn \in Calls /\ Top.at = "body" /\ UNCHANGED <<p_proc_ready, blocked, cpu>>
      /\ Top \in Frame
  BY TopFrame DEF sys_printx, KernelRuns, proc, user
<1>2. CASE UNCHANGED stack
  BY <1>1, <1>2 DEF Promised, Stutters, Visiting, Unscheduled, Running, Visit, VisitAs
<1>3. CASE Proceed("done") /\ Len(stack) = 1
  BY <1>1, <1>3, PromisedReturn
<1>4. CASE Proceed("done") /\ Len(stack) # 1
  <2>1. [Top EXCEPT !.at = "done"] \in Frame
    BY <1>1, FrameUpdates
  <2>. QED
    BY <1>1, <1>4, <2>1, VisitWithin DEF Promised, Proceed
<1>. QED
  BY <1>2, <1>3, <1>4 DEF sys_printx

LEMMA PromisedExit == ASSUME IInv, IInv', Visiting, Exit PROVE Promised
<1>1. stack # <<>> /\ Top.at = "done" /\ stack' = Front(stack) /\ UNCHANGED <<p_proc_ready, blocked>>
  BY ExitCases
<1>2. CASE Len(stack) > 1 /\ UNCHANGED <<cpu, sp0, ldt>>
  <2>1. UNCHANGED user
    BY <1>2, ExitCases DEF user
  <2>2. stack' # <<>> /\ stack'[1] = stack[1]
    BY <1>1, <1>2, <2>1, ContextPop DEF IInv
  <2>. QED
    BY <1>1, <1>2, <2>2, VisitStays DEF Promised
<1>3. CASE Len(stack) = 1 /\ stack' = <<>> /\ cpu' = p_proc_ready
  <2>1. p_proc_ready \in Procs \ blocked
    BY <1>1, <1>3, ChosenCanRun
  <2>2. /\ Visit' = "user" /\ Visiting' /\ Running' = p_proc_ready
        /\ Visit = VisitAs(Top) /\ Top = stack[1] /\ Top \in Frame
    BY <1>1, <1>3, <2>1, Sizes, TopFrame DEF Visit, Visiting, Running, KERNEL
  <2>3. CASE Top.fn \in {"clock_handler"} \/ (Top.fn \in Calls /\ ~Unscheduled(Top))
    <3>1. Visit \in {"tick", "slept"}
      BY <1>1, <2>2, <2>3, TopFrame DEF VisitAs, Visiting, Calls
    <3>2. Promise!Switch
      BY <1>1, <2>1, <2>2, <3>1 DEF Promise!Switch
    <3>. QED
      BY <2>2, <3>2 DEF Promised, Promise!Next
  <2>4. CASE ~(Top.fn \in {"clock_handler"} \/ (Top.fn \in Calls /\ ~Unscheduled(Top)))
    <3>1. Top.greatest = 0
      <4>1. Top.greatest \in Nat
        BY <2>2 DEF Frame
      <4>2. Top.greatest > 0 => Top.fn = "sendrec"
        BY <1>1, <2>4, TopFrame
      <4>3. Top.fn \in Calls => Top.greatest = 0
        BY <1>1, <2>4 DEF Unscheduled
      <4>. QED
        BY <4>1, <4>2, <4>3 DEF Calls
    <3>2. /\ p_proc_ready \notin blocked
          /\ Top.fn # "kernel_main" => p_proc_ready = cpu
          /\ Top.fn = "kernel_main" => p_proc_ready = 0 /\ cpu = KERNEL
      BY <1>1, <2>2, <3>1 DEF IInv, Choosing, Unscheduled, Visiting
    <3>3. Running = p_proc_ready
      BY <2>1, <3>2, Sizes DEF Running, KERNEL
    <3>4. Top.fn \in Calls => Top.caller = cpu /\ cpu \notin blocked
      BY <1>1, <3>2, TopFrame DEF Calls
    <3>5. Visit \in {"start", "served", "device"}
      <4>1. Top.fn \in Calls \cup {"kernel_main", "keyboard_handler"}
        BY <2>2, <2>4 DEF Frame
      <4>. QED
        BY <1>1, <2>2, <3>4, <4>1 DEF VisitAs, Calls
    <3>6. Promise!Return
      BY <1>1, <2>2, <3>3, <3>5 DEF Promise!Return
    <3>. QED
      BY <2>2, <3>6 DEF Promised, Promise!Next
  <2>. QED
    BY <2>3, <2>4
<1>. QED
  BY <1>2, <1>3, ExitCases

\* However interrupts nest, the entries keep the promise of module Dispatch to
\* the rest of the kernel (kernel.asm:302-366, clock.c:20-30, proc.c:16-36).
THEOREM EntriesKeepPromise == Spec => Dispatches
<1>1. Init => Visiting /\ Promise!Init
  <2>. SUFFICES ASSUME Init PROVE Visiting /\ Promise!Init
    OBVIOUS
  <2>. DEFINE f == [nr |-> NONE, fn |-> "kernel_main", at |-> "done", ret |-> "restart",
                    esi |-> KERNEL, caller |-> NONE, i |-> 0, greatest |-> 0]
  <2>1. stack = <<f>> /\ cpu = KERNEL /\ p_proc_ready = 0 /\ blocked = {}
    BY DEF Init
  <2>2. f.fn = "kernel_main" /\ f.caller = NONE
    OBVIOUS
  <2>. HIDE DEF f
  <2>3. stack # <<>> /\ stack[1] = f
    BY <2>1
  <2>4. Visit = "start"
    BY <2>2, <2>3 DEF Visit, VisitAs, Calls
  <2>5. Visiting
    BY <2>1, <2>2, <2>3 DEF Visiting, Calls
  <2>. QED
    BY <2>1, <2>4, <2>5 DEF Promise!Init, Running
<1>2. ASSUME IInv, IInv', Visiting, [Next]_vars PROVE Promised
  BY <1>2, PromisedOutside, PromisedInterrupt, PromisedClock, PromisedKeyboard, PromisedScan,
     PromisedRefill, PromisedPushCaller, PromisedSendrec, PromisedDeadlock, PromisedPrintx,
     PromisedExit
     DEF Next, Inside
<1>3. IInv /\ IInv' /\ Visiting /\ [Next]_vars =>
        Visiting' /\ [Promise!Next]_<<Running, blocked, Visit>>
  BY <1>2 DEF Promised, Stutters
<1>. QED
  BY <1>1, <1>3, Inductive, PTL DEF Spec, Dispatches, Promise!Spec
=============================================================================
