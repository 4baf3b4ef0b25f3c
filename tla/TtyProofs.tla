----------------------------- MODULE TtyProofs -------------------------------
(***************************************************************************)
(* The terminals, for every number of consoles, processes and texts: that  *)
(* out_char of task_tty, preempted between any two of its steps, keeps to  *)
(* the memory of its console and has the effect it has in the kernel, that *)
(* the screen follows the consoles, and that keys are echoed there.        *)
(*                                                                         *)
(* A console somebody printed to while task_tty was at work on it (raced)  *)
(* is only known to stay near its memory, and why it does is an invariant  *)
(* of its own (Spill); all the rest is said of the calm ones.  What        *)
(* out_char will leave is known at each of its points from what is left of *)
(* it, and these points are named here.                                    *)
(***************************************************************************)
EXTENDS Tty, Induction, SequenceTheorems

\* What may be left of the call: the flush at its end, ...
F1 == <<"set_start">> \o <<>>
F2 == <<"load_start">> \o F1
F3 == <<"set_cursor">> \o F2
F4 == <<"load_cursor">> \o F3
\* ... the loop and scroll_screen in it, ...
L0 == <<"loop">> \o F4
S1 == <<"set_cursor">> \o L0
S2 == <<"load_cursor">> \o S1
S3 == <<"set_start">> \o S2
S4 == <<"load_start">> \o S3
A1 == <<"advance">> \o S4
A2 == <<"load_start">> \o A1
S5 == <<"scroll">> \o L0
\* ... the effect of a character or NL, and of BS, ...
M1 == <<"move">> \o L0
M2 == <<"load_cursor">> \o M1
M3 == <<"cell">> \o M2
B1 == <<"cell">> \o L0
B2 == <<"move">> \o B1
B3 == <<"load_cursor">> \o B2
\* ... and the beginning.
G0 == <<"guard">> \o L0
E0 == <<"entry">> \o G0

Flushing  == {F1, F2, F3, F4}
Scrolling == {L0, S1, S2, S3, S4, S5, A1, A2}
Moving    == {M1, M2, M3, B2, B3}
Points    == {<<>>} \cup Flushing \cup Scrolling \cup Moving \cup {B1, G0, E0}

Chars == {NL, BS} \cup {key[2] : key \in KeyEvents}
Typed ==
  /\ con \in [Consoles -> CONSOLE] /\ crtc \in CONSOLE
  /\ nr_current_console \in Consoles /\ p_tty \in Consoles /\ on \in Consoles
  /\ in_buf \in [Consoles -> Seq(Chars)] /\ at \in {"read", "write"}
  /\ todo \in Points
  /\ vmem \in 0 .. Word - 1 /\ val \in 0 .. Word - 1
  /\ raced \subseteq Consoles /\ set_for \in [{"cursor", "start"} -> Consoles]

\* Every window starts at a line, and even a race takes it at most a line
\* further than it may go: task_tty then stores what it loaded before.
AtLine(c, start) == start >= original_addr(c) /\ (start - original_addr(c)) % SCREEN_WIDTH = 0
Near(c, start)   == start + SCREEN_SIZE < End(c) + SCREEN_WIDTH
Windows ==
  /\ \A c \in Consoles : AtLine(c, con[c].start) /\ Near(c, con[c].start - SCREEN_WIDTH)
  /\ todo = A2 => Near(on, con[on].start)
  /\ todo = A1 => AtLine(on, val) /\ Near(on, val)

\* The calm consoles, and where the cursor is in the window.
InMemory(c, k) == k.cursor \in original_addr(c) .. End(c) - 1 /\ Near(c, k.start)
Memory ==
  \A c \in Consoles \ raced :
    /\ InMemory(c, con[c])
    /\ todo \in {<<>>} \cup Flushing \/ on # c => ~BelowWindow(con[c])

\* With q left of the call for the character x, the console c as k, and v and m
\* in val and vmem, out_char leads to e.
Leads(q, c, k, x, v, m, e) ==
  /\ q \in Flushing => e = k
  /\ q \in Scrolling \cup {B1} => e = ScrolledTo(k)
  /\ q \in Moving => HasRoom(c, k.cursor, x) /\ e = ScrolledTo(Placed(c, k, x))
  /\ q \in {G0, E0} => e = out_char(c, k, x)
  /\ q \in {S5, A1, A2} => BelowWindow(k)
  /\ q \in {A1, A2} => MayScrollDown(c, k.start)
  /\ q \in {M1, M2, M3} => x # BS
  /\ q \in {B1, B2, B3} => x = BS
  /\ q \in {F3, M1, B2} => v = k.cursor
  /\ q \in {F1, A1} => v = k.start
  /\ q \in {G0, M3, B2, B3} => m = k.cursor
  /\ q = B1 => Cell(m, x) \in original_addr(c) .. End(c) - 1

\* What is left of out_char leads to what is expected.
Working == todo # <<>> /\ Calm(on) => Leads(todo, on, con[on], ch, val, vmem, expect)

\* A key is in a buffer only between its turn to be read and its echo, and the
\* current console is the one task_tty works on.
Keys ==
  /\ \A t \in Consoles :
       in_buf[t] # <<>> => at = "write" /\ t = p_tty /\ IsCurrent(t) /\ Len(in_buf[t]) = 1
  /\ todo # <<>> => IsCurrent(on)

\* Each part of the CRTC shows the console it was last set for, unless it is about
\* to be set.
Shown ==
  /\ todo \in {<<>>, F1, F2} /\ Calm(set_for.cursor)
       => crtc.cursor = con[set_for.cursor].cursor
  /\ todo = <<>> /\ Calm(set_for.start) => crtc.start = con[set_for.start].start

IInv == Typed /\ Windows /\ Memory /\ Working /\ Keys /\ Shown
-----------------------------------------------------------------------------
(* Arithmetic                                                              *)

LEMMA Sizes ==
  ASSUME NEW c \in Consoles
  PROVE  /\ original_addr(c) \in Nat /\ End(c) \in Nat
         /\ original_addr(c) + SCREEN_SIZE < End(c)
         /\ End(c) + SCREEN_SIZE < Word /\ Word \in Nat
         /\ SCREEN_WIDTH \in Nat /\ SCREEN_WIDTH > 0
         /\ SCREEN_SIZE \in Nat /\ SCREEN_SIZE >= 2 * SCREEN_WIDTH
<1>. DEFINE m == con_v_mem_size
<1>1. /\ NR_CONSOLES \in Nat /\ NR_CONSOLES > 0 /\ V_MEM_SIZE \in Nat /\ Word \in Nat
      /\ SCREEN_WIDTH \in Nat /\ SCREEN_WIDTH > 0 /\ SCREEN_SIZE \in Nat
      /\ SCREEN_SIZE % SCREEN_WIDTH = 0 /\ SCREEN_WIDTH < SCREEN_SIZE
      /\ SCREEN_SIZE < m /\ V_MEM_SIZE + SCREEN_SIZE < Word
  BY ConsoleAssumption
<1>2. m \in Nat /\ m * NR_CONSOLES =< V_MEM_SIZE
  BY <1>1 DEF con_v_mem_size
<1>3. c \in Nat /\ c + 1 =< NR_CONSOLES
  BY <1>1 DEF Consoles
<1>4. original_addr(c) = c * m /\ End(c) = c * m + m
  BY DEF original_addr, End
<1>. HIDE DEF m
<1>5. c * m \in Nat /\ c * m + m = (c + 1) * m /\ (c + 1) * m =< NR_CONSOLES * m
  BY <1>1, <1>2, <1>3
<1>6. SCREEN_SIZE >= 2 * SCREEN_WIDTH
  BY <1>1
<1>. QED
  BY <1>1, <1>2, <1>4, <1>5, <1>6

LEMMA Division ==
  ASSUME NEW x \in Nat, NEW w \in Nat, w > 0
  PROVE  x \div w \in Nat /\ w * (x \div w) =< x /\ x < w * (x \div w) + w
OBVIOUS

LEMMA Quotient ==
  ASSUME NEW x \in Nat, NEW w \in Nat, w > 0, NEW q \in Nat, w * q =< x, x < w * q + w
  PROVE  x \div w = q
<1>1. x \div w \in Nat /\ w * (x \div w) =< x /\ x < w * (x \div w) + w
  BY Division
<1>. DEFINE d == x \div w
<1>2. d \in Nat /\ w * d =< x /\ x < w * d + w
  BY <1>1
<1>. HIDE DEF d
<1>3. CASE d < q
  BY <1>2, <1>3
<1>4. CASE d > q
  BY <1>2, <1>4
<1>. QED
  BY <1>2, <1>3, <1>4 DEF d

\* Whole lines further is at a line again.
LEMMA LineOn ==
  ASSUME NEW c \in Consoles, NEW start \in Nat, AtLine(c, start), NEW n \in Nat
  PROVE  AtLine(c, start + SCREEN_WIDTH * n)
<1>. DEFINE x == start - original_addr(c)
            w == SCREEN_WIDTH
<1>1. x \in Nat /\ w \in Nat /\ w > 0 /\ x % w = 0 /\ original_addr(c) \in Nat
  BY Sizes DEF AtLine
<1>2. x = w * (x \div w) /\ x \div w \in Nat
  <2>. HIDE DEF x, w
  <2>. QED
    BY <1>1
<1>3. (start + w * n) - original_addr(c) = x + w * n /\ w * n \in Nat
  BY <1>1
<1>4. (x + w * n) % w = 0
  <2>. DEFINE q == x \div w + n
  <2>1. q \in Nat /\ x + w * n = w * q
    <3>. DEFINE d == x \div w
    <3>1. d \in Nat /\ x = w * d
      BY <1>2
    <3>. HIDE DEF d, x, w
    <3>2. w * d + w * n = w * (d + n)
      BY <1>1, <3>1
    <3>. QED
      BY <3>1, <3>2 DEF d
  <2>. HIDE DEF q, x, w
  <2>2. (w * q) \div w = q
    BY <1>1, <2>1, Quotient
  <2>3. (w * q) % w = (w * q) - w * ((w * q) \div w)
    BY <1>1, <2>1
  <2>. QED
    BY <1>1, <2>1, <2>2, <2>3
<1>5. start + w * n >= original_addr(c)
  BY <1>1, <1>3
<1>. QED
  BY <1>3, <1>4, <1>5 DEF AtLine
-----------------------------------------------------------------------------
(* What a character does                                                   *)

LEMMA MovedType ==
  ASSUME NEW c \in Consoles, NEW cursor \in Int, NEW x
  PROVE  Moved(c, cursor, x) \in 0 .. Word - 1
<1>. DEFINE to == CASE x = NL -> LineAfter(c, cursor)
                    [] x = BS -> cursor - 1
                    [] OTHER   -> cursor + 1
<1>1. original_addr(c) \in Nat /\ Word \in Nat /\ Word > 0 /\ SCREEN_WIDTH \in Nat /\ SCREEN_WIDTH > 0
  BY Sizes
<1>2. LineAfter(c, cursor) \in Int
  <2>. DEFINE y == (cursor - original_addr(c)) % Word
  <2>1. y \in Nat
    BY <1>1
  <2>2. LineAfter(c, cursor) = original_addr(c) + SCREEN_WIDTH * (y \div SCREEN_WIDTH + 1)
    BY DEF LineAfter
  <2>. HIDE DEF y
  <2>3. y \div SCREEN_WIDTH \in Nat
    BY <1>1, <2>1
  <2>. QED
    BY <1>1, <2>2, <2>3
<1>3. to \in Int
  BY <1>2 DEF NL, BS
<1>4. Moved(c, cursor, x) = to % Word
  BY DEF Moved
<1>. HIDE DEF to
<1>. QED
  BY <1>1, <1>3, <1>4

LEMMA MovedInside ==
  ASSUME NEW c \in Consoles, NEW cursor \in original_addr(c) .. End(c) - 1, NEW x,
         HasRoom(c, cursor, x)
  PROVE  Moved(c, cursor, x) \in original_addr(c) .. End(c) - 1
<1>1. /\ original_addr(c) \in Nat /\ End(c) \in Nat /\ End(c) < Word /\ Word \in Nat
      /\ SCREEN_WIDTH \in Nat /\ SCREEN_WIDTH > 0
  BY Sizes
<1>2. CASE x = NL
  <2>. DEFINE y == cursor - original_addr(c)
              w == SCREEN_WIDTH
  <2>1. y \in Nat /\ y < Word /\ w \in Nat /\ w > 0 /\ cursor < End(c) - w
    BY <1>1, <1>2 DEF HasRoom, NL, BS
  <2>2. y % Word = y
    BY <1>1, <2>1
  <2>3. LineAfter(c, cursor) = original_addr(c) + w * (y \div w + 1)
    BY <2>2 DEF LineAfter
  <2>4. y \div w \in Nat /\ w * (y \div w) =< y
    <3>. HIDE DEF y, w
    <3>. QED
      BY <2>1, Division
  <2>5. w * (y \div w + 1) = w * (y \div w) + w /\ w * (y \div w) \in Nat
    <3>. DEFINE d == y \div w
    <3>. HIDE DEF y, w, d
    <3>1. d \in Nat
      BY <2>4 DEF d
    <3>2. w * (d + 1) = w * d + w /\ w * d \in Nat
      BY <2>1, <3>1
    <3>. QED
      BY <3>2 DEF d
  <2>6. LineAfter(c, cursor) \in original_addr(c) .. End(c) - 1
    BY <1>1, <2>1, <2>3, <2>4, <2>5
  <2>7. Moved(c, cursor, x) = LineAfter(c, cursor) % Word
    BY <1>2 DEF Moved, NL, BS
  <2>. QED
    BY <1>1, <2>6, <2>7
<1>3. CASE x = BS
  BY <1>1, <1>3 DEF HasRoom, Moved, NL, BS
<1>4. CASE x # NL /\ x # BS
  BY <1>1, <1>4 DEF HasRoom, Moved
<1>. QED
  BY <1>2, <1>3, <1>4

\* The loop takes the window at least and at most as far as it must.
LEMMA ScrolledEffect ==
  ASSUME NEW c \in Consoles, NEW k \in CONSOLE, LoopEnds(c, k),
         AtLine(c, k.start), Near(c, k.start - SCREEN_WIDTH)
  PROVE  /\ ScrolledTo(k) \in CONSOLE /\ ScrolledTo(k).cursor = k.cursor
         /\ AtLine(c, ScrolledTo(k).start) /\ Near(c, ScrolledTo(k).start - SCREEN_WIDTH)
         /\ Near(c, k.start) => Near(c, ScrolledTo(k).start)
         /\ ~BelowWindow(ScrolledTo(k))
<1>1. /\ original_addr(c) \in Nat /\ End(c) \in Nat /\ End(c) + SCREEN_SIZE < Word /\ Word \in Nat
      /\ SCREEN_WIDTH \in Nat /\ SCREEN_WIDTH > 0
      /\ SCREEN_SIZE \in Nat /\ SCREEN_SIZE >= 2 * SCREEN_WIDTH
  BY Sizes
<1>2. k.cursor \in 0 .. Word - 1 /\ k.start \in 0 .. Word - 1
  BY DEF CONSOLE
<1>3. CASE ~BelowWindow(k)
  BY <1>3 DEF ScrolledTo
<1>4. CASE BelowWindow(k)
  <2>. DEFINE w == SCREEN_WIDTH
              x == k.cursor - k.start - SCREEN_SIZE
              y == End(c) - k.start - SCREEN_SIZE - 1
              q == x \div w + 1
              n == y \div w + 1
              to == k.start + w * q
  <2>1. x \in Nat /\ k.cursor = k.start + SCREEN_SIZE + x
    BY <1>1, <1>2, <1>4 DEF BelowWindow
  <2>2. ScrolledTo(k) = [k EXCEPT !.start = to]
    BY <1>4 DEF ScrolledTo
  <2>3. k.start + SCREEN_SIZE < End(c) /\ k.cursor < k.start + n * w + SCREEN_SIZE
    <3>1. ~(k.start + SCREEN_SIZE >= End(c))
      BY <1>1, <1>2, <1>4 DEF LoopEnds, BelowWindow
    <3>. QED
      BY <1>1, <1>2, <3>1 DEF LoopEnds
  <2>4. y \in Nat /\ w \in Nat /\ w > 0
    BY <1>1, <1>2, <2>3
  <2>5. q \in Nat /\ w * q = w * (x \div w) + w /\ w * (x \div w) =< x /\ x < w * q
    <3>. DEFINE d == x \div w
    <3>1. d \in Nat /\ w * d =< x /\ x < w * d + w
      <4>. HIDE DEF x, w
      <4>. QED
        BY <2>1, <2>4, Division
    <3>. HIDE DEF d, x, w
    <3>2. w * (d + 1) = w * d + w /\ d + 1 \in Nat
      BY <2>4, <3>1
    <3>. QED
      BY <2>1, <3>1, <3>2 DEF d
  <2>6. n \in Nat /\ w * n =< y + w
    <3>. DEFINE d == y \div w
    <3>1. d \in Nat /\ w * d =< y
      <4>. HIDE DEF y, w
      <4>. QED
        BY <2>4, Division
    <3>. HIDE DEF d, y, w
    <3>2. w * (d + 1) = w * d + w /\ d + 1 \in Nat
      BY <2>4, <3>1
    <3>. QED
      BY <2>4, <3>1, <3>2 DEF d
  <2>7. w * q =< w * n
    <3>. DEFINE d == x \div w
    <3>1. d \in Nat /\ q = d + 1 /\ w * d =< x /\ x < n * w
      <4>1. x < n * w
        <5>. HIDE DEF n
        <5>. QED
          BY <1>1, <1>2, <2>1, <2>3, <2>6
      <4>2. d \in Nat /\ w * d =< x
        <5>. HIDE DEF x, w
        <5>. QED
          BY <2>1, <2>4, Division
      <4>. QED
        BY <4>1, <4>2
    <3>. HIDE DEF d, q, n, x, w
    <3>2. d < n
      BY <2>1, <2>4, <2>6, <3>1
    <3>. QED
      BY <2>4, <2>6, <3>1, <3>2
  <2>8. to \in Nat /\ to + SCREEN_SIZE < End(c) + w /\ k.cursor < to + SCREEN_SIZE /\ to >= k.start
    <3>. HIDE DEF q, n
    <3>1. w * q \in Nat
      BY <2>4, <2>5
    <3>. QED
      BY <1>1, <1>2, <2>1, <2>3, <2>5, <2>6, <2>7, <3>1
  <2>9. to \in 0 .. Word - 1
    <3>. HIDE DEF to
    <3>. QED
      BY <1>1, <2>8
  <2>10. AtLine(c, to)
    <3>1. k.start \in Nat
      BY <1>2
    <3>. HIDE DEF q
    <3>. QED
      BY <2>5, <3>1, LineOn
  <2>. HIDE DEF to
  <2>11. /\ ScrolledTo(k) \in CONSOLE /\ ScrolledTo(k).start = to /\ ScrolledTo(k).cursor = k.cursor
    BY <2>2, <2>9 DEF CONSOLE
  <2>. QED
    BY <1>1, <1>2, <2>8, <2>10, <2>11 DEF Near, BelowWindow
<1>. QED
  BY <1>3, <1>4
\* A line down, the loop has the rest of its way to go.
LEMMA ScrollOnce ==
  ASSUME NEW k \in CONSOLE, BelowWindow(k), NEW c \in Consoles
  PROVE  ScrolledTo([k EXCEPT !.start = NextLine(@)]) = ScrolledTo(k)
<1>. DEFINE w  == SCREEN_WIDTH
            x  == k.cursor - k.start - SCREEN_SIZE
            k2 == [k EXCEPT !.start = NextLine(@)]
            to == k.start + w * (x \div w + 1)
<1>1. w \in Nat /\ w > 0 /\ SCREEN_SIZE \in Nat
  BY Sizes
<1>2. k.cursor \in Nat /\ k.start \in Nat
  BY Sizes DEF CONSOLE
<1>3. x \in Nat /\ k.cursor - (k.start + w) - SCREEN_SIZE = x - w
  BY <1>1, <1>2 DEF BelowWindow
<1>4. ScrolledTo(k) = [k EXCEPT !.start = to]
  BY DEF ScrolledTo
<1>5. k2.cursor = k.cursor /\ k2.start = k.start + w /\ k2 \in [cursor : Nat, start : Nat]
  BY <1>1, <1>2 DEF CONSOLE, NextLine
<1>6. BelowWindow(k2) <=> x >= w
  BY <1>1, <1>2, <1>3, <1>5 DEF BelowWindow
<1>7. CASE x < w
  <2>1. x \div w = 0
    <3>. HIDE DEF x, w
    <3>. QED
      BY <1>1, <1>3, <1>7, Quotient
  <2>2. to = k.start + w
    <3>. HIDE DEF x, w
    <3>. QED
      BY <1>1, <1>2, <2>1
  <2>3. ~BelowWindow(k2)
    <3>. HIDE DEF x, w, k2
    <3>. QED
      BY <1>1, <1>3, <1>6, <1>7
  <2>. QED
    BY <1>4, <2>2, <2>3 DEF ScrolledTo, NextLine
<1>8. CASE x >= w
  <2>. DEFINE d == x \div w
  <2>1. d \in Nat /\ w * d =< x /\ x < w * d + w
    <3>. HIDE DEF x, w
    <3>. QED
      BY <1>1, <1>3, Division
  <2>2. d - 1 \in Nat /\ w * (d - 1) = w * d - w
    <3>. HIDE DEF d, x, w
    <3>1. d # 0
      BY <1>1, <1>3, <1>8, <2>1
    <3>. QED
      BY <1>1, <2>1, <3>1
  <2>3. (x - w) \div w = d - 1
    <3>. DEFINE y == x - w
                e == d - 1
    <3>1. y \in Nat /\ e \in Nat /\ w * e =< y /\ y < w * e + w
      <4>. HIDE DEF d, x, w
      <4>. QED
        BY <1>1, <1>3, <1>8, <2>1, <2>2
    <3>. HIDE DEF y, e, d, x, w
    <3>2. y \div w = e
      BY <1>1, <3>1, Quotient
    <3>. QED
      BY <3>2 DEF y, e
  <2>4. (k.start + w) + w * ((x - w) \div w + 1) = to
    <3>. HIDE DEF d, x, w
    <3>1. w * ((d - 1) + 1) = w * d /\ w * (d + 1) = w * d + w /\ w * d \in Int
      BY <1>1, <2>1
    <3>. QED
      BY <1>1, <1>2, <2>3, <3>1 DEF d
  <2>5. ScrolledTo(k2) =
          [k2 EXCEPT !.start = k2.start + w * ((k2.cursor - k2.start - SCREEN_SIZE) \div w + 1)]
    BY <1>6, <1>8 DEF ScrolledTo
  <2>6. k2.cursor - k2.start - SCREEN_SIZE = x - w
    BY <1>3, <1>5
  <2>7. ScrolledTo(k2) = [k2 EXCEPT !.start = to]
    <3>. HIDE DEF k2, to, x
    <3>. QED
      BY <1>5, <2>4, <2>5, <2>6
  <2>. HIDE DEF to
  <2>. QED
    BY <1>4, <2>7 DEF NextLine
<1>. QED
  BY <1>1, <1>3, <1>7, <1>8

\* The loop ends at once if the cursor is not below the window.
LEMMA NothingToScroll ==
  ASSUME NEW c \in Consoles, NEW k \in CONSOLE, ~BelowWindow(k)
  PROVE  LoopEnds(c, k) /\ ScrolledTo(k) = k
<1>. DEFINE w == SCREEN_WIDTH
            n == IF k.start + SCREEN_SIZE >= End(c) THEN 0
                 ELSE (End(c) - k.start - SCREEN_SIZE - 1) \div w + 1
<1>1. w \in Nat /\ w > 0 /\ SCREEN_SIZE \in Nat /\ End(c) \in Nat
  BY Sizes
<1>2. k.cursor \in Nat /\ k.start \in Nat
  BY Sizes DEF CONSOLE
<1>3. n \in Nat
  <2>1. CASE k.start + SCREEN_SIZE >= End(c)
    BY <2>1
  <2>2. CASE ~(k.start + SCREEN_SIZE >= End(c))
    <3>. DEFINE y == End(c) - k.start - SCREEN_SIZE - 1
    <3>1. y \in Nat
      BY <1>1, <1>2, <2>2
    <3>2. y \div w \in Nat
      <4>. HIDE DEF y, w
      <4>. QED
        BY <1>1, <3>1, Division
    <3>. QED
      BY <2>2, <3>2
  <2>. QED
    BY <2>1, <2>2
<1>4. LoopEnds(c, k) <=> k.cursor < k.start + n * w + SCREEN_SIZE
  BY DEF LoopEnds
<1>. HIDE DEF n
<1>5. n * w \in Nat
  BY <1>1, <1>3
<1>. QED
  BY <1>1, <1>2, <1>4, <1>5 DEF BelowWindow, ScrolledTo

LEMMA PlacedEffect ==
  ASSUME NEW c \in Consoles, NEW k \in CONSOLE, NEW x
  PROVE  /\ Placed(c, k, x) \in CONSOLE /\ Placed(c, k, x).start = k.start
         /\ InMemory(c, k) => InMemory(c, Placed(c, k, x))
<1>1. k.cursor \in Int /\ k.cursor \in 0 .. Word - 1 /\ k.start \in 0 .. Word - 1
  BY Sizes DEF CONSOLE
<1>2. Moved(c, k.cursor, x) \in 0 .. Word - 1
  BY <1>1, MovedType
<1>3. CASE HasRoom(c, k.cursor, x)
  <2>. DEFINE m == Moved(c, k.cursor, x)
  <2>1. Placed(c, k, x) = [k EXCEPT !.cursor = m]
    BY <1>3 DEF Placed
  <2>2. InMemory(c, k) => m \in original_addr(c) .. End(c) - 1
    BY <1>3, MovedInside DEF InMemory
  <2>. HIDE DEF m
  <2>. QED
    BY <1>1, <1>2, <2>1, <2>2 DEF CONSOLE, InMemory, m
<1>4. CASE ~HasRoom(c, k.cursor, x)
  BY <1>4 DEF Placed
<1>. QED
  BY <1>3, <1>4

\* A console as a print finds it and leaves it.
Sound(c, k) == k \in CONSOLE /\ AtLine(c, k.start) /\ Near(c, k.start - SCREEN_WIDTH)

LEMMA CharEffect ==
  ASSUME NEW c \in Consoles, NEW k, Sound(c, k), NEW x, LoopEnds(c, Placed(c, k, x))
  PROVE  /\ Sound(c, out_char(c, k, x)) /\ ~BelowWindow(out_char(c, k, x))
         /\ Near(c, k.start) => Near(c, out_char(c, k, x).start)
         /\ InMemory(c, k) => InMemory(c, out_char(c, k, x))
<1>. DEFINE j == Placed(c, k, x)
<1>1. j \in CONSOLE /\ j.start = k.start /\ (InMemory(c, k) => InMemory(c, j))
  BY PlacedEffect DEF Sound
<1>2. LoopEnds(c, j) /\ AtLine(c, j.start) /\ Near(c, j.start - SCREEN_WIDTH)
  BY <1>1 DEF Sound
<1>3. out_char(c, k, x) = ScrolledTo(j)
  BY DEF out_char
<1>. HIDE DEF j
<1>. QED
  BY <1>1, <1>2, <1>3, ScrolledEffect DEF Sound, InMemory
\* A text, character by character.
LEMMA PrintedDef ==
  ASSUME NEW c \in Consoles, NEW k \in CONSOLE, NEW s, Len(s) \in Nat
  PROVE  /\ Printed(c, k, s)[0] = k
         /\ \A i \in 1 .. Len(s) :
              Printed(c, k, s)[i] = IF IsMagic(s[i]) THEN Printed(c, k, s)[i - 1]
                                    ELSE out_char(c, Printed(c, k, s)[i - 1], s[i])
<1>. DEFINE P(f) == f = [i \in 0 .. Len(s) |->
                      IF i = 0 THEN k
                      ELSE IF IsMagic(s[i]) THEN f[i - 1] ELSE out_char(c, f[i - 1], s[i])]
            V == [cursor : Int, start : Int]
            step == [y \in (1 .. Len(s)) \X V |->
                      IF IsMagic(s[y[1]]) THEN y[2] ELSE out_char(c, y[2], s[y[1]])]
<1>0. /\ k \in V /\ SCREEN_WIDTH \in Nat /\ SCREEN_WIDTH > 0 /\ SCREEN_SIZE \in Nat
  BY Sizes DEF CONSOLE
<1>1. ASSUME NEW v \in V, NEW x PROVE out_char(c, v, x) \in V
  <2>. DEFINE m == Moved(c, v.cursor, x)
  <2>1. m \in Int
    BY MovedType, Sizes
  <2>2. PICK j \in V : j = Placed(c, v, x)
    <3>. HIDE DEF m
    <3>1. [v EXCEPT !.cursor = m] \in V
      BY <2>1
    <3>. QED
      BY <3>1 DEF Placed, m
  <2>3. ScrolledTo(j) \in V
    <3>. DEFINE y == j.cursor - j.start - SCREEN_SIZE
                to == j.start + SCREEN_WIDTH * (y \div SCREEN_WIDTH + 1)
    <3>1. CASE BelowWindow(j)
      <4>1. y \in Int
        BY <1>0
      <4>2. to \in Int
        <5>. HIDE DEF y
        <5>1. y \div SCREEN_WIDTH \in Int
          BY <1>0, <4>1
        <5>. QED
          BY <1>0, <5>1
      <4>3. ScrolledTo(j) = [j EXCEPT !.start = to]
        BY <3>1 DEF ScrolledTo
      <4>. HIDE DEF to
      <4>. QED
        BY <4>2, <4>3
    <3>2. CASE ~BelowWindow(j)
      BY <3>2 DEF ScrolledTo
    <3>. QED
      BY <3>1, <3>2
  <2>. QED
    BY <2>2, <2>3 DEF out_char
<1>. HIDE DEF V
<1>2. step \in [(1 .. Len(s)) \X V -> V]
  BY <1>1
<1>3. PICK f : IsRun(f, Len(s), V, k, step)
  <2>. HIDE DEF step
  <2>. QED
    BY <1>0, <1>2, Recursion
<1>4. \A i \in 1 .. Len(s) :
        f[i] = IF IsMagic(s[i]) THEN f[i - 1] ELSE out_char(c, f[i - 1], s[i])
  <2>1. \A i \in 1 .. Len(s) : <<i, f[i - 1]>> \in (1 .. Len(s)) \X V
    BY <1>3 DEF IsRun
  <2>. QED
    BY <1>3, <2>1 DEF IsRun
<1>5. P(f)
  BY <1>3, <1>4 DEF IsRun
<1>6. Printed(c, k, s) = CHOOSE g : P(g)
  BY DEF Printed
<1>7. P(Printed(c, k, s))
  <2>. HIDE DEF P
  <2>. QED
    BY <1>5, <1>6
<1>. HIDE DEF step
<1>8. PICK n \in Nat : n = Len(s)
  OBVIOUS
<1>9. PICK g : g = Printed(c, k, s)
  OBVIOUS
<1>10. g = [i \in 0 .. n |->
             IF i = 0 THEN k
             ELSE IF IsMagic(s[i]) THEN g[i - 1] ELSE out_char(c, g[i - 1], s[i])]
  BY <1>7, <1>8, <1>9
<1>11. g[0] = k
  BY <1>10
<1>12. ASSUME NEW i \in 1 .. n
       PROVE  g[i] = IF IsMagic(s[i]) THEN g[i - 1] ELSE out_char(c, g[i - 1], s[i])
  <2>1. i \in 0 .. n /\ i # 0
    OBVIOUS
  <2>. QED
    BY <1>10, <2>1
<1>. QED
  BY <1>8, <1>9, <1>11, <1>12

LEMMA PrintedEffect ==
  ASSUME NEW c \in Consoles, NEW k, Sound(c, k), NEW s, Len(s) \in Nat, ~Hangs(c, k, s)
  PROVE  /\ Sound(c, Output(c, k, s))
         /\ Near(c, k.start) => Near(c, Output(c, k, s).start)
         /\ InMemory(c, k) => InMemory(c, Output(c, k, s))
         /\ ~Silent(s) => ~BelowWindow(Output(c, k, s))
<1>. DEFINE N == Len(s)
            all == Printed(c, k, s)
            Hushed(i) == \A h \in 1 .. i : IsMagic(s[h])
            T == {i \in 0 .. N : /\ Sound(c, all[i]) /\ (InMemory(c, k) => InMemory(c, all[i]))
                                 /\ (Near(c, k.start) => Near(c, all[i].start))
                                 /\ (~Hushed(i) => ~BelowWindow(all[i]))}
<1>1. all[0] = k /\ \A i \in 1 .. N :
        all[i] = IF IsMagic(s[i]) THEN all[i - 1] ELSE out_char(c, all[i - 1], s[i])
  BY PrintedDef DEF Sound
<1>2. \A i \in 1 .. N : IsMagic(s[i]) \/ LoopEnds(c, Placed(c, all[i - 1], s[i]))
  BY DEF Hangs
<1>3. Output(c, k, s) = all[N] /\ (Silent(s) <=> Hushed(N))
  BY DEF Output, Silent
<1>. HIDE DEF all
<1>4. 0 \in T
  BY <1>1
<1>5. ASSUME NEW i \in T, i < N PROVE i + 1 \in T
  <2>1. i + 1 \in 1 .. N /\ (i + 1) - 1 = i /\ i \in 0 .. N
    BY <1>5
  <2>2. CASE IsMagic(s[i + 1])
    <3>1. all[i + 1] = all[i]
      BY <1>1, <2>1, <2>2
    <3>2. Hushed(i) => Hushed(i + 1)
      BY <2>1, <2>2
    <3>. QED
      BY <1>5, <2>1, <3>1, <3>2
  <2>3. CASE ~IsMagic(s[i + 1])
    <3>1. all[i + 1] = out_char(c, all[i], s[i + 1]) /\ LoopEnds(c, Placed(c, all[i], s[i + 1]))
      BY <1>1, <1>2, <2>1, <2>3
    <3>2. /\ Sound(c, all[i + 1]) /\ ~BelowWindow(all[i + 1])
          /\ InMemory(c, all[i]) => InMemory(c, all[i + 1])
          /\ Near(c, all[i].start) => Near(c, all[i + 1].start)
      BY <3>1, <1>5, CharEffect
    <3>. QED
      BY <1>5, <2>1, <3>2
  <2>. QED
    BY <2>2, <2>3
<1>6. T = 0 .. N
  <2>1. T \in SUBSET (0 .. N)
    OBVIOUS
  <2>. HIDE DEF T
  <2>. QED
    BY <1>4, <1>5, <2>1, IntervalInduction
<1>. QED
  BY <1>3, <1>6-----------------------------------------------------------------------------
(* The points of out_char and what leads from one to another               *)

LEMMA FirstOp ==
  ASSUME NEW op \in Ops, NEW rest \in Seq(Ops)
  PROVE  /\ <<op>> \o rest \in Seq(Ops) /\ <<op>> \o rest # <<>>
         /\ Head(<<op>> \o rest) = op /\ Tail(<<op>> \o rest) = rest
         /\ Len(<<op>> \o rest) = Len(rest) + 1
<1>. DEFINE p == <<op>> \o rest
<1>1. <<op>> \in Seq(Ops) /\ Len(<<op>>) = 1 /\ <<op>>[1] = op
  OBVIOUS
<1>2. /\ p \in Seq(Ops) /\ Len(p) = Len(rest) + 1
      /\ \A i \in 1 .. Len(rest) + 1 : p[i] = IF i =< 1 THEN op ELSE rest[i - 1]
  BY <1>1, ConcatProperties
<1>. HIDE DEF p
<1>3. p # <<>> /\ Head(p) = op
  BY <1>2
<1>4. Tail(p) \in Seq(Ops) /\ Len(Tail(p)) = Len(rest)
  BY <1>2, <1>3, HeadTailProperties
<1>5. \A i \in 1 .. Len(rest) : Tail(p)[i] = rest[i]
  BY <1>2, <1>3
<1>6. Tail(p) = rest
  BY <1>4, <1>5, SeqEqual
<1>. QED
  BY <1>2, <1>3, <1>6 DEF p

\* The operations of a tuple come one after the other.
LEMMA OpsInTurn ==
  ASSUME NEW r \in Seq(Ops), Len(r) > 0, NEW s \in Seq(Ops)
  PROVE  r \o s = <<Head(r)>> \o (Tail(r) \o s)
<1>1. <<Head(r)>> \in Seq(Ops) /\ Tail(r) \in Seq(Ops)
  OBVIOUS
<1>2. <<Head(r)>> \o Tail(r) = r
  <2>. DEFINE t == <<Head(r)>> \o Tail(r)
  <2>0. Len(<<Head(r)>>) = 1 /\ <<Head(r)>>[1] = r[1] /\ Len(Tail(r)) = Len(r) - 1
    OBVIOUS
  <2>1. /\ t \in Seq(Ops) /\ Len(t) = Len(r)
        /\ \A i \in 1 .. Len(r) : t[i] = IF i =< 1 THEN r[1] ELSE Tail(r)[i - 1]
    BY <1>1, <2>0, ConcatProperties
  <2>2. \A i \in 2 .. Len(r) : Tail(r)[i - 1] = r[i]
    OBVIOUS
  <2>. HIDE DEF t
  <2>3. t = r
    BY <2>1, <2>2, SeqEqual
  <2>. QED
    BY <2>3 DEF t
<1>. QED
  BY <1>1, <1>2, ConcatAssociative

LEMMA MoreOps ==
  ASSUME NEW a \in Ops, NEW b \in Ops, NEW s \in Seq(Ops)
  PROVE  <<a, b>> \o s = <<a>> \o (<<b>> \o s)
<1>1. /\ <<a, b>> \in Seq(Ops) /\ Len(<<a, b>>) > 0
      /\ Head(<<a, b>>) = a /\ Tail(<<a, b>>) = <<b>>
  OBVIOUS
<1>. QED
  BY <1>1, OpsInTurn

LEMMA MoreOps3 ==
  ASSUME NEW a \in Ops, NEW b \in Ops, NEW d \in Ops, NEW s \in Seq(Ops)
  PROVE  <<a, b, d>> \o s = <<a>> \o (<<b>> \o (<<d>> \o s))
<1>1. /\ <<a, b, d>> \in Seq(Ops) /\ Len(<<a, b, d>>) > 0
      /\ Head(<<a, b, d>>) = a /\ Tail(<<a, b, d>>) = <<b, d>>
  OBVIOUS
<1>2. <<a, b, d>> \o s = <<a>> \o (<<b, d>> \o s)
  BY <1>1, OpsInTurn
<1>3. <<b, d>> \o s = <<b>> \o (<<d>> \o s)
  BY MoreOps
<1>. QED
  BY <1>2, <1>3, Zenon

\* The point p is op and then rest, n in all.
Point(p, op, rest, n) ==
  /\ p \in Seq(Ops) /\ p # <<>>
  /\ Head(p) = op /\ Tail(p) = rest /\ Len(p) = n

LEMMA PointsKnown ==
  /\ Point(F1, "set_start", <<>>, 1)
  /\ Point(F2, "load_start", F1, 2)
  /\ Point(F3, "set_cursor", F2, 3)
  /\ Point(F4, "load_cursor", F3, 4)
  /\ Point(L0, "loop", F4, 5)
  /\ Point(S1, "set_cursor", L0, 6)
  /\ Point(S2, "load_cursor", S1, 7)
  /\ Point(S3, "set_start", S2, 8)
  /\ Point(S4, "load_start", S3, 9)
  /\ Point(A1, "advance", S4, 10)
  /\ Point(A2, "load_start", A1, 11)
  /\ Point(S5, "scroll", L0, 6)
  /\ Point(M1, "move", L0, 6)
  /\ Point(M2, "load_cursor", M1, 7)
  /\ Point(M3, "cell", M2, 8)
  /\ Point(B1, "cell", L0, 6)
  /\ Point(B2, "move", B1, 7)
  /\ Point(B3, "load_cursor", B2, 8)
  /\ Point(G0, "guard", L0, 6)
  /\ Point(E0, "entry", G0, 7)
<1>0. /\ "load_cursor" \in Ops /\ "set_cursor" \in Ops /\ "load_start" \in Ops /\ "set_start" \in Ops
      /\ "entry" \in Ops /\ "guard" \in Ops /\ "move" \in Ops /\ "cell" \in Ops
      /\ "loop" \in Ops /\ "scroll" \in Ops /\ "advance" \in Ops
      /\ <<>> \in Seq(Ops) /\ Len(<<>>) = 0
  BY DEF Ops
<1>1. ASSUME NEW op \in Ops, NEW rest \in Seq(Ops), NEW p, p = <<op>> \o rest,
             NEW n \in Nat, Len(rest) = n
      PROVE  Point(p, op, rest, n + 1)
  BY <1>1, FirstOp DEF Point
<1>F1. Point(F1, "set_start", <<>>, 1)
  <2>1. "set_start" \in Ops /\ <<>> \in Seq(Ops) /\ Len(<<>>) = 0
    BY <1>0
  <2>2. Point(F1, "set_start", <<>>, 0 + 1)
    BY <2>1, <1>1, Zenon DEF F1
  <2>. QED
    BY <2>2
<1>F2. Point(F2, "load_start", F1, 2)
  <2>1. "load_start" \in Ops /\ F1 \in Seq(Ops) /\ Len(F1) = 1
    BY <1>0, <1>F1 DEF Point
  <2>2. Point(F2, "load_start", F1, 1 + 1)
    BY <2>1, <1>1, Zenon DEF F2
  <2>. QED
    BY <2>2
<1>F3. Point(F3, "set_cursor", F2, 3)
  <2>1. "set_cursor" \in Ops /\ F2 \in Seq(Ops) /\ Len(F2) = 2
    BY <1>0, <1>F2 DEF Point
  <2>2. Point(F3, "set_cursor", F2, 2 + 1)
    BY <2>1, <1>1, Zenon DEF F3
  <2>. QED
    BY <2>2
<1>F4. Point(F4, "load_cursor", F3, 4)
  <2>1. "load_cursor" \in Ops /\ F3 \in Seq(Ops) /\ Len(F3) = 3
    BY <1>0, <1>F3 DEF Point
  <2>2. Point(F4, "load_cursor", F3, 3 + 1)
    BY <2>1, <1>1, Zenon DEF F4
  <2>. QED
    BY <2>2
<1>L0. Point(L0, "loop", F4, 5)
  <2>1. "loop" \in Ops /\ F4 \in Seq(Ops) /\ Len(F4) = 4
    BY <1>0, <1>F4 DEF Point
  <2>2. Point(L0, "loop", F4, 4 + 1)
    BY <2>1, <1>1, Zenon DEF L0
  <2>. QED
    BY <2>2
<1>S1. Point(S1, "set_cursor", L0, 6)
  <2>1. "set_cursor" \in Ops /\ L0 \in Seq(Ops) /\ Len(L0) = 5
    BY <1>0, <1>L0 DEF Point
  <2>2. Point(S1, "set_cursor", L0, 5 + 1)
    BY <2>1, <1>1, Zenon DEF S1
  <2>. QED
    BY <2>2
<1>S2. Point(S2, "load_cursor", S1, 7)
  <2>1. "load_cursor" \in Ops /\ S1 \in Seq(Ops) /\ Len(S1) = 6
    BY <1>0, <1>S1 DEF Point
  <2>2. Point(S2, "load_cursor", S1, 6 + 1)
    BY <2>1, <1>1, Zenon DEF S2
  <2>. QED
    BY <2>2
<1>S3. Point(S3, "set_start", S2, 8)
  <2>1. "set_start" \in Ops /\ S2 \in Seq(Ops) /\ Len(S2) = 7
    BY <1>0, <1>S2 DEF Point
  <2>2. Point(S3, "set_start", S2, 7 + 1)
    BY <2>1, <1>1, Zenon DEF S3
  <2>. QED
    BY <2>2
<1>S4. Point(S4, "load_start", S3, 9)
  <2>1. "load_start" \in Ops /\ S3 \in Seq(Ops) /\ Len(S3) = 8
    BY <1>0, <1>S3 DEF Point
  <2>2. Point(S4, "load_start", S3, 8 + 1)
    BY <2>1, <1>1, Zenon DEF S4
  <2>. QED
    BY <2>2
<1>A1. Point(A1, "advance", S4, 10)
  <2>1. "advance" \in Ops /\ S4 \in Seq(Ops) /\ Len(S4) = 9
    BY <1>0, <1>S4 DEF Point
  <2>2. Point(A1, "advance", S4, 9 + 1)
    BY <2>1, <1>1, Zenon DEF A1
  <2>. QED
    BY <2>2
<1>A2. Point(A2, "load_start", A1, 11)
  <2>1. "load_start" \in Ops /\ A1 \in Seq(Ops) /\ Len(A1) = 10
    BY <1>0, <1>A1 DEF Point
  <2>2. Point(A2, "load_start", A1, 10 + 1)
    BY <2>1, <1>1, Zenon DEF A2
  <2>. QED
    BY <2>2
<1>S5. Point(S5, "scroll", L0, 6)
  <2>1. "scroll" \in Ops /\ L0 \in Seq(Ops) /\ Len(L0) = 5
    BY <1>0, <1>L0 DEF Point
  <2>2. Point(S5, "scroll", L0, 5 + 1)
    BY <2>1, <1>1, Zenon DEF S5
  <2>. QED
    BY <2>2
<1>M1. Point(M1, "move", L0, 6)
  <2>1. "move" \in Ops /\ L0 \in Seq(Ops) /\ Len(L0) = 5
    BY <1>0, <1>L0 DEF Point
  <2>2. Point(M1, "move", L0, 5 + 1)
    BY <2>1, <1>1, Zenon DEF M1
  <2>. QED
    BY <2>2
<1>M2. Point(M2, "load_cursor", M1, 7)
  <2>1. "load_cursor" \in Ops /\ M1 \in Seq(Ops) /\ Len(M1) = 6
    BY <1>0, <1>M1 DEF Point
  <2>2. Point(M2, "load_cursor", M1, 6 + 1)
    BY <2>1, <1>1, Zenon DEF M2
  <2>. QED
    BY <2>2
<1>M3. Point(M3, "cell", M2, 8)
  <2>1. "cell" \in Ops /\ M2 \in Seq(Ops) /\ Len(M2) = 7
    BY <1>0, <1>M2 DEF Point
  <2>2. Point(M3, "cell", M2, 7 + 1)
    BY <2>1, <1>1, Zenon DEF M3
  <2>. QED
    BY <2>2
<1>B1. Point(B1, "cell", L0, 6)
  <2>1. "cell" \in Ops /\ L0 \in Seq(Ops) /\ Len(L0) = 5
    BY <1>0, <1>L0 DEF Point
  <2>2. Point(B1, "cell", L0, 5 + 1)
    BY <2>1, <1>1, Zenon DEF B1
  <2>. QED
    BY <2>2
<1>B2. Point(B2, "move", B1, 7)
  <2>1. "move" \in Ops /\ B1 \in Seq(Ops) /\ Len(B1) = 6
    BY <1>0, <1>B1 DEF Point
  <2>2. Point(B2, "move", B1, 6 + 1)
    BY <2>1, <1>1, Zenon DEF B2
  <2>. QED
    BY <2>2
<1>B3. Point(B3, "load_cursor", B2, 8)
  <2>1. "load_cursor" \in Ops /\ B2 \in Seq(Ops) /\ Len(B2) = 7
    BY <1>0, <1>B2 DEF Point
  <2>2. Point(B3, "load_cursor", B2, 7 + 1)
    BY <2>1, <1>1, Zenon DEF B3
  <2>. QED
    BY <2>2
<1>G0. Point(G0, "guard", L0, 6)
  <2>1. "guard" \in Ops /\ L0 \in Seq(Ops) /\ Len(L0) = 5
    BY <1>0, <1>L0 DEF Point
  <2>2. Point(G0, "guard", L0, 5 + 1)
    BY <2>1, <1>1, Zenon DEF G0
  <2>. QED
    BY <2>2
<1>E0. Point(E0, "entry", G0, 7)
  <2>1. "entry" \in Ops /\ G0 \in Seq(Ops) /\ Len(G0) = 6
    BY <1>0, <1>G0 DEF Point
  <2>2. Point(E0, "entry", G0, 6 + 1)
    BY <2>1, <1>1, Zenon DEF E0
  <2>. QED
    BY <2>2
<1>. QED
  BY <1>F1, <1>F2, <1>F3, <1>F4, <1>L0, <1>S1, <1>S2, <1>S3, <1>S4, <1>A1, <1>A2, <1>S5, <1>M1, <1>M2, <1>M3, <1>B1, <1>B2, <1>B3, <1>G0, <1>E0
\* The points are all different: each has a number of its own.
Numbered(number) ==
  /\ number[<<>>] = 0
  /\ number[F1] = 1 /\ number[F2] = 2 /\ number[F3] = 3 /\ number[F4] = 4
  /\ number[L0] = 5 /\ number[S1] = 6 /\ number[S2] = 7 /\ number[S3] = 8
  /\ number[S4] = 9 /\ number[A1] = 10 /\ number[A2] = 11 /\ number[S5] = 12
  /\ number[M1] = 13 /\ number[M2] = 14 /\ number[M3] = 15 /\ number[B1] = 16
  /\ number[B2] = 17 /\ number[B3] = 18 /\ number[G0] = 19 /\ number[E0] = 20

LEMMA Apart == \E number : Numbered(number)
<1>. DEFINE number == [p \in Seq(Ops) |->
      IF p = F1 THEN 1 ELSE
      IF p = F2 THEN 2 ELSE
      IF p = F3 THEN 3 ELSE
      IF p = F4 THEN 4 ELSE
      IF p = L0 THEN 5 ELSE
      IF p = S1 THEN 6 ELSE
      IF p = S2 THEN 7 ELSE
      IF p = S3 THEN 8 ELSE
      IF p = S4 THEN 9 ELSE
      IF p = A1 THEN 10 ELSE
      IF p = A2 THEN 11 ELSE
      IF p = S5 THEN 12 ELSE
      IF p = M1 THEN 13 ELSE
      IF p = M2 THEN 14 ELSE
      IF p = M3 THEN 15 ELSE
      IF p = B1 THEN 16 ELSE
      IF p = B2 THEN 17 ELSE
      IF p = B3 THEN 18 ELSE
      IF p = G0 THEN 19 ELSE
      IF p = E0 THEN 20 ELSE 0]
<1>1. <<>> \in Seq(Ops) /\ Len(<<>>) = 0
  OBVIOUS
<1>2. S1 # M1
  BY PointsKnown DEF Point
<1>3. S2 # M2
  BY <1>2, PointsKnown DEF Point
<1>F1. number[F1] = 1
  BY <1>3, PointsKnown DEF Point
<1>F2. number[F2] = 2
  BY <1>3, PointsKnown DEF Point
<1>F3. number[F3] = 3
  BY <1>3, PointsKnown DEF Point
<1>F4. number[F4] = 4
  BY <1>3, PointsKnown DEF Point
<1>L0. number[L0] = 5
  BY <1>3, PointsKnown DEF Point
<1>S1. number[S1] = 6
  BY <1>3, PointsKnown DEF Point
<1>S2. number[S2] = 7
  BY <1>3, PointsKnown DEF Point
<1>S3. number[S3] = 8
  BY <1>3, PointsKnown DEF Point
<1>S4. number[S4] = 9
  BY <1>3, PointsKnown DEF Point
<1>A1. number[A1] = 10
  BY <1>3, PointsKnown DEF Point
<1>A2. number[A2] = 11
  BY <1>3, PointsKnown DEF Point
<1>S5. number[S5] = 12
  BY <1>3, PointsKnown DEF Point
<1>M1. number[M1] = 13
  BY <1>3, PointsKnown DEF Point
<1>M2. number[M2] = 14
  BY <1>3, PointsKnown DEF Point
<1>M3. number[M3] = 15
  BY <1>3, PointsKnown DEF Point
<1>B1. number[B1] = 16
  BY <1>3, PointsKnown DEF Point
<1>B2. number[B2] = 17
  BY <1>3, PointsKnown DEF Point
<1>B3. number[B3] = 18
  BY <1>3, PointsKnown DEF Point
<1>G0. number[G0] = 19
  BY <1>3, PointsKnown DEF Point
<1>E0. number[E0] = 20
  BY <1>3, PointsKnown DEF Point
<1>4. number[<<>>] = 0
  BY <1>1, PointsKnown DEF Point
<1>5. Numbered(number)
  BY <1>4, <1>F1, <1>F2, <1>F3, <1>F4, <1>L0, <1>S1, <1>S2, <1>S3, <1>S4, <1>A1,
     <1>A2, <1>S5, <1>M1, <1>M2, <1>M3, <1>B1, <1>B2, <1>B3, <1>G0, <1>E0
     DEF Numbered
<1>. QED
  BY <1>5

LEMMA PointsAreOps == Points \subseteq Seq(Ops)
<1>1. /\ F1 \in Seq(Ops) /\ F2 \in Seq(Ops) /\ F3 \in Seq(Ops) /\ F4 \in Seq(Ops) /\ L0 \in Seq(Ops)
      /\ S1 \in Seq(Ops) /\ S2 \in Seq(Ops) /\ S3 \in Seq(Ops) /\ S4 \in Seq(Ops) /\ S5 \in Seq(Ops)
      /\ A1 \in Seq(Ops) /\ A2 \in Seq(Ops) /\ M1 \in Seq(Ops) /\ M2 \in Seq(Ops) /\ M3 \in Seq(Ops)
      /\ B1 \in Seq(Ops) /\ B2 \in Seq(Ops) /\ B3 \in Seq(Ops) /\ G0 \in Seq(Ops) /\ E0 \in Seq(Ops)
      /\ <<>> \in Seq(Ops)
  BY PointsKnown DEF Point
<1>. QED
  BY <1>1 DEF Points, Flushing, Scrolling, Moving

LEMMA WhereAt ==
  ASSUME NEW q \in Points, q # <<>>
  PROVE  /\ Head(q) = "load_cursor" =>
              \/ (q = F4 /\ Tail(q) = F3) \/ (q = S2 /\ Tail(q) = S1)
              \/ (q = M2 /\ Tail(q) = M1) \/ (q = B3 /\ Tail(q) = B2)
         /\ Head(q) = "load_start" =>
              \/ (q = F2 /\ Tail(q) = F1) \/ (q = S4 /\ Tail(q) = S3) \/ (q = A2 /\ Tail(q) = A1)
         /\ Head(q) = "set_cursor" => (q = F3 /\ Tail(q) = F2) \/ (q = S1 /\ Tail(q) = L0)
         /\ Head(q) = "set_start" => (q = F1 /\ Tail(q) = <<>>) \/ (q = S3 /\ Tail(q) = S2)
         /\ Head(q) = "entry" => q = E0 /\ Tail(q) = G0
         /\ Head(q) = "guard" => q = G0 /\ Tail(q) = L0
         /\ Head(q) = "move" => (q = M1 /\ Tail(q) = L0) \/ (q = B2 /\ Tail(q) = B1)
         /\ Head(q) = "cell" => (q = M3 /\ Tail(q) = M2) \/ (q = B1 /\ Tail(q) = L0)
         /\ Head(q) = "loop" => q = L0 /\ Tail(q) = F4
         /\ Head(q) = "scroll" => q = S5 /\ Tail(q) = L0
         /\ Head(q) = "advance" => q = A1 /\ Tail(q) = S4
         /\ <<>> \o Tail(q) = Tail(q)
<1>1. q \in Seq(Ops)
  BY PointsAreOps
<1>2. Tail(q) \in Seq(Ops)
  BY <1>1
<1>3. <<>> \o Tail(q) = Tail(q)
  BY <1>2, ConcatEmptySeq
<1>4. q \in Flushing \cup Scrolling \cup Moving \cup {B1, G0, E0}
  BY DEF Points
<1>5. CASE q \in Flushing \cup {L0, B1, G0, E0}
  BY <1>3, <1>5, PointsKnown, ZenonT(30) DEF Point, Flushing
<1>6. CASE q \in Scrolling \ {L0}
  BY <1>3, <1>6, PointsKnown DEF Point, Scrolling
<1>7. CASE q \in Moving
  BY <1>3, <1>7, PointsKnown DEF Point, Moving
<1>. QED
  BY <1>4, <1>5, <1>6, <1>7 DEF Scrolling

LEMMA LeadsTo ==
  /\ <<"load_cursor", "move">> \o L0 = M2
  /\ <<"load_cursor", "move", "cell">> \o L0 = B3
  /\ <<"cell", "load_cursor", "move">> \o L0 = M3
  /\ <<"scroll", "loop">> \o F4 = S5
  /\ (<<"load_start", "advance">> \o scroll) \o L0 = A2
  /\ (<<>> \o scroll) \o L0 = S4
  /\ flush = F4
  /\ <<"entry", "guard", "loop">> \o flush = E0
<1>0. /\ "load_cursor" \in Ops /\ "set_cursor" \in Ops /\ "load_start" \in Ops /\ "set_start" \in Ops
      /\ "entry" \in Ops /\ "guard" \in Ops /\ "move" \in Ops /\ "cell" \in Ops
      /\ "loop" \in Ops /\ "scroll" \in Ops /\ "advance" \in Ops
  BY DEF Ops
<1>1. /\ L0 \in Seq(Ops) /\ F4 \in Seq(Ops) /\ <<>> \in Seq(Ops)
      /\ scroll \in Seq(Ops) /\ flush \in Seq(Ops) /\ <<"load_start", "advance">> \in Seq(Ops)
  BY <1>0, PointsKnown DEF Point, scroll, flush
<1>2. L0 \in Seq(Ops) /\ F4 \in Seq(Ops) /\ <<>> \in Seq(Ops)
  BY <1>1
<1>3. <<"load_cursor", "move">> \o L0 = M2
  BY <1>0, <1>1, MoreOps DEF M2, M1
<1>4. <<"load_cursor", "move", "cell">> \o L0 = B3
  <2>0. PICK a \in Ops, b \in Ops, d \in Ops :
          a = "load_cursor" /\ b = "move" /\ d = "cell"
    BY <1>0
  <2>1. <<a, b, d>> \o L0 = <<a>> \o (<<b>> \o (<<d>> \o L0))
    BY <1>2, MoreOps3, SMTT(60)
  <2>. QED
    BY <2>0, <2>1, Zenon DEF B3, B2, B1
<1>5. <<"cell", "load_cursor", "move">> \o L0 = M3
  <2>0. PICK a \in Ops, b \in Ops, d \in Ops :
          a = "cell" /\ b = "load_cursor" /\ d = "move"
    BY <1>0
  <2>1. <<a, b, d>> \o L0 = <<a>> \o (<<b>> \o (<<d>> \o L0))
    BY <1>2, MoreOps3, SMTT(60)
  <2>. QED
    BY <2>0, <2>1, Zenon DEF M3, M2, M1
<1>6. <<"scroll", "loop">> \o F4 = S5
  BY <1>0, <1>1, MoreOps DEF S5, L0
<1>7. scroll \o L0 = S4
  <2>1. /\ scroll \in Seq(Ops) /\ Len(scroll) > 0 /\ Head(scroll) = "load_start"
       /\ Tail(scroll) = <<"set_start", "load_cursor", "set_cursor">>
    BY <1>0 DEF scroll
  <2>2. scroll \o L0 = <<Head(scroll)>> \o (Tail(scroll) \o L0)
    BY <1>2, <2>1, OpsInTurn
  <2>3. PICK a \in Ops, b \in Ops, d \in Ops :
          a = "set_start" /\ b = "load_cursor" /\ d = "set_cursor"
    BY <1>0
  <2>4. <<a, b, d>> \o L0 = <<a>> \o (<<b>> \o (<<d>> \o L0))
    BY <1>2, MoreOps3, ZenonT(30)
  <2>. QED
    BY <2>1, <2>2, <2>3, <2>4, Zenon DEF S4, S3, S2, S1
<1>8. (<<>> \o scroll) \o L0 = S4
  BY <1>1, <1>7, ConcatEmptySeq
<1>9. (<<"load_start", "advance">> \o scroll) \o L0 = A2
  <2>1. <<"load_start", "advance">> \o (scroll \o L0) = A2
    <3>1. S4 \in Seq(Ops)
      BY PointsKnown DEF Point
    <3>. QED
      BY <1>0, <1>7, <3>1, MoreOps DEF A2, A1
  <2>2. PICK t \in Seq(Ops) : t = <<"load_start", "advance">>
    BY <1>1
  <2>3. (t \o scroll) \o L0 = t \o (scroll \o L0)
    BY <1>1, ConcatAssociative, SMTT(30)
  <2>. QED
    BY <2>1, <2>2, <2>3, Zenon
<1>10. flush = F4
  <2>1. flush \o <<>> = F4
    <3>1. /\ flush \in Seq(Ops) /\ Len(flush) > 0 /\ Head(flush) = "load_cursor"
         /\ Tail(flush) = <<"set_cursor", "load_start", "set_start">>
      BY <1>0 DEF flush
    <3>2. flush \o <<>> = <<Head(flush)>> \o (Tail(flush) \o <<>>)
      BY <1>2, <3>1, OpsInTurn
    <3>3. PICK a \in Ops, b \in Ops, d \in Ops :
            a = "set_cursor" /\ b = "load_start" /\ d = "set_start"
      BY <1>0
    <3>4. <<a, b, d>> \o <<>> = <<a>> \o (<<b>> \o (<<d>> \o <<>>))
      BY <1>2, MoreOps3, ZenonT(30)
    <3>. QED
      BY <3>1, <3>2, <3>3, <3>4, Zenon DEF F4, F3, F2, F1
  <2>. QED
    BY <1>1, <2>1, ConcatEmptySeq
<1>11. <<"entry", "guard", "loop">> \o F4 = E0
  <2>0. PICK a \in Ops, b \in Ops, d \in Ops :
          a = "entry" /\ b = "guard" /\ d = "loop"
    BY <1>0
  <2>1. <<a, b, d>> \o F4 = <<a>> \o (<<b>> \o (<<d>> \o F4))
    BY <1>2, MoreOps3, SMTT(60)
  <2>. QED
    BY <2>0, <2>1, Zenon DEF E0, G0, L0
<1>. QED
  BY <1>3, <1>4, <1>5, <1>6, <1>8, <1>9, <1>10, <1>11

LEMMA LeadsAt ==
  ASSUME NEW c, NEW k, NEW x, NEW v, NEW m, NEW e
  PROVE  /\ Leads(F4, c, k, x, v, m, e) <=> e = k
         /\ Leads(F3, c, k, x, v, m, e) <=> e = k /\ v = k.cursor
         /\ Leads(F2, c, k, x, v, m, e) <=> e = k
         /\ Leads(F1, c, k, x, v, m, e) <=> e = k /\ v = k.start
         /\ Leads(L0, c, k, x, v, m, e) <=> e = ScrolledTo(k)
         /\ Leads(S1, c, k, x, v, m, e) <=> e = ScrolledTo(k)
         /\ Leads(S2, c, k, x, v, m, e) <=> e = ScrolledTo(k)
         /\ Leads(S3, c, k, x, v, m, e) <=> e = ScrolledTo(k)
         /\ Leads(S4, c, k, x, v, m, e) <=> e = ScrolledTo(k)
         /\ Leads(S5, c, k, x, v, m, e) <=> e = ScrolledTo(k) /\ BelowWindow(k)
         /\ Leads(A2, c, k, x, v, m, e) <=>
              e = ScrolledTo(k) /\ BelowWindow(k) /\ MayScrollDown(c, k.start)
         /\ Leads(A1, c, k, x, v, m, e) <=>
              e = ScrolledTo(k) /\ BelowWindow(k) /\ MayScrollDown(c, k.start) /\ v = k.start
         /\ Leads(M3, c, k, x, v, m, e) <=>
              HasRoom(c, k.cursor, x) /\ e = ScrolledTo(Placed(c, k, x)) /\ x # BS /\ m = k.cursor
         /\ Leads(M2, c, k, x, v, m, e) <=>
              HasRoom(c, k.cursor, x) /\ e = ScrolledTo(Placed(c, k, x)) /\ x # BS
         /\ Leads(M1, c, k, x, v, m, e) <=>
              HasRoom(c, k.cursor, x) /\ e = ScrolledTo(Placed(c, k, x)) /\ x # BS /\ v = k.cursor
         /\ Leads(B3, c, k, x, v, m, e) <=>
              HasRoom(c, k.cursor, x) /\ e = ScrolledTo(Placed(c, k, x)) /\ x = BS /\ m = k.cursor
         /\ Leads(B2, c, k, x, v, m, e) <=>
              /\ HasRoom(c, k.cursor, x) /\ e = ScrolledTo(Placed(c, k, x)) /\ x = BS
              /\ m = k.cursor /\ v = k.cursor
         /\ Leads(B1, c, k, x, v, m, e) <=>
              e = ScrolledTo(k) /\ x = BS /\ Cell(m, x) \in original_addr(c) .. End(c) - 1
         /\ Leads(G0, c, k, x, v, m, e) <=> e = out_char(c, k, x) /\ m = k.cursor
         /\ Leads(E0, c, k, x, v, m, e) <=> e = out_char(c, k, x)
<1>1. PICK number : Numbered(number)
  BY Apart
<1>F4. Leads(F4, c, k, x, v, m, e) <=> e = k
  BY <1>1, SMTT(60) DEF Leads, Numbered, Flushing, Scrolling, Moving
<1>F3. Leads(F3, c, k, x, v, m, e) <=> e = k /\ v = k.cursor
  BY <1>1, SMTT(60) DEF Leads, Numbered, Flushing, Scrolling, Moving
<1>F2. Leads(F2, c, k, x, v, m, e) <=> e = k
  BY <1>1, SMTT(60) DEF Leads, Numbered, Flushing, Scrolling, Moving
<1>F1. Leads(F1, c, k, x, v, m, e) <=> e = k /\ v = k.start
  BY <1>1, SMTT(60) DEF Leads, Numbered, Flushing, Scrolling, Moving
<1>L0. Leads(L0, c, k, x, v, m, e) <=> e = ScrolledTo(k)
  BY <1>1, SMTT(60) DEF Leads, Numbered, Flushing, Scrolling, Moving
<1>S1. Leads(S1, c, k, x, v, m, e) <=> e = ScrolledTo(k)
  BY <1>1, SMTT(60) DEF Leads, Numbered, Flushing, Scrolling, Moving
<1>S2. Leads(S2, c, k, x, v, m, e) <=> e = ScrolledTo(k)
  BY <1>1, SMTT(60) DEF Leads, Numbered, Flushing, Scrolling, Moving
<1>S3. Leads(S3, c, k, x, v, m, e) <=> e = ScrolledTo(k)
  BY <1>1, SMTT(60) DEF Leads, Numbered, Flushing, Scrolling, Moving
<1>S4. Leads(S4, c, k, x, v, m, e) <=> e = ScrolledTo(k)
  BY <1>1, SMTT(60) DEF Leads, Numbered, Flushing, Scrolling, Moving
<1>S5. Leads(S5, c, k, x, v, m, e) <=> e = ScrolledTo(k) /\ BelowWindow(k)
  BY <1>1, SMTT(60) DEF Leads, Numbered, Flushing, Scrolling, Moving
<1>A2. Leads(A2, c, k, x, v, m, e) <=>
       e = ScrolledTo(k) /\ BelowWindow(k) /\ MayScrollDown(c, k.start)
  BY <1>1, SMTT(60) DEF Leads, Numbered, Flushing, Scrolling, Moving
<1>A1. Leads(A1, c, k, x, v, m, e) <=>
       e = ScrolledTo(k) /\ BelowWindow(k) /\ MayScrollDown(c, k.start) /\ v = k.start
  BY <1>1, SMTT(60) DEF Leads, Numbered, Flushing, Scrolling, Moving
<1>M3. Leads(M3, c, k, x, v, m, e) <=>
       HasRoom(c, k.cursor, x) /\ e = ScrolledTo(Placed(c, k, x)) /\ x # BS /\ m = k.cursor
  BY <1>1, SMTT(60) DEF Leads, Numbered, Flushing, Scrolling, Moving
<1>M2. Leads(M2, c, k, x, v, m, e) <=>
       HasRoom(c, k.cursor, x) /\ e = ScrolledTo(Placed(c, k, x)) /\ x # BS
  BY <1>1, SMTT(60) DEF Leads, Numbered, Flushing, Scrolling, Moving
<1>M1. Leads(M1, c, k, x, v, m, e) <=>
       HasRoom(c, k.cursor, x) /\ e = ScrolledTo(Placed(c, k, x)) /\ x # BS /\ v = k.cursor
  BY <1>1, SMTT(60) DEF Leads, Numbered, Flushing, Scrolling, Moving
<1>B3. Leads(B3, c, k, x, v, m, e) <=>
       HasRoom(c, k.cursor, x) /\ e = ScrolledTo(Placed(c, k, x)) /\ x = BS /\ m = k.cursor
  BY <1>1, SMTT(60) DEF Leads, Numbered, Flushing, Scrolling, Moving
<1>B2. Leads(B2, c, k, x, v, m, e) <=>
       /\ HasRoom(c, k.cursor, x) /\ e = ScrolledTo(Placed(c, k, x)) /\ x = BS
       /\ m = k.cursor /\ v = k.cursor
  BY <1>1, SMTT(60) DEF Leads, Numbered, Flushing, Scrolling, Moving
<1>B1. Leads(B1, c, k, x, v, m, e) <=>
       e = ScrolledTo(k) /\ x = BS /\ Cell(m, x) \in original_addr(c) .. End(c) - 1
  BY <1>1, SMTT(60) DEF Leads, Numbered, Flushing, Scrolling, Moving
<1>G0. Leads(G0, c, k, x, v, m, e) <=> e = out_char(c, k, x) /\ m = k.cursor
  BY <1>1, SMTT(60) DEF Leads, Numbered, Flushing, Scrolling, Moving
<1>E0. Leads(E0, c, k, x, v, m, e) <=> e = out_char(c, k, x)
  BY <1>1, SMTT(60) DEF Leads, Numbered, Flushing, Scrolling, Moving
<1>. QED
  BY <1>F4, <1>F3, <1>F2, <1>F1, <1>L0, <1>S1, <1>S2, <1>S3, <1>S4, <1>S5,
     <1>A2, <1>A1, <1>M3, <1>M2, <1>M1, <1>B3, <1>B2, <1>B1, <1>G0, <1>E0
-----------------------------------------------------------------------------
(* The steps of out_char keep the invariant                                *)

LEMMA LoadStep ==
  ASSUME IInv, Load
  PROVE  IInv'
<1>1. PICK number : Numbered(number)
  BY Apart
<1>2. /\ UNCHANGED <<con, crtc, vmem, set_for>>
      /\ UNCHANGED <<nr_current_console, in_buf, p_tty, at, on, ch, raced, expect>>
      /\ todo \in Points /\ todo # <<>> /\ on \in Consoles /\ con \in [Consoles -> CONSOLE]
  BY DEF Load, Then, Keep, IInv, Typed
<1>3. \/ Head(todo) = "load_cursor" /\ todo' = Tail(todo) /\ val' = con[on].cursor
      \/ Head(todo) = "load_start" /\ todo' = Tail(todo) /\ val' = con[on].start
  BY <1>2, WhereAt DEF Load, Then
<1>4. \/ /\ val' = con[on].cursor
         /\ \/ (todo = F4 /\ todo' = F3) \/ (todo = S2 /\ todo' = S1)
            \/ (todo = M2 /\ todo' = M1) \/ (todo = B3 /\ todo' = B2)
      \/ /\ val' = con[on].start
         /\ \/ (todo = F2 /\ todo' = F1) \/ (todo = S4 /\ todo' = S3)
            \/ (todo = A2 /\ todo' = A1)
  BY <1>2, <1>3, WhereAt
<1>5. con[on].cursor \in 0 .. Word - 1 /\ con[on].start \in 0 .. Word - 1
  BY <1>2 DEF CONSOLE
<1>6. Typed'
  BY <1>2, <1>4, <1>5 DEF IInv, Typed, Points, Flushing, Scrolling, Moving
<1>7. Windows'
  BY <1>1, <1>2, <1>4, SMTT(30) DEF IInv, Windows, Numbered
<1>8. Memory'
  BY <1>1, <1>2, <1>4 DEF IInv, Memory, Numbered, Flushing
<1>9. Working'
  BY <1>2, <1>4, LeadsAt DEF IInv, Working, Calm
<1>10. Keys'
  BY <1>2 DEF IInv, Keys, IsCurrent
<1>11. Shown'
  BY <1>1, <1>2, <1>4 DEF IInv, Shown, Numbered, Calm
<1>. QED
  BY <1>6, <1>7, <1>8, <1>9, <1>10, <1>11 DEF IInv
LEMMA SetCrtcStep ==
  ASSUME IInv, SetCrtc
  PROVE  IInv'
<1>1. PICK number : Numbered(number)
  BY Apart
<1>2. /\ UNCHANGED <<con, vmem, val>>
      /\ UNCHANGED <<nr_current_console, in_buf, p_tty, at, on, ch, raced, expect>>
      /\ todo \in Points /\ todo # <<>> /\ on \in Consoles /\ con \in [Consoles -> CONSOLE]
      /\ crtc \in CONSOLE /\ val \in 0 .. Word - 1
      /\ set_for \in [{"cursor", "start"} -> Consoles]
  BY DEF SetCrtc, Then, Keep, IInv, Typed
<1>3. IsCurrent(on)
  BY <1>2 DEF IInv, Keys
<1>4. \/ /\ (todo = F3 /\ todo' = F2) \/ (todo = S1 /\ todo' = L0)
         /\ crtc' = [crtc EXCEPT !.cursor = val] /\ set_for' = [set_for EXCEPT !.cursor = on]
      \/ /\ (todo = F1 /\ todo' = <<>>) \/ (todo = S3 /\ todo' = S2)
         /\ crtc' = [crtc EXCEPT !.start = val] /\ set_for' = [set_for EXCEPT !.start = on]
  BY <1>2, <1>3, WhereAt DEF SetCrtc, Then
<1>5. crtc' \in CONSOLE
  BY <1>2, <1>4 DEF CONSOLE
<1>6. Typed'
  BY <1>2, <1>4, <1>5 DEF IInv, Typed, Points, Flushing, Scrolling, Moving
<1>7. Windows'
  BY <1>1, <1>2, <1>4 DEF IInv, Windows, Numbered
<1>8. Memory'
  BY <1>1, <1>2, <1>4, SMTT(30) DEF IInv, Memory, Numbered, Flushing
<1>9. Working'
  BY <1>2, <1>4, LeadsAt DEF IInv, Working, Calm
<1>10. Keys'
  BY <1>2 DEF IInv, Keys, IsCurrent
<1>11. Shown'
  <2>1. Calm(on) => Leads(todo, on, con[on], ch, val, vmem, expect)
    BY <1>2 DEF IInv, Working
  <2>2. CASE /\ todo = F3 /\ todo' = F2
             /\ crtc' = [crtc EXCEPT !.cursor = val] /\ set_for' = [set_for EXCEPT !.cursor = on]
    <3>1. Calm(on) => val = con[on].cursor
      BY <2>1, <2>2, LeadsAt
    <3>2. crtc'.cursor = val /\ set_for'.cursor = on
      BY <1>2, <2>2 DEF CONSOLE
    <3>. QED
      BY <1>1, <1>2, <2>2, <3>1, <3>2 DEF Shown, Calm, Numbered
  <2>3. CASE /\ todo = F1 /\ todo' = <<>>
             /\ crtc' = [crtc EXCEPT !.start = val] /\ set_for' = [set_for EXCEPT !.start = on]
    <3>1. Calm(on) => val = con[on].start
      BY <2>1, <2>3, LeadsAt
    <3>2. /\ crtc'.start = val /\ set_for'.start = on
          /\ crtc'.cursor = crtc.cursor /\ set_for'.cursor = set_for.cursor
      BY <1>2, <2>3 DEF CONSOLE
    <3>3. Calm(set_for.cursor) => crtc.cursor = con[set_for.cursor].cursor
      BY <2>3 DEF IInv, Shown
    <3>. QED
      BY <1>1, <1>2, <2>3, <3>1, <3>2, <3>3 DEF Shown, Calm, Numbered
  <2>4. CASE (todo = S1 /\ todo' = L0) \/ (todo = S3 /\ todo' = S2)
    BY <1>1, <2>4 DEF Shown, Numbered
  <2>. QED
    BY <1>4, <2>2, <2>3, <2>4
<1>. QED
  BY <1>6, <1>7, <1>8, <1>9, <1>10, <1>11 DEF IInv

LEMMA EntryStep ==
  ASSUME IInv, Entry
  PROVE  IInv'
<1>1. PICK number : Numbered(number)
  BY Apart
<1>2. /\ UNCHANGED <<con, crtc, val, set_for>>
      /\ UNCHANGED <<nr_current_console, in_buf, p_tty, at, on, ch, raced, expect>>
      /\ todo \in Points /\ todo # <<>> /\ on \in Consoles /\ con \in [Consoles -> CONSOLE]
      /\ vmem' = con[on].cursor
  BY DEF Entry, Then, Keep, IInv, Typed
<1>3. todo = E0 /\ todo' = G0
  BY <1>2, WhereAt DEF Entry, Then
<1>4. vmem' \in 0 .. Word - 1
  BY <1>2 DEF CONSOLE
<1>5. Typed'
  BY <1>2, <1>3, <1>4 DEF IInv, Typed, Points
<1>6. Windows'
  BY <1>1, <1>2, <1>3 DEF IInv, Windows, Numbered
<1>7. Memory'
  BY <1>1, <1>2, <1>3 DEF IInv, Memory, Numbered, Flushing
<1>8. Working'
  BY <1>2, <1>3, LeadsAt DEF IInv, Working, Calm
<1>9. Keys'
  BY <1>2 DEF IInv, Keys, IsCurrent
<1>10. Shown'
  BY <1>1, <1>2, <1>3 DEF Shown, Numbered
<1>. QED
  BY <1>5, <1>6, <1>7, <1>8, <1>9, <1>10 DEF IInv

LEMMA GuardStep ==
  ASSUME IInv, Guard
  PROVE  IInv'
<1>1. PICK number : Numbered(number)
  BY Apart
<1>2. /\ UNCHANGED <<con, crtc, vmem, val, set_for>>
      /\ UNCHANGED <<nr_current_console, in_buf, p_tty, at, on, ch, raced, expect>>
      /\ todo \in Points /\ todo # <<>> /\ on \in Consoles /\ con \in [Consoles -> CONSOLE]
  BY DEF Guard, Then, Keep, IInv, Typed
<1>3. /\ todo = G0 /\ Tail(todo) = L0 /\ <<>> \o Tail(todo) = L0
      /\ todo' = (IF HasRoom(on, con[on].cursor, ch) THEN Effect ELSE <<>>) \o L0
  BY <1>2, WhereAt DEF Guard, Then
<1>4. \/ ~HasRoom(on, con[on].cursor, ch) /\ todo' = L0
      \/ HasRoom(on, con[on].cursor, ch) /\ ch = NL /\ todo' = M2
      \/ HasRoom(on, con[on].cursor, ch) /\ ch = BS /\ todo' = B3
      \/ HasRoom(on, con[on].cursor, ch) /\ ch # NL /\ ch # BS /\ todo' = M3
  <2>1. CASE ~HasRoom(on, con[on].cursor, ch)
    BY <1>3, <2>1, Zenon
  <2>2. CASE HasRoom(on, con[on].cursor, ch)
    <3>1. todo' = Effect \o L0
      BY <1>3, <2>2, Zenon
    <3>2. \/ ch = NL /\ Effect = <<"load_cursor", "move">>
          \/ ch = BS /\ Effect = <<"load_cursor", "move", "cell">>
          \/ ch # NL /\ ch # BS /\ Effect = <<"cell", "load_cursor", "move">>
      BY DEF Effect, NL, BS
    <3>. QED
      BY <2>2, <3>1, <3>2, LeadsTo, Zenon
  <2>. QED
    BY <2>1, <2>2
<1>5. Typed'
  BY <1>2, <1>4 DEF IInv, Typed, Points, Scrolling, Moving
<1>6. Windows'
  BY <1>1, <1>2, <1>4 DEF IInv, Windows, Numbered
<1>7. Memory'
  <2>1. todo = G0
    BY <1>3
  <2>. QED
    BY <1>1, <1>2, <1>4, <2>1 DEF IInv, Memory, Numbered, Flushing
<1>8. Working'
  <2>1. Calm(on) => Leads(G0, on, con[on], ch, val, vmem, expect)
    BY <1>2, <1>3 DEF IInv, Working
  <2>2. Calm(on) => expect = out_char(on, con[on], ch) /\ vmem = con[on].cursor
    BY <2>1, LeadsAt
  <2>3. Calm(on) => Leads(todo', on, con[on], ch, val, vmem, expect)
    <3>. HIDE DEF NL, BS
    <3>1. CASE ~HasRoom(on, con[on].cursor, ch)
      <4>1. todo' = L0
        BY <1>4, <3>1
      <4>2. Calm(on) => expect = ScrolledTo(con[on])
        BY <2>2, <3>1 DEF out_char, Placed
      <4>. QED
        BY <4>1, <4>2, LeadsAt
    <3>2. CASE HasRoom(on, con[on].cursor, ch)
      <4>1. NL # BS
        BY DEF NL, BS
      <4>2. Calm(on) => expect = ScrolledTo(Placed(on, con[on], ch)) /\ vmem = con[on].cursor
        BY <2>2 DEF out_char
      <4>3. CASE ch = NL /\ todo' = M2
        BY <3>2, <4>1, <4>2, <4>3, LeadsAt
      <4>4. CASE ch = BS /\ todo' = B3
        BY <3>2, <4>1, <4>2, <4>4, LeadsAt
      <4>5. CASE ch # NL /\ ch # BS /\ todo' = M3
        BY <3>2, <4>1, <4>2, <4>5, LeadsAt
      <4>. QED
        BY <1>4, <3>2, <4>3, <4>4, <4>5
    <3>. QED
      BY <3>1, <3>2
  <2>. QED
    BY <1>2, <2>3 DEF Working, Calm
<1>9. Keys'
  BY <1>2 DEF IInv, Keys, IsCurrent
<1>10. Shown'
  BY <1>1, <1>2, <1>4 DEF Shown, Numbered
<1>. QED
  BY <1>5, <1>6, <1>7, <1>8, <1>9, <1>10 DEF IInv

LEMMA WriteCellStep ==
  ASSUME IInv, WriteCell
  PROVE  IInv'
<1>1. PICK number : Numbered(number)
  BY Apart
<1>2. /\ UNCHANGED <<con, crtc, vmem, val, set_for>>
      /\ UNCHANGED <<nr_current_console, in_buf, p_tty, at, on, ch, raced, expect>>
      /\ todo \in Points /\ todo # <<>>
  BY DEF WriteCell, Then, Keep, IInv, Typed
<1>3. (todo = M3 /\ todo' = M2) \/ (todo = B1 /\ todo' = L0)
  BY <1>2, WhereAt DEF WriteCell, Then
<1>4. Typed'
  BY <1>2, <1>3 DEF IInv, Typed, Points, Scrolling, Moving
<1>5. Windows'
  BY <1>1, <1>2, <1>3 DEF IInv, Windows, Numbered
<1>6. Memory'
  BY <1>1, <1>2, <1>3 DEF IInv, Memory, Numbered, Flushing
<1>7. Working'
  BY <1>2, <1>3, LeadsAt DEF IInv, Working, Calm
<1>8. Keys'
  BY <1>2 DEF IInv, Keys, IsCurrent
<1>9. Shown'
  BY <1>1, <1>2, <1>3 DEF Shown, Numbered
<1>. QED
  BY <1>4, <1>5, <1>6, <1>7, <1>8, <1>9 DEF IInv
LEMMA LoopStep ==
  ASSUME IInv, Loop
  PROVE  IInv'
<1>1. PICK number : Numbered(number)
  BY Apart
<1>2. /\ UNCHANGED <<con, crtc, vmem, val, set_for>>
      /\ UNCHANGED <<nr_current_console, in_buf, p_tty, at, on, ch, raced, expect>>
      /\ todo \in Points /\ todo # <<>> /\ on \in Consoles /\ con \in [Consoles -> CONSOLE]
  BY DEF Loop, Then, Keep, IInv, Typed
<1>3. /\ todo = L0 /\ Tail(todo) = F4 /\ <<>> \o Tail(todo) = F4
      /\ todo' = (IF BelowWindow(con[on]) THEN <<"scroll", "loop">> ELSE <<>>) \o F4
  BY <1>2, WhereAt DEF Loop, Then
<1>4. \/ BelowWindow(con[on]) /\ todo' = S5
      \/ ~BelowWindow(con[on]) /\ todo' = F4
  <2>1. CASE BelowWindow(con[on])
    BY <1>3, <2>1, LeadsTo, Zenon
  <2>2. CASE ~BelowWindow(con[on])
    BY <1>3, <2>2, Zenon
  <2>. QED
    BY <2>1, <2>2
<1>5. todo = L0
  BY <1>3
<1>6. Typed'
  BY <1>2, <1>4 DEF IInv, Typed, Points, Scrolling, Flushing
<1>7. Windows'
  BY <1>1, <1>2, <1>4 DEF IInv, Windows, Numbered
<1>8. Memory'
  BY <1>1, <1>2, <1>4, <1>5 DEF IInv, Memory, Numbered, Flushing
<1>9. Working'
  <2>1. Calm(on) => expect = ScrolledTo(con[on])
    BY <1>2, <1>5, LeadsAt DEF IInv, Working
  <2>2. ~BelowWindow(con[on]) => ScrolledTo(con[on]) = con[on]
    BY <1>2, NothingToScroll
  <2>3. Calm(on) => Leads(todo', on, con[on], ch, val, vmem, expect)
    BY <1>4, <2>1, <2>2, LeadsAt
  <2>. QED
    BY <1>2, <2>3 DEF Working, Calm
<1>10. Keys'
  BY <1>2 DEF IInv, Keys, IsCurrent
<1>11. Shown'
  BY <1>1, <1>2, <1>4 DEF Shown, Numbered
<1>. QED
  BY <1>6, <1>7, <1>8, <1>9, <1>10, <1>11 DEF IInv

LEMMA ScrollStep ==
  ASSUME IInv, Scroll
  PROVE  IInv'
<1>1. PICK number : Numbered(number)
  BY Apart
<1>2. /\ UNCHANGED <<con, crtc, vmem, val, set_for>>
      /\ UNCHANGED <<nr_current_console, in_buf, p_tty, at, on, ch, raced, expect>>
      /\ todo \in Points /\ todo # <<>> /\ on \in Consoles /\ con \in [Consoles -> CONSOLE]
  BY DEF Scroll, Then, Keep, IInv, Typed
<1>3. /\ todo = S5 /\ Tail(todo) = L0
      /\ todo' = ((IF MayScrollDown(on, con[on].start)
                   THEN <<"load_start", "advance">> ELSE <<>>) \o scroll) \o L0
  BY <1>2, WhereAt DEF Scroll, Then
<1>4. \/ MayScrollDown(on, con[on].start) /\ todo' = A2
      \/ ~MayScrollDown(on, con[on].start) /\ todo' = S4
  <2>1. CASE MayScrollDown(on, con[on].start)
    BY <1>3, <2>1, LeadsTo, Zenon
  <2>2. CASE ~MayScrollDown(on, con[on].start)
    BY <1>3, <2>2, LeadsTo, Zenon
  <2>. QED
    BY <2>1, <2>2
<1>5. todo = S5
  BY <1>3
<1>6. Typed'
  BY <1>2, <1>4 DEF IInv, Typed, Points, Scrolling
<1>7. Windows'
  <2>1. con[on].start \in Nat /\ End(on) \in Nat /\ SCREEN_SIZE \in Nat
        /\ SCREEN_WIDTH \in Nat /\ SCREEN_WIDTH > 0
    BY <1>2, Sizes DEF CONSOLE
  <2>2. MayScrollDown(on, con[on].start) => Near(on, con[on].start)
    BY <2>1 DEF MayScrollDown, Near
  <2>. QED
    BY <1>1, <1>2, <1>4, <2>2 DEF IInv, Windows, Numbered
<1>8. Memory'
  BY <1>1, <1>2, <1>4, <1>5 DEF IInv, Memory, Numbered, Flushing
<1>9. Working'
  <2>1. Calm(on) => expect = ScrolledTo(con[on]) /\ BelowWindow(con[on])
    BY <1>2, <1>5, LeadsAt DEF IInv, Working
  <2>2. Calm(on) => Leads(todo', on, con[on], ch, val, vmem, expect)
    BY <1>4, <2>1, LeadsAt
  <2>. QED
    BY <1>2, <2>2 DEF Working, Calm
<1>10. Keys'
  BY <1>2 DEF IInv, Keys, IsCurrent
<1>11. Shown'
  BY <1>1, <1>2, <1>4 DEF Shown, Numbered
<1>. QED
  BY <1>6, <1>7, <1>8, <1>9, <1>10, <1>11 DEF IInv

LEMMA MoveStep ==
  ASSUME IInv, Move
  PROVE  IInv'
<1>1. PICK number : Numbered(number)
  BY Apart
<1>2. /\ UNCHANGED <<crtc, vmem, val, set_for>>
      /\ UNCHANGED <<nr_current_console, in_buf, p_tty, at, on, ch, raced, expect>>
      /\ todo \in Points /\ todo # <<>> /\ on \in Consoles /\ con \in [Consoles -> CONSOLE]
      /\ val \in 0 .. Word - 1
  BY DEF Move, Then, Keep, IInv, Typed
<1>3. (todo = M1 /\ todo' = L0) \/ (todo = B2 /\ todo' = B1)
  BY <1>2, WhereAt DEF Move, Then
<1>4. PICK j : j = [con[on] EXCEPT !.cursor = Moved(on, val, ch)]
  OBVIOUS
<1>5. con' = [con EXCEPT ![on] = j]
  BY <1>2, <1>4 DEF Move
<1>6. j \in CONSOLE /\ j.start = con[on].start
  <2>1. Moved(on, val, ch) \in 0 .. Word - 1
    BY <1>2, MovedType, Sizes
  <2>2. con[on] \in CONSOLE
    BY <1>2
  <2>. QED
    BY <1>4, <2>1, <2>2 DEF CONSOLE
<1>7. /\ con'[on] = j /\ con' \in [Consoles -> CONSOLE]
      /\ \A c \in Consoles \ {on} : con'[c] = con[c]
  BY <1>2, <1>5, <1>6
<1>8. Calm(on) => /\ HasRoom(on, con[on].cursor, ch) /\ val = con[on].cursor
                  /\ expect = ScrolledTo(j) /\ j = Placed(on, con[on], ch)
                  /\ todo = B2 => ch = BS /\ vmem = con[on].cursor
  <2>1. Calm(on) => Leads(todo, on, con[on], ch, val, vmem, expect)
    BY <1>2 DEF IInv, Working
  <2>2. Calm(on) => /\ HasRoom(on, con[on].cursor, ch) /\ val = con[on].cursor
                    /\ expect = ScrolledTo(Placed(on, con[on], ch))
                    /\ todo = B2 => ch = BS /\ vmem = con[on].cursor
    BY <1>3, <2>1, LeadsAt
  <2>. QED
    BY <1>4, <2>2 DEF Placed
<1>9. Calm(on) => InMemory(on, con[on]) /\ InMemory(on, j)
  <2>1. Calm(on) => InMemory(on, con[on])
    BY <1>2 DEF IInv, Memory, Calm
  <2>. QED
    BY <1>2, <1>8, <2>1, PlacedEffect
<1>10. Typed'
  BY <1>2, <1>3, <1>7 DEF IInv, Typed, Points, Scrolling
<1>11. Windows'
  <2>1. todo' # A1 /\ todo' # A2
    BY <1>1, <1>3 DEF Numbered
  <2>2. \A c \in Consoles : con'[c].start = con[c].start
    BY <1>6, <1>7
  <2>. QED
    BY <2>1, <2>2 DEF IInv, Windows
<1>12. Memory'
  <2>1. todo' \notin {<<>>} \cup Flushing
    BY <1>1, <1>3 DEF Numbered, Flushing
  <2>2. ASSUME NEW c \in Consoles \ raced
        PROVE  /\ InMemory(c, con'[c])
               /\ on # c => ~BelowWindow(con'[c])
    <3>1. CASE c = on
      BY <1>7, <1>9, <3>1 DEF Calm
    <3>2. CASE c # on
      BY <1>7, <3>2 DEF IInv, Memory
    <3>. QED
      BY <3>1, <3>2
  <2>. QED
    BY <1>2, <2>1, <2>2 DEF Memory
<1>13. Working'
  <2>1. todo = B2 /\ Calm(on) => Cell(vmem, ch) \in original_addr(on) .. End(on) - 1
    <3>1. original_addr(on) \in Nat /\ End(on) \in Nat
      BY <1>2, Sizes
    <3>. QED
      BY <1>8, <1>9, <3>1 DEF HasRoom, Cell, InMemory, NL, BS
  <2>2. Calm(on) => Leads(todo', on, j, ch, val, vmem, expect)
    BY <1>3, <1>8, <2>1, LeadsAt
  <2>. QED
    BY <1>2, <1>7, <2>2 DEF Working, Calm
<1>14. Keys'
  BY <1>2 DEF IInv, Keys, IsCurrent
<1>15. Shown'
  BY <1>1, <1>3 DEF Shown, Numbered
<1>. QED
  BY <1>10, <1>11, <1>12, <1>13, <1>14, <1>15 DEF IInv

LEMMA AdvanceStep ==
  ASSUME IInv, Advance
  PROVE  IInv'
<1>1. PICK number : Numbered(number)
  BY Apart
<1>2. /\ UNCHANGED <<crtc, vmem, val, set_for>>
      /\ UNCHANGED <<nr_current_console, in_buf, p_tty, at, on, ch, raced, expect>>
      /\ todo \in Points /\ todo # <<>> /\ on \in Consoles /\ con \in [Consoles -> CONSOLE]
      /\ val \in 0 .. Word - 1
  BY DEF Advance, Then, Keep, IInv, Typed
<1>3. todo = A1 /\ todo' = S4
  BY <1>2, WhereAt DEF Advance, Then
<1>4. PICK j : j = [con[on] EXCEPT !.start = NextLine(val)]
  OBVIOUS
<1>5. con' = [con EXCEPT ![on] = j]
  BY <1>2, <1>4 DEF Advance
<1>6. AtLine(on, val) /\ Near(on, val)
  BY <1>3 DEF IInv, Windows
<1>7. /\ original_addr(on) \in Nat /\ End(on) \in Nat /\ End(on) + SCREEN_SIZE < Word /\ Word \in Nat
      /\ SCREEN_WIDTH \in Nat /\ SCREEN_WIDTH > 0
      /\ SCREEN_SIZE \in Nat /\ SCREEN_SIZE >= 2 * SCREEN_WIDTH
  BY <1>2, Sizes
<1>8. NextLine(val) \in 0 .. Word - 1 /\ NextLine(val) = val + SCREEN_WIDTH
  BY <1>2, <1>6, <1>7 DEF Near, NextLine
<1>9. j \in CONSOLE /\ j.start = NextLine(val) /\ j.cursor = con[on].cursor
  <2>1. con[on] \in CONSOLE
    BY <1>2
  <2>. QED
    BY <1>4, <1>8, <2>1 DEF CONSOLE
<1>10. /\ con'[on] = j /\ con' \in [Consoles -> CONSOLE]
       /\ \A c \in Consoles \ {on} : con'[c] = con[c]
  BY <1>2, <1>5, <1>9
<1>11. AtLine(on, j.start) /\ Near(on, j.start - SCREEN_WIDTH)
  <2>0. val \in Nat /\ 1 \in Nat
    BY <1>2, <1>7
  <2>1. AtLine(on, val + SCREEN_WIDTH * 1)
    BY <1>2, <1>6, <2>0, LineOn
  <2>2. val + SCREEN_WIDTH * 1 = j.start /\ j.start - SCREEN_WIDTH = val
    BY <1>2, <1>7, <1>8, <1>9
  <2>. QED
    BY <1>6, <2>1, <2>2
<1>12. Calm(on) => /\ val = con[on].start /\ MayScrollDown(on, val) /\ BelowWindow(con[on])
                   /\ expect = ScrolledTo(con[on])
  <2>1. Calm(on) => Leads(A1, on, con[on], ch, val, vmem, expect)
    BY <1>2, <1>3 DEF IInv, Working
  <2>. QED
    BY <2>1, LeadsAt
<1>13. Calm(on) => InMemory(on, j)
  <2>1. Calm(on) => InMemory(on, con[on])
    BY <1>2 DEF IInv, Memory, Calm
  <2>2. MayScrollDown(on, val) => Near(on, val + SCREEN_WIDTH)
    BY <1>2, <1>7 DEF MayScrollDown, Near
  <2>. QED
    BY <1>8, <1>9, <1>12, <2>1, <2>2 DEF InMemory
<1>14. Typed'
  BY <1>2, <1>3, <1>10 DEF IInv, Typed, Points, Scrolling
<1>15. Windows'
  <2>1. todo' # A1 /\ todo' # A2
    BY <1>1, <1>3 DEF Numbered
  <2>2. ASSUME NEW c \in Consoles
        PROVE  AtLine(c, con'[c].start) /\ Near(c, con'[c].start - SCREEN_WIDTH)
    <3>1. CASE c = on
      BY <1>10, <1>11, <3>1
    <3>2. CASE c # on
      BY <1>10, <3>2 DEF IInv, Windows
    <3>. QED
      BY <3>1, <3>2
  <2>. QED
    BY <2>1, <2>2 DEF Windows
<1>16. Memory'
  BY <1>1, <1>2, <1>3, <1>10, <1>13, SMTT(30) DEF IInv, Memory, Numbered, Flushing, Calm
<1>17. Working'
  <2>1. Calm(on) => expect = ScrolledTo(j)
    <3>1. Calm(on) => j = [con[on] EXCEPT !.start = NextLine(@)]
      BY <1>4, <1>12
    <3>2. con[on] \in CONSOLE
      BY <1>2
    <3>. QED
      BY <1>2, <1>12, <3>1, <3>2, ScrollOnce
  <2>2. Calm(on) => Leads(S4, on, j, ch, val, vmem, expect)
    BY <2>1, LeadsAt
  <2>. QED
    BY <1>2, <1>3, <1>10, <2>2 DEF Working, Calm
<1>18. Keys'
  BY <1>2 DEF IInv, Keys, IsCurrent
<1>19. Shown'
  BY <1>1, <1>3 DEF Shown, Numbered
<1>. QED
  BY <1>14, <1>15, <1>16, <1>17, <1>18, <1>19 DEF IInv

-----------------------------------------------------------------------------
(* So do the turns of task_tty and the printing of the others              *)

\* Between two calls every console that is calm is in its memory, in its window.
LEMMA IdleStep ==
  ASSUME IInv, todo = <<>>,
         UNCHANGED <<con, crtc, raced>>,
         nr_current_console' \in Consoles, on' \in Consoles, IsCurrent(on)',
         todo' \in {F4, E0}
  PROVE  Windows' /\ Memory' /\ Shown'
<1>1. PICK number : Numbered(number)
  BY Apart
<1>2. Windows'
  BY <1>1 DEF IInv, Windows, Numbered
<1>3. Memory'
  BY DEF IInv, Memory
<1>4. Shown'
  BY <1>1 DEF Shown, Numbered
<1>. QED
  BY <1>2, <1>3, <1>4

LEMMA ReadStep ==
  ASSUME IInv, tty_do_read
  PROVE  IInv'
<1>1. /\ UNCHANGED <<con, crtc, p_tty, ch, vmem, val, raced, set_for>>
      /\ todo = <<>> /\ at = "read" /\ at' = "write"
  BY DEF tty_do_read, Turn
<1>2. \A t \in Consoles : in_buf[t] = <<>>
  BY <1>1 DEF IInv, Keys
<1>3. ASSUME UNCHANGED <<nr_current_console, on, todo, expect>>,
             in_buf' \in [Consoles -> Seq(Chars)],
             \A t \in Consoles : in_buf'[t] # <<>> => t = p_tty /\ IsCurrent(t) /\ Len(in_buf'[t]) = 1
      PROVE  IInv'
  <2>1. Typed'
    BY <1>1, <1>3 DEF IInv, Typed
  <2>2. Windows' /\ Memory' /\ Working' /\ Shown'
    BY <1>1, <1>3 DEF IInv, Windows, Memory, Working, Shown, Calm
  <2>3. Keys'
    BY <1>1, <1>3 DEF Keys, IsCurrent
  <2>. QED
    BY <2>1, <2>2, <2>3 DEF IInv
<1>4. CASE UNCHANGED <<nr_current_console, in_buf, on, todo, expect>>
  <2>1. in_buf' \in [Consoles -> Seq(Chars)]
    BY <1>4 DEF IInv, Typed
  <2>. QED
    BY <1>2, <1>3, <1>4, <2>1
<1>5. ASSUME MayRead(p_tty), NEW key \in KeyEvents, in_process(p_tty, key)
      PROVE  IInv'
  <2>0. p_tty \in Consoles /\ in_buf \in [Consoles -> Seq(Chars)] /\ IsCurrent(p_tty)
    BY <1>5 DEF IInv, Typed, MayRead
  <2>1. CASE key[1] = "F"
    <3>1. select_console(key[2] - 1) /\ UNCHANGED in_buf
      BY <1>5, <2>1 DEF in_process
    <3>2. CASE key[2] - 1 \notin Consoles
      <4>1. UNCHANGED <<nr_current_console, in_buf, on, todo, expect>>
        BY <3>1, <3>2 DEF select_console
      <4>. QED
        BY <1>4, <4>1
    <3>3. CASE key[2] - 1 \in Consoles
      <4>1. PICK c \in Consoles : c = key[2] - 1
        BY <3>3
      <4>2. nr_current_console' = c /\ on' = c /\ todo' = F4 /\ expect' = con[c]
        BY <3>1, <4>1, LeadsTo DEF select_console
      <4>3. Windows' /\ Memory' /\ Shown'
        BY <1>1, <4>2, IdleStep DEF IsCurrent
      <4>4. Typed'
        BY <1>1, <3>1, <4>2 DEF IInv, Typed, Points, Flushing
      <4>5. Leads(F4, c, con[c], ch, val, vmem, con[c])
        BY LeadsAt
      <4>6. Working'
        BY <1>1, <4>2, <4>5 DEF Working
      <4>7. Keys'
        BY <1>2, <3>1, <4>2 DEF Keys, IsCurrent
      <4>. QED
        BY <4>3, <4>4, <4>6, <4>7 DEF IInv
    <3>. QED
      BY <3>2, <3>3
  <2>2. CASE key[1] # "F"
    <3>1. /\ UNCHANGED <<nr_current_console, on, todo, expect>>
          /\ UNCHANGED in_buf \/ \E k \in Chars : put_key(p_tty, k)
      <4>1. key[2] \in Chars /\ NL \in Chars /\ BS \in Chars
        BY <1>5 DEF Chars
      <4>. QED
        BY <1>5, <2>2, <4>1 DEF in_process
    <3>2. CASE UNCHANGED in_buf
      BY <1>4, <3>1, <3>2
    <3>3. ASSUME NEW k \in Chars, put_key(p_tty, k) PROVE IInv'
      <4>1. \/ UNCHANGED in_buf
            \/ in_buf' = [in_buf EXCEPT ![p_tty] = Append(in_buf[p_tty], k)]
        BY <3>3 DEF put_key
      <4>2. CASE UNCHANGED in_buf
        BY <1>4, <3>1, <4>2
      <4>3. CASE in_buf' = [in_buf EXCEPT ![p_tty] = Append(in_buf[p_tty], k)]
        <5>0. in_buf[p_tty] = <<>>
          BY <1>2, <2>0
        <5>1. PICK b \in Seq(Chars) : b = Append(in_buf[p_tty], k)
          <6>1. <<>> \in Seq(Chars)
            BY EmptySeq
          <6>2. Append(<<>>, k) \in Seq(Chars)
            BY <6>1, AppendProperties
          <6>. QED
            BY <5>0, <6>2
        <5>2. Len(b) = 1
          BY <5>0, <5>1
        <5>3. in_buf' = [in_buf EXCEPT ![p_tty] = b]
          BY <4>3, <5>1
        <5>4. /\ in_buf' \in [Consoles -> Seq(Chars)]
              /\ in_buf'[p_tty] = b
              /\ \A t \in Consoles \ {p_tty} : in_buf'[t] = <<>>
          BY <1>2, <2>0, <5>3
        <5>. QED
          BY <1>3, <2>0, <3>1, <5>2, <5>4
      <4>. QED
        BY <4>1, <4>2, <4>3
    <3>. QED
      BY <3>1, <3>2, <3>3
  <2>. QED
    BY <2>1, <2>2
<1>. QED
  BY <1>4, <1>5 DEF tty_do_read

LEMMA WriteStep ==
  ASSUME IInv, tty_do_write
  PROVE  IInv'
<1>1. /\ UNCHANGED <<con, crtc, nr_current_console, vmem, val, raced, set_for>>
      /\ todo = <<>> /\ at = "write" /\ at' = "read" /\ p_tty' = NextTty(p_tty)
      /\ p_tty \in Consoles /\ in_buf \in [Consoles -> Seq(Chars)]
  BY DEF tty_do_write, Turn, IInv, Typed
<1>2. p_tty' \in Consoles
  <2>1. NR_CONSOLES \in Nat /\ NR_CONSOLES > 0 /\ p_tty + 1 \in Nat
    BY <1>1, ConsoleAssumption DEF Consoles
  <2>. QED
    BY <1>1, <2>1 DEF NextTty, Consoles
<1>3. CASE in_buf[p_tty] = <<>>
  <2>1. UNCHANGED <<ch, in_buf, on, todo, expect>>
    BY <1>3 DEF tty_do_write
  <2>2. Typed'
    BY <1>1, <1>2, <2>1 DEF IInv, Typed
  <2>3. Windows' /\ Memory' /\ Working' /\ Shown'
    BY <1>1, <2>1 DEF IInv, Windows, Memory, Working, Shown, Calm
  <2>4. Keys'
    BY <1>1, <1>3, <2>1 DEF IInv, Keys, IsCurrent
  <2>. QED
    BY <2>2, <2>3, <2>4 DEF IInv
<1>4. CASE in_buf[p_tty] # <<>>
  <2>1. /\ Taken(p_tty) /\ on' = p_tty /\ todo' = E0
        /\ expect' = out_char(p_tty, con[p_tty], ch')
    BY <1>4, LeadsTo DEF tty_do_write
  <2>2. IsCurrent(p_tty) /\ Len(in_buf[p_tty]) = 1
    BY <1>1, <1>4 DEF IInv, Keys
  <2>3. PICK b \in Seq(Chars) : b = Tail(in_buf[p_tty]) /\ b = <<>>
    <3>1. PICK q \in Seq(Chars) : q = in_buf[p_tty]
      BY <1>1
    <3>2. Len(q) = 1
      BY <2>2, <3>1
    <3>3. Tail(q) \in Seq(Chars) /\ Tail(q) = <<>>
      <4>1. q # <<>>
        BY <3>2
      <4>2. Tail(q) \in Seq(Chars) /\ Len(Tail(q)) = 0
        BY <3>2, <4>1, HeadTailProperties
      <4>. QED
        BY <4>2, EmptySeq
    <3>. QED
      BY <3>1, <3>3
  <2>4. in_buf' = [in_buf EXCEPT ![p_tty] = b]
    BY <2>1, <2>3 DEF Taken
  <2>5. in_buf' \in [Consoles -> Seq(Chars)] /\ \A t \in Consoles : in_buf'[t] = <<>>
    BY <1>1, <2>3, <2>4 DEF IInv, Keys
  <2>6. Windows' /\ Memory' /\ Shown'
    <3>1. nr_current_console' \in Consoles
      BY <1>1 DEF IInv, Typed
    <3>. QED
      BY <1>1, <2>1, <2>2, <3>1, IdleStep DEF IsCurrent
  <2>7. Typed'
    BY <1>1, <1>2, <2>1, <2>5 DEF IInv, Typed, Points
  <2>8. \A x : Leads(E0, p_tty, con[p_tty], x, val, vmem, out_char(p_tty, con[p_tty], x))
    BY LeadsAt
  <2>9. Working'
    BY <1>1, <2>1, <2>8 DEF Working
  <2>10. Keys'
    BY <1>1, <2>1, <2>2, <2>5 DEF Keys, IsCurrent
  <2>. QED
    BY <2>6, <2>7, <2>9, <2>10 DEF IInv
<1>. QED
  BY <1>3, <1>4
LEMMA PrintStep ==
  ASSUME IInv, NEW p \in Printers, NEW s \in Texts, sys_printx(p, s)
  PROVE  IInv'
<1>0. PICK c \in Consoles : c = nr_tty[p]
  BY TtyAssumption
<1>1. UNCHANGED <<nr_current_console, in_buf, p_tty, at, todo, on, ch, vmem, val, expect>>
  BY DEF sys_printx, task
<1>2. CASE UNCHANGED <<con, crtc, raced, set_for>>
  <2>1. Typed' /\ Windows' /\ Memory' /\ Working' /\ Keys' /\ Shown'
    BY <1>1, <1>2 DEF IInv, Typed, Windows, Memory, Working, Keys, Shown, Calm, IsCurrent
  <2>. QED
    BY <2>1 DEF IInv
<1>3. CASE ~UNCHANGED <<con, crtc, raced, set_for>>
  <2>0. /\ con \in [Consoles -> CONSOLE] /\ on \in Consoles /\ nr_current_console \in Consoles
        /\ raced \subseteq Consoles
    BY DEF IInv, Typed
  <2>1. PICK j : j = Output(c, con[c], s)
    OBVIOUS
  <2>2. ~Hangs(c, con[c], s) /\ ~Silent(s)
    BY <1>0, <1>3 DEF sys_printx
  <2>3. /\ con' = [con EXCEPT ![c] = j] /\ crtc' = con'[c]
        /\ set_for' = [cursor |-> c, start |-> c]
        /\ raced' = IF todo # <<>> /\ on = c THEN raced \cup {c} ELSE raced
    BY <1>0, <2>1, <2>2 DEF sys_printx
  <2>4. Sound(c, con[c])
    BY <2>0 DEF IInv, Windows, Sound
  <2>5. Len(s) \in Nat
    BY TtyAssumption
  <2>6. /\ Sound(c, j) /\ ~BelowWindow(j)
        /\ Near(c, con[c].start) => Near(c, j.start)
        /\ InMemory(c, con[c]) => InMemory(c, j)
    BY <2>1, <2>2, <2>4, <2>5, PrintedEffect
  <2>7. /\ con' \in [Consoles -> CONSOLE] /\ con'[c] = j /\ crtc' = j
        /\ \A d \in Consoles \ {c} : con'[d] = con[d]
    BY <2>0, <2>3, <2>6 DEF Sound
  <2>8. raced \subseteq raced' /\ raced' \subseteq Consoles /\ (todo # <<>> /\ on = c => c \in raced')
    BY <2>0, <2>3
  <2>9. Typed'
    BY <1>1, <2>3, <2>6, <2>7, <2>8 DEF IInv, Typed, Sound
  <2>10. Windows'
    <3>1. ASSUME NEW d \in Consoles
          PROVE  AtLine(d, con'[d].start) /\ Near(d, con'[d].start - SCREEN_WIDTH)
      <4>1. CASE d = c
        BY <2>6, <2>7, <4>1 DEF Sound
      <4>2. CASE d # c
        BY <2>7, <4>2 DEF IInv, Windows
      <4>. QED
        BY <4>1, <4>2
    <3>2. todo = A2 => Near(on, con'[on].start)
      <4>1. CASE on = c
        BY <2>6, <2>7, <4>1 DEF IInv, Windows
      <4>2. CASE on # c
        BY <2>0, <2>7, <4>2 DEF IInv, Windows
      <4>. QED
        BY <4>1, <4>2
    <3>3. todo = A1 => AtLine(on, val) /\ Near(on, val)
      BY DEF IInv, Windows
    <3>. QED
      BY <1>1, <3>1, <3>2, <3>3 DEF Windows
  <2>11. Memory'
    <3>1. ASSUME NEW d \in Consoles \ raced'
          PROVE  /\ InMemory(d, con'[d])
                 /\ todo \in {<<>>} \cup Flushing \/ on # d => ~BelowWindow(con'[d])
      <4>1. d \in Consoles \ raced
        BY <2>8
      <4>2. CASE d = c
        BY <2>6, <2>7, <4>1, <4>2 DEF IInv, Memory
      <4>3. CASE d # c
        BY <2>7, <4>1, <4>3 DEF IInv, Memory
      <4>. QED
        BY <4>2, <4>3
    <3>. QED
      BY <1>1, <3>1 DEF Memory
  <2>12. Working'
    <3>1. todo # <<>> /\ on \notin raced' => Leads(todo, on, con'[on], ch, val, vmem, expect)
      <4>1. CASE on = c
        BY <2>8, <4>1
      <4>2. CASE on # c
        BY <2>0, <2>7, <2>8, <4>2 DEF IInv, Working, Calm
      <4>. QED
        BY <4>1, <4>2
    <3>. QED
      BY <1>1, <3>1 DEF Working, Calm
  <2>13. Keys'
    BY <1>1 DEF IInv, Keys, IsCurrent
  <2>14. Shown'
    BY <2>3, <2>7 DEF Shown
  <2>. QED
    BY <2>9, <2>10, <2>11, <2>12, <2>13, <2>14 DEF IInv
<1>. QED
  BY <1>2, <1>3

\* A call that stops the machine, or no step at all.
LEMMA IdleOrHalt ==
  ASSUME IInv, UNCHANGED vars \/ \E p \in Printers, s \in Texts : Halt(p, s)
  PROVE  IInv'
<1>1. UNCHANGED <<con, crtc, nr_current_console, in_buf, p_tty, at, todo, on, ch, vmem, val,
                  raced, set_for, expect>>
  BY DEF Halt, vars, task, ghosts
<1>2. Typed' /\ Windows' /\ Memory' /\ Working' /\ Keys' /\ Shown'
  BY <1>1 DEF IInv, Typed, Windows, Memory, Working, Keys, Shown, Calm, IsCurrent
<1>. QED
  BY <1>2 DEF IInv
-----------------------------------------------------------------------------
(* The start                                                               *)

\* One more character beside the last can always be shown.
LEMMA NextFits ==
  ASSUME NEW c \in Consoles, NEW k \in CONSOLE, ~BelowWindow(k), MayScrollDown(c, k.start),
         NEW x, x # NL, x # BS
  PROVE  LoopEnds(c, Placed(c, k, x))
<1>. DEFINE j == Placed(c, k, x)
            w == SCREEN_WIDTH
            y == End(c) - k.start - SCREEN_SIZE - 1
<1>1. /\ w \in Nat /\ w > 0 /\ SCREEN_SIZE \in Nat /\ End(c) \in Nat /\ Word \in Nat
      /\ End(c) < Word
  BY Sizes
<1>2. k.cursor \in 0 .. Word - 1 /\ k.start \in 0 .. Word - 1
  BY DEF CONSOLE
<1>3. j.start = k.start
  BY PlacedEffect
<1>4. j.cursor =< k.cursor + 1
  <2>1. CASE HasRoom(c, k.cursor, x)
    <3>1. Moved(c, k.cursor, x) = (k.cursor + 1) % Word /\ k.cursor < End(c) - 1
      BY <2>1 DEF HasRoom, Moved
    <3>2. (k.cursor + 1) % Word = k.cursor + 1
      BY <1>1, <1>2, <3>1
    <3>3. j.cursor = k.cursor + 1
      BY <2>1, <3>1, <3>2 DEF Placed, CONSOLE
    <3>. QED
      BY <1>2, <3>3
  <2>2. CASE ~HasRoom(c, k.cursor, x)
    BY <1>2, <2>2 DEF Placed
  <2>. QED
    BY <2>1, <2>2
<1>5. y \in Nat /\ ~(k.start + SCREEN_SIZE >= End(c))
  BY <1>1, <1>2 DEF MayScrollDown
<1>6. PICK n \in Nat : n = y \div w + 1 /\ n * w >= w
  <2>1. y \div w \in Nat
    <3>. HIDE DEF y, w
    <3>. QED
      BY <1>1, <1>5, Division
  <2>. DEFINE d == y \div w
  <2>. HIDE DEF d, w
  <2>2. d \in Nat /\ (d + 1) * w = d * w + w /\ d * w \in Nat
    BY <1>1, <2>1 DEF d
  <2>3. (d + 1) * w >= w
    BY <1>1, <2>2
  <2>. QED
    BY <2>2, <2>3 DEF d
<1>7. LoopEnds(c, j) <=> j.cursor < k.start + n * w + SCREEN_SIZE
  BY <1>3, <1>5, <1>6 DEF LoopEnds
<1>8. j.cursor \in Nat
  BY <1>1, PlacedEffect DEF CONSOLE
<1>. HIDE DEF j
<1>9. n * w \in Nat
  BY <1>1, <1>6
<1>10. k.cursor < k.start + SCREEN_SIZE
  BY <1>1, <1>2 DEF BelowWindow
<1>11. j.cursor < k.start + n * w + SCREEN_SIZE
  <2>. HIDE DEF w, y
  <2>. QED
    BY <1>1, <1>2, <1>4, <1>6, <1>8, <1>9, <1>10
<1>. QED
  BY <1>7, <1>11 DEF j

LEMMA InitScreen ==
  ASSUME NEW c \in Consoles
  PROVE  LET k == init_screen(c, disp_pos)
         IN  Sound(c, k) /\ InMemory(c, k) /\ ~BelowWindow(k)
<1>1. /\ original_addr(c) \in Nat /\ End(c) \in Nat /\ End(c) + SCREEN_SIZE < Word /\ Word \in Nat
      /\ original_addr(c) + SCREEN_SIZE < End(c)
      /\ SCREEN_WIDTH \in Nat /\ SCREEN_WIDTH > 0
      /\ SCREEN_SIZE \in Nat /\ SCREEN_SIZE >= 2 * SCREEN_WIDTH
  BY Sizes
<1>2. ASSUME NEW cursor \in original_addr(c) .. original_addr(c) + SCREEN_SIZE - 1,
             NEW k, k = [cursor |-> cursor, start |-> original_addr(c)]
      PROVE  Sound(c, k) /\ InMemory(c, k) /\ ~BelowWindow(k) /\ MayScrollDown(c, k.start)
  <2>1. k \in CONSOLE /\ k.cursor = cursor /\ k.start = original_addr(c)
    BY <1>1, <1>2 DEF CONSOLE
  <2>2. AtLine(c, original_addr(c))
    BY <1>1 DEF AtLine
  <2>3. Near(c, original_addr(c) - SCREEN_WIDTH) /\ Near(c, original_addr(c))
    BY <1>1 DEF Near
  <2>. QED
    BY <1>1, <2>1, <2>2, <2>3 DEF Sound, InMemory, BelowWindow, MayScrollDown
<1>3. CASE c = 0
  <2>1. disp_pos \div 2 \in 0 .. SCREEN_SIZE - 1
    BY <1>1, TtyAssumption
  <2>2. original_addr(c) = 0
    <3>1. con_v_mem_size \in Int
      BY ConsoleAssumption DEF con_v_mem_size
    <3>. QED
      BY <1>3, <3>1 DEF original_addr
  <2>3. init_screen(c, disp_pos) = [cursor |-> disp_pos \div 2, start |-> original_addr(c)]
    BY <1>3 DEF init_screen
  <2>4. disp_pos \div 2 \in original_addr(c) .. original_addr(c) + SCREEN_SIZE - 1
    BY <1>1, <2>1, <2>2
  <2>5. PICK k : k = [cursor |-> disp_pos \div 2, start |-> original_addr(c)]
    OBVIOUS
  <2>6. Sound(c, k) /\ InMemory(c, k) /\ ~BelowWindow(k)
    BY <1>2, <2>4, <2>5
  <2>. QED
    BY <2>3, <2>5, <2>6, Zenon
<1>4. CASE c # 0
  <2>1. PICK k : k = [cursor |-> original_addr(c), start |-> original_addr(c)]
    OBVIOUS
  <2>2. /\ original_addr(c) \in original_addr(c) .. original_addr(c) + SCREEN_SIZE - 1
        /\ original_addr(c) + 1 \in original_addr(c) .. original_addr(c) + SCREEN_SIZE - 1
    BY <1>1
  <2>3. Sound(c, k) /\ k \in CONSOLE
    BY <1>2, <2>1, <2>2 DEF Sound
  <2>4. PICK m : m = [cursor |-> original_addr(c) + 1, start |-> original_addr(c)]
    OBVIOUS
  <2>5. Sound(c, m) /\ InMemory(c, m) /\ ~BelowWindow(m) /\ MayScrollDown(c, m.start) /\ m \in CONSOLE
    BY <1>2, <2>2, <2>4 DEF Sound
  <2>6. out_char(c, k, "1") = m
    <3>1. HasRoom(c, original_addr(c), "1")
      BY <1>1 DEF HasRoom, NL, BS
    <3>2. Moved(c, original_addr(c), "1") = original_addr(c) + 1
      BY <1>1 DEF Moved, NL, BS
    <3>3. Placed(c, k, "1") = m
      BY <2>1, <2>4, <3>1, <3>2 DEF Placed
    <3>. QED
      BY <2>5, <3>3, NothingToScroll DEF out_char
  <2>7. LoopEnds(c, Placed(c, m, "#"))
    <3>1. "#" # NL /\ "#" # BS
      BY DEF NL, BS
    <3>. QED
      BY <2>5, <3>1, NextFits
  <2>8. init_screen(c, disp_pos) = out_char(c, m, "#")
    BY <1>4, <2>1, <2>6 DEF init_screen
  <2>9. PICK j : j = out_char(c, m, "#")
    OBVIOUS
  <2>10. Sound(c, j) /\ InMemory(c, j) /\ ~BelowWindow(j)
    BY <2>5, <2>7, <2>9, CharEffect
  <2>. QED
    BY <2>8, <2>9, <2>10, Zenon
<1>. QED
  BY <1>3, <1>4

LEMMA IInvInit ==
  ASSUME Init
  PROVE  IInv
<1>1. /\ con = [c \in Consoles |-> init_screen(c, disp_pos)]
      /\ crtc = con[0] /\ nr_current_console = 0 /\ in_buf = [c \in Consoles |-> <<>>]
      /\ p_tty = 0 /\ at = "read" /\ todo = <<>> /\ on = 0
      /\ vmem = 0 /\ val = 0 /\ raced = {}
      /\ set_for = [cursor |-> 0, start |-> 0]
  BY DEF Init
<1>2. \A c \in Consoles : Sound(c, con[c]) /\ InMemory(c, con[c]) /\ ~BelowWindow(con[c])
  BY <1>1, InitScreen
<1>3. 0 \in Consoles /\ 0 \in 0 .. Word - 1
  <2>1. NR_CONSOLES \in Nat /\ NR_CONSOLES > 0
    BY ConsoleAssumption
  <2>2. 0 \in Consoles
    BY <2>1 DEF Consoles
  <2>. QED
    BY <2>2, Sizes
<1>4. Typed
  <2>1. con \in [Consoles -> CONSOLE]
    BY <1>1, <1>2 DEF Sound
  <2>2. in_buf \in [Consoles -> Seq(Chars)]
    BY <1>1, EmptySeq
  <2>. QED
    BY <1>1, <1>3, <2>1, <2>2 DEF Typed, Points
<1>5. Windows
  <2>1. PICK number : Numbered(number)
    BY Apart
  <2>. QED
    BY <1>1, <1>2, <2>1 DEF Windows, Sound, Numbered
<1>6. Memory
  BY <1>2 DEF Memory
<1>7. Working /\ Keys /\ Shown
  BY <1>1 DEF Working, Keys, Shown
<1>. QED
  BY <1>4, <1>5, <1>6, <1>7 DEF IInv

LEMMA IInvNext ==
  ASSUME IInv, [Next]_vars
  PROVE  IInv'
<1>1. CASE Step
  BY <1>1, LoadStep, SetCrtcStep, EntryStep, GuardStep, MoveStep, WriteCellStep, LoopStep,
     ScrollStep, AdvanceStep DEF Step
<1>2. CASE tty_do_read \/ tty_do_write
  BY <1>2, ReadStep, WriteStep
<1>3. CASE SomebodyPrints \/ UNCHANGED vars
  BY <1>3, PrintStep, IdleOrHalt DEF SomebodyPrints
<1>. QED
  BY <1>1, <1>2, <1>3 DEF Next, task_tty

-----------------------------------------------------------------------------
(* The races: how far a console can get that was printed to while task_tty *)
(* was at work on it                                                       *)

Around(c, cursor) == cursor \in original_addr(c) - 1 .. End(c) + SCREEN_WIDTH - 1

\* The cursor of the first console has wrapped around below its memory, and
\* task_tty is in the loop of out_char for good.
Lost(c) == c = 0 /\ on = c /\ con[c].cursor = Word - 1 /\ todo \in Scrolling \cup {B1}

\* What task_tty saw when it decided that there is room stays half true: nobody
\* takes a cursor to the end of the memory, or to its beginning and below.
Spill ==
  /\ \A c \in Consoles : Around(c, con[c].cursor) \/ Lost(c)
  /\ todo \in {M1, M2, M3} => ch # BS
  /\ todo \in {B2, B3} => ch = BS
  /\ todo \in {M2, M3} => con[on].cursor =< End(on) - 1
  /\ todo = B3 => con[on].cursor >= original_addr(on)
  /\ todo = M1 => Around(on, val) /\ val =< End(on) - 1
  /\ todo = B2 => Around(on, val) /\ val >= original_addr(on)
  /\ todo \in {G0, M3, B1, B2, B3} => Around(on, vmem)

LEMMA LineAround ==
  ASSUME NEW c \in Consoles, NEW cursor \in 0 .. Word - 1, Around(c, cursor)
  PROVE  Moved(c, cursor, NL) \in original_addr(c) .. cursor + SCREEN_WIDTH
<1>. DEFINE o == original_addr(c)
            w == SCREEN_WIDTH
            y == (cursor - o) % Word
<1>1. /\ o \in Nat /\ End(c) \in Nat /\ End(c) + SCREEN_SIZE < Word /\ Word \in Nat
      /\ w \in Nat /\ w > 0 /\ SCREEN_SIZE \in Nat /\ SCREEN_SIZE >= 2 * w
  BY Sizes
<1>2. LineAfter(c, cursor) = o + w * (y \div w + 1)
  BY DEF LineAfter
<1>3. Moved(c, cursor, NL) = LineAfter(c, cursor) % Word
  BY DEF Moved, NL, BS
<1>4. cursor >= o - 1 /\ cursor + w < Word
  BY <1>1 DEF Around
<1>5. \/ cursor >= o /\ y = cursor - o
      \/ cursor = o - 1 /\ y = Word - 1
  <2>1. CASE cursor >= o
    <3>1. cursor - o \in 0 .. Word - 1
      BY <1>1, <2>1
    <3>2. y = cursor - o
      BY <1>1, <3>1
    <3>. HIDE DEF y, o
    <3>. QED
      BY <2>1, <3>2
  <2>2. CASE cursor = o - 1
    <3>1. cursor - o = -1 /\ Word >= 1
      BY <1>1, <2>2
    <3>2. (-1) % Word = Word - 1
      BY <1>1, <3>1
    <3>. QED
      BY <2>2, <3>1, <3>2
  <2>3. cursor \in Int /\ o \in Int
    BY <1>1
  <2>4. cursor >= o \/ cursor = o - 1
    BY <1>4, <2>3
  <2>. HIDE DEF y, o
  <2>. QED
    BY <2>1, <2>2, <2>4
<1>6. y \in Nat
  BY <1>1, <1>5
<1>7. PICK d \in Nat : d = y \div w /\ w * d =< y /\ y < w * d + w
  <2>. HIDE DEF y, w
  <2>. QED
    BY <1>1, <1>6, Division
<1>8. PICK l \in Nat : l = w * d
  BY <1>1
<1>9. w * (d + 1) = l + w
  <2>. HIDE DEF w
  <2>. QED
    BY <1>1, <1>8
<1>10. LineAfter(c, cursor) = o + (l + w)
  BY <1>2, <1>7, <1>9
<1>. HIDE DEF y, o, w
<1>11. CASE cursor >= o /\ y = cursor - o
  <2>1. o + (l + w) \in o .. cursor + w
    BY <1>1, <1>7, <1>8, <1>11
  <2>2. (o + (l + w)) % Word = o + (l + w)
    BY <1>1, <1>4, <2>1
  <2>. QED
    BY <1>3, <1>10, <2>1, <2>2 DEF o, w
<1>12. CASE cursor = o - 1 /\ y = Word - 1
  <2>. DEFINE r == o + (l + w) - Word
  <2>1. r \in o .. cursor + w /\ r \in Nat /\ r < Word
    BY <1>1, <1>4, <1>7, <1>8, <1>12
  <2>2. (o + (l + w)) = r + Word
    BY <1>1
  <2>. HIDE DEF r
  <2>3. (r + Word) % Word = r
    BY <1>1, <2>1
  <2>. QED
    BY <1>3, <1>10, <2>1, <2>2, <2>3 DEF o, w
<1>. QED
  BY <1>5, <1>11, <1>12

\* task_tty moves the cursor from where it was when it loaded it.
LEMMA MovedAround ==
  ASSUME NEW c \in Consoles, NEW cursor \in 0 .. Word - 1, Around(c, cursor), NEW x
  PROVE  /\ x # BS /\ cursor =< End(c) - 1 => Around(c, Moved(c, cursor, x))
         /\ x = BS /\ cursor >= original_addr(c)
              => Around(c, Moved(c, cursor, x)) \/ (c = 0 /\ Moved(c, cursor, x) = Word - 1)
<1>1. /\ original_addr(c) \in Nat /\ End(c) \in Nat /\ End(c) + SCREEN_SIZE < Word /\ Word \in Nat
      /\ SCREEN_WIDTH \in Nat /\ SCREEN_WIDTH > 0
      /\ SCREEN_SIZE \in Nat /\ SCREEN_SIZE >= 2 * SCREEN_WIDTH
  BY Sizes
<1>2. ASSUME x = NL, cursor =< End(c) - 1 PROVE Around(c, Moved(c, cursor, x))
  <2>1. Moved(c, cursor, x) \in original_addr(c) .. cursor + SCREEN_WIDTH
    BY <1>2, LineAround
  <2>. QED
    BY <1>1, <1>2, <2>1 DEF Around
<1>3. ASSUME x # NL, x # BS, cursor =< End(c) - 1 PROVE Around(c, Moved(c, cursor, x))
  <2>1. Moved(c, cursor, x) = (cursor + 1) % Word
    BY <1>3 DEF Moved
  <2>2. (cursor + 1) % Word = cursor + 1
    BY <1>1, <1>3
  <2>. QED
    BY <1>1, <1>3, <2>1, <2>2 DEF Around
<1>4. ASSUME x = BS, cursor >= original_addr(c)
      PROVE  Around(c, Moved(c, cursor, x)) \/ (c = 0 /\ Moved(c, cursor, x) = Word - 1)
  <2>1. Moved(c, cursor, x) = (cursor - 1) % Word
    BY <1>4 DEF Moved, NL, BS
  <2>2. CASE cursor > 0
    <3>1. (cursor - 1) % Word = cursor - 1
      BY <1>1, <2>2
    <3>. QED
      BY <1>1, <1>4, <2>1, <3>1 DEF Around
  <2>3. CASE cursor = 0
    <3>1. (cursor - 1) % Word = Word - 1
      <4>1. cursor - 1 = -1 /\ Word >= 1
        BY <1>1, <2>3
      <4>2. (-1) % Word = Word - 1
        BY <1>1, <4>1
      <4>. QED
        BY <4>1, <4>2
    <3>2. original_addr(c) = 0
      BY <1>1, <1>4, <2>3
    <3>3. c = 0
      <4>1. con_v_mem_size \in Nat /\ con_v_mem_size > 0 /\ c \in Nat
        BY ConsoleAssumption DEF con_v_mem_size, Consoles
      <4>2. c * con_v_mem_size = 0
        BY <3>2 DEF original_addr
      <4>. HIDE DEF con_v_mem_size
      <4>. QED
        BY <4>1, <4>2
    <3>. QED
      BY <2>1, <3>1, <3>3
  <2>. QED
    BY <1>1, <2>2, <2>3
<1>. QED
  BY <1>2, <1>3, <1>4

\* A character that a process prints keeps the cursor where it is near its console,
\* and does not take it out at either end.
Kept(c, j, k) ==
  Around(c, j.cursor) =>
    /\ Around(c, k.cursor)
    /\ j.cursor =< End(c) - 1 => k.cursor =< End(c) - 1
    /\ j.cursor >= original_addr(c) => k.cursor >= original_addr(c)

LEMMA PlacedAround ==
  ASSUME NEW c \in Consoles, NEW k \in CONSOLE, NEW x
  PROVE  Kept(c, k, Placed(c, k, x))
<1>. DEFINE m == Moved(c, k.cursor, x)
<1>1. /\ original_addr(c) \in Nat /\ End(c) \in Nat /\ End(c) + SCREEN_SIZE < Word /\ Word \in Nat
      /\ SCREEN_WIDTH \in Nat /\ SCREEN_WIDTH > 0
      /\ SCREEN_SIZE \in Nat /\ SCREEN_SIZE >= 2 * SCREEN_WIDTH
      /\ original_addr(c) + SCREEN_SIZE < End(c)
  BY Sizes
<1>2. k.cursor \in 0 .. Word - 1
  BY DEF CONSOLE
<1>3. CASE ~HasRoom(c, k.cursor, x)
  BY <1>3 DEF Placed, Kept
<1>4. ASSUME HasRoom(c, k.cursor, x), Around(c, k.cursor)
      PROVE  m \in original_addr(c) .. End(c) + SCREEN_WIDTH - 1 /\ (k.cursor =< End(c) - 1 => m =< End(c) - 1)
  <2>1. CASE x = NL
    <3>1. m \in original_addr(c) .. k.cursor + SCREEN_WIDTH
      BY <1>2, <1>4, <2>1, LineAround
    <3>2. k.cursor < End(c) - SCREEN_WIDTH
      BY <1>4, <2>1 DEF HasRoom, NL, BS
    <3>. HIDE DEF m
    <3>. QED
      BY <1>1, <1>2, <3>1, <3>2
  <2>2. CASE x = BS
    <3>1. k.cursor > original_addr(c) /\ m = (k.cursor - 1) % Word
      BY <1>4, <2>2 DEF HasRoom, Moved, NL, BS
    <3>2. (k.cursor - 1) % Word = k.cursor - 1
      BY <1>1, <1>2, <3>1
    <3>. HIDE DEF m
    <3>. QED
      BY <1>1, <1>2, <1>4, <3>1, <3>2 DEF Around
  <2>3. CASE x # NL /\ x # BS
    <3>1. k.cursor < End(c) - 1 /\ m = (k.cursor + 1) % Word
      BY <1>4, <2>3 DEF HasRoom, Moved
    <3>2. (k.cursor + 1) % Word = k.cursor + 1
      BY <1>1, <1>2, <3>1
    <3>. HIDE DEF m
    <3>. QED
      BY <1>1, <1>2, <1>4, <3>1, <3>2 DEF Around
  <2>. QED
    BY <2>1, <2>2, <2>3
<1>5. CASE HasRoom(c, k.cursor, x)
  <2>1. Placed(c, k, x).cursor = m
    <3>. HIDE DEF m
    <3>. QED
      BY <1>5 DEF Placed, CONSOLE, m
  <2>. HIDE DEF m
  <2>. QED
    BY <1>1, <1>2, <1>4, <1>5, <2>1 DEF Kept, Around
<1>. QED
  BY <1>3, <1>5

\* So does a text.
LEMMA TextAround ==
  ASSUME NEW c \in Consoles, NEW k, Sound(c, k), NEW s, Len(s) \in Nat, ~Hangs(c, k, s)
  PROVE  Kept(c, k, Output(c, k, s))
<1>. DEFINE N == Len(s)
            all == Printed(c, k, s)
            T == {i \in 0 .. N : Sound(c, all[i]) /\ Kept(c, k, all[i])}
<1>1. all[0] = k /\ \A i \in 1 .. N :
        all[i] = IF IsMagic(s[i]) THEN all[i - 1] ELSE out_char(c, all[i - 1], s[i])
  BY PrintedDef DEF Sound
<1>2. \A i \in 1 .. N : IsMagic(s[i]) \/ LoopEnds(c, Placed(c, all[i - 1], s[i]))
  BY DEF Hangs
<1>3. Output(c, k, s) = all[N]
  BY DEF Output
<1>. HIDE DEF all
<1>4. 0 \in T
  BY <1>1 DEF Kept
<1>5. ASSUME NEW i \in T, i < N PROVE i + 1 \in T
  <2>1. i + 1 \in 1 .. N /\ (i + 1) - 1 = i /\ i \in 0 .. N /\ i + 1 \in 0 .. N
    BY <1>5
  <2>2. CASE IsMagic(s[i + 1])
    BY <1>1, <1>5, <2>1, <2>2
  <2>3. CASE ~IsMagic(s[i + 1])
    <3>1. all[i + 1] = out_char(c, all[i], s[i + 1]) /\ LoopEnds(c, Placed(c, all[i], s[i + 1]))
      BY <1>1, <1>2, <2>1, <2>3
    <3>2. PICK j : j = Placed(c, all[i], s[i + 1])
      OBVIOUS
    <3>3. /\ j \in CONSOLE /\ j.start = all[i].start /\ Kept(c, all[i], j)
          /\ all[i + 1] = ScrolledTo(j)
      BY <1>5, <3>1, <3>2, PlacedEffect, PlacedAround DEF Sound, out_char
    <3>4. Sound(c, all[i + 1]) /\ all[i + 1].cursor = j.cursor
      BY <1>5, <3>1, <3>2, <3>3, ScrolledEffect DEF Sound
    <3>5. Kept(c, k, all[i + 1])
      BY <1>5, <3>3, <3>4 DEF Kept
    <3>. QED
      BY <2>1, <3>4, <3>5
  <2>. QED
    BY <2>2, <2>3
<1>6. T = 0 .. N
  <2>1. T \in SUBSET (0 .. N)
    OBVIOUS
  <2>. HIDE DEF T
  <2>. QED
    BY <1>4, <1>5, <2>1, IntervalInduction
<1>. QED
  BY <1>3, <1>6

\* On a console whose cursor has wrapped around, nothing can be printed.
LEMMA LostForGood ==
  ASSUME NEW c \in Consoles, NEW k, Sound(c, k), k.cursor = Word - 1,
         NEW s, Len(s) \in Nat, ~Hangs(c, k, s)
  PROVE  Silent(s)
<1>. DEFINE N == Len(s)
            all == Printed(c, k, s)
            T == {i \in 0 .. N : all[i] = k /\ \A h \in 1 .. i : IsMagic(s[h])}
<1>1. all[0] = k /\ \A i \in 1 .. N :
        all[i] = IF IsMagic(s[i]) THEN all[i - 1] ELSE out_char(c, all[i - 1], s[i])
  BY PrintedDef DEF Sound
<1>2. \A i \in 1 .. N : IsMagic(s[i]) \/ LoopEnds(c, Placed(c, all[i - 1], s[i]))
  BY DEF Hangs
<1>. HIDE DEF all
<1>3. ASSUME NEW x PROVE ~LoopEnds(c, Placed(c, k, x))
  <2>1. /\ original_addr(c) \in Nat /\ End(c) \in Nat /\ End(c) + SCREEN_SIZE < Word /\ Word \in Nat
        /\ SCREEN_WIDTH \in Nat /\ SCREEN_WIDTH > 0
        /\ SCREEN_SIZE \in Nat /\ SCREEN_SIZE >= 2 * SCREEN_WIDTH
    BY Sizes
  <2>2. PICK j \in CONSOLE : j = Placed(c, k, x) /\ j.start = k.start
    BY PlacedEffect DEF Sound
  <2>3. j.start \in Nat /\ j.cursor \in Nat
    BY <2>1 DEF CONSOLE
  <2>4. j.cursor >= Word - 2
    <3>1. CASE HasRoom(c, k.cursor, x)
      <4>1. x = BS
        BY <2>1, <3>1 DEF HasRoom
      <4>2. Moved(c, k.cursor, x) = (Word - 2) % Word
        <5>1. Word - 1 - 1 = Word - 2
          BY <2>1
        <5>. QED
          BY <4>1, <5>1 DEF Moved, NL, BS
      <4>3. (Word - 2) % Word = Word - 2
        BY <2>1
      <4>4. j.cursor = Moved(c, k.cursor, x)
        BY <2>2, <3>1 DEF Placed, Sound, CONSOLE
      <4>. QED
        BY <2>1, <4>2, <4>3, <4>4
    <3>2. CASE ~HasRoom(c, k.cursor, x)
      BY <2>1, <2>2, <3>2 DEF Placed
    <3>. QED
      BY <3>1, <3>2
  <2>5. j.start + SCREEN_SIZE < End(c) + 2 * SCREEN_WIDTH
    BY <2>1, <2>2, <2>3 DEF Sound, Near
  <2>6. CASE j.start + SCREEN_SIZE >= End(c)
    BY <2>1, <2>2, <2>3, <2>4, <2>5, <2>6 DEF LoopEnds
  <2>7. CASE ~(j.start + SCREEN_SIZE >= End(c))
    <3>. DEFINE y == End(c) - j.start - SCREEN_SIZE - 1
                w == SCREEN_WIDTH
    <3>1. y \in Nat
      BY <2>1, <2>3, <2>7
    <3>2. w \in Nat /\ w > 0 /\ w = SCREEN_WIDTH
      BY <2>1
    <3>3. PICK d \in Nat : d = y \div w /\ w * d =< y
      <4>. HIDE DEF y, w
      <4>. QED
        BY <3>1, <3>2, Division
    <3>4. LoopEnds(c, j) <=> j.cursor < j.start + (d + 1) * w + SCREEN_SIZE
      BY <2>7, <3>3 DEF LoopEnds
    <3>5. y = End(c) - j.start - SCREEN_SIZE - 1
      OBVIOUS
    <3>. HIDE DEF y, w
    <3>6. PICK e \in Nat : e = (d + 1) * w /\ e =< y + w
      <4>1. (d + 1) * w = w * d + w /\ w * d \in Nat
        BY <3>2, <3>3
      <4>. QED
        BY <3>1, <3>2, <3>3, <4>1
    <3>7. j.start + e + SCREEN_SIZE < Word - 2
      <4>1. PICK a \in Nat : a = j.start
        BY <2>3
      <4>2. e =< y + w /\ e \in Nat /\ y = End(c) - a - SCREEN_SIZE - 1
        BY <3>5, <3>6, <4>1
      <4>3. a + e + SCREEN_SIZE < Word - 2
        BY <2>1, <3>1, <3>2, <4>2
      <4>. QED
        BY <4>1, <4>3
    <3>. QED
      BY <2>2, <2>3, <2>4, <3>4, <3>6, <3>7, <2>1
  <2>. QED
    BY <2>6, <2>7
<1>4. 0 \in T
  BY <1>1
<1>5. ASSUME NEW i \in T, i < N PROVE i + 1 \in T
  <2>1. i + 1 \in 1 .. N /\ (i + 1) - 1 = i /\ i \in 0 .. N /\ i + 1 \in 0 .. N
    BY <1>5
  <2>2. IsMagic(s[i + 1])
    BY <1>2, <1>3, <1>5, <2>1
  <2>. QED
    BY <1>1, <1>5, <2>1, <2>2
<1>6. T = 0 .. N
  <2>1. T \in SUBSET (0 .. N)
    OBVIOUS
  <2>. HIDE DEF T
  <2>. QED
    BY <1>4, <1>5, <2>1, IntervalInduction
<1>. QED
  BY <1>6 DEF Silent

\* Where each step of the call leads.
LEMMA Course ==
  ASSUME IInv
  PROVE  /\ Load => /\ UNCHANGED <<con, vmem, on, ch>>
                    /\ \/ /\ val' = con[on].cursor
                          /\ \/ (todo = F4 /\ todo' = F3) \/ (todo = S2 /\ todo' = S1)
                             \/ (todo = M2 /\ todo' = M1) \/ (todo = B3 /\ todo' = B2)
                       \/ \/ (todo = F2 /\ todo' = F1) \/ (todo = S4 /\ todo' = S3)
                          \/ (todo = A2 /\ todo' = A1)
         /\ SetCrtc => /\ UNCHANGED <<con, vmem, val, on, ch>>
                       /\ \/ (todo = F3 /\ todo' = F2) \/ (todo = S1 /\ todo' = L0)
                          \/ (todo = F1 /\ todo' = <<>>) \/ (todo = S3 /\ todo' = S2)
         /\ Entry => /\ UNCHANGED <<con, val, on, ch>> /\ vmem' = con[on].cursor
                     /\ todo = E0 /\ todo' = G0
         /\ Guard => /\ UNCHANGED <<con, vmem, val, on, ch>> /\ todo = G0
                     /\ \/ todo' = L0
                        \/ HasRoom(on, con[on].cursor, ch) /\ ch = NL /\ todo' = M2
                        \/ HasRoom(on, con[on].cursor, ch) /\ ch = BS /\ todo' = B3
                        \/ HasRoom(on, con[on].cursor, ch) /\ ch # NL /\ ch # BS /\ todo' = M3
         /\ Move => /\ UNCHANGED <<vmem, val, on, ch>>
                    /\ con' = [con EXCEPT ![on].cursor = Moved(on, val, ch)]
                    /\ (todo = M1 /\ todo' = L0) \/ (todo = B2 /\ todo' = B1)
         /\ WriteCell => /\ UNCHANGED <<con, vmem, val, on, ch>>
                         /\ (todo = M3 /\ todo' = M2) \/ (todo = B1 /\ todo' = L0)
         /\ Loop => /\ UNCHANGED <<con, vmem, val, on, ch>> /\ todo = L0
                    /\ (BelowWindow(con[on]) /\ todo' = S5) \/ (~BelowWindow(con[on]) /\ todo' = F4)
         /\ Scroll => /\ UNCHANGED <<con, vmem, val, on, ch>>
                      /\ todo = S5 /\ (todo' = A2 \/ todo' = S4)
         /\ Advance => /\ UNCHANGED <<vmem, val, on, ch>>
                       /\ con' = [con EXCEPT ![on].start = NextLine(val)]
                       /\ todo = A1 /\ todo' = S4
<1>1. todo \in Points
  BY DEF IInv, Typed
<1>2. ASSUME Load
      PROVE  /\ UNCHANGED <<con, vmem, on, ch>>
             /\ \/ /\ val' = con[on].cursor
                   /\ \/ (todo = F4 /\ todo' = F3) \/ (todo = S2 /\ todo' = S1)
                      \/ (todo = M2 /\ todo' = M1) \/ (todo = B3 /\ todo' = B2)
                \/ \/ (todo = F2 /\ todo' = F1) \/ (todo = S4 /\ todo' = S3)
                   \/ (todo = A2 /\ todo' = A1)
  BY <1>1, <1>2, WhereAt DEF Load, Then, Keep
<1>3. ASSUME SetCrtc
      PROVE  /\ UNCHANGED <<con, vmem, val, on, ch>>
             /\ \/ (todo = F3 /\ todo' = F2) \/ (todo = S1 /\ todo' = L0)
                \/ (todo = F1 /\ todo' = <<>>) \/ (todo = S3 /\ todo' = S2)
  BY <1>1, <1>3, WhereAt DEF SetCrtc, Then, Keep
<1>4. ASSUME Entry
      PROVE  /\ UNCHANGED <<con, val, on, ch>> /\ vmem' = con[on].cursor
             /\ todo = E0 /\ todo' = G0
  BY <1>1, <1>4, WhereAt DEF Entry, Then, Keep
<1>5. ASSUME Guard
      PROVE  /\ UNCHANGED <<con, vmem, val, on, ch>> /\ todo = G0
             /\ \/ todo' = L0
                \/ HasRoom(on, con[on].cursor, ch) /\ ch = NL /\ todo' = M2
                \/ HasRoom(on, con[on].cursor, ch) /\ ch = BS /\ todo' = B3
                \/ HasRoom(on, con[on].cursor, ch) /\ ch # NL /\ ch # BS /\ todo' = M3
  <2>1. UNCHANGED <<con, vmem, val, on, ch>>
    BY <1>5 DEF Guard, Keep
  <2>2. /\ todo = G0 /\ <<>> \o Tail(todo) = L0
        /\ todo' = (IF HasRoom(on, con[on].cursor, ch) THEN Effect ELSE <<>>) \o L0
    BY <1>1, <1>5, WhereAt DEF Guard, Then
  <2>3. CASE ~HasRoom(on, con[on].cursor, ch)
    <3>1. todo' = L0
      <4>1. Tail(todo) = L0
        BY <1>1, <1>5, WhereAt DEF Guard, Then
      <4>. QED
        BY <2>2, <2>3, <4>1, Zenon
    <3>. QED
      BY <2>1, <2>2, <3>1
  <2>4. CASE HasRoom(on, con[on].cursor, ch)
    <3>1. todo' = Effect \o L0
      BY <2>2, <2>4, Zenon
    <3>2. \/ ch = NL /\ Effect = <<"load_cursor", "move">>
          \/ ch = BS /\ Effect = <<"load_cursor", "move", "cell">>
          \/ ch # NL /\ ch # BS /\ Effect = <<"cell", "load_cursor", "move">>
      BY DEF Effect, NL, BS
    <3>. QED
      BY <2>1, <2>2, <2>4, <3>1, <3>2, LeadsTo, Zenon
  <2>. QED
    BY <2>3, <2>4
<1>6. ASSUME Move
      PROVE  /\ UNCHANGED <<vmem, val, on, ch>>
             /\ con' = [con EXCEPT ![on].cursor = Moved(on, val, ch)]
             /\ (todo = M1 /\ todo' = L0) \/ (todo = B2 /\ todo' = B1)
  BY <1>1, <1>6, WhereAt DEF Move, Then, Keep
<1>7. ASSUME WriteCell
      PROVE  /\ UNCHANGED <<con, vmem, val, on, ch>>
             /\ (todo = M3 /\ todo' = M2) \/ (todo = B1 /\ todo' = L0)
  BY <1>1, <1>7, WhereAt DEF WriteCell, Then, Keep
<1>8. ASSUME Loop
      PROVE  /\ UNCHANGED <<con, vmem, val, on, ch>> /\ todo = L0
             /\ (BelowWindow(con[on]) /\ todo' = S5) \/ (~BelowWindow(con[on]) /\ todo' = F4)
  <2>1. UNCHANGED <<con, vmem, val, on, ch>>
    BY <1>8 DEF Loop, Keep
  <2>2. /\ todo = L0 /\ Tail(todo) = F4 /\ <<>> \o Tail(todo) = F4
        /\ todo' = (IF BelowWindow(con[on]) THEN <<"scroll", "loop">> ELSE <<>>) \o F4
    BY <1>1, <1>8, WhereAt DEF Loop, Then
  <2>3. CASE BelowWindow(con[on])
    BY <2>1, <2>2, <2>3, LeadsTo, Zenon
  <2>4. CASE ~BelowWindow(con[on])
    <3>1. todo' = F4
      BY <2>2, <2>4, Zenon
    <3>. QED
      BY <2>1, <2>2, <2>4, <3>1, Zenon
  <2>. QED
    BY <2>3, <2>4
<1>9. ASSUME Scroll
      PROVE  /\ UNCHANGED <<con, vmem, val, on, ch>>
             /\ todo = S5 /\ (todo' = A2 \/ todo' = S4)
  <2>1. UNCHANGED <<con, vmem, val, on, ch>>
    BY <1>9 DEF Scroll, Keep
  <2>2. /\ todo = S5
        /\ todo' = ((IF MayScrollDown(on, con[on].start)
                     THEN <<"load_start", "advance">> ELSE <<>>) \o scroll) \o L0
    BY <1>1, <1>9, WhereAt DEF Scroll, Then
  <2>. QED
    BY <2>1, <2>2, LeadsTo, Zenon
<1>10. ASSUME Advance
       PROVE  /\ UNCHANGED <<vmem, val, on, ch>>
              /\ con' = [con EXCEPT ![on].start = NextLine(val)]
              /\ todo = A1 /\ todo' = S4
  BY <1>1, <1>10, WhereAt DEF Advance, Then, Keep
<1>. QED
  BY <1>2, <1>3, <1>4, <1>5, <1>6, <1>7, <1>8, <1>9, <1>10

\* A cursor that has wrapped around is below every window.
LEMMA LostIsBelow ==
  ASSUME IInv, NEW c \in Consoles, con[c].cursor = Word - 1
  PROVE  BelowWindow(con[c])
<1>1. /\ End(c) \in Nat /\ End(c) + SCREEN_SIZE < Word /\ Word \in Nat
      /\ SCREEN_WIDTH \in Nat /\ SCREEN_SIZE \in Nat /\ SCREEN_SIZE >= 2 * SCREEN_WIDTH
  BY Sizes
<1>2. con[c] \in CONSOLE /\ Near(c, con[c].start - SCREEN_WIDTH)
  BY DEF IInv, Typed, Windows
<1>3. PICK start \in Nat : start = con[c].start
  BY <1>1, <1>2 DEF CONSOLE
<1>. QED
  BY <1>1, <1>2, <1>3 DEF Near, BelowWindow

LEMMA SpillStep ==
  ASSUME IInv, Spill, Step
  PROVE  Spill'
<1>1. PICK number : Numbered(number)
  BY Apart
<1>2. /\ on \in Consoles /\ con \in [Consoles -> CONSOLE] /\ val \in 0 .. Word - 1
      /\ \A c \in Consoles : con[c].cursor \in 0 .. Word - 1
  BY DEF IInv, Typed, CONSOLE
<1>3. ASSUME todo \notin Scrolling \cup {B1}
      PROVE  \A c \in Consoles : Around(c, con[c].cursor)
  BY <1>3 DEF Spill, Lost
<1>4. ASSUME UNCHANGED <<con, on>>, todo \in Scrolling \cup {B1} => todo' \in Scrolling \cup {B1}
      PROVE  \A c \in Consoles : Around(c, con'[c].cursor) \/ Lost(c)'
  BY <1>4 DEF Spill, Lost
<1>5. /\ original_addr(on) \in Nat /\ End(on) \in Nat
      /\ SCREEN_WIDTH \in Nat /\ SCREEN_WIDTH > 0
  BY <1>2, Sizes
<1>6. CASE Load
  <2>1. todo \in Scrolling \cup {B1} => todo' \in Scrolling \cup {B1}
    BY <1>1, <1>6, Course DEF Numbered, Scrolling
  <2>2. \A c \in Consoles : Around(c, con'[c].cursor) \/ Lost(c)'
    BY <1>4, <1>6, <2>1, Course
  <2>3. todo \in {M2, B3} => Around(on, con[on].cursor)
    <3>1. todo \in {M2, B3} => todo \notin Scrolling \cup {B1}
      BY <1>1 DEF Numbered, Scrolling
    <3>. QED
      BY <1>2, <1>3, <3>1
  <2>. QED
    BY <1>1, <1>6, <2>2, <2>3, Course DEF Spill, Numbered
<1>7. CASE SetCrtc
  <2>1. todo \in Scrolling \cup {B1} => todo' \in Scrolling \cup {B1}
    BY <1>1, <1>7, Course DEF Numbered, Scrolling
  <2>2. \A c \in Consoles : Around(c, con'[c].cursor) \/ Lost(c)'
    BY <1>4, <1>7, <2>1, Course
  <2>. QED
    BY <1>1, <1>7, <2>2, Course DEF Spill, Numbered
<1>8. CASE Entry
  <2>1. todo \notin Scrolling \cup {B1}
    BY <1>1, <1>8, Course DEF Numbered, Scrolling
  <2>2. (\A c \in Consoles : Around(c, con'[c].cursor)) /\ Around(on, vmem')
    BY <1>2, <1>3, <1>8, <2>1, Course
  <2>3. todo' = G0 /\ on' = on
    BY <1>8, Course
  <2>. QED
    BY <1>1, <2>2, <2>3 DEF Spill, Numbered
<1>9. CASE Guard
  <2>1. todo \notin Scrolling \cup {B1}
    BY <1>1, <1>9, Course DEF Numbered, Scrolling
  <2>2. \A c \in Consoles : Around(c, con'[c].cursor)
    BY <1>3, <1>9, <2>1, Course
  <2>3. Around(on, vmem)
    BY <1>9, Course DEF Spill
  <2>4. CASE todo' = L0
    BY <1>1, <2>2, <2>4 DEF Spill, Numbered
  <2>5. CASE HasRoom(on, con[on].cursor, ch) /\ ch # BS /\ (todo' = M2 \/ todo' = M3)
    <3>1. con[on].cursor =< End(on) - 1
      BY <1>2, <1>5, <2>5 DEF HasRoom
    <3>. QED
      BY <1>1, <1>9, <2>2, <2>3, <2>5, <3>1, Course DEF Spill, Numbered
  <2>6. CASE HasRoom(on, con[on].cursor, ch) /\ ch = BS /\ todo' = B3
    <3>1. con[on].cursor >= original_addr(on)
      BY <1>2, <1>5, <2>6 DEF HasRoom, NL, BS
    <3>. QED
      BY <1>1, <1>9, <2>2, <2>3, <2>6, <3>1, Course DEF Spill, Numbered
  <2>7. NL # BS
    BY DEF NL, BS
  <2>. QED
    BY <1>9, <2>4, <2>5, <2>6, <2>7, Course
<1>10. CASE Move
  <2>1. todo \notin Scrolling \cup {B1}
    BY <1>1, <1>10, Course DEF Numbered, Scrolling
  <2>2. \A c \in Consoles \ {on} : con'[c] = con[c]
    BY <1>2, <1>10, Course
  <2>3. con'[on].cursor = Moved(on, val, ch)
    BY <1>2, <1>10, Course DEF CONSOLE
  <2>4. CASE todo = M1 /\ todo' = L0
    <3>1. Around(on, val) /\ val =< End(on) - 1 /\ ch # BS
      BY <2>4 DEF Spill
    <3>2. Around(on, con'[on].cursor)
      BY <1>2, <2>3, <3>1, MovedAround
    <3>3. \A c \in Consoles : Around(c, con'[c].cursor)
      BY <1>3, <2>1, <2>2, <3>2
    <3>. QED
      BY <1>1, <2>4, <3>3 DEF Spill, Numbered
  <2>5. CASE todo = B2 /\ todo' = B1
    <3>1. Around(on, val) /\ val >= original_addr(on) /\ ch = BS /\ Around(on, vmem)
      BY <2>5 DEF Spill
    <3>2. Around(on, con'[on].cursor) \/ (on = 0 /\ con'[on].cursor = Word - 1)
      BY <1>2, <2>3, <3>1, MovedAround
    <3>3. Around(on, con'[on].cursor) \/ Lost(on)'
      BY <1>10, <2>5, <3>2, Course DEF Lost
    <3>4. \A c \in Consoles : Around(c, con'[c].cursor) \/ Lost(c)'
      <4>1. ASSUME NEW c \in Consoles PROVE Around(c, con'[c].cursor) \/ Lost(c)'
        <5>1. CASE c = on
          <6>1. on' = on
            BY <1>10, Course
          <6>. QED
            BY <3>3, <5>1, <6>1 DEF Lost
        <5>2. CASE c # on
          BY <1>3, <2>1, <2>2, <5>2
        <5>. QED
          BY <5>1, <5>2
      <4>. QED
        BY <4>1
    <3>5. UNCHANGED <<on, vmem>> /\ todo' = B1
      BY <1>10, <2>5, Course
    <3>. QED
      BY <1>1, <3>1, <3>4, <3>5 DEF Spill, Numbered
  <2>. QED
    BY <1>10, <2>4, <2>5, Course
<1>11. CASE WriteCell
  <2>1. todo \in Scrolling \cup {B1} => todo' \in Scrolling \cup {B1}
    BY <1>1, <1>11, Course DEF Numbered, Scrolling
  <2>2. \A c \in Consoles : Around(c, con'[c].cursor) \/ Lost(c)'
    BY <1>4, <1>11, <2>1, Course
  <2>. QED
    BY <1>1, <1>11, <2>2, Course DEF Spill, Numbered
<1>12. CASE Loop
  <2>1. todo = L0 /\ L0 \in Scrolling /\ S5 \in Scrolling
    BY <1>12, Course DEF Scrolling
  <2>2. \A c \in Consoles : Around(c, con'[c].cursor) \/ Lost(c)'
    <3>1. CASE todo' = S5
      BY <1>4, <1>12, <2>1, <3>1, Course
    <3>2. CASE ~BelowWindow(con[on])
      BY <1>2, <1>12, <3>2, LostIsBelow, Course DEF Spill, Lost
    <3>. QED
      BY <1>12, <3>1, <3>2, Course
  <2>. QED
    BY <1>1, <1>12, <2>2, Course DEF Spill, Numbered
<1>13. CASE Scroll
  <2>1. todo' \in Scrolling
    BY <1>13, Course DEF Scrolling
  <2>2. \A c \in Consoles : Around(c, con'[c].cursor) \/ Lost(c)'
    BY <1>4, <1>13, <2>1, Course
  <2>. QED
    BY <1>1, <1>13, <2>2, Course DEF Spill, Numbered
<1>14. CASE Advance
  <2>1. \A c \in Consoles : con'[c].cursor = con[c].cursor
    BY <1>2, <1>14, Course DEF CONSOLE
  <2>2. todo' \in Scrolling
    BY <1>14, Course DEF Scrolling
  <2>3. \A c \in Consoles : Around(c, con'[c].cursor) \/ Lost(c)'
    BY <1>14, <2>1, <2>2, Course DEF Spill, Lost
  <2>. QED
    BY <1>1, <1>14, <2>3, Course DEF Spill, Numbered
<1>. QED
  BY <1>6, <1>7, <1>8, <1>9, <1>10, <1>11, <1>12, <1>13, <1>14 DEF Step

LEMMA SpillPrint ==
  ASSUME IInv, Spill, NEW p \in Printers, NEW s \in Texts, sys_printx(p, s)
  PROVE  Spill'
<1>0. PICK c \in Consoles : c = nr_tty[p]
  BY TtyAssumption
<1>1. UNCHANGED <<todo, on, ch, vmem, val>>
  BY DEF sys_printx, task
<1>2. CASE UNCHANGED con
  BY <1>1, <1>2 DEF Spill, Lost
<1>3. CASE ~UNCHANGED con
  <2>0. con \in [Consoles -> CONSOLE] /\ on \in Consoles
    BY DEF IInv, Typed
  <2>1. ~Hangs(c, con[c], s) /\ ~Silent(s)
    BY <1>0, <1>3 DEF sys_printx
  <2>2. con' = [con EXCEPT ![c] = Output(c, con[c], s)]
    BY <1>0, <2>1 DEF sys_printx
  <2>3. con'[c] = Output(c, con[c], s) /\ \A d \in Consoles \ {c} : con'[d] = con[d]
    BY <2>0, <2>2
  <2>4. Sound(c, con[c]) /\ Len(s) \in Nat
    BY <2>0, TtyAssumption DEF IInv, Windows, Sound
  <2>5. Kept(c, con[c], con'[c])
    BY <2>1, <2>3, <2>4, TextAround
  <2>6. Around(c, con[c].cursor)
    BY <2>1, <2>4, LostForGood DEF Spill, Lost
  <2>7. ASSUME NEW d \in Consoles PROVE Around(d, con'[d].cursor) \/ Lost(d)'
    <3>1. CASE d = c
      BY <2>5, <2>6, <3>1 DEF Kept
    <3>2. CASE d # c
      BY <1>1, <2>3, <3>2 DEF Spill, Lost
    <3>. QED
      BY <3>1, <3>2
  <2>8. /\ con[on].cursor =< End(on) - 1 => con'[on].cursor =< End(on) - 1
        /\ con[on].cursor >= original_addr(on) => con'[on].cursor >= original_addr(on)
    BY <2>0, <2>3, <2>5, <2>6 DEF Kept
  <2>. QED
    BY <1>1, <2>7, <2>8 DEF Spill
<1>. QED
  BY <1>2, <1>3

LEMMA SpillNext ==
  ASSUME IInv, Spill, [Next]_vars
  PROVE  Spill'
<1>1. CASE Step
  BY <1>1, SpillStep
<1>2. CASE tty_do_read \/ tty_do_write
  <2>1. PICK number : Numbered(number)
    BY Apart
  <2>2. todo = <<>> /\ UNCHANGED con
    BY <1>2 DEF tty_do_read, tty_do_write, Turn
  <2>3. todo' \in {<<>>, F4, E0}
    BY <1>2, <2>2, LeadsTo DEF tty_do_read, tty_do_write, in_process, select_console
  <2>4. \A c \in Consoles : Around(c, con'[c].cursor)
    BY <2>1, <2>2 DEF Spill, Lost, Numbered, Scrolling
  <2>. QED
    BY <2>1, <2>3, <2>4 DEF Spill, Numbered
<1>3. CASE \E p \in Printers, s \in Texts : sys_printx(p, s)
  BY <1>3, SpillPrint
<1>4. CASE (\E p \in Printers, s \in Texts : Halt(p, s)) \/ UNCHANGED vars
  <2>1. UNCHANGED <<con, todo, on, ch, vmem, val>>
    BY <1>4 DEF Halt, vars, task
  <2>. QED
    BY <2>1 DEF Spill, Lost
<1>. QED
  BY <1>1, <1>2, <1>3, <1>4 DEF Next, task_tty, SomebodyPrints

-----------------------------------------------------------------------------
(* The theorems                                                            *)

\* The inductive invariant: what out_char has left always leads to what the
\* kernel's own call would leave, calm consoles are in their memory, and the
\* CRTC has been told (tty.c, console.c).
THEOREM Inductive == Spec => []IInv
<1>1. Init => IInv
  BY IInvInit
<1>2. IInv /\ [Next]_vars => IInv'
  BY IInvNext
<1>. QED
  BY <1>1, <1>2, PTL DEF Spec

\* The consoles' cursors and windows stay unsigned words, and the call of
\* task_tty is always one of the points of out_char.
THEOREM TypeCorrect == Spec => []TypeOK
<1>1. IInv => TypeOK
  <2>. SUFFICES ASSUME IInv PROVE TypeOK
    OBVIOUS
  <2>1. todo \in Seq(Ops)
    BY PointsAreOps DEF IInv, Typed
  <2>. QED
    BY <2>1 DEF IInv, Typed, TypeOK
<1>. QED
  BY <1>1, Inductive, PTL

\* The cursor of a console nobody raced for stays in its memory, and so does
\* every character task_tty writes there (console.c:67-93).
THEOREM SpillsOnlyRaced == Spec => []OnlyRacesSpill
<1>1. IInv => OnlyRacesSpill
  <2>. SUFFICES ASSUME IInv, NEW c \in Consoles, Calm(c)
                PROVE  /\ con[c].cursor \in original_addr(c) .. End(c) - 1
                       /\ Busy(c) /\ Head(todo) = "cell"
                            => Cell(vmem, ch) \in original_addr(c) .. End(c) - 1
    BY DEF OnlyRacesSpill
  <2>1. con[c].cursor \in original_addr(c) .. End(c) - 1
    BY DEF IInv, Memory, InMemory, Calm
  <2>2. ASSUME Busy(c), Head(todo) = "cell"
        PROVE  Cell(vmem, ch) \in original_addr(c) .. End(c) - 1
    <3>1. (todo = M3 \/ todo = B1) /\ on = c /\ Leads(todo, c, con[c], ch, val, vmem, expect)
      <4>1. todo \in Points /\ todo # <<>> /\ on = c
        BY <2>2 DEF IInv, Typed, Busy
      <4>. QED
        BY <2>2, <4>1, WhereAt DEF IInv, Working
    <3>2. CASE todo = M3
      <4>1. ch # BS /\ vmem = con[c].cursor
        BY <3>1, <3>2, LeadsAt
      <4>. QED
        BY <2>1, <4>1 DEF Cell
    <3>3. CASE todo = B1
      BY <3>1, <3>3, LeadsAt
    <3>. QED
      BY <3>1, <3>2, <3>3
  <2>. QED
    BY <2>1, <2>2
<1>. QED
  BY <1>1, Inductive, PTL

\* Races spill little: whatever is printed to a console while task_tty is at work on
\* it, its cursor stays within a line of its memory, one word below it at most, but
\* for the wrap around below the first console; so do the cells that are written,
\* and the window (console.c:67-98, 129-147).
THEOREM SpillIsLittle == Spec => []RacesSpillLittle
<1>1. Init => Spill
  <2>. SUFFICES ASSUME Init PROVE Spill
    OBVIOUS
  <2>1. IInv /\ todo = <<>> /\ raced = {}
    BY IInvInit DEF Init
  <2>2. \A c \in Consoles : con[c].cursor \in original_addr(c) .. End(c) - 1
    BY <2>1 DEF IInv, Memory, InMemory
  <2>3. \A c \in Consoles : Around(c, con[c].cursor)
    BY <2>2, Sizes DEF Around
  <2>4. PICK number : Numbered(number)
    BY Apart
  <2>. QED
    BY <2>1, <2>3, <2>4 DEF Spill, Numbered
<1>2. IInv /\ Spill /\ [Next]_vars => Spill'
  BY SpillNext
<1>3. IInv /\ Spill => RacesSpillLittle
  <2>. SUFFICES ASSUME IInv, Spill, NEW c \in Consoles
                PROVE  /\ \/ con[c].cursor \in original_addr(c) - 1 .. End(c) + SCREEN_WIDTH - 1
                          \/ c = 0 /\ con[c].cursor = Word - 1
                       /\ (Busy(c) /\ Head(todo) = "cell"
                             => Cell(vmem, ch) \in original_addr(c) - 2 .. End(c) + SCREEN_WIDTH - 1)
                       /\ con[c].start >= original_addr(c)
                       /\ con[c].start + SCREEN_SIZE < End(c) + 2 * SCREEN_WIDTH
    BY DEF RacesSpillLittle
  <2>1. /\ original_addr(c) \in Nat /\ End(c) \in Nat /\ Word \in Nat
        /\ SCREEN_WIDTH \in Nat /\ SCREEN_SIZE \in Nat
    BY Sizes
  <2>2. \/ con[c].cursor \in original_addr(c) - 1 .. End(c) + SCREEN_WIDTH - 1
        \/ c = 0 /\ con[c].cursor = Word - 1
    BY DEF Spill, Around, Lost
  <2>3. ASSUME Busy(c), Head(todo) = "cell"
        PROVE  Cell(vmem, ch) \in original_addr(c) - 2 .. End(c) + SCREEN_WIDTH - 1
    <3>1. todo = M3 \/ todo = B1
      BY <2>3, WhereAt DEF IInv, Typed, Busy
    <3>2. Around(c, vmem)
      BY <2>3, <3>1 DEF Spill, Busy
    <3>. QED
      BY <2>1, <3>2 DEF Around, Cell
  <2>4. con[c].start >= original_addr(c) /\ Near(c, con[c].start - SCREEN_WIDTH)
    BY DEF IInv, Windows, AtLine
  <2>5. con[c].start \in Nat
    BY <2>1 DEF IInv, Typed, CONSOLE
  <2>. QED
    BY <2>1, <2>2, <2>3, <2>4, <2>5 DEF Near
<1>. QED
  BY <1>1, <1>2, <1>3, Inductive, PTL DEF Spec

\* The window of such a console starts at one of its lines and ends less than a
\* line behind its memory (console.c:129-147).
THEOREM WindowStaysInside == Spec => []WindowInside
<1>1. IInv => WindowInside
  BY DEF IInv, Windows, Memory, InMemory, AtLine, Near, WindowInside, Calm
<1>. QED
  BY <1>1, Inductive, PTL

\* Between two characters its cursor is not below its window (console.c:94-96).
THEOREM CursorVisible == Spec => []CursorNotBelow
<1>1. IInv => CursorNotBelow
  <2>. SUFFICES ASSUME IInv, NEW c \in Consoles, Calm(c), ~Busy(c)
                PROVE  con[c].cursor < con[c].start + SCREEN_SIZE
    BY DEF CursorNotBelow
  <2>1. ~BelowWindow(con[c])
    BY DEF IInv, Memory, Calm, Busy
  <2>2. con[c] \in CONSOLE
    BY DEF IInv, Typed
  <2>3. con[c].cursor \in Nat /\ con[c].start \in Nat /\ SCREEN_SIZE \in Nat
    BY <2>2, Sizes DEF CONSOLE
  <2>. QED
    BY <2>1, <2>3 DEF BelowWindow
<1>. QED
  BY <1>1, Inductive, PTL

\* out_char of task_tty, preempted between any two of its loads and stores, has
\* the effect of one call that nothing interrupts, unless the console was raced
\* for (console.c:67-99).
THEOREM OutCharAtomic == Spec => []OnlyRacesShow
<1>1. IInv => OnlyRacesShow
  <2>. SUFFICES ASSUME IInv, todo = flush, Calm(on) PROVE con[on] = expect
    BY DEF OnlyRacesShow
  <2>1. todo = F4 /\ todo # <<>>
    BY LeadsTo, PointsKnown DEF Point
  <2>2. Leads(F4, on, con[on], ch, val, vmem, expect)
    BY <2>1 DEF IInv, Working
  <2>. QED
    BY <2>2, LeadsAt
<1>. QED
  BY <1>1, Inductive, PTL

\* When task_tty is idle, each part of the CRTC shows the console it was last set
\* for as that is now, hidden or not, unless it was raced for (console.c:101-117).
THEOREM ScreenFresh == Spec => []ScreenIsFresh
<1>1. IInv => ScreenIsFresh
  BY DEF IInv, Shown, ScreenIsFresh
<1>. QED
  BY <1>1, Inductive, PTL

\* An echo or a switch of consoles ends with the window of the current console on
\* the screen, whatever was printed to hidden ones before it or in the middle of it
\* (console.c:101-117).
THEOREM WindowBack == Spec => WindowComesBack
<1>1. IInv /\ [Next]_vars
        => [todo # <<>> /\ todo' = <<>> /\ Calm(on)
              => crtc'.start = con'[nr_current_console'].start]_vars
  <2>. SUFFICES ASSUME IInv, Next, todo # <<>>, todo' = <<>>, Calm(on)
                PROVE  crtc'.start = con'[nr_current_console'].start
    OBVIOUS
  <2>1. Leads(todo, on, con[on], ch, val, vmem, expect) /\ IsCurrent(on)
    BY DEF IInv, Working, Keys
  <2>2. Step
    BY DEF Next, task_tty, tty_do_read, tty_do_write, Turn, SomebodyPrints, Halt, sys_printx, task
  <2>3. todo \in Points
    BY DEF IInv, Typed
  <2>4. PICK next \in Seq(Ops) : todo' = next \o Tail(todo)
    <3>0. /\ "load_cursor" \in Ops /\ "set_cursor" \in Ops /\ "load_start" \in Ops
          /\ "set_start" \in Ops /\ "move" \in Ops /\ "cell" \in Ops /\ "loop" \in Ops
          /\ "scroll" \in Ops /\ "advance" \in Ops /\ <<>> \in Seq(Ops)
      BY DEF Ops
    <3>1. scroll \in Seq(Ops) /\ Effect \in Seq(Ops)
      <4>1. \/ Effect = <<"load_cursor", "move">>
            \/ Effect = <<"load_cursor", "move", "cell">>
            \/ Effect = <<"cell", "load_cursor", "move">>
        BY DEF Effect, NL, BS
      <4>2. <<"load_cursor", "move", "cell">> \in Seq(Ops)
        BY <3>0
      <4>3. <<"cell", "load_cursor", "move">> \in Seq(Ops)
        BY <3>0
      <4>4. <<"load_cursor", "move">> \in Seq(Ops)
        BY <3>0
      <4>5. scroll \in Seq(Ops)
        BY <3>0 DEF scroll
      <4>. QED
        BY <4>1, <4>2, <4>3, <4>4, <4>5
    <3>2. CASE Load \/ SetCrtc \/ Entry \/ Move \/ WriteCell \/ Advance
      BY <3>0, <3>2 DEF Load, SetCrtc, Entry, Move, WriteCell, Advance, Then
    <3>3. CASE Guard
      BY <3>0, <3>1, <3>3 DEF Guard, Then
    <3>4. CASE Loop
      <4>1. <<"scroll", "loop">> \in Seq(Ops)
        BY <3>0
      <4>. QED
        BY <3>0, <3>4, <4>1 DEF Loop, Then
    <3>5. CASE Scroll
      <4>1. PICK t \in Seq(Ops) : todo' = (t \o scroll) \o Tail(todo)
        <5>1. <<"load_start", "advance">> \in Seq(Ops)
          BY <3>0
        <5>. QED
          BY <3>0, <3>5, <5>1 DEF Scroll, Then
      <4>2. t \o scroll \in Seq(Ops)
        BY <3>1, ConcatProperties
      <4>. QED
        BY <4>1, <4>2
    <3>. QED
      BY <2>2, <3>2, <3>3, <3>4, <3>5 DEF Step
  <2>5. todo = F1
    <3>1. todo \in Seq(Ops)
      BY <2>3, PointsAreOps
    <3>2. Len(todo) = 1
      <4>1. Tail(todo) \in Seq(Ops) /\ Len(Tail(todo)) = Len(todo) - 1
        BY <3>1, HeadTailProperties
      <4>2. Len(next \o Tail(todo)) = Len(next) + Len(Tail(todo)) /\ Len(next) \in Nat
        BY <2>4, <4>1, ConcatProperties
      <4>3. Len(todo') = 0
        OBVIOUS
      <4>. QED
        BY <2>4, <3>1, <4>1, <4>2, <4>3
    <3>3. \/ todo \in Flushing \cup {L0, B1, G0, E0}
          \/ todo \in Scrolling
          \/ todo \in Moving
      BY <2>3 DEF Points
    <3>4. /\ Len(F2) = 2 /\ Len(F3) = 3 /\ Len(F4) = 4 /\ Len(L0) = 5
          /\ Len(B1) = 6 /\ Len(G0) = 6 /\ Len(E0) = 7
          /\ Len(S1) = 6 /\ Len(S2) = 7 /\ Len(S3) = 8 /\ Len(S4) = 9 /\ Len(S5) = 6
          /\ Len(A1) = 10 /\ Len(A2) = 11
          /\ Len(M1) = 6 /\ Len(M2) = 7 /\ Len(M3) = 8 /\ Len(B2) = 7 /\ Len(B3) = 8
      BY PointsKnown, Zenon DEF Point
    <3>5. /\ Len(F2) # 1 /\ Len(F3) # 1 /\ Len(F4) # 1 /\ Len(L0) # 1
          /\ Len(B1) # 1 /\ Len(G0) # 1 /\ Len(E0) # 1
          /\ Len(S1) # 1 /\ Len(S2) # 1 /\ Len(S3) # 1 /\ Len(S4) # 1 /\ Len(S5) # 1
          /\ Len(A1) # 1 /\ Len(A2) # 1
          /\ Len(M1) # 1 /\ Len(M2) # 1 /\ Len(M3) # 1 /\ Len(B2) # 1 /\ Len(B3) # 1
      BY <3>4
    <3>. QED
      BY <3>2, <3>3, <3>5, Zenon DEF Flushing, Scrolling, Moving
  <2>6. Head(todo) = "set_start"
    BY <2>5, PointsKnown DEF Point
  <2>7. crtc' = [crtc EXCEPT !.start = val] /\ UNCHANGED <<con, nr_current_console>>
    BY <2>2, <2>6 DEF Step, Load, SetCrtc, Entry, Guard, Move, WriteCell, Loop, Scroll, Advance,
                      Then, Keep
  <2>8. val = con[on].start
    BY <2>1, <2>5, LeadsAt
  <2>9. crtc \in CONSOLE
    BY DEF IInv, Typed
  <2>. QED
    BY <2>1, <2>7, <2>8, <2>9 DEF CONSOLE, IsCurrent
<1>. QED
  BY <1>1, Inductive, PTL DEF Spec, WindowComesBack

\* A character is echoed on the console that is shown (tty.c:33-37, 118-141).
THEOREM EchoSeen == Spec => []EchoIsSeen
<1>1. IInv => EchoIsSeen
  BY DEF IInv, Keys, EchoIsSeen
<1>. QED
  BY <1>1, Inductive, PTL

\* No terminal holds more than the one key it is about to echo, so that put_key
\* never finds a buffer full (tty.c:103-112).
THEOREM NoKeyWaits == Spec => []NoBacklog
<1>1. IInv => NoBacklog
  <2>. SUFFICES ASSUME IInv, NEW t \in Consoles
                PROVE  Len(in_buf[t]) =< IF at = "write" /\ t = p_tty THEN 1 ELSE 0
    BY DEF NoBacklog
  <2>1. CASE in_buf[t] = <<>>
    <3>1. Len(in_buf[t]) = 0
      BY <2>1, EmptySeq
    <3>. QED
      BY <3>1
  <2>2. CASE in_buf[t] # <<>>
    <3>1. at = "write" /\ t = p_tty /\ Len(in_buf[t]) = 1
      BY <2>2 DEF IInv, Keys
    <3>. QED
      BY <3>1
  <2>. QED
    BY <2>1, <2>2
<1>. QED
  BY <1>1, Inductive, PTL
=============================================================================
