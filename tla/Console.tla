------------------------------ MODULE Console -------------------------------
(***************************************************************************)
(* The consoles (kernel/console.c): each has a part of the video memory, a *)
(* cursor in it, and a window of it that the screen shows.  A console is   *)
(* the record of the two fields that change; the operators say what the    *)
(* functions of the file do to it.  Addresses are counted in words.        *)
(***************************************************************************)
EXTENDS Integers

CONSTANTS
  NR_CONSOLES,                  \* 3 in the code
  V_MEM_SIZE,                   \* words of video memory, 16384
  SCREEN_WIDTH, SCREEN_SIZE,    \* 80, and 25 lines of it
  Word                          \* an unsigned int wraps around at it, 2^32

Consoles == 0 .. NR_CONSOLES - 1

con_v_mem_size   == V_MEM_SIZE \div NR_CONSOLES
original_addr(c) == c * con_v_mem_size
End(c)           == original_addr(c) + con_v_mem_size   \* + video_mem_limit

ASSUME ConsoleAssumption ==
  /\ NR_CONSOLES \in Nat \ {0} /\ SCREEN_WIDTH \in Nat \ {0}
  /\ SCREEN_SIZE \in Nat /\ V_MEM_SIZE \in Nat /\ Word \in Nat
  /\ SCREEN_SIZE % SCREEN_WIDTH = 0 /\ SCREEN_WIDTH < SCREEN_SIZE
  /\ SCREEN_SIZE < con_v_mem_size
  /\ V_MEM_SIZE + SCREEN_SIZE < Word

CONSOLE == [cursor : 0 .. Word - 1, start : 0 .. Word - 1]

\* What is written: two characters that move the cursor, and all the others.
NL == "NL"
BS == "BS"

\* out_char acts only if there is room for what the character does.
RoomForLine(c, cursor, ch) ==                                    \* mutant
  CASE ch = NL -> cursor < End(c)
    [] ch = BS -> cursor > original_addr(c)
    [] OTHER   -> cursor < End(c) - 1
HasRoom(c, cursor, ch) ==
  CASE ch = NL -> cursor < End(c) - SCREEN_WIDTH
    [] ch = BS -> cursor > original_addr(c)
    [] OTHER   -> cursor < End(c) - 1

LineAfter(c, cursor) ==
  original_addr(c)
    + SCREEN_WIDTH * (((cursor - original_addr(c)) % Word) \div SCREEN_WIDTH + 1)
Moved(c, cursor, ch) ==
  (CASE ch = NL -> LineAfter(c, cursor)
     [] ch = BS -> cursor - 1
     [] OTHER   -> cursor + 1) % Word

\* The word of video memory a character is written to, for the cursor at entry.
Cell(cursor, ch) == IF ch = BS THEN cursor - 1 ELSE cursor

\* scroll_screen(p_con, SCR_DN): a line down, within the memory of the console.
\* Scrolling up is left out: only Shift with an arrow key asks for it, and the
\* decoder does not deliver that (module Keyboard).
MayScrollDown(c, start) == start + SCREEN_SIZE < End(c)
NextPage(start) == start + SCREEN_SIZE                           \* mutant
NextLine(start) == start + SCREEN_WIDTH

\* The loop of out_char scrolls down till the window has the cursor in it.
OneTooFar(k) == k.cursor > k.start + SCREEN_SIZE                 \* mutant
BelowWindow(k) == k.cursor >= k.start + SCREEN_SIZE
\* It never ends if the cursor is behind the last line the window can reach.
LoopEnds(c, k) ==
  LET n == IF k.start + SCREEN_SIZE >= End(c) THEN 0
           ELSE (End(c) - k.start - SCREEN_SIZE - 1) \div SCREEN_WIDTH + 1
  IN k.cursor < k.start + n * SCREEN_WIDTH + SCREEN_SIZE
ScrolledTo(k) ==
  IF BelowWindow(k)
  THEN [k EXCEPT !.start =
          @ + SCREEN_WIDTH * ((k.cursor - @ - SCREEN_SIZE) \div SCREEN_WIDTH + 1)]
  ELSE k

\* out_char from its entry to its end, if nobody interferes and its loop ends.
Placed(c, k, ch) ==
  IF HasRoom(c, k.cursor, ch) THEN [k EXCEPT !.cursor = Moved(c, @, ch)] ELSE k
out_char(c, k, ch) == ScrolledTo(Placed(c, k, ch))

\* init_screen; every console but the first announces itself with two characters.
init_screen(c, disp_pos) ==
  IF c = 0 THEN [cursor |-> disp_pos \div 2, start |-> original_addr(c)]
  ELSE out_char(c, out_char(c, [cursor |-> original_addr(c),
                                start |-> original_addr(c)], "1"), "#")
=============================================================================
