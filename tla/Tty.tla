-------------------------------- MODULE Tty ---------------------------------
(***************************************************************************)
(* The terminals (kernel/tty.c): task_tty reads keys, keeps them in the    *)
(* buffer of the terminal whose console is shown, and echoes them; other   *)
(* processes print through the system call sys_printx.                     *)
(*                                                                         *)
(* task_tty runs with interrupts on and may be preempted anywhere, so its  *)
(* way through out_char is modelled load by load and store by store: todo  *)
(* is what is left of the call.  sys_printx runs in the kernel, where no   *)
(* process is switched, and is one step; it prints whenever another process *)
(* runs.  Consoles do not lock anything.                                   *)
(***************************************************************************)
EXTENDS Console, Sequences, SequencesExt

CONSTANTS
  Printers,       \* the processes that print, as numbers of the process table
  NR_TASKS,       \* those below it are tasks
  nr_tty,         \* the terminal of each process
  Texts,          \* what they print: sequences of characters
  KeyEvents,      \* the keys keyboard_read hands to in_process
  TTY_IN_BYTES,   \* size of a terminal's buffer (256 in the code)
  disp_pos        \* bytes the kernel printed before task_tty started

\* Every process has a terminal, and the 19 lines that cstart and kernel_main
\* print fit on the screen.
ASSUME TtyAssumption ==
  /\ nr_tty \in [Printers -> Consoles]
  /\ Texts \subseteq Seq(STRING)
  /\ disp_pos \in Nat /\ disp_pos \div 2 < SCREEN_SIZE

VARIABLES
  con, crtc,      \* console_table; what the CRTC shows, in the same form
  nr_current_console,
  in_buf,         \* per terminal, the buffer of keys
  p_tty, at,      \* task_tty: the terminal, and "read" or "write" for the call
  todo, on, ch,   \* what is left of the call, on which console, with what
  vmem, val,      \* p_vmem, and the word loaded last
  halted,         \* sys_printx stopped the machine, or loops forever
  raced, set_for, \* history: consoles printed to while task_tty was at work on
                  \* them; the console each part of the CRTC was last set for
  expect          \* history: what the running out_char leaves if left alone

task   == <<p_tty, at, todo, on, ch, vmem, val>>
ghosts == <<raced, set_for, expect>>
vars   == <<con, crtc, nr_current_console, in_buf, task, halted, ghosts>>

MAG_CH_PANIC  == "panic"
MAG_CH_ASSERT == "assert"
IsCurrent(c)  == c = nr_current_console

-----------------------------------------------------------------------------
(* The steps of a call: set_cursor and set_video_start_addr get their        *)
(* argument before they turn interrupts off.                                 *)

StartOnly == <<"load_start", "set_start">>                       \* mutant
CursorOnly == <<"load_cursor", "set_cursor">>                    \* mutant
flush  == <<"load_cursor", "set_cursor", "load_start", "set_start">>
scroll == <<"load_start", "set_start", "load_cursor", "set_cursor">>

Then(op, next) ==
  /\ ~halted /\ todo # <<>> /\ Head(todo) = op
  /\ todo' = next \o Tail(todo)
Keep(v) == UNCHANGED <<nr_current_console, in_buf, p_tty, at, on, ch, halted,
                       raced, expect, v>>

Load ==
  \/ /\ Then("load_cursor", <<>>)
     /\ val' = con[on].cursor
     /\ Keep(<<con, crtc, vmem, set_for>>)
  \/ /\ Then("load_start", <<>>)
     /\ val' = con[on].start
     /\ Keep(<<con, crtc, vmem, set_for>>)

SetCrtc ==
  \/ /\ Then("set_cursor", <<>>)
     /\ crtc' = [crtc EXCEPT !.cursor = val]
     /\ set_for' = [set_for EXCEPT !.cursor = on]
     /\ Keep(<<con, vmem, val>>)
  \/ /\ Then("set_start", <<>>)
     /\ crtc' = [crtc EXCEPT !.start = val]
     /\ set_for' = [set_for EXCEPT !.start = on]
     /\ Keep(<<con, vmem, val>>)

\* out_char
Entry ==
  /\ Then("entry", <<>>)
  /\ vmem' = con[on].cursor
  /\ Keep(<<con, crtc, val, set_for>>)

Effect == CASE ch = NL -> <<"load_cursor", "move">>
            [] ch = BS -> <<"load_cursor", "move", "cell">>
            [] OTHER   -> <<"cell", "load_cursor", "move">>
Guard ==
  /\ Then("guard", IF HasRoom(on, con[on].cursor, ch) THEN Effect ELSE <<>>)
  /\ Keep(<<con, crtc, vmem, val, set_for>>)
Move ==
  /\ Then("move", <<>>)
  /\ con' = [con EXCEPT ![on].cursor = Moved(on, val, ch)]
  /\ Keep(<<crtc, vmem, val, set_for>>)
WriteCell ==
  /\ Then("cell", <<>>)
  /\ Keep(<<con, crtc, vmem, val, set_for>>)

\* Its loop, with scroll_screen(p_con, SCR_DN)
Loop ==
  /\ Then("loop", IF BelowWindow(con[on]) THEN <<"scroll", "loop">> ELSE <<>>)
  /\ Keep(<<con, crtc, vmem, val, set_for>>)
Scroll ==
  /\ Then("scroll", (IF MayScrollDown(on, con[on].start)
                     THEN <<"load_start", "advance">> ELSE <<>>) \o scroll)
  /\ Keep(<<con, crtc, vmem, val, set_for>>)
Advance ==
  /\ Then("advance", <<>>)
  /\ con' = [con EXCEPT ![on].start = NextLine(val)]
  /\ Keep(<<crtc, vmem, val, set_for>>)

Step == Load \/ SetCrtc \/ Entry \/ Guard \/ Move \/ WriteCell \/ Loop \/ Scroll \/ Advance

-----------------------------------------------------------------------------
(* The loop of task_tty *)

Turn(where) == ~halted /\ todo = <<>> /\ at = where

\* put_key: a key that finds the buffer full is dropped.
put_key(t, k) ==
  in_buf' = IF Len(in_buf[t]) < TTY_IN_BYTES
            THEN [in_buf EXCEPT ![t] = Append(@, k)] ELSE in_buf

\* The CRTC shows the old console until the call is over.
select_console(c) ==
  IF c \in Consoles
  THEN /\ nr_current_console' = c
       /\ on' = c /\ todo' = flush /\ expect' = con[c]
  ELSE UNCHANGED <<nr_current_console, on, todo, expect>>

\* in_process.  A key is <<"char", c>>, <<"F", n>> for F1 and up, or <<name>>.
\* The arrows do nothing: with Shift they would scroll, but then the decoder
\* delivers them as digits (module Keyboard).
in_process(t, key) ==
  IF key[1] = "F" THEN select_console(key[2] - 1) /\ UNCHANGED in_buf
  ELSE /\ CASE key[1] = "char"      -> put_key(t, key[2])
             [] key[1] = "ENTER"     -> put_key(t, NL)
             [] key[1] = "BACKSPACE" -> put_key(t, BS)
             [] OTHER                -> UNCHANGED in_buf
       /\ UNCHANGED <<nr_current_console, on, todo, expect>>

\* tty_do_read: the terminal that is shown takes a key, if there is one.
AnyTerminal(t) == TRUE                                           \* mutant
MayRead(t)     == IsCurrent(t)
tty_do_read ==
  /\ Turn("read")
  /\ at' = "write"
  /\ \/ UNCHANGED <<nr_current_console, in_buf, on, todo, expect>>
     \/ /\ MayRead(p_tty)
        /\ \E key \in KeyEvents : in_process(p_tty, key)
  /\ UNCHANGED <<con, crtc, p_tty, ch, vmem, val, halted, raced, set_for>>

\* tty_do_write: echo one key, and go on to the next terminal.
NotTaken(t) == in_buf' = in_buf                                  \* mutant
Taken(t)    == in_buf' = [in_buf EXCEPT ![t] = Tail(@)]
PastLast(t) == t + 1                                             \* mutant
NextTty(t)  == (t + 1) % NR_CONSOLES
tty_do_write ==
  /\ Turn("write")
  /\ at' = "read" /\ p_tty' = NextTty(p_tty)
  /\ IF in_buf[p_tty] # <<>>
     THEN /\ ch' = Head(in_buf[p_tty]) /\ Taken(p_tty)
          /\ on' = p_tty /\ todo' = <<"entry", "guard", "loop">> \o flush
          /\ expect' = out_char(p_tty, con[p_tty], ch')
     ELSE UNCHANGED <<ch, in_buf, on, todo, expect>>
  /\ UNCHANGED <<con, crtc, nr_current_console, vmem, val, halted, raced, set_for>>

task_tty == Step \/ tty_do_read \/ tty_do_write

-----------------------------------------------------------------------------
(* sys_printx, called by p with the text s *)

Stops(p, s) ==
  s # <<>> /\ (Head(s) = MAG_CH_PANIC \/ (Head(s) = MAG_CH_ASSERT /\ p < NR_TASKS))
IsMagic(x)  == x \in {MAG_CH_PANIC, MAG_CH_ASSERT}
\* The console after each character of s; the loop skips a magic one.
Printed(c, k, s) ==
  LET after[i \in 0 .. Len(s)] ==
        IF i = 0 THEN k
        ELSE IF IsMagic(s[i]) THEN after[i - 1] ELSE out_char(c, after[i - 1], s[i])
  IN after
Output(c, k, s) == Printed(c, k, s)[Len(s)]
Silent(s) == \A i \in 1 .. Len(s) : IsMagic(s[i])
Hangs(c, k, s) ==
  \E i \in 1 .. Len(s) :
    ~IsMagic(s[i]) /\ ~LoopEnds(c, Placed(c, Printed(c, k, s)[i - 1], s[i]))

Halt(p, s) ==
  /\ ~halted /\ Stops(p, s)
  /\ halted' = TRUE
  /\ UNCHANGED <<con, crtc, nr_current_console, in_buf, task, ghosts>>

sys_printx(p, s) ==
  /\ ~halted /\ ~Stops(p, s)
  /\ LET c == nr_tty[p]
     IN IF Hangs(c, con[c], s)
        THEN halted' = TRUE /\ UNCHANGED <<con, crtc, raced, set_for>>
        ELSE IF Silent(s) THEN UNCHANGED <<con, crtc, raced, set_for, halted>>
        ELSE /\ con' = [con EXCEPT ![c] = Output(c, @, s)]
             /\ crtc' = con'[c]
             /\ set_for' = [cursor |-> c, start |-> c]
             /\ raced' = IF todo # <<>> /\ on = c THEN raced \cup {c} ELSE raced
             /\ UNCHANGED halted
  /\ UNCHANGED <<nr_current_console, in_buf, task, expect>>

\* task_tty has set up the terminals and selected the first.  Nothing makes the
\* others wait for that: what they print before is not modelled.
Init ==
  /\ con = [c \in Consoles |-> init_screen(c, disp_pos)]
  /\ crtc = con[0] /\ nr_current_console = 0
  /\ in_buf = [c \in Consoles |-> <<>>]
  /\ p_tty = 0 /\ at = "read" /\ todo = <<>> /\ on = 0 /\ ch = NL
  /\ vmem = 0 /\ val = 0
  /\ halted = FALSE
  /\ raced = {} /\ set_for = [cursor |-> 0, start |-> 0] /\ expect = con[0]

SomebodyPrints == \E p \in Printers, s \in Texts : Halt(p, s) \/ sys_printx(p, s)
Next == task_tty \/ SomebodyPrints
Spec == Init /\ [][Next]_vars
FairSpec == Spec /\ WF_vars(task_tty)

-----------------------------------------------------------------------------
(* Properties *)

Ops == {"load_cursor", "set_cursor", "load_start", "set_start", "entry", "guard",
        "move", "cell", "loop", "scroll", "advance"}
TypeOK ==
  /\ con \in [Consoles -> CONSOLE] /\ crtc \in CONSOLE
  /\ nr_current_console \in Consoles /\ p_tty \in Consoles /\ on \in Consoles
  /\ DOMAIN in_buf = Consoles /\ at \in {"read", "write"}
  /\ todo \in Seq(Ops)
  /\ vmem \in 0 .. Word - 1 /\ val \in 0 .. Word - 1
  /\ raced \subseteq Consoles /\ set_for \in [{"cursor", "start"} -> Consoles]

Calm(c) == c \notin raced
Busy(c) == todo # <<>> /\ on = c

\* The cursor of a console stays in its memory and a character is written there,
\* unless a process printed to it while task_tty was in the middle of a
\* character for it (console.c:67-93): only that race spills.
OnlyRacesSpill ==
  \A c \in Consoles : Calm(c) =>
    /\ con[c].cursor \in original_addr(c) .. End(c) - 1
    /\ (Busy(c) /\ Head(todo) = "cell"
          => Cell(vmem, ch) \in original_addr(c) .. End(c) - 1)

\* And that race spills little: the cursor goes one word below the console's memory
\* (below the first console's it wraps) or less than a line beyond it, what is
\* written goes a word further down, and the window a line further.
RacesSpillLittle ==
  \A c \in Consoles :
    /\ \/ con[c].cursor \in original_addr(c) - 1 .. End(c) + SCREEN_WIDTH - 1
       \/ c = 0 /\ con[c].cursor = Word - 1
    /\ (Busy(c) /\ Head(todo) = "cell"
          => Cell(vmem, ch) \in original_addr(c) - 2 .. End(c) + SCREEN_WIDTH - 1)
    /\ con[c].start >= original_addr(c)
    /\ con[c].start + SCREEN_SIZE < End(c) + 2 * SCREEN_WIDTH

\* The window starts at a line of the console and reaches less than a line
\* beyond its memory, with the same exception (console.c:129-147).
WindowInside ==
  \A c \in Consoles : Calm(c) =>
    /\ con[c].start >= original_addr(c)
    /\ (con[c].start - original_addr(c)) % SCREEN_WIDTH = 0
    /\ con[c].start + SCREEN_SIZE < End(c) + SCREEN_WIDTH

\* Between two characters the cursor is not below the window (console.c:94-96).
\* It may be above: nothing scrolls up when backspaces take it there.
CursorNotBelow == \A c \in Consoles : Calm(c) /\ ~Busy(c) =>
    con[c].cursor < con[c].start + SCREEN_SIZE

\* Preempted or not, out_char in task_tty has the effect it has in the kernel,
\* where nothing interrupts it, unless somebody prints to the same console.
OnlyRacesShow == todo = flush /\ Calm(on) => con[on] = expect

\* Each part of the CRTC shows the console it was last set for as that console is
\* now, be it the current one or a hidden one that somebody printed to, as flush
\* does not ask which (console.c:101-105): whatever moves a cursor or a window sets
\* the CRTC before task_tty is idle again.
ScreenIsFresh ==
  todo = <<>> =>
    \A part \in {"cursor", "start"} :
      LET c == set_for[part] IN Calm(c) => crtc[part] = con[c][part]

\* Whenever task_tty has echoed a key or changed consoles, the screen is back at
\* the window of the current console, though hidden ones were printed to before
\* and in the middle of it (console.c:101-117).
WindowComesBack ==
  [][todo # <<>> /\ todo' = <<>> /\ Calm(on)
       => crtc'.start = con'[nr_current_console'].start]_vars

\* What is typed is echoed on the console that is shown: a switch of consoles
\* never comes between a key and its echo (tty.c:33-37, 118-141).
EchoIsSeen == todo # <<>> => IsCurrent(on)

\* A key is echoed before the next is read, so that a buffer never holds more
\* than one and put_key never drops any (tty.c:103-112).
NoBacklog == \A t \in Consoles : Len(in_buf[t]) =< IF at = "write" /\ t = p_tty THEN 1 ELSE 0

\* task_tty gets out of out_char and its loop, unless a race has put the
\* cursor where the window cannot follow (console.c:94), or the machine stops.
OnlyRacesHang == todo # <<>> ~> (todo = <<>> \/ halted \/ ~Calm(on))
=============================================================================
