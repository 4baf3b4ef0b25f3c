------------------------------- MODULE MCTty --------------------------------
(***************************************************************************)
(* A small instance of the terminals for TLC: two consoles, each of a few  *)
(* lines and, as in the code, not of a whole number of them.               *)
(***************************************************************************)
EXTENDS Tty

\* main.c:77-78: process 1 prints to terminal 1, process 2 to terminal 0.
Terminal == 1 :> 1 @@ 2 :> 0
Said     == {<<"x">>, <<NL>>, <<BS>>, <<MAG_CH_ASSERT, "x">>, <<MAG_CH_ASSERT>>}
Typed    == {<<"char", "x">>, <<"ENTER">>, <<"BACKSPACE">>, <<"UP">>,
             <<"F", 1>>, <<"F", 2>>, <<"F", 3>>}

\* What is still going to be read: not the local variables of a call that is past
\* them; nor parts of the CRTC that are set before anyone looks, and what a call
\* should leave, once the console they are of was raced for; and nothing at all when
\* the machine has stopped, which leaves everything as it was.
Left(ops) == \E i \in 1 .. Len(todo) : todo[i] \in ops
If(b, v)  == IF b THEN <<v>> ELSE <<>>
Live ==
  If(~halted,
    <<con, nr_current_console, in_buf, p_tty, at, todo, raced,
      If(todo # <<>>, on), If(Left({"guard", "move", "cell"}), ch),
      If(Left({"guard", "cell"}), vmem),
      If(todo # <<>> /\ Head(todo) \in {"set_cursor", "set_start", "move", "advance"}, val),
      If(Len(todo) >= Len(flush) /\ Calm(on), expect),
      If(~Left({"set_cursor"}), If(Calm(set_for.cursor), <<crtc.cursor, set_for.cursor>>)),
      If(~Left({"set_start"}), If(Calm(set_for.start), <<crtc.start, set_for.start>>))>>)
=============================================================================
