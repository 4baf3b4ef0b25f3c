------------------------------- MODULE KbBuf -------------------------------
(***************************************************************************)
(* kb_in, the ring of scan codes between the keyboard interrupt, which     *)
(* puts codes in, and task_tty, which takes them out (kernel/keyboard.c).  *)
(*                                                                         *)
(* The handler runs to its end before task_tty goes on, and task_tty takes *)
(* a code with interrupts off, so each is one action.  init_keyboard runs  *)
(* twice: from kernel_main, with interrupts off, and from task_tty, when   *)
(* the first call has already opened the interrupt.  Its stores are        *)
(* actions of their own, between which the interrupt may strike.           *)
(***************************************************************************)
EXTENDS Naturals, Sequences

CONSTANTS
  KB_IN_BYTES,    \* size of the ring (32 in the code)
  ScanCode        \* the bytes the keyboard sends

ASSUME SizeAssumption == KB_IN_BYTES \in Nat \ {0}

Empty == "Empty"            \* a slot of the ring nothing was written to

VARIABLES
  buf, p_head, p_tail, count,   \* kb_in, the pointers as indices of buf
  pc,             \* where task_tty is: "count", "tail", "head" in
                  \* init_keyboard, "poll" afterwards
  unread          \* history: the codes that were put in since the ring was
                  \* cleared and not taken out yet

vars == <<buf, p_head, p_tail, count, pc, unread>>

Slot == 0 .. KB_IN_BYTES - 1
\* The pointer after i, back at the start of buf when it runs off its end.
PastEnd(i) == i + 1                                              \* mutant
Succ(i) == (i + 1) % KB_IN_BYTES

-----------------------------------------------------------------------------
\* keyboard_handler: a code that finds the ring full is dropped.
RoomForOneMore == count =< KB_IN_BYTES                           \* mutant
Room == count < KB_IN_BYTES

keyboard_handler(code) ==
  \/ /\ Room
     /\ buf' = [buf EXCEPT ![p_head] = code]
     /\ p_head' = Succ(p_head)
     /\ count' = count + 1
     /\ unread' = Append(unread, code)
     /\ UNCHANGED <<p_tail, pc>>
  \/ /\ ~Room
     /\ UNCHANGED vars

\* get_byte_from_kbuf, after its wait for count > 0 and with interrupts off.
get_byte_from_kbuf ==
  /\ pc = "poll" /\ count > 0
  /\ p_tail' = Succ(p_tail)
  /\ count' = count - 1
  /\ unread' = Tail(unread)
  /\ UNCHANGED <<buf, p_head, pc>>

\* init_keyboard in task_tty: lines 187 and 188, store by store.
ClearCount ==
  /\ pc = "count"
  /\ count' = 0 /\ unread' = <<>> /\ pc' = "tail"
  /\ UNCHANGED <<buf, p_head, p_tail>>
ResetTail ==
  /\ pc = "tail"
  /\ p_tail' = 0 /\ pc' = "head"
  /\ UNCHANGED <<buf, p_head, count, unread>>
ResetHead ==
  /\ pc = "head"
  /\ p_head' = 0 /\ pc' = "poll"
  /\ UNCHANGED <<buf, p_tail, count, unread>>

\* The state kernel_main's call of init_keyboard leaves.
Init ==
  /\ buf = [i \in Slot |-> Empty]
  /\ p_head = 0 /\ p_tail = 0 /\ count = 0
  /\ pc = "count"
  /\ unread = <<>>

Reader == ClearCount \/ ResetTail \/ ResetHead \/ get_byte_from_kbuf
Next == Reader \/ \E code \in ScanCode : keyboard_handler(code)
Spec == Init /\ [][Next]_vars

\* No key is struck while task_tty stores the fields.  Nothing in the code
\* sees to it: it is what the ring needs of its environment to work.
QuietStart == pc \in {"count", "poll"}
QuietNext ==
  \/ Reader
  \/ QuietStart /\ \E code \in ScanCode : keyboard_handler(code)
QuietSpec == Init /\ [][QuietNext]_vars

-----------------------------------------------------------------------------
TypeOK ==
  /\ buf \in [Slot -> ScanCode \cup {Empty}]
  /\ p_head \in Slot /\ p_tail \in Slot
  /\ count \in 0 .. KB_IN_BYTES
  /\ pc \in {"count", "tail", "head", "poll"}
  /\ unread \in Seq(ScanCode)

\* The ring is a bounded queue: read from p_tail on, it is the codes that came
\* in and were not read, all of them, in the order they came, across the end of
\* the buffer and when it is full (keyboard.c:207-214, 431-438).
HoldsUnread ==
  pc \in {"count", "poll"} =>
    /\ count = Len(unread)
    /\ \A i \in 1 .. count : buf[(p_tail + i - 1) % KB_IN_BYTES] = unread[i]
    /\ p_head = (p_tail + count) % KB_IN_BYTES

\* What the comment of get_byte_from_kbuf says it does: read the next byte of
\* the keyboard buffer (keyboard.c:425).
ReadsNextByte ==
  pc = "poll" /\ count > 0 => unread # <<>> /\ buf[p_tail] = Head(unread)
=============================================================================
