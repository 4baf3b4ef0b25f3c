----------------------------- MODULE KbBufProofs -----------------------------
(***************************************************************************)
(* The keyboard ring is a bounded queue, for every size of the ring and    *)
(* every set of scan codes.                                                *)
(*                                                                         *)
(* HoldsUnread says nothing while task_tty is half way through its         *)
(* init_keyboard.  IInv fills the gap: once count is cleared no code is in *)
(* the ring until p_head is reset, and p_tail is back at the start before  *)
(* p_head is.  That is where a quiet start is used: the handler does not   *)
(* strike between the three stores.                                        *)
(***************************************************************************)
EXTENDS KbBuf, SequenceTheorems, TLAPS

-----------------------------------------------------------------------------
(* The arithmetic of the ring.                                             *)

\* A position at most a whole ring after a slot is that slot, or the one a
\* ring before it: the pointer wraps once.
LEMMA Wrap ==
  ASSUME NEW a \in Slot, NEW i \in 0 .. KB_IN_BYTES
  PROVE  (a + i) % KB_IN_BYTES
           = IF a + i < KB_IN_BYTES THEN a + i ELSE a + i - KB_IN_BYTES
BY SizeAssumption DEF Slot

\* The next pointer stays inside the buffer.
LEMMA SuccSlot == ASSUME NEW a \in Slot PROVE Succ(a) \in Slot
BY SizeAssumption DEF Slot, Succ

\* The slots of one turn of the ring are all different: the one to be written
\* is none of those that hold unread codes.
LEMMA Distinct ==
  ASSUME NEW a \in Slot, NEW i \in 0 .. KB_IN_BYTES - 1,
         NEW j \in 0 .. KB_IN_BYTES - 1, i # j
  PROVE  (a + i) % KB_IN_BYTES # (a + j) % KB_IN_BYTES
<1>1. i \in 0 .. KB_IN_BYTES /\ j \in 0 .. KB_IN_BYTES
  BY SizeAssumption
<1>2. (a + i) % KB_IN_BYTES
        = IF a + i < KB_IN_BYTES THEN a + i ELSE a + i - KB_IN_BYTES
  BY <1>1, Wrap
<1>3. (a + j) % KB_IN_BYTES
        = IF a + j < KB_IN_BYTES THEN a + j ELSE a + j - KB_IN_BYTES
  BY <1>1, Wrap
<1>. QED
  BY <1>2, <1>3, SizeAssumption DEF Slot

\* Moving the first slot on by one and counting one less comes to the same.
LEMMA Shift ==
  ASSUME NEW a \in Slot, NEW i \in 0 .. KB_IN_BYTES - 1
  PROVE  (Succ(a) + i) % KB_IN_BYTES = (a + (i + 1)) % KB_IN_BYTES
<1>1. Succ(a) = IF a + 1 < KB_IN_BYTES THEN a + 1 ELSE a + 1 - KB_IN_BYTES
  BY Wrap, SizeAssumption DEF Succ
<1>2. Succ(a) \in Slot /\ i \in 0 .. KB_IN_BYTES /\ i + 1 \in 0 .. KB_IN_BYTES
  BY SuccSlot, SizeAssumption
<1>3. (Succ(a) + i) % KB_IN_BYTES
        = IF Succ(a) + i < KB_IN_BYTES THEN Succ(a) + i ELSE Succ(a) + i - KB_IN_BYTES
  BY <1>2, Wrap
<1>4. (a + (i + 1)) % KB_IN_BYTES
        = IF a + (i + 1) < KB_IN_BYTES THEN a + (i + 1) ELSE a + (i + 1) - KB_IN_BYTES
  BY <1>2, Wrap
<1>. QED
  BY <1>1, <1>3, <1>4, SizeAssumption DEF Slot

-----------------------------------------------------------------------------
(* Types and the count, quiet or not.                                      *)

Counted == count = Len(unread)
CInv == TypeOK /\ Counted

LEMMA CInvInit == Init => CInv
BY SizeAssumption DEF Init, CInv, TypeOK, Counted, Slot

LEMMA CInvNext == CInv /\ [Next]_vars => CInv'
<1>. SUFFICES ASSUME CInv, [Next]_vars PROVE CInv'
  OBVIOUS
<1>. USE DEF CInv, TypeOK, Counted
<1>1. ASSUME NEW code \in ScanCode, keyboard_handler(code) PROVE CInv'
  <2>1. CASE ~Room
    BY <1>1, <2>1 DEF keyboard_handler, vars
  <2>2. CASE Room
    <3>1. unread' \in Seq(ScanCode) /\ Len(unread') = Len(unread) + 1
      BY <1>1, <2>2, AppendProperties DEF keyboard_handler
    <3>2. p_head' \in Slot
      BY <1>1, <2>2, SuccSlot DEF keyboard_handler
    <3>. QED
      BY <1>1, <2>2, <3>1, <3>2, SizeAssumption DEF keyboard_handler, Room
  <2>. QED
    BY <2>1, <2>2
<1>2. CASE get_byte_from_kbuf
  <2>1. unread # <<>>
    BY <1>2, EmptySeq DEF get_byte_from_kbuf
  <2>2. unread' \in Seq(ScanCode) /\ Len(unread') = Len(unread) - 1
    BY <1>2, <2>1, HeadTailProperties DEF get_byte_from_kbuf
  <2>. QED
    BY <1>2, <2>2, SuccSlot, SizeAssumption DEF get_byte_from_kbuf
<1>3. CASE ClearCount
  BY <1>3, EmptySeq, SizeAssumption DEF ClearCount
<1>4. CASE ResetTail
  BY <1>4, SizeAssumption DEF ResetTail, Slot
<1>5. CASE ResetHead
  BY <1>5, SizeAssumption DEF ResetHead, Slot
<1>6. CASE UNCHANGED vars
  BY <1>6 DEF vars
<1>. QED
  BY <1>1, <1>2, <1>3, <1>4, <1>5, <1>6 DEF Next, Reader

\* The ring's fields keep their types whatever the interrupt does, also when
\* it strikes inside init_keyboard (keyboard.c:207-214, 431-438): the pointers
\* stay inside the buffer and no more codes are counted than it has room for.
THEOREM TypeCorrect == Spec => []TypeOK
<1>1. CInv => TypeOK
  BY DEF CInv
<1>. QED
  BY CInvInit, CInvNext, <1>1, PTL DEF Spec

-----------------------------------------------------------------------------
(* The ring holds the unread codes, when the start is quiet.               *)

Clearing ==
  /\ pc \in {"tail", "head"} => count = 0
  /\ pc = "head" => p_tail = 0
IInv == CInv /\ Clearing /\ HoldsUnread

LEMMA IInvInit == Init => IInv
<1>1. Init => Clearing /\ HoldsUnread
  BY SizeAssumption DEF Init, Clearing, HoldsUnread
<1>. QED
  BY <1>1, CInvInit DEF IInv

\* A code that is put in goes behind the unread ones and overwrites none.
LEMMA PutHolds ==
  ASSUME IInv, CInv', QuietStart, NEW code \in ScanCode,
         keyboard_handler(code), Room
  PROVE  HoldsUnread'
<1>. USE DEF IInv, CInv, TypeOK, Counted, HoldsUnread
<1>1. /\ buf' = [buf EXCEPT ![p_head] = code]
      /\ p_head' = Succ(p_head) /\ count' = count + 1
      /\ unread' = Append(unread, code) /\ p_tail' = p_tail /\ pc' = pc
      /\ count < KB_IN_BYTES
  BY DEF keyboard_handler, Room
<1>2. /\ \A i \in 1 .. count : buf[(p_tail + i - 1) % KB_IN_BYTES] = unread[i]
      /\ p_head = (p_tail + count) % KB_IN_BYTES
  BY DEF QuietStart
<1>3. p_head' = (p_tail + (count + 1)) % KB_IN_BYTES
  <2>1. count \in 0 .. KB_IN_BYTES /\ count + 1 \in 0 .. KB_IN_BYTES
    BY <1>1, SizeAssumption
  <2>2. p_head = IF p_tail + count < KB_IN_BYTES
                   THEN p_tail + count ELSE p_tail + count - KB_IN_BYTES
    BY <1>2, <2>1, Wrap
  <2>3. (p_tail + (count + 1)) % KB_IN_BYTES
          = IF p_tail + (count + 1) < KB_IN_BYTES
              THEN p_tail + (count + 1) ELSE p_tail + (count + 1) - KB_IN_BYTES
    BY <2>1, Wrap
  <2>4. Succ(p_head)
          = IF p_head + 1 < KB_IN_BYTES THEN p_head + 1 ELSE p_head + 1 - KB_IN_BYTES
    BY Wrap, SizeAssumption DEF Succ
  <2>. QED
    BY <1>1, <2>2, <2>3, <2>4, SizeAssumption DEF Slot
<1>4. ASSUME NEW i \in 1 .. count
      PROVE  buf'[(p_tail + i - 1) % KB_IN_BYTES] = unread'[i]
  <2>1. p_tail + i - 1 = p_tail + (i - 1) /\ i - 1 \in 0 .. KB_IN_BYTES - 1
        /\ count \in 0 .. KB_IN_BYTES - 1 /\ i - 1 # count
    BY <1>1, SizeAssumption DEF Slot
  <2>2. (p_tail + i - 1) % KB_IN_BYTES # p_head
    BY <1>2, <2>1, Distinct
  <2>3. buf'[(p_tail + i - 1) % KB_IN_BYTES] = buf[(p_tail + i - 1) % KB_IN_BYTES]
    <3>1. (p_tail + i - 1) % KB_IN_BYTES \in Slot
      BY SizeAssumption DEF Slot
    <3>. QED
      BY <1>1, <2>2, <3>1
  <2>4. unread'[i] = unread[i]
    BY <1>1, AppendProperties
  <2>. QED
    BY <1>2, <2>3, <2>4
<1>5. buf'[(p_tail + (count + 1) - 1) % KB_IN_BYTES] = unread'[count + 1]
  <2>1. p_tail + (count + 1) - 1 = p_tail + count
    BY SizeAssumption DEF Slot
  <2>2. unread'[count + 1] = code
    BY <1>1, AppendProperties
  <2>. QED
    BY <1>1, <1>2, <2>1, <2>2
<1>. QED
  BY <1>1, <1>3, <1>4, <1>5

\* The code that is taken out is the oldest, and the others move up.
LEMMA TakeHolds ==
  ASSUME IInv, CInv', get_byte_from_kbuf
  PROVE  HoldsUnread'
<1>. USE DEF IInv, CInv, TypeOK, Counted, HoldsUnread
<1>1. /\ p_tail' = Succ(p_tail) /\ count' = count - 1 /\ unread' = Tail(unread)
      /\ buf' = buf /\ p_head' = p_head /\ pc' = pc /\ pc = "poll" /\ count > 0
  BY DEF get_byte_from_kbuf
<1>2. /\ \A i \in 1 .. count : buf[(p_tail + i - 1) % KB_IN_BYTES] = unread[i]
      /\ p_head = (p_tail + count) % KB_IN_BYTES
  BY <1>1
<1>3. unread # <<>>
  BY <1>1, EmptySeq
<1>4. p_head' = (p_tail' + count') % KB_IN_BYTES
  <2>1. count - 1 \in 0 .. KB_IN_BYTES - 1 /\ (count - 1) + 1 = count
    BY <1>1, SizeAssumption
  <2>. QED
    BY <1>1, <1>2, <2>1, Shift
<1>5. ASSUME NEW i \in 1 .. count'
      PROVE  buf'[(p_tail' + i - 1) % KB_IN_BYTES] = unread'[i]
  <2>1. /\ i - 1 \in 0 .. KB_IN_BYTES - 1 /\ i + 1 \in 1 .. count
        /\ p_tail + ((i - 1) + 1) = p_tail + (i + 1) - 1
        /\ Succ(p_tail) + (i - 1) = Succ(p_tail) + i - 1
    BY <1>1, SizeAssumption, SuccSlot DEF Slot
  <2>2. (Succ(p_tail) + i - 1) % KB_IN_BYTES = (p_tail + (i + 1) - 1) % KB_IN_BYTES
    BY <2>1, Shift
  <2>3. Tail(unread)[i] = unread[i + 1]
    BY <1>1, <1>3, HeadTailProperties
  <2>. QED
    BY <1>1, <1>2, <2>1, <2>2, <2>3
<1>. QED
  BY <1>1, <1>4, <1>5

LEMMA IInvNext == IInv /\ [QuietNext]_vars => IInv'
<1>. SUFFICES ASSUME IInv, [QuietNext]_vars PROVE IInv'
  OBVIOUS
<1>0. CInv'
  <2>1. [Next]_vars
    BY DEF QuietNext, Next
  <2>. QED
    BY <2>1, CInvNext DEF IInv
<1>1. ASSUME QuietStart, NEW code \in ScanCode, keyboard_handler(code)
      PROVE  IInv'
  <2>1. CASE ~Room
    BY <1>1, <2>1 DEF keyboard_handler, vars, IInv, CInv, TypeOK, Counted,
                      Clearing, HoldsUnread
  <2>2. CASE Room
    <3>1. HoldsUnread'
      BY <1>0, <1>1, <2>2, PutHolds
    <3>2. Clearing'
      BY <1>1, <2>2 DEF keyboard_handler, QuietStart, Clearing
    <3>. QED
      BY <1>0, <3>1, <3>2 DEF IInv
  <2>. QED
    BY <2>1, <2>2
<1>2. CASE get_byte_from_kbuf
  <2>1. HoldsUnread'
    BY <1>0, <1>2, TakeHolds
  <2>2. Clearing'
    BY <1>2 DEF get_byte_from_kbuf, Clearing
  <2>. QED
    BY <1>0, <2>1, <2>2 DEF IInv
<1>3. CASE ClearCount
  BY <1>0, <1>3 DEF ClearCount, IInv, Clearing, HoldsUnread
<1>4. CASE ResetTail
  BY <1>0, <1>4 DEF ResetTail, IInv, Clearing, HoldsUnread
<1>5. CASE ResetHead
  <2>1. /\ p_head' = 0 /\ p_tail' = 0 /\ count' = 0 /\ unread' = unread
        /\ pc' = "poll"
    BY <1>5 DEF ResetHead, IInv, Clearing
  <2>2. 0 % KB_IN_BYTES = 0
    BY SizeAssumption
  <2>. QED
    BY <1>0, <2>1, <2>2 DEF IInv, CInv, Counted, Clearing, HoldsUnread
<1>6. CASE UNCHANGED vars
  BY <1>0, <1>6 DEF vars, IInv, Clearing, HoldsUnread
<1>. QED
  BY <1>1, <1>2, <1>3, <1>4, <1>5, <1>6 DEF QuietNext, Reader

\* With a quiet start the ring is the queue of the unread codes: from p_tail
\* on they lie in the order they came, across the end of the buffer, none
\* missing and none twice, and p_head is where the next one goes
\* (keyboard.c:207-214, 431-438).
THEOREM RingIsQueue == QuietSpec => [](TypeOK /\ HoldsUnread)
<1>1. IInv => TypeOK /\ HoldsUnread
  BY DEF IInv, CInv
<1>. QED
  BY IInvInit, IInvNext, <1>1, PTL DEF QuietSpec

\* With a quiet start what get_byte_from_kbuf reads is the oldest unread code
\* (keyboard.c:425): the race in init_keyboard is the only thing that breaks
\* what its comment says.
THEOREM QuietReadsNext == QuietSpec => []ReadsNextByte
<1>1. IInv => ReadsNextByte
  <2>. SUFFICES ASSUME IInv, pc = "poll", count > 0
                PROVE  unread # <<>> /\ buf[p_tail] = Head(unread)
    BY DEF ReadsNextByte
  <2>. USE DEF IInv, CInv, TypeOK, Counted
  <2>1. unread # <<>> /\ Head(unread) = unread[1]
    BY EmptySeq, HeadTailProperties
  <2>2. 1 \in 1 .. count /\ (p_tail + 1 - 1) % KB_IN_BYTES = p_tail
    BY SizeAssumption DEF Slot
  <2>. QED
    BY <2>1, <2>2 DEF HoldsUnread
<1>. QED
  BY IInvInit, IInvNext, <1>1, PTL DEF QuietSpec
=============================================================================
