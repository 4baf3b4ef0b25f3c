------------------------------ MODULE Keyboard ------------------------------
(***************************************************************************)
(* The keyboard driver (kernel/keyboard.c): from the codes the keyboard    *)
(* sends to the keys in_process is called with, and the lights.            *)
(*                                                                         *)
(* kb_in is a bounded queue here; that the ring of the code is one is      *)
(* shown in KbBuf.  Between two codes of one key keyboard_read waits with  *)
(* interrupts on: `got' is what it has taken so far.  Once it has the last *)
(* code it touches nothing another actor reads until it calls set_leds or  *)
(* in_process, so decoding is one step with taking that code.              *)
(*                                                                         *)
(* External: the keyboard, which sends what the appendix of keyboard.h     *)
(* says, key by key, and obeys the commands that set the lights; and the   *)
(* person at it.                                                           *)
(***************************************************************************)
EXTENDS Keymap, Integers, FiniteSets, SequencesExt

CONSTANTS
  KB_IN_BYTES,    \* size of kb_in (32 in the code)
  Keys,           \* the keys that are struck, members of DOMAIN Make
  MaxHeld,        \* bound: keys held down together
  MaxAhead        \* bound: codes on their way when another key is struck

ASSUME KeysAssumption   == Keys \subseteq DOMAIN Make
ASSUME BoundsAssumption == KB_IN_BYTES \in Nat /\ MaxAhead \in Nat

VARIABLES
  kb_in,          \* the ring
  got,            \* codes the current call of keyboard_read has taken
  mods,           \* the flags shift_l ... ctrl_r that are 1
  locks,          \* those of caps_lock, num_lock, scroll_lock that are 1
  pc,             \* "read", or where task_tty is in set_leds
  lock,           \* in set_leds: the lock key keyboard_read calls it for, or None
  wire, port, ibf,   \* codes sent; what the data port reads; the command
                     \* in the input buffer of the controller
  expects, leds,  \* in the keyboard: has it been told that a value comes; lights
  held, typed,    \* history: keys down; locks as the person toggled them
  owed, told      \* history: keys struck that in_process is still to be told;
                  \* what it was told last, with a bit that flips every time

driver == <<kb_in, got, mods, locks, pc, lock>>
device == <<wire, port, ibf, expects, leds>>
person == <<held, typed>>
vars   == <<driver, device, person, owed, told>>

KB_ACK    == \hFA
Modifiers == {"SHIFT_L", "SHIFT_R", "CTRL_L", "CTRL_R", "ALT_L", "ALT_R"}
Shifts    == {"SHIFT_L", "SHIFT_R"}
LockKeys  == {"CAPS_LOCK", "NUM_LOCK", "SCROLL_LOCK"}
Toggle(S, x) == IF x \in S THEN S \ {x} ELSE S \cup {x}

-----------------------------------------------------------------------------
(* The decoder *)

\* The codes keyboard_read recognises as a whole: Pause, and Print Screen
\* pressed and released.  It reads on while what it has may become one of them.
Long == {<<E1, \h1D, \h45, E1, \h9D, \hC5>>,
         <<E0, \h2A, E0, \h37>>, <<E0, \hB7, E0, \hAA>>}
WaitsForFour(s) == s[1] \in {E0, E1} /\ Len(s) < 4              \* mutant
Incomplete(s) == \E t \in Long : IsStrictPrefix(s, t)

code_with_E0(s) == s[1] = E0
scan_code(s)    == IF code_with_E0(s) THEN s[2] ELSE s[1]
make(s)         == scan_code(s) < 128
keyrow(s)       == keymap[scan_code(s) % 128]

CapsForAll(row) == (mods \cap Shifts # {}) # ("CAPS_LOCK" \in locks)   \* mutant
shifted == mods \cap Shifts # {}
caps(row) ==
  LET letter == row[1] \in {Plain(c) : c \in Letters}
  IN shifted # (letter /\ "CAPS_LOCK" \in locks)

\* The shift column wins over the column of E0.
column(s) == IF caps(keyrow(s)) THEN 2 ELSE IF code_with_E0(s) THEN 3 ELSE 1
key(s) == keyrow(s)[column(s)]

\* The flag a modifier key is kept in: both Alt keys share alt_l.
OneCtrl(name) == IF name = "CTRL_R" THEN "CTRL_L" ELSE name      \* mutant
FlagOf(name) == IF name = "ALT_R" THEN "ALT_L" ELSE name

\* The keypad: always a character, a digit if Num Lock is on, or a name.
PadAlways == [PAD_SLASH |-> Plain("/"), PAD_STAR |-> Shifted("8"),
              PAD_MINUS |-> Plain("-"), PAD_PLUS |-> Shifted("="), PAD_ENTER |-> Key("ENTER")]
PadDigit == [PAD_0 |-> "0", PAD_1 |-> "1", PAD_2 |-> "2", PAD_3 |-> "3", PAD_4 |-> "4",
             PAD_5 |-> "5", PAD_6 |-> "6", PAD_7 |-> "7", PAD_8 |-> "8", PAD_9 |-> "9",
             PAD_DOT |-> "."]
PadName == [PAD_7 |-> "HOME", PAD_1 |-> "END", PAD_9 |-> "PAGEUP", PAD_3 |-> "PAGEDOWN",
            PAD_0 |-> "INSERT", PAD_8 |-> "UP", PAD_2 |-> "DOWN", PAD_4 |-> "LEFT",
            PAD_6 |-> "RIGHT", PAD_DOT |-> "DELETE", PAD_5 |-> "PAD_5"]
OfPad(k) ==
  CASE k[1] \in DOMAIN PadAlways -> PadAlways[k[1]]
    [] k[1] \in DOMAIN PadDigit ->
         IF "NUM_LOCK" \in locks THEN Plain(PadDigit[k[1]]) ELSE Key(PadName[k[1]])
    [] OTHER -> k

-----------------------------------------------------------------------------
(* task_tty *)

Report(k, flags) ==
  /\ told' = [key |-> k, flags |-> flags, bit |-> 1 - told.bit]
  /\ owed' = IF owed = <<>> THEN <<>> ELSE Tail(owed)

\* keyboard_read takes a code.
codes == Append(got, Head(kb_in))
NextCode == pc = "read" /\ kb_in # <<>> /\ kb_in' = Tail(kb_in)

MoreToCome ==
  /\ NextCode
  /\ Incomplete(codes)
  /\ got' = codes
  /\ UNCHANGED <<mods, locks, pc, lock, device, person, owed, told>>

\* Print Screen and Pause, and any key that is let go, are not reported.
DecodeKey ==
  /\ NextCode
  /\ ~Incomplete(codes)
  /\ got' = <<>>
  /\ IF codes \in Long THEN UNCHANGED <<mods, owed, told>> ELSE
       LET k == key(codes) IN
         /\ ~(make(codes) /\ k[1] \in LockKeys)
         /\ mods' = IF k[1] \notin Modifiers THEN mods
                    ELSE IF make(codes) THEN mods \cup {FlagOf(k[1])}
                    ELSE mods \ {FlagOf(k[1])}
         /\ IF make(codes) THEN Report(OfPad(k), mods')
            ELSE UNCHANGED <<owed, told>>
  /\ UNCHANGED <<locks, pc, lock, device, person>>

\* A lock key: set_leds comes first, then the report.
DecodeLock ==
  /\ NextCode
  /\ ~Incomplete(codes) /\ codes \notin Long
  /\ got' = <<>>
  /\ LET k == key(codes) IN
       /\ make(codes) /\ k[1] \in LockKeys
       /\ locks' = Toggle(locks, k[1])
       /\ lock' = k
  /\ pc' = "code"
  /\ UNCHANGED <<mods, device, person, owed, told>>

NoWait  == TRUE                                                  \* mutant
\* kb_wait: the controller has handed on the last command.
kb_wait == ibf = <<>>
\* kb_ack compares with !KB_ACK, which is 0: it ends with the first byte that
\* is not 0, which need not be the answer to this command.
kb_ack  == port # 0

set_leds ==
  \/ /\ pc = "code" /\ kb_wait
     /\ ibf' = <<"LED_CODE">> /\ pc' = "ack"
     /\ UNCHANGED <<lock, owed, told>>
  \/ /\ pc = "ack" /\ kb_ack
     /\ pc' = "value"
     /\ UNCHANGED <<ibf, lock, owed, told>>
  \/ /\ pc = "value" /\ kb_wait
     /\ ibf' = <<"value", locks>> /\ pc' = "last_ack"
     /\ UNCHANGED <<lock, owed, told>>
  \/ /\ pc = "last_ack" /\ kb_ack
     /\ pc' = "read" /\ lock' = None
     /\ IF lock = None THEN UNCHANGED <<owed, told>> ELSE Report(lock, mods)
     /\ UNCHANGED ibf

SetLeds ==
  /\ set_leds
  /\ UNCHANGED <<kb_in, got, mods, locks, wire, port, expects, leds, person>>

task_tty == MoreToCome \/ DecodeKey \/ DecodeLock \/ SetLeds

-----------------------------------------------------------------------------
\* The interrupt: a code is sent, and lost if the ring is full.
NoRing == kb_in = <<>>                                           \* mutant
Room   == Len(kb_in) < KB_IN_BYTES
keyboard_handler ==
  /\ wire # <<>>
  /\ port' = Head(wire) /\ wire' = Tail(wire)
  /\ kb_in' = IF Room THEN Append(kb_in, Head(wire)) ELSE kb_in
  /\ UNCHANGED <<got, mods, locks, pc, lock, ibf, expects, leds, person, owed, told>>

\* External: the keyboard takes a command and acknowledges it.
Obey ==
  /\ ibf # <<>>
  /\ ibf' = <<>>
  /\ wire' = Append(wire, KB_ACK)
  /\ IF expects /\ Len(ibf) = 2 THEN leds' = ibf[2] /\ expects' = FALSE
     ELSE UNCHANGED leds /\ expects' = (ibf = <<"LED_CODE">>)
  /\ UNCHANGED <<driver, port, person, owed, told>>

\* External: what the person means by a key, as it is engraved.
OneSign == {"space"}
Signs   == Letters \cup
           {"0", "1", "2", "3", "4", "5", "6", "7", "8", "9", "grave", "-", "=",
            "backslash", "[", "]", "semicolon", "quote", "comma", ".", "/"}
Meaning(k, down, on) ==
  LET shift == down \cap Shifts # {} IN
  CASE k \in DOMAIN Keypad -> Keypad[k][IF shift \/ "NUM_LOCK" \in on THEN 1 ELSE 2]
    [] k \in OneSign -> Plain(k)
    [] k \in Signs -> IF shift # (k \in Letters /\ "CAPS_LOCK" \in on)
                      THEN Shifted(k) ELSE Plain(k)
    [] OTHER -> Key(k)

InFlight == Len(wire) + Len(kb_in) + Len(got)

\* External: a key goes down, or repeats while it is down.
Strike(k) ==
  /\ InFlight =< MaxAhead
  /\ wire' = wire \o Make[k]
  /\ held' = IF Break[k] = <<>> THEN held ELSE held \cup {k}
  /\ Cardinality(held') =< MaxHeld
  /\ typed' = IF k \in LockKeys THEN Toggle(typed, k) ELSE typed
  /\ owed' = IF Make[k] \in Long THEN owed
             ELSE Append(owed, [key |-> Meaning(k, held', typed'),
                                flags |-> held' \cap Modifiers])
  /\ UNCHANGED <<driver, port, ibf, expects, leds, told>>

Release(k) ==
  /\ InFlight =< MaxAhead
  /\ k \in held
  /\ wire' = wire \o Break[k]
  /\ held' = held \ {k}
  /\ UNCHANGED <<driver, port, ibf, expects, leds, typed, owed, told>>

\* task_tty is in the set_leds of init_keyboard; the acknowledgements of
\* kernel_main's call may still be on their way.  No key is down.
Init ==
  /\ kb_in = <<>> /\ got = <<>> /\ mods = {} /\ locks = {"NUM_LOCK"}
  /\ pc = "code" /\ lock = None
  /\ wire \in {<<>>, <<KB_ACK>>} /\ port \in {0, KB_ACK}
  /\ ibf = <<>> /\ expects = FALSE /\ leds \in {{}, {"NUM_LOCK"}}
  /\ held = {} /\ typed = {"NUM_LOCK"}
  /\ owed = <<>> /\ told = [key |-> None, flags |-> {}, bit |-> 0]

System == task_tty \/ keyboard_handler \/ Obey
Next == System \/ \E k \in Keys : Strike(k) \/ Release(k)
Spec == Init /\ [][Next]_vars

\* Two things the driver gets wrong, and a person may avoid: Shift together
\* with a key whose code starts with E0, and the right Alt key.
E0Keys == {k \in DOMAIN Make : Make[k][1] = E0 /\ Make[k] \notin Long}
Avoided(k) ==
  \/ k = "ALT_R"
  \/ k \in E0Keys /\ held \cap Shifts # {}
  \/ k \in Shifts /\ held \cap E0Keys # {}
CarefulNext == System \/ \E k \in Keys : Release(k) \/ (~Avoided(k) /\ Strike(k))
CarefulSpec == Init /\ [][CarefulNext]_vars
               /\ WF_vars(task_tty) /\ WF_vars(keyboard_handler) /\ WF_vars(Obey)

\* What decides the future; told is only compared with the step that set it.
Future == <<driver, device, person, owed>>

-----------------------------------------------------------------------------
(* Properties *)

TypeOK ==
  /\ kb_in \in Seq(0 .. 255) /\ Len(kb_in) =< KB_IN_BYTES
  /\ wire \in Seq(0 .. 255) /\ port \in 0 .. 255
  /\ got = <<>> \/ Incomplete(got)
  /\ ibf \in {<<>>, <<"LED_CODE">>} \/ (Len(ibf) = 2 /\ expects)
  /\ mods \subseteq Modifiers /\ held \subseteq Keys
  /\ locks \subseteq LockKeys /\ leds \subseteq LockKeys /\ typed \subseteq LockKeys
  /\ pc \in {"code", "ack", "value", "last_ack", "read"}
  /\ \A i \in 1 .. Len(owed) : DOMAIN owed[i] = {"key", "flags"}

Quiet == wire = <<>> /\ kb_in = <<>> /\ got = <<>> /\ pc = "read"

\* Whenever every code has been decoded, a modifier's flag is 1 exactly if its
\* key is down, and the locks are what the person toggled (keyboard.c:149-157).
ModifiersFollowKeys == Quiet => mods = held \cap Modifiers /\ locks = typed

\* in_process is called for the keys that were struck, in the order they were
\* struck, each with the character or name engraved on it for the modifiers that
\* were down and the locks that were on at that moment, however far the decoder is
\* behind (keyboard.c:217-423 against keyboard.h:112-168).
ReportsWhatWasStruck ==
  [][told' # told => owed # <<>> /\ told'.key = Head(owed).key
                                 /\ told'.flags = Head(owed).flags]_vars

\* No key is forgotten: when every code has been decoded, all were reported.
NothingOwed == Quiet => owed = <<>>

\* The lights show the locks whenever task_tty is not about to change them and
\* the keyboard has taken the last command, although kb_ack does not wait for
\* acknowledgements and these come back as codes (keyboard.c:161-183).
LedsShowLocks == pc = "read" /\ ibf = <<>> => leds = locks

\* task_tty, which waits inside keyboard_read for the rest of a code, gets out
\* of it, so that the consoles are served (keyboard.c:429).
DecoderReturns == got # <<>> ~> got = <<>>

\* The third column of keymap is for the codes with E0 (heading at keyboard.c:14):
\* an arrow key is reported as that arrow, whatever the modifiers.  The driver
\* does not do this while Shift is down.
ThirdColumnIsE0 ==
  [][\A k \in {"UP", "DOWN"} :
       told' # told /\ owed # <<>> /\ Head(owed).key = Key(k) => told'.key = Key(k)]_vars

\* alt_l is the state of the left Alt key (comment at keyboard.c:151).  The driver
\* keeps both Alt keys there, so that the right one sets and clears it too.
AltStateIsOwn == Quiet => ("ALT_L" \in mods <=> "ALT_L" \in held)
=============================================================================
