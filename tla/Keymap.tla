------------------------------ MODULE Keymap -------------------------------
(***************************************************************************)
(* The two tables of the keyboard driver: what the keys send               *)
(* (include/keyboard.h, "Scan code set 1") and what the driver makes of it *)
(* (keymap in kernel/keyboard.c).  They were written independently; that   *)
(* they agree is a property of module Keyboard.                            *)
(*                                                                         *)
(* The value of a key is a pair: a character is the cap it is printed on   *)
(* and which of the two characters of that cap it is, so '1' is            *)
(* <<"1", "plain">> and '!' <<"1", "shifted">>; a key that is not a        *)
(* character (FLAG_EXT) has its name and "key".                            *)
(***************************************************************************)
EXTENDS Naturals, Sequences

Plain(cap)   == <<cap, "plain">>
Shifted(cap) == <<cap, "shifted">>
Key(name)    == <<name, "key">>
None         == Key("none")                  \* an entry that is 0

Letters == {"a", "b", "c", "d", "e", "f", "g", "h", "i", "j", "k", "l", "m",
            "n", "o", "p", "q", "r", "s", "t", "u", "v", "w", "x", "y", "z"}

-----------------------------------------------------------------------------
(* keymap: three columns for each code, without and with Shift, and after E0 *)

Chars(cap)  == <<Plain(cap), Shifted(cap), None>>
Both(name)  == <<Key(name), Key(name), None>>

\* The rows of characters, from the codes 02, 10, 1E and 2B on.
TopRow == <<"1", "2", "3", "4", "5", "6", "7", "8", "9", "0", "-", "=">>
QRow   == <<"q", "w", "e", "r", "t", "y", "u", "i", "o", "p", "[", "]">>
ARow   == <<"a", "s", "d", "f", "g", "h", "j", "k", "l", "semicolon", "quote",
            "grave">>
ZRow   == <<"backslash", "z", "x", "c", "v", "b", "n", "m", "comma", ".">>
FRow   == <<"F1", "F2", "F3", "F4", "F5", "F6", "F7", "F8", "F9", "F10">>

\* The keypad from 47 on: PAD_x, its character, and the key that sends E0.
\* The characters + - . are those of the caps = - and .
Pad == <<
  <<Key("PAD_7"), Plain("7"), Key("HOME")>>,
  <<Key("PAD_8"), Plain("8"), Key("UP")>>,
  <<Key("PAD_9"), Plain("9"), Key("PAGEUP")>>,
  <<Key("PAD_MINUS"), Plain("-"), None>>,
  <<Key("PAD_4"), Plain("4"), Key("LEFT")>>,
  <<Key("PAD_5"), Plain("5"), None>>,
  <<Key("PAD_6"), Plain("6"), Key("RIGHT")>>,
  <<Key("PAD_PLUS"), Shifted("="), None>>,
  <<Key("PAD_1"), Plain("1"), Key("END")>>,
  <<Key("PAD_2"), Plain("2"), Key("DOWN")>>,
  <<Key("PAD_3"), Plain("3"), Key("PAGEDOWN")>>,
  <<Key("PAD_0"), Plain("0"), Key("INSERT")>>,
  <<Key("PAD_DOT"), Plain("."), Key("DELETE")>> >>

Empty == <<None, None, None>>

Single(code) ==
  CASE code = \h01 -> Both("ESC")       [] code = \h0E -> Both("BACKSPACE")
    [] code = \h0F -> Both("TAB")
    [] code = \h1C -> <<Key("ENTER"), Key("ENTER"), Key("PAD_ENTER")>>
    [] code = \h1D -> <<Key("CTRL_L"), Key("CTRL_L"), Key("CTRL_R")>>
    [] code = \h2A -> Both("SHIFT_L")
    [] code = \h35 -> <<Plain("/"), Shifted("/"), Key("PAD_SLASH")>>
    [] code = \h36 -> Both("SHIFT_R")
    [] code = \h37 -> <<Shifted("8"), Shifted("8"), None>>
    [] code = \h38 -> <<Key("ALT_L"), Key("ALT_L"), Key("ALT_R")>>
    [] code = \h39 -> <<Plain("space"), Plain("space"), None>>
    [] code = \h3A -> Both("CAPS_LOCK") [] code = \h45 -> Both("NUM_LOCK")
    [] code = \h46 -> Both("SCROLL_LOCK")
    [] code = \h57 -> Both("F11")       [] code = \h58 -> Both("F12")
    [] code = \h5B -> <<None, None, Key("GUI_L")>>
    [] code = \h5C -> <<None, None, Key("GUI_R")>>
    [] code = \h5D -> <<None, None, Key("APPS")>>
    [] OTHER -> Empty

keymap ==
  [code \in 0 .. 127 |->
     CASE code \in \h02 .. \h0D -> Chars(TopRow[code - \h01])
       [] code \in \h10 .. \h1B -> Chars(QRow[code - \h0F])
       [] code \in \h1E .. \h29 -> Chars(ARow[code - \h1D])
       [] code \in \h2B .. \h34 -> Chars(ZRow[code - \h2A])
       [] code \in \h3B .. \h44 -> Both(FRow[code - \h3A])
       [] code \in \h47 .. \h53 -> Pad[code - \h46]
       [] OTHER -> Single(code)]

-----------------------------------------------------------------------------
(* What the keys send *)

E0 == \hE0
E1 == \hE1

LetterCodes == {
  <<"a", \h1E>>, <<"b", \h30>>, <<"c", \h2E>>, <<"d", \h20>>, <<"e", \h12>>, <<"f", \h21>>,
  <<"g", \h22>>, <<"h", \h23>>, <<"i", \h17>>, <<"j", \h24>>, <<"k", \h25>>, <<"l", \h26>>,
  <<"m", \h32>>, <<"n", \h31>>, <<"o", \h18>>, <<"p", \h19>>, <<"q", \h10>>, <<"r", \h13>>,
  <<"s", \h1F>>, <<"t", \h14>>, <<"u", \h16>>, <<"v", \h2F>>, <<"w", \h11>>, <<"x", \h2D>>,
  <<"y", \h15>>, <<"z", \h2C>>}
SignCodes == {
  <<"0", \h0B>>, <<"1", \h02>>, <<"2", \h03>>, <<"3", \h04>>, <<"4", \h05>>, <<"5", \h06>>,
  <<"6", \h07>>, <<"7", \h08>>, <<"8", \h09>>, <<"9", \h0A>>, <<"grave", \h29>>,
  <<"-", \h0C>>, <<"=", \h0D>>, <<"backslash", \h2B>>, <<"[", \h1A>>, <<"]", \h1B>>,
  <<"semicolon", \h27>>, <<"quote", \h28>>, <<"comma", \h33>>, <<".", \h34>>, <<"/", \h35>>,
  <<"space", \h39>>}
NameCodes == {
  <<"BACKSPACE", \h0E>>, <<"TAB", \h0F>>, <<"CAPS_LOCK", \h3A>>, <<"SHIFT_L", \h2A>>,
  <<"CTRL_L", \h1D>>, <<"ALT_L", \h38>>, <<"SHIFT_R", \h36>>, <<"ENTER", \h1C>>,
  <<"ESC", \h01>>, <<"F1", \h3B>>, <<"F2", \h3C>>, <<"F3", \h3D>>, <<"F4", \h3E>>,
  <<"F5", \h3F>>, <<"F6", \h40>>, <<"F7", \h41>>, <<"F8", \h42>>, <<"F9", \h43>>,
  <<"F10", \h44>>, <<"F11", \h57>>, <<"F12", \h58>>, <<"SCROLL_LOCK", \h46>>,
  <<"NUM_LOCK", \h45>>}
KeypadCodes == {
  <<"KP_STAR", \h37>>, <<"KP_MINUS", \h4A>>, <<"KP_PLUS", \h4E>>, <<"KP_DOT", \h53>>,
  <<"KP_0", \h52>>, <<"KP_1", \h4F>>, <<"KP_2", \h50>>, <<"KP_3", \h51>>, <<"KP_4", \h4B>>,
  <<"KP_5", \h4C>>, <<"KP_6", \h4D>>, <<"KP_7", \h47>>, <<"KP_8", \h48>>, <<"KP_9", \h49>>}
PowerCodes == {<<"POWER", \h5E>>, <<"SLEEP", \h5F>>, <<"WAKE", \h63>>}
\* The codes that follow E0.
E0Codes == PowerCodes \cup {
  <<"GUI_L", \h5B>>, <<"CTRL_R", \h1D>>, <<"GUI_R", \h5C>>, <<"ALT_R", \h38>>,
  <<"APPS", \h5D>>, <<"INSERT", \h52>>, <<"HOME", \h47>>, <<"PAGEUP", \h49>>,
  <<"DELETE", \h53>>, <<"END", \h4F>>, <<"PAGEDOWN", \h51>>, <<"UP", \h48>>,
  <<"LEFT", \h4B>>, <<"DOWN", \h50>>, <<"RIGHT", \h4D>>, <<"KP_SLASH", \h35>>,
  <<"KP_ENTER", \h1C>>}
OneCodes == LetterCodes \cup SignCodes \cup NameCodes \cup KeypadCodes

NamesOf(S)   == {p[1] : p \in S}
CodeOf(S, k) == CHOOSE c \in 1 .. 127 : <<k, c>> \in S

Make ==
  [k \in NamesOf(OneCodes) \cup NamesOf(E0Codes) \cup {"PRINTSCREEN", "PAUSEBREAK"} |->
     CASE k = "PRINTSCREEN" -> <<E0, \h2A, E0, \h37>>
       [] k = "PAUSEBREAK"  -> <<E1, \h1D, \h45, E1, \h9D, \hC5>>
       [] k \in NamesOf(OneCodes) -> <<CodeOf(OneCodes, k)>>
       [] OTHER -> <<E0, CodeOf(E0Codes, k)>>]

\* A key that is let go sends its last code with the top bit set.  Pause sends
\* nothing, Print Screen its two codes in the other order.
Break ==
  [k \in DOMAIN Make |->
     CASE k = "PAUSEBREAK"  -> <<>>
       [] k = "PRINTSCREEN" -> <<E0, \hB7, E0, \hAA>>
       [] OTHER -> [Make[k] EXCEPT ![Len(Make[k])] = @ + 128]]

\* What a key of the keypad is engraved with: its character and its other name.
Keypad == [
  KP_0 |-> <<Plain("0"), Key("INSERT")>>, KP_1 |-> <<Plain("1"), Key("END")>>,
  KP_2 |-> <<Plain("2"), Key("DOWN")>>,   KP_3 |-> <<Plain("3"), Key("PAGEDOWN")>>,
  KP_4 |-> <<Plain("4"), Key("LEFT")>>,   KP_5 |-> <<Plain("5"), Key("PAD_5")>>,
  KP_6 |-> <<Plain("6"), Key("RIGHT")>>,  KP_7 |-> <<Plain("7"), Key("HOME")>>,
  KP_8 |-> <<Plain("8"), Key("UP")>>,     KP_9 |-> <<Plain("9"), Key("PAGEUP")>>,
  KP_DOT |-> <<Plain("."), Key("DELETE")>>,
  KP_SLASH |-> <<Plain("/"), Plain("/")>>, KP_STAR |-> <<Shifted("8"), Shifted("8")>>,
  KP_MINUS |-> <<Plain("-"), Plain("-")>>, KP_PLUS |-> <<Shifted("="), Shifted("=")>>,
  KP_ENTER |-> <<Key("ENTER"), Key("ENTER")>>]
=============================================================================
